---------------------------- MODULE SessionFeed ----------------------------
(* What a client sees of a session: the actor numbers and broadcasts its     *)
(* events, a task per subscription forwards them to a bounded channel and    *)
(* folds the text deltas it cannot deliver, and the client joins them to the *)
(* snapshot it subscribed with and to the transcript it already holds.       *)
EXTENDS Integers, Sequences, SequencesExt

CONSTANTS
  Clients,        (* subscribers                                              *)
  SourceCapacity, (* receivers of the actor's broadcast lag beyond it         *)
  FeedCapacity,   (* the channel of a subscription                            *)
  MaxTold,        (* events the session broadcasts in a run                   *)
  MaxTurns,       (* turns in a run                                           *)
  MaxReloads      (* times the session is unloaded and loaded                 *)

ASSUME FeedBoundsAssumption ==
  /\ SourceCapacity \in Nat \ {0}
  /\ FeedCapacity \in Nat \ {0}
  /\ MaxTold \in Nat /\ MaxTurns \in Nat /\ MaxReloads \in Nat

VARIABLES
  teller,  (* the actor: its number, transcript and active step               *)
  told,    (* the view behind each number, kept for the properties            *)
  relays,  (* the forwarding task of each client                              *)
  viewers  (* what each client holds                                          *)

feedVars == <<teller, told, relays, viewers>>

(* A step is its turn, its number and the text so far, by its length.        *)
NoStep == [turn |-> 0, step |-> 0, text |-> 0]
NoRelay == [on |-> FALSE, source |-> <<>>, lagged |-> FALSE, ended |-> FALSE,
            mark |-> 0, step |-> NoStep, stepSeq |-> 0, needs |-> FALSE,
            held |-> <<>>, out |-> <<>>]
NoViewer == [on |-> FALSE, items |-> 0, gap |-> FALSE, step |-> NoStep,
             at |-> 0, stale |-> FALSE]

FeedInit ==
  /\ teller = [seq |-> 0, items |-> 0, step |-> NoStep, turns |-> 0,
               count |-> 0, reloads |-> 0, lost |-> {}]
  /\ told = <<>>
  /\ relays = [c \in Clients |-> NoRelay]
  /\ viewers = [c \in Clients |-> NoViewer]

-----------------------------------------------------------------------------
(* broadcast_event: every receiver keeps the last SourceCapacity events.     *)
Offered(relay, event) ==
  IF ~relay.on \/ relay.ended THEN relay
  ELSE IF Len(relay.source) < SourceCapacity
         THEN [relay EXCEPT !.source = Append(@, event)]
         ELSE [relay EXCEPT !.source = Append(Tail(@), event), !.lagged = TRUE]

(* What is told: an event of the transcript carries its line's place, one of *)
(* a step the step, its end the step that ended.                             *)
Event(kind, next) ==
  [kind |-> kind, seq |-> teller.seq + 1,
   line |-> IF next.items > teller.items THEN next.items ELSE 0,
   step |-> IF kind \in {"end", "done"} THEN teller.step ELSE next.step]

(* The actor moves to next and tells it with an event of this kind.          *)
Tell(kind, next) ==
  /\ teller.count < MaxTold
  /\ teller' = [next EXCEPT !.seq = teller.seq + 1, !.count = @ + 1]
  /\ told' = Append(told, [items |-> next.items, step |-> next.step])
  /\ relays' = [c \in Clients |-> Offered(relays[c], Event(kind, next))]
  /\ UNCHANGED viewers

InTurn == teller.step # NoStep

(* prompt: the prompt is a line of the transcript, then the turn starts.     *)
TellPrompt ==
  /\ ~InTurn
  /\ teller.turns < MaxTurns
  /\ Tell("line", [teller EXCEPT !.items = @ + 1])

TellStart ==
  /\ ~InTurn
  /\ teller.turns < MaxTurns
  /\ Tell("start", [teller EXCEPT !.turns = @ + 1,
                     !.step = [turn |-> teller.turns + 1, step |-> 1, text |-> 0]])

(* AssistantDelta and AssistantReasoningDelta                                *)
TellDelta ==
  /\ InTurn
  /\ Tell("delta", [teller EXCEPT !.step.text = @ + 1])

(* AssistantCompleted and AssistantInterrupted: the step moves on whether or *)
(* not record_event could write the line; without it nobody is told.         *)
NextStep == [teller.step EXCEPT !.step = @ + 1, !.text = 0]

TellDone ==
  /\ InTurn
  /\ Tell("done", [teller EXCEPT !.items = @ + 1, !.step = NextStep])

LoseDone ==
  /\ InTurn
  /\ teller.lost = {}
  /\ teller' = [teller EXCEPT !.step = NextStep,
       !.lost = @ \cup {teller.step.turn}]
  /\ UNCHANGED <<told, relays, viewers>>

(* Tools, plans and notices are lines of the transcript.                     *)
TellLine ==
  /\ InTurn
  /\ Tell("line", [teller EXCEPT !.items = @ + 1])

TellEnd ==
  /\ InTurn
  /\ Tell("end", [teller EXCEPT !.step = NoStep])

(* The actor stops between turns; a later load starts its numbers again and  *)
(* reads the transcript back.                                                *)
Reload ==
  /\ ~InTurn
  /\ teller.reloads < MaxReloads
  /\ teller' = [teller EXCEPT !.seq = 0, !.reloads = @ + 1, !.lost = {}]
  /\ told' = <<>>
  /\ relays' = [c \in Clients |->
       IF relays[c].on THEN [relays[c] EXCEPT !.ended = TRUE] ELSE relays[c]]
  /\ viewers' = [c \in Clients |-> [viewers[c] EXCEPT !.stale = viewers[c].on]]

-----------------------------------------------------------------------------
(* A snapshot is the transcript, the step of the turn that runs, its text so *)
(* far included, and the number of the last event.                           *)
Snapshot == [items |-> teller.items, step |-> teller.step, seq |-> teller.seq]

(* Subscribe: the receiver and the snapshot are taken in one step of the     *)
(* actor; the client asks for the transcript behind the lines it holds.      *)
SubscribeFeed(c) ==
  /\ ~viewers[c].on
  /\ ~relays[c].on
  /\ relays' = [relays EXCEPT ![c] =
       [NoRelay EXCEPT !.on = TRUE, !.mark = Snapshot.seq, !.step = Snapshot.step,
                       !.stepSeq = Snapshot.seq]]
  /\ LET behind == viewers[c].items
         cursor == IF behind < Snapshot.items THEN behind ELSE Snapshot.items
     IN  viewers' = [viewers EXCEPT ![c] =
           [@ EXCEPT !.on = TRUE, !.stale = FALSE, !.at = Snapshot.seq,
                     !.step = Snapshot.step,
                     !.items = behind + (Snapshot.items - cursor)]]
  /\ UNCHANGED <<teller, told>>

(* apply_step_delta and update_step_checkpoint                               *)
SameStep(a, b) == a.turn = b.turn /\ a.step = b.step
Extended(step, event) ==
  IF SameStep(step, event.step) THEN [step EXCEPT !.text = @ + 1]
  ELSE [event.step EXCEPT !.text = 1]
Checkpointed(step, event) ==
  CASE event.kind = "start" -> [event.step EXCEPT !.text = 0]
    [] event.kind = "done" /\ step # NoStep /\ step.turn = event.step.turn ->
         [step EXCEPT !.step = @ + 1, !.text = 0]
    [] event.kind = "end" /\ step.turn = event.step.turn -> NoStep
    [] OTHER -> step

StepEvent(relay) == [kind |-> "snapshot", seq |-> relay.stepSeq, line |-> 0,
                     step |-> relay.step]
Room(relay) == Len(relay.out) < FeedCapacity
Put(relay, event) == [relay EXCEPT !.out = Append(@, event)]

\* mutant: a delta the channel has no room for is dropped.
WithDeltaDropped(relay, event) ==
  IF Room(relay)
    THEN Put([relay EXCEPT !.step = Extended(@, event), !.stepSeq = event.seq], event)
    ELSE relay

(* A delta never waits: with the channel full it is folded into the step.    *)
WithDelta(relay, event) ==
  LET grown == [relay EXCEPT !.step = Extended(@, event), !.stepSeq = event.seq]
  IN  CASE ~Room(grown) -> [grown EXCEPT !.needs = TRUE]
        [] Room(grown) /\ grown.needs -> Put([grown EXCEPT !.needs = FALSE], StepEvent(grown))
        [] OTHER -> Put(grown, event)

Receive(c) ==
  /\ relays[c].on /\ ~relays[c].lagged /\ relays[c].held = <<>>
  /\ relays[c].source # <<>>
  /\ LET event == Head(relays[c].source)
         rest == [relays[c] EXCEPT !.source = Tail(@)]
     IN  relays' = [relays EXCEPT ![c] =
           CASE event.seq <= rest.mark -> rest
             [] event.seq > rest.mark /\ event.kind = "delta" -> WithDelta(rest, event)
             [] OTHER -> [rest EXCEPT !.held = <<event>>]]
  /\ UNCHANGED <<teller, told, viewers>>

(* Any other event waits for room, behind the step that is owed.             *)
FlushStep(c) ==
  /\ relays[c].held # <<>> /\ relays[c].needs /\ Room(relays[c])
  /\ relays' = [relays EXCEPT ![c] = Put([@ EXCEPT !.needs = FALSE], StepEvent(@))]
  /\ UNCHANGED <<teller, told, viewers>>

PassOn(c) ==
  /\ relays[c].held # <<>> /\ ~relays[c].needs /\ Room(relays[c])
  /\ LET r == relays[c]
         event == r.held[1]
     IN  relays' = [relays EXCEPT ![c] =
           Put([r EXCEPT !.held = <<>>, !.step = Checkpointed(r.step, event)], event)]
  /\ UNCHANGED <<teller, told, viewers>>

(* A lag, or the end of the actor, ends the task; what it sent stays.        *)
EndRelay(c) ==
  /\ relays[c].on /\ relays[c].held = <<>>
  /\ relays[c].lagged \/ (relays[c].ended /\ relays[c].source = <<>>)
  /\ relays' = [relays EXCEPT ![c] = [NoRelay EXCEPT !.out = relays[c].out]]
  /\ UNCHANGED <<teller, told, viewers>>

-----------------------------------------------------------------------------
(* The client applies the events in the order they come.                     *)
See(c) ==
  /\ viewers[c].on
  /\ relays[c].out # <<>>
  /\ LET v == viewers[c]
         event == Head(relays[c].out)
     IN  viewers' = [viewers EXCEPT ![c] =
           [v EXCEPT
              !.at = event.seq,
              !.items = IF event.line > 0 THEN event.line ELSE v.items,
              !.gap = v.gap \/ (event.line > 0 /\ event.line # v.items + 1)
                            \/ event.seq <= v.at,
              !.step = CASE event.kind = "delta" -> Extended(v.step, event)
                         [] event.kind = "snapshot" -> event.step
                         [] OTHER -> Checkpointed(v.step, event)]]
  /\ relays' = [relays EXCEPT ![c].out = Tail(@)]
  /\ UNCHANGED <<teller, told>>

(* The stream ended, or the client leaves; it keeps its lines as a cursor.   *)
Leave(c) ==
  /\ viewers[c].on
  /\ viewers' = [viewers EXCEPT ![c] =
       [NoViewer EXCEPT !.items = viewers[c].items, !.gap = viewers[c].gap]]
  /\ relays' = [relays EXCEPT ![c] = NoRelay]
  /\ UNCHANGED <<teller, told>>

FeedNext ==
  \/ TellPrompt \/ TellStart \/ TellDelta \/ TellDone \/ LoseDone
  \/ TellLine \/ TellEnd \/ Reload
  \/ \E c \in Clients :
       \/ SubscribeFeed(c) \/ Receive(c) \/ FlushStep(c) \/ PassOn(c)
       \/ EndRelay(c) \/ See(c) \/ Leave(c)

FeedSpec == FeedInit /\ [][FeedNext]_feedVars

-----------------------------------------------------------------------------
(* A client's view is the actor's at the number of the last event it got:    *)
(* the same lines, without a gap or a repetition, and the same live step,    *)
(* whatever was folded on the way.  Only a completion that could not be      *)
(* written may leave its step on display, and no longer than its turn.       *)
ViewIsTrue ==
  \A c \in Clients :
    LET v == viewers[c] IN
    /\ ~v.gap
    /\ v.on /\ ~v.stale /\ v.at > 0 =>
         /\ v.items = told[v.at].items
         /\ v.step = told[v.at].step \/ told[v.at].step.turn \in teller.lost

(* A relay that has nothing left to receive, hold or send has shown its      *)
(* client everything but deltas: those wait for the next event.              *)
QuietIsCurrent ==
  \A c \in Clients :
    LET r == relays[c] IN
    /\ viewers[c].on /\ r.on /\ ~r.lagged /\ ~r.ended
    /\ r.source = <<>> /\ r.held = <<>> /\ r.out = <<>>
    => viewers[c].at = teller.seq \/ (r.needs /\ InTurn)

(* What a client that shows a session relies on: the view is a state the     *)
(* session was in, and once the relay is quiet it is the newest one.         *)
FeedHolds == ViewIsTrue /\ QuietIsCurrent
=============================================================================
