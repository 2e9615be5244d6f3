--------------------------- MODULE FeishuDelivery ---------------------------
(***************************************************************************)
(* How a message of the Feishu platform reaches the bridge.  A WebSocket   *)
(* session assembles frames into events and hands them to one worker       *)
(* through a bounded queue with a bounded outbox in front of it; the       *)
(* worker forwards the payload to the message loop of the gateway, and its *)
(* outcome comes back to the session, which acknowledges it.  The message  *)
(* loop drops what it has seen lately and submits the rest, one by one.    *)
(*                                                                         *)
(* The platform sends an event again until it is acknowledged.  A session  *)
(* ends for many reasons and the gateway connects again; the gateway       *)
(* itself is stopped and started by the channel manager.                   *)
(***************************************************************************)
EXTENDS Naturals, Sequences, FiniteSets, SequencesExt

CONSTANTS Notes,         \* messages of the user
          LongNotes,     \* those that take two frames
          NoNote,        \* nothing in the hands of the worker or of the loop
          HandlerQueue,  \* HANDLER_QUEUE_CAP
          OutboxLimit,   \* PENDING_OUTBOX_CAP
          RecentLimit,   \* RECENT_MESSAGE_LIMIT
          MaxFrames,     \* bound: frames the platform sends
          MaxDrops,      \* bound: connections that end
          MaxStops       \* bound: stops of the gateway

ASSUME NotesAssumption == NoNote \notin Notes
ASSUME LimitsAssumption == HandlerQueue \in Nat /\ OutboxLimit \in Nat /\ RecentLimit \in Nat

VARIABLES cloud,    \* the platform: messages it sends until they are acknowledged
          socket,   \* Session: its state, queues, worker and buffers
          gateway,  \* RunningFeishu: the payloads queued and what was seen lately
          record    \* what happened: arrivals, submissions, losses

deliveryVars == <<cloud, socket, gateway, record>>

NewSocket == [state |-> "Active", parts |-> [n \in Notes |-> {}], jobs |-> <<>>, outbox |-> <<>>,
              worker |-> [note |-> NoNote, ok |-> FALSE], outcomes |-> <<>>, inflight |-> 0]
NoSocket == [NewSocket EXCEPT !.state = "None"]
NewGateway == [on |-> TRUE, payloads |-> <<>>, recent |-> <<>>, working |-> NoNote]

DeliveryInit ==
  /\ cloud = [waiting |-> Notes, acked |-> {}, frames |-> 0]
  /\ socket = NoSocket
  /\ gateway = NewGateway
  /\ record = [arrived |-> <<>>, handled |-> <<>>, submitted |-> <<>>, dropped |-> {}, overtook |-> FALSE,
               run |-> 0, drops |-> 0]

PartsOf(n) == IF n \in LongNotes THEN {1, 2} ELSE {1}
Alive == socket.state \in {"Active", "Closing"}

\* run() returns with an error or because it is idle: the outbox is gone, the worker may
\* go on for a while.
Ended(s) == [s EXCEPT !.state = "Draining", !.outbox = <<>>]
SocketFails == socket' = Ended(socket) /\ record' = [record EXCEPT !.drops = @ + 1]

-----------------------------------------------------------------------------
(* The session. *)

\* LarkWsClient::open
Connect ==
  /\ gateway.on /\ socket.state = "None"
  /\ socket' = NewSocket
  /\ record' = [record EXCEPT !.arrived = <<>>, !.handled = <<>>, !.overtook = FALSE]
  /\ UNCHANGED <<cloud, gateway>>

\* enqueue_data_frame: to the worker if its queue has room, else to the outbox; a full
\* outbox ends the session.
Enqueue(s, n) ==
  IF Len(s.jobs) < HandlerQueue THEN [s EXCEPT !.jobs = Append(@, n), !.inflight = @ + 1]
  ELSE IF Len(s.outbox) < OutboxLimit THEN [s EXCEPT !.outbox = Append(@, n)]
  ELSE Ended(s)

\* A frame arrives.  assemble_frame keeps it until the event is whole; one that comes while
\* the session closes is an error.
Frame(n, part) ==
  LET got == socket.parts[n] \union {part}
      whole == got = PartsOf(n)
      kept == [socket EXCEPT !.parts[n] = IF whole THEN {} ELSE got]
      next == IF whole THEN Enqueue(kept, n) ELSE kept IN
  /\ Alive /\ n \in cloud.waiting /\ part \in PartsOf(n) /\ cloud.frames < MaxFrames
  /\ cloud' = [cloud EXCEPT !.frames = @ + 1]
  /\ IF socket.state = "Closing" THEN record.drops < MaxDrops /\ SocketFails
     ELSE /\ next.state = "Draining" => record.drops < MaxDrops
          /\ socket' = next
          /\ record' = [record EXCEPT
               !.arrived = IF whole /\ next.state = "Active" THEN Append(@, n) ELSE @,
               !.overtook = @ \/ (whole /\ socket.outbox # <<>> /\ next.jobs # socket.jobs),
               !.drops = IF next.state = "Draining" THEN @ + 1 ELSE @]
  /\ UNCHANGED gateway

\* mutant: what comes from the outbox is not counted.
FlushUncounted ==
  /\ Alive /\ socket.outbox # <<>> /\ Len(socket.jobs) < HandlerQueue
  /\ socket' = [socket EXCEPT !.jobs = Append(@, Head(socket.outbox)), !.outbox = Tail(@)]
  /\ UNCHANGED <<cloud, gateway, record>>

\* flush_outbox_try, or the permit of reserve().
FlushOutbox ==
  /\ Alive /\ socket.outbox # <<>> /\ Len(socket.jobs) < HandlerQueue
  /\ socket' = [socket EXCEPT !.jobs = Append(@, Head(socket.outbox)), !.outbox = Tail(@), !.inflight = @ + 1]
  /\ UNCHANGED <<cloud, gateway, record>>

\* The worker forwards the payload; it fails when the message loop is gone.
WorkerForwards ==
  LET n == Head(socket.jobs) IN
  /\ socket.state # "None" /\ socket.jobs # <<>> /\ socket.worker.note = NoNote
  /\ socket' = [socket EXCEPT !.jobs = Tail(@), !.worker = [note |-> n, ok |-> gateway.on]]
  /\ gateway' = IF gateway.on THEN [gateway EXCEPT !.payloads = Append(@, n)] ELSE gateway
  /\ record' = [record EXCEPT !.handled = Append(@, n)]
  /\ UNCHANGED cloud

WorkerReports ==
  /\ socket.worker.note # NoNote /\ Len(socket.outcomes) < HandlerQueue
  /\ socket' = [socket EXCEPT !.outcomes = Append(@, socket.worker), !.worker.note = NoNote]
  /\ UNCHANGED <<cloud, gateway, record>>

\* EventAck: the platform takes 200 as delivered and sends the event again after 500.
Acknowledged(c, o) ==
  IF o.ok THEN [c EXCEPT !.waiting = @ \ {o.note}, !.acked = @ \union {o.note}] ELSE c

\* The outcome goes back as the acknowledgement of the event unless the session closes;
\* writing it may fail.
TakeOutcome ==
  LET o == Head(socket.outcomes)
      rest == [socket EXCEPT !.outcomes = Tail(@), !.inflight = @ - 1] IN
  /\ Alive /\ socket.outcomes # <<>>
  /\ \/ /\ socket' = rest
        /\ cloud' = IF socket.state = "Active" THEN Acknowledged(cloud, o) ELSE cloud
        /\ UNCHANGED record
     \/ /\ socket.state = "Active" /\ record.drops < MaxDrops
        /\ socket' = Ended(rest) /\ record' = [record EXCEPT !.drops = @ + 1]
        /\ UNCHANGED cloud
  /\ UNCHANGED gateway

\* A close frame, the end of the stream or a heartbeat that is due.
BeginClose ==
  /\ socket.state = "Active" /\ record.drops < MaxDrops
  /\ socket' = [socket EXCEPT !.state = "Closing"]
  /\ record' = [record EXCEPT !.drops = @ + 1]
  /\ UNCHANGED <<cloud, gateway>>

ClosedIdle ==
  /\ socket.state = "Closing" /\ socket.inflight = 0 /\ socket.outbox = <<>>
  /\ socket' = Ended(socket)
  /\ UNCHANGED <<cloud, gateway, record>>

StreamFails ==
  /\ Alive /\ record.drops < MaxDrops
  /\ SocketFails
  /\ UNCHANGED <<cloud, gateway>>

\* Nothing is left for the worker, or its time is up and it is aborted.
WorkerEnds ==
  /\ socket.state = "Draining"
  /\ socket' = NoSocket
  /\ UNCHANGED <<cloud, gateway, record>>

-----------------------------------------------------------------------------
(* The gateway. *)

\* RecentMessages::insert
Remembered(recent, n) ==
  LET more == Append(recent, n) IN IF Len(more) > RecentLimit THEN Tail(more) ELSE more

TakePayload ==
  LET n == Head(gateway.payloads) IN
  /\ gateway.on /\ gateway.working = NoNote /\ gateway.payloads # <<>>
  /\ gateway' = IF n \in ToSet(gateway.recent) THEN [gateway EXCEPT !.payloads = Tail(@)]
                ELSE [gateway EXCEPT !.payloads = Tail(@), !.working = n, !.recent = Remembered(@, n)]
  /\ UNCHANGED <<cloud, socket, record>>

\* process_bound_message: a prompt or a command, done or answered with its error.
FinishPayload ==
  /\ gateway.working # NoNote
  /\ record' = [record EXCEPT !.submitted = Append(@, [note |-> gateway.working, run |-> record.run])]
  /\ gateway' = [gateway EXCEPT !.working = NoNote]
  /\ UNCHANGED <<cloud, socket>>

\* stop: both tasks are cancelled, and aborted if they take more than two seconds.
StopGateway ==
  /\ gateway.on /\ record.run < MaxStops
  /\ gateway' = [NewGateway EXCEPT !.on = FALSE]
  /\ socket' = NoSocket
  /\ record' = [record EXCEPT !.dropped = @ \union ToSet(gateway.payloads) \union ({gateway.working} \ {NoNote}),
                              !.run = @ + 1]
  /\ UNCHANGED cloud

StartGateway ==
  /\ ~gateway.on
  /\ gateway' = NewGateway
  /\ UNCHANGED <<cloud, socket, record>>

DeliveryNext ==
  \/ \E n \in Notes, part \in {1, 2} : Frame(n, part)
  \/ Connect \/ FlushOutbox \/ WorkerForwards \/ WorkerReports \/ TakeOutcome
  \/ BeginClose \/ ClosedIdle \/ StreamFails \/ WorkerEnds
  \/ TakePayload \/ FinishPayload \/ StopGateway \/ StartGateway

DeliverySpec == DeliveryInit /\ [][DeliveryNext]_deliveryVars

-----------------------------------------------------------------------------
(* Properties. *)

\* However often the platform delivers a message and whatever connections end, it is not
\* submitted a second time by the same run of the gateway until more messages than it
\* remembers came in between.
SubmittedOnce == \A i, j \in DOMAIN record.submitted :
  i < j /\ record.submitted[i] = record.submitted[j] => j - i > RecentLimit

\* A message the platform no longer sends is in the hands of the gateway or was submitted;
\* only a stop of the gateway loses what was acknowledged and not yet worked on.
AckedIsHeld == cloud.acked \subseteq
  ToSet(gateway.payloads) \union {gateway.working} \union record.dropped
    \union {record.submitted[i].note : i \in DOMAIN record.submitted}

\* A session that closes waits for exactly what the worker still owes it.
InflightIsTrue == Alive =>
  socket.inflight = Len(socket.jobs) + Len(socket.outcomes) + (IF socket.worker.note = NoNote THEN 0 ELSE 1)

\* Events are forwarded in the order in which they became whole, as long as none was put
\* into the queue past one that waits in the outbox (which the code allows, see the README).
OrderIsKept == Alive /\ ~record.overtook =>
  record.arrived = record.handled \o socket.jobs \o socket.outbox

DeliveryHolds == SubmittedOnce /\ AckedIsHeld /\ InflightIsTrue /\ OrderIsKept
=============================================================================
