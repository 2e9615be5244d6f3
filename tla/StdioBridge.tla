----------------------------- MODULE StdioBridge -----------------------------
(* dwo rpc: management requests read line by line from standard input go to   *)
(* the daemon over one connection, and each subscription to events over one   *)
(* of its own; all that comes back is written to standard output.  The daemon *)
(* reads the next request only when it has written the answer to the last,    *)
(* and pipes are bounded, so whoever waits must not stop reading.             *)
EXTENDS Naturals, Sequences, FiniteSets

CONSTANTS
  PipeRoom,   (* frames a pipe holds                                         *)
  MaxLines,   (* bound: lines of input                                       *)
  MaxStreams, (* bound: subscriptions and malformed lines                    *)
  MaxPushed   (* bound: events of the daemon                                 *)

VARIABLES
  linesRead, (* the lines read so far: what each asks for                    *)
  requests,  (* the channel to the writing task, without a bound             *)
  up,        (* the pipe to the daemon                                       *)
  answering, (* what the daemon works on                                     *)
  down,      (* the pipe from the daemon                                     *)
  forwarders, (* the tasks of forward_events: whose, how far, aborted or not *)
  frames,    (* the channel to standard output, without a bound              *)
  printed,   (* what was written                                             *)
  bridge     (* whether the bridge runs; events pushed                       *)

stdioVars == <<linesRead, requests, up, answering, down, forwarders, frames, printed, bridge>>

Nothing == 0
LineKinds == {"plain", "bad", "subscribe"}

StdioInit ==
  /\ linesRead = <<>> /\ requests = <<>> /\ up = <<>> /\ down = <<>>
  /\ answering = Nothing /\ forwarders = {}
  /\ frames = <<>> /\ printed = <<>>
  /\ bridge = [runs |-> TRUE, pushed |-> 0]

Runs == bridge.runs
(* late: sent by a forwarder that had been aborted                            *)
Emit(id, what, late) == frames' = Append(frames, [id |-> id, what |-> what, late |-> late])

(* One line of input.  A malformed envelope is answered at once.  A second    *)
(* subscription aborts the first, whose task stops when it next waits.        *)
ReadLine(kind) ==
  LET id == Len(linesRead) + 1 IN
  /\ Runs /\ id <= MaxLines
  /\ kind # "plain" => Len(SelectSeq(linesRead, LAMBDA k : k # "plain")) < MaxStreams
  /\ linesRead' = Append(linesRead, kind)
  /\ requests' = IF kind = "plain" THEN Append(requests, id) ELSE requests
  /\ forwarders' = IF kind # "subscribe" THEN forwarders
                   ELSE {[f EXCEPT !.aborted = TRUE] : f \in forwarders}
                          \cup {[id |-> id, pc |-> "connecting", aborted |-> FALSE]}
  /\ IF kind = "bad" THEN Emit(id, "answer", FALSE) ELSE UNCHANGED frames
  /\ UNCHANGED <<up, answering, down, printed, bridge>>

(* The writing task of the connection.                                        *)
WriteRequest ==
  /\ Runs /\ requests # <<>> /\ Len(up) < PipeRoom
  /\ up' = Append(up, Head(requests)) /\ requests' = Tail(requests)
  /\ UNCHANGED <<linesRead, answering, down, forwarders, frames, printed, bridge>>

(* handle_connection of the daemon: one request after the other.              *)
DaemonReads ==
  /\ answering = Nothing /\ up # <<>>
  /\ answering' = Head(up) /\ up' = Tail(up)
  /\ UNCHANGED <<linesRead, requests, down, forwarders, frames, printed, bridge>>

DaemonAnswers ==
  /\ answering # Nothing /\ Len(down) < PipeRoom
  /\ down' = Append(down, answering) /\ answering' = Nothing
  /\ UNCHANGED <<linesRead, requests, up, forwarders, frames, printed, bridge>>

\* mutant: one task writes and reads, and reads when it has written.
ReadWhenWritten ==
  /\ Runs /\ down # <<>> /\ (requests = <<>> \/ Len(up) < PipeRoom)
  /\ Emit(Head(down), "answer", FALSE) /\ down' = Tail(down)
  /\ UNCHANGED <<linesRead, requests, up, answering, forwarders, printed, bridge>>

(* The reading task of the connection.                                        *)
ReadAnswer ==
  /\ Runs /\ down # <<>>
  /\ Emit(Head(down), "answer", FALSE) /\ down' = Tail(down)
  /\ UNCHANGED <<linesRead, requests, up, answering, forwarders, printed, bridge>>

(* forward_events: the answer with the replay, then event after event.  What  *)
(* an aborted one has read already it still forwards.                         *)
Forwarder(f, pc) == forwarders' = (forwarders \ {f}) \cup {[f EXCEPT !.pc = pc]}
Gone(f) == forwarders' = forwarders \ {f}

Connected ==
  /\ Runs
  /\ \E f \in forwarders : f.pc = "connecting" /\ Forwarder(f, "asked")
  /\ UNCHANGED <<linesRead, requests, up, answering, down, frames, printed, bridge>>

ReplayEvents ==
  /\ Runs
  /\ \E f \in forwarders :
       /\ f.pc = "asked" /\ Emit(f.id, "answer", f.aborted)
       /\ Forwarder(f, "streaming") \/ Gone(f)
  /\ UNCHANGED <<linesRead, requests, up, answering, down, printed, bridge>>

PushEvent ==
  /\ Runs /\ bridge.pushed < MaxPushed
  /\ \E f \in forwarders : f.pc = "streaming" /\ Emit(f.id, "event", f.aborted)
  /\ bridge' = [bridge EXCEPT !.pushed = @ + 1]
  /\ UNCHANGED <<linesRead, requests, up, answering, down, forwarders, printed>>

(* The abort takes effect.                                                    *)
Aborted ==
  /\ Runs
  /\ \E f \in forwarders : f.aborted /\ Gone(f)
  /\ UNCHANGED <<linesRead, requests, up, answering, down, frames, printed, bridge>>

WriteOutput ==
  /\ Runs /\ frames # <<>>
  /\ printed' = Append(printed, Head(frames)) /\ frames' = Tail(frames)
  /\ UNCHANGED <<linesRead, requests, up, answering, down, forwarders, bridge>>

(* The input ends, the output fails, or one of the connections does: all of   *)
(* it ends, and what was not written is lost.                                 *)
BridgeEnds ==
  /\ Runs
  /\ bridge' = [bridge EXCEPT !.runs = FALSE]
  /\ requests' = <<>> /\ frames' = <<>> /\ forwarders' = {}
  /\ UNCHANGED <<linesRead, up, answering, down, printed>>

StdioNext ==
  \/ \E kind \in LineKinds : ReadLine(kind)
  \/ WriteRequest \/ DaemonReads \/ DaemonAnswers \/ ReadAnswer
  \/ Connected \/ ReplayEvents \/ PushEvent \/ Aborted \/ WriteOutput \/ BridgeEnds

StdioSpec == StdioInit /\ [][StdioNext]_stdioVars

-----------------------------------------------------------------------------
(* Properties *)

Out == printed \o frames
AnswersOut == SelectSeq(Out, LAMBDA f : f.what = "answer")

(* Every line is answered at most once, and plain requests are answered in    *)
(* the order they were asked.                                                 *)
AnsweredInOrder == \A i, j \in DOMAIN AnswersOut : i < j =>
  /\ AnswersOut[i].id # AnswersOut[j].id
  /\ linesRead[AnswersOut[i].id] = "plain" /\ linesRead[AnswersOut[j].id] = "plain"
       => AnswersOut[i].id < AnswersOut[j].id

(* Events follow the replay of their subscription, and an event that comes    *)
(* after the replay of a later one was sent by a forwarder aborted before: the *)
(* old stream has an end, and nothing is added to it (bridge, forward_events). *)
EventsFollowReplay == \A j \in DOMAIN Out : Out[j].what = "event" =>
  /\ \E i \in 1 .. j - 1 : Out[i].what = "answer" /\ Out[i].id = Out[j].id
  /\ (\E i \in 1 .. j - 1 : /\ Out[i].what = "answer" /\ linesRead[Out[i].id] = "subscribe"
                             /\ Out[i].id > Out[j].id)
       => Out[j].late

(* While the bridge runs, a request is never stuck: with all pipes full some  *)
(* task can still move it, because reading does not wait for writing.  Only a *)
(* subscription that was replaced goes without its answer.                    *)
SomeMove == \/ WriteRequest \/ DaemonReads \/ DaemonAnswers \/ ReadAnswer
         \/ Connected \/ ReplayEvents \/ WriteOutput
NothingStuck == Runs =>
  \A id \in DOMAIN linesRead :
    \/ \E i \in DOMAIN printed : printed[i].id = id /\ printed[i].what = "answer"
    \/ linesRead[id] = "subscribe" /\ \E later \in DOMAIN linesRead : later > id /\ linesRead[later] = "subscribe"
    \/ ENABLED SomeMove

StdioHolds == AnsweredInOrder /\ EventsFollowReplay /\ NothingStuck
=============================================================================
