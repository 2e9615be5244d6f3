----------------------------- MODULE AcpSession -----------------------------
(* One session seen through one ACP connection: the registry of observers, the *)
(* tasks forwarding their events, the prompt requests of the client (version 1  *)
(* answers a prompt at the end of its turn, version 2 at once), the cancel      *)
(* version 1 holds back for a moment, and the permission requests and           *)
(* questionnaires put to the client. The daemon's session is reduced to its     *)
(* turns and compactions and to what they ask.                                  *)
EXTENDS Integers, Sequences, FiniteSets, SequencesExt

CONSTANTS
  Desks,        (* requests of the client served at once                        *)
  Vacant,       (* no request waits                                             *)
  Protocols,    (* versions of the connection, of {1, 2}                        *)
  MaxViews,     (* observers subscribed                                         *)
  MaxJobs,      (* turns and compactions run                                    *)
  MaxAsks,      (* requests of the client, and what version 2 cancels            *)
  MaxCancels,   (* cancels version 1 holds back                                 *)
  MaxSlips      (* failing calls and feeds that lag                             *)

ASSUME VacantAssumption == Vacant \notin Desks
ASSUME BoundsAssumption == MaxViews \in Nat

VARIABLES
  conn,     (* version, the registered observer, the cancel held back           *)
  views,    (* each observer: whether its task runs, whether its subscription   *)
            (* is open, and what it has still to read                            *)
  desks,    (* each request: where it is, its observer, the turn it joined       *)
  waiter,   (* prompt_waiters: the request that waits for the session's turn     *)
  job,      (* the daemon's session: its turn or compaction, whether that waits   *)
            (* for a permission, and the turn that raised the open questionnaire *)
  screen,   (* questions the client shows, and the observer that put each         *)
  ledger    (* bounds, and what the properties remember                          *)

acpVars == <<conn, views, desks, waiter, job, screen, ledger>>

Views == 1 .. MaxViews
NoDesk == [pc |-> "idle", what |-> "none", ep |-> 0, replay |-> FALSE, replaces |-> {}, turn |-> 0]
NoView == [st |-> "none", open |-> FALSE, feed |-> <<>>, quiz |-> 0]

AcpInit ==
  /\ conn \in [proto : Protocols, entry : {0}, held : {{}}]
  /\ views = [v \in Views |-> NoView]
  /\ desks = [d \in Desks |-> NoDesk]
  /\ waiter = Vacant
  /\ job = [kind |-> "none", turn |-> 0, ask |-> "none", open |-> 0]
  /\ screen = {}
  /\ ledger = [views |-> 0, jobs |-> 0, requests |-> 0, cancels |-> 0, slips |-> 0,
               owed |-> {}, asked |-> 0, lapsed |-> {}]

On(d, pc) == desks[d].pc = pc
Turns(d, pc) == desks' = [desks EXCEPT ![d].pc = pc]
Reply(d) == desks' = [desks EXCEPT ![d] = NoDesk]
Slip == ledger.slips < MaxSlips
Slipped == [ledger EXCEPT !.slips = @ + 1]
V1 == conn.proto = 1
Busy == job.kind # "none"

-----------------------------------------------------------------------------
(* the daemon's session *)

(* a questionnaire stays in the record when its turn ends                       *)
JobOver == [job EXCEPT !.kind = "none", !.turn = 0, !.ask = "none"]
Started(kind) == [job EXCEPT !.kind = kind, !.turn = ledger.jobs + 1, !.ask = "none"]
Looking == {v \in Views : views[v].st \in {"ready", "on"}}
Listens(v) == views[v].st \in {"ready", "on"} /\ views[v].open
Heard(vs, e) ==
  [v \in Views |-> IF vs[v].st \in {"ready", "on"} /\ vs[v].open
                   THEN [vs[v] EXCEPT !.feed = Append(@, e)] ELSE vs[v]]
Event(kind) == [kind |-> kind, turn |-> job.turn]
Quiz(turn, v) == [kind |-> "quiz", turn |-> turn, view |-> v]

JobStarts(kind) ==
  /\ ~Busy /\ ledger.jobs < MaxJobs
  /\ job' = Started(kind)

(* another front end starts a turn *)
JobElsewhere ==
  /\ JobStarts("turn")
  /\ ledger' = [ledger EXCEPT !.jobs = @ + 1]
  /\ UNCHANGED <<conn, views, desks, waiter, screen>>

JobEnds ==
  /\ Busy
  /\ job' = JobOver /\ views' = Heard(views, Event("end"))
  /\ UNCHANGED <<conn, desks, waiter, screen, ledger>>

(* a compaction inside the turn tells of its own end *)
JobCompacts ==
  /\ job.kind = "turn" /\ V1 /\ job.ask = "none"
  /\ \A v \in Views : Event("auto") \notin Range(views[v].feed)
  /\ views' = Heard(views, Event("auto"))
  /\ UNCHANGED <<conn, desks, waiter, job, screen, ledger>>

JobAsks ==
  /\ job.kind = "turn" /\ job.ask = "none" /\ ledger.asked < job.turn /\ ~V1
  /\ job' = [job EXCEPT !.ask = "permission"]
  /\ ledger' = [ledger EXCEPT !.asked = job.turn]
  /\ views' = Heard(views, Event("permission"))
  /\ UNCHANGED <<conn, desks, waiter, screen>>

(* one questionnaire is open at a time; the turn does not wait for its answers.  *)
(* When the transcript cannot be written nobody is told of it.                   *)
JobRaises ==
  /\ job.kind = "turn" /\ job.ask = "none" /\ ledger.asked < job.turn /\ ~V1
  /\ job.open = 0
  /\ job' = [job EXCEPT !.open = job.turn]
  /\ \/ /\ views' = Heard(views, Event("quiz"))
        /\ ledger' = [ledger EXCEPT !.asked = job.turn]
     \/ /\ Slip /\ UNCHANGED views
        /\ ledger' = [Slipped EXCEPT !.asked = job.turn,
             !.lapsed = @ \cup {Quiz(job.turn, v) : v \in {w \in Views : Listens(w)}}]
  /\ UNCHANGED <<conn, desks, waiter, screen>>

(* cancel_session_now: the turn or compaction that runs by then *)
HostCancel ==
  IF Busy THEN job' = JobOver /\ views' = Heard(views, Event("end"))
  ELSE UNCHANGED <<job, views>>

-----------------------------------------------------------------------------
(* PendingCancels: one of a session is pending; a prompt takes it over, or its *)
(* grace period ends, whichever comes first                                    *)
Schedule(c) == [conn EXCEPT !.held = @ \cup {c}]
Overtaken == [conn EXCEPT !.held = {}]
Expired == [conn EXCEPT !.held = {}]

-----------------------------------------------------------------------------
(* requests of the client *)

Begun(d, what) ==
  /\ On(d, "idle") /\ ledger.requests < MaxAsks
  /\ ledger' = [ledger EXCEPT !.requests = @ + 1]

(* session/load, session/resume *)
LoadRequest(d) ==
  /\ Begun(d, "load")
  /\ \E replay \in BOOLEAN :
       desks' = [desks EXCEPT ![d] =
         [NoDesk EXCEPT !.pc = "prepare", !.what = "load", !.replay = replay]]
  /\ UNCHANGED <<conn, views, waiter, job, screen>>

(* pending_cancels.consume: an ordinary prompt replaces the turn, a local command *)
(* only drops the cancel                                                          *)
PromptRequest(d) ==
  /\ \E what \in {"prompt", "status", "stop", "compact"} :
       /\ Begun(d, what)
       /\ desks' = [desks EXCEPT ![d] =
            [NoDesk EXCEPT !.pc = "prepare", !.what = what,
             !.replaces = IF what = "prompt" THEN conn.held ELSE {}]]
       /\ ledger' = [ledger EXCEPT !.requests = @ + 1,
            !.owed = IF what = "prompt" THEN @ ELSE @ \ conn.held]
  /\ conn' = Overtaken
  /\ UNCHANGED <<views, waiter, job, screen>>

Registered == conn.entry # 0
\* mutant: the observer a replay replaces goes on forwarding.
DroppingNothing == views

(* its task ends with the event it has in hand                                  *)
InHand(view) == [NoView EXCEPT !.st = "off", !.quiz = view.quiz,
  !.feed = IF view.st = "on" /\ view.feed # <<>> THEN <<Head(view.feed)>> ELSE <<>>]
Dropping == IF Registered THEN [views EXCEPT ![conn.entry] = InHand(@)] ELSE views

(* session/close: the view goes, the session stays *)
CloseRequest(d) ==
  /\ Begun(d, "close")
  /\ conn' = [conn EXCEPT !.entry = 0] /\ views' = Dropping
  /\ ledger' = [ledger EXCEPT !.requests = @ + 1]
  /\ UNCHANGED <<desks, waiter, job, screen>>

(* forward_rejected_replacement: the cancel goes to the host after all *)
Forward(d, vs) ==
  IF desks[d].replaces # {} /\ Busy
  THEN job' = JobOver /\ views' = Heard(vs, Event("end"))
  ELSE job' = job /\ views' = vs
Settled(d, l) == [l EXCEPT !.owed = @ \ desks[d].replaces]

(* prepare_observer, under the lock of the registry: the registered observer, *)
(* or a new subscription; a replay drops the registered one                   *)
Reuses(d) == Registered /\ ~desks[d].replay
ReuseObserver(d) ==
  /\ On(d, "prepare") /\ Reuses(d)
  /\ desks' = [desks EXCEPT ![d].pc = "active", ![d].ep = conn.entry]
  /\ UNCHANGED <<conn, views, waiter, job, screen, ledger>>

Subscribe(d) ==
  /\ On(d, "prepare") /\ ~Reuses(d) /\ ledger.views < MaxViews
  /\ LET view == ledger.views + 1 IN
       /\ views' = [Dropping EXCEPT ![view] =
            [st |-> "ready", open |-> TRUE, feed |-> <<>>, quiz |-> job.open]]
       /\ conn' = [conn EXCEPT !.entry = view]
       /\ desks' = [desks EXCEPT ![d].pc = "options", ![d].ep = view]
       /\ ledger' = [ledger EXCEPT !.views = view]
  /\ UNCHANGED <<waiter, job, screen>>

SubscribeFails(d) ==
  /\ On(d, "prepare") /\ ~Reuses(d) /\ Slip
  /\ conn' = [conn EXCEPT !.entry = 0]
  /\ Forward(d, Dropping) /\ Reply(d)
  /\ ledger' = Settled(d, Slipped)
  /\ UNCHANGED <<waiter, screen>>

(* the options of the session are fetched before a load is answered: when that *)
(* fails the observer stays registered, and nobody forwards its events          *)
OptionsFail(d) ==
  /\ On(d, "options") /\ desks[d].what = "load" /\ Slip
  /\ views' = [views EXCEPT ![desks[d].ep] =
       IF @.st = "ready" THEN [NoView EXCEPT !.st = "dropped"] ELSE @]
  /\ Reply(d) /\ ledger' = Slipped
  /\ UNCHANGED <<conn, waiter, job, screen>>

(* activate_observer: the questionnaire of the snapshot, then the forwarding task *)
Activate(d) ==
  /\ On(d, "options")
  /\ LET view == desks[d].ep IN
       /\ views' = [views EXCEPT ![view].st = IF @ = "ready" THEN "on" ELSE @, ![view].quiz = 0]
       /\ screen' = IF views[view].quiz = 0 THEN screen
                    ELSE screen \cup {Quiz(views[view].quiz, view)}
  /\ Turns(d, "active")
  /\ UNCHANGED <<conn, waiter, job, ledger>>

LoadReply(d) ==
  /\ On(d, "active") /\ desks[d].what \in {"load", "status"}
  /\ Reply(d)
  /\ UNCHANGED <<conn, views, waiter, job, screen, ledger>>

StopCommand(d) ==
  /\ On(d, "active") /\ desks[d].what = "stop"
  /\ HostCancel /\ Reply(d)
  /\ UNCHANGED <<conn, waiter, screen, ledger>>

Submits(d) == On(d, "active") /\ desks[d].what \in {"prompt", "compact"}
(* version 1: one prompt of the session waits at a time *)
TakeWaiter(d) ==
  /\ Submits(d) /\ V1 /\ waiter = Vacant
  /\ waiter' = d /\ Turns(d, "submit")
  /\ UNCHANGED <<conn, views, job, screen, ledger>>

WaiterTaken(d) ==
  /\ Submits(d) /\ V1 /\ waiter # Vacant
  /\ Forward(d, views) /\ Reply(d)
  /\ ledger' = Settled(d, ledger)
  /\ UNCHANGED <<conn, waiter, screen>>

SubmitV2(d) ==
  /\ Submits(d) /\ ~V1 /\ Turns(d, "submit")
  /\ UNCHANGED <<conn, views, waiter, job, screen, ledger>>

(* the host takes the prompt into the turn that runs, or starts one; it refuses *)
(* a compaction of a busy session, and a prompt while it compacts               *)
Accepts(d) == IF desks[d].what = "prompt" THEN job.kind # "compact" ELSE ~Busy
HostAccepts(d) ==
  /\ On(d, "submit") /\ Accepts(d)
  /\ IF Busy THEN UNCHANGED job /\ ledger' = Settled(d, ledger)
     ELSE /\ JobStarts(IF desks[d].what = "prompt" THEN "turn" ELSE "compact")
          /\ ledger' = Settled(d, [ledger EXCEPT !.jobs = @ + 1])
  /\ desks' = IF V1 /\ waiter = d
              THEN [desks EXCEPT ![d].pc = "wait", ![d].turn = job'.turn]
              ELSE [desks EXCEPT ![d] = NoDesk]
  /\ UNCHANGED <<conn, views, waiter, screen>>

(* complete_prompt, and a waiter that is dropped: whoever waits is answered *)
Completed ==
  /\ waiter' = Vacant
  /\ desks' = IF waiter # Vacant /\ desks[waiter].pc = "wait"
              THEN [desks EXCEPT ![waiter] = NoDesk] ELSE desks

(* the session's entry of prompt_waiters is removed, whoever put it there *)
HostRefuses(d) ==
  /\ On(d, "submit") /\ (~Accepts(d) \/ Slip)
  /\ ledger' = Settled(d, IF Accepts(d) THEN Slipped ELSE ledger)
  /\ Forward(d, views)
  /\ waiter' = Vacant
  /\ desks' = [e \in Desks |->
       IF e = d \/ (e = waiter /\ desks[e].pc = "wait") THEN NoDesk ELSE desks[e]]
  /\ UNCHANGED <<conn, screen>>

-----------------------------------------------------------------------------
(* the forwarding task of an observer *)

Hears(v, kind) ==
  /\ views[v].st \in {"on", "off"} /\ views[v].feed # <<>>
  /\ Head(views[v].feed).kind = kind
Heeded(v) == [views EXCEPT ![v].feed = Tail(@)]
ForwardEnd(v) ==
  /\ Hears(v, "end") /\ views' = Heeded(v)
  /\ Completed
  /\ UNCHANGED <<conn, job, screen, ledger>>

(* the end of a compaction inside a turn completes no prompt *)
ForwardAuto(v) ==
  /\ Hears(v, "auto") /\ views' = Heeded(v)
  /\ UNCHANGED <<conn, desks, waiter, job, screen, ledger>>

ForwardAsk(v) ==
  /\ \E kind \in {"permission", "quiz"} :
       /\ Hears(v, kind)
       /\ screen' = screen \cup {[kind |-> kind, turn |-> Head(views[v].feed).turn, view |-> v]}
  /\ views' = Heeded(v)
  /\ UNCHANGED <<conn, desks, waiter, job, ledger>>

(* send_elicitation_complete: the client takes the questionnaire away            *)
ForwardResolved(v) ==
  /\ Hears(v, "resolved") /\ views' = Heeded(v)
  /\ screen' = {q \in screen : ~(q.kind = "quiz" /\ q.turn = Head(views[v].feed).turn)}
  /\ UNCHANGED <<conn, desks, waiter, job, ledger>>

(* the daemon closes a subscription that lags *)
FeedLags(v) ==
  /\ Listens(v) /\ Slip
  /\ views' = [views EXCEPT ![v].open = FALSE]
  /\ ledger' = Slipped
  /\ UNCHANGED <<conn, desks, waiter, job, screen>>

(* the task has read what was left in it, and removes its own registration *)
ForwardingEnds(v) ==
  /\ views[v].st = "on" /\ ~views[v].open /\ views[v].feed = <<>>
  /\ views' = [views EXCEPT ![v].st = "ended"]
  /\ conn' = [conn EXCEPT !.entry = IF @ = v THEN 0 ELSE @]
  /\ UNCHANGED <<desks, waiter, job, screen, ledger>>

-----------------------------------------------------------------------------
(* what the client answers *)

(* resolve_permission: the host takes an answer to what is still asked          *)
AnswerPermission ==
  /\ \E q \in screen :
       /\ q.kind = "permission" /\ screen' = screen \ {q}
       /\ job' = IF job.turn = q.turn THEN [job EXCEPT !.ask = "none"] ELSE job
  /\ UNCHANGED <<conn, views, desks, waiter, ledger>>

(* answer_questionnaire submits the answers, or that the user skips, as a prompt *)
Joined == IF Busy THEN job ELSE Started("turn")
Joins(l) == IF Busy THEN l ELSE [l EXCEPT !.jobs = @ + 1]
Submittable == job.kind # "compact" /\ (Busy \/ ledger.jobs < MaxJobs)
Resolves ==
  /\ job.open # 0 /\ Submittable
  /\ job' = [Joined EXCEPT !.open = 0]
  /\ \/ /\ ledger' = Joins(ledger)
        /\ views' = Heard(views, [kind |-> "resolved", turn |-> job.open])
     \/ Slip /\ ledger' = Joins(Slipped) /\ UNCHANGED views

(* deliver_questionnaire *)
AnswerQuiz ==
  /\ \E q \in screen :
       q.kind = "quiz" /\ q.turn = job.open /\ screen' = screen \ {q}
  /\ Resolves
  /\ UNCHANGED <<conn, desks, waiter>>

(* another front end answers                                                     *)
QuizElsewhere ==
  /\ Resolves
  /\ UNCHANGED <<conn, desks, waiter, screen>>

(* the answers are refused while the session compacts or cancels, or a save     *)
(* fails, before the answers are in a turn or after: the questionnaire stays    *)
(* open, and the client is told nothing                                         *)
AnswerRefused ==
  /\ \E q \in screen :
       /\ q.kind = "quiz" /\ q.turn = job.open /\ screen' = screen \ {q}
       /\ \/ /\ job.kind = "compact" \/ Slip
             /\ ledger' = [IF job.kind = "compact" THEN ledger ELSE Slipped
                           EXCEPT !.lapsed = @ \cup {q}]
             /\ UNCHANGED job
          \/ /\ Slip /\ Submittable /\ job' = Joined
             /\ ledger' = [Joins(Slipped) EXCEPT !.lapsed = @ \cup {q}]
  /\ UNCHANGED <<conn, views, desks, waiter>>

(* the questionnaire was answered before *)
AnswerLate ==
  /\ \E q \in screen : q.kind = "quiz" /\ q.turn # job.open /\ screen' = screen \ {q}
  /\ UNCHANGED <<conn, views, desks, waiter, job, ledger>>

(* a client that knows no questionnaires leaves it to the other front ends *)
QuizUnsupported ==
  /\ Slip
  /\ \E q \in screen :
       /\ q.kind = "quiz" /\ screen' = screen \ {q}
       /\ ledger' = [Slipped EXCEPT !.lapsed = @ \cup {q}]
  /\ UNCHANGED <<conn, views, desks, waiter, job>>

-----------------------------------------------------------------------------
(* session/cancel *)

(* version 2 passes it on *)
CancelNow ==
  /\ ~V1 /\ ledger.requests < MaxAsks
  /\ HostCancel
  /\ ledger' = [ledger EXCEPT !.requests = @ + 1]
  /\ UNCHANGED <<conn, desks, waiter, screen>>

(* version 1 answers the waiting prompt and holds the cancel back *)
CancelNotice ==
  /\ V1 /\ ledger.cancels < MaxCancels
  /\ Completed
  /\ LET c == ledger.cancels + 1 IN
       /\ conn' = Schedule(c)
       /\ ledger' = [ledger EXCEPT !.cancels = c, !.owed = @ \cup {c}]
  /\ UNCHANGED <<views, job, screen>>

(* the grace period of spawn_deferred_cancel ends *)
GraceOver ==
  /\ conn.held # {}
  /\ conn' = Expired
  /\ HostCancel
  /\ ledger' = [ledger EXCEPT !.owed = @ \ conn.held]
  /\ UNCHANGED <<desks, waiter, screen>>

-----------------------------------------------------------------------------
AcpNext ==
  \/ JobElsewhere \/ JobEnds \/ JobCompacts \/ JobAsks \/ JobRaises
  \/ \E d \in Desks :
       \/ LoadRequest(d) \/ PromptRequest(d) \/ CloseRequest(d)
       \/ ReuseObserver(d) \/ Subscribe(d) \/ SubscribeFails(d) \/ OptionsFail(d)
       \/ Activate(d) \/ LoadReply(d) \/ StopCommand(d)
       \/ TakeWaiter(d) \/ WaiterTaken(d) \/ SubmitV2(d) \/ HostAccepts(d) \/ HostRefuses(d)
  \/ \E v \in Views : ForwardEnd(v) \/ ForwardAuto(v) \/ ForwardAsk(v)
                      \/ ForwardResolved(v) \/ FeedLags(v) \/ ForwardingEnds(v)
  \/ AnswerPermission \/ AnswerQuiz \/ QuizElsewhere \/ AnswerRefused \/ AnswerLate
  \/ QuizUnsupported \/ CancelNow \/ CancelNotice \/ GraceOver

AcpSpec == AcpInit /\ [][AcpNext]_acpVars

-----------------------------------------------------------------------------
(* A prompt of version 1 waiting under an observer whose subscription is open  *)
(* has its turn running, or the turn's end on the way to it (run_prompt,        *)
(* handle_session_event): no accepted prompt waits for nothing.                 *)
PromptsFinish ==
  \A d \in Desks : On(d, "wait") /\ Listens(desks[d].ep) =>
    /\ waiter = d
    /\ \/ job.turn = desks[d].turn
       \/ [kind |-> "end", turn |-> desks[d].turn] \in Range(views[desks[d].ep].feed)

(* A cancel version 1 holds back reaches the host, unless the prompt that took *)
(* it over was accepted or a local command dropped it (PendingCancels,         *)
(* forward_rejected_replacement).                                              *)
CancelIsKept == ledger.owed \subseteq conn.held \cup UNION {desks[d].replaces : d \in Desks}

(* Only one observer goes on forwarding: a replay shuts the one it replaces,    *)
(* which ends with the event it has in hand (prepare_observer,                  *)
(* activate_observer).                                                          *)
OneForwarder == Cardinality(Looking) =< 1

(* A questionnaire that is open, in the turn that raised it or after, is on the *)
(* screen of a version 2 client whose observer forwards from an open            *)
(* subscription, put there by that observer, whether it was raised before or    *)
(* after it came: until the delivery ended with the client declining it or the  *)
(* host refusing its answer, or never began because nobody was told             *)
(* (activate_observer, handle_session_event, deliver_questionnaire,             *)
(* answer_questionnaire).                                                       *)
QuizIsShown ==
  job.open # 0 /\ Registered /\ views[conn.entry].st = "on" /\ Listens(conn.entry) =>
    \/ [kind |-> "quiz", turn |-> job.open] \in Range(views[conn.entry].feed)
    \/ Quiz(job.open, conn.entry) \in screen \cup ledger.lapsed

AcpHolds == PromptsFinish /\ CancelIsKept /\ OneForwarder /\ QuizIsShown
=============================================================================
