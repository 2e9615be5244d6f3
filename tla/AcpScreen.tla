------------------------------ MODULE AcpScreen ------------------------------
(***************************************************************************)
(* What a client of the ACP adapter shows of a session.  The adapter turns *)
(* a snapshot into a replay and the events behind it into updates; the     *)
(* client applies the updates by the protocol's rules: a message replaces  *)
(* what has its id, a chunk is appended (version 2); every text is a chunk *)
(* and nothing is replaced (version 1).  So the adapter itself must know   *)
(* what it has sent.                                                       *)
(*                                                                         *)
(* A text is the sequence of its pieces, by number.  The snapshot and the  *)
(* subscription are taken in one step of the actor (module SessionFeed),   *)
(* so the view starts with an empty feed.                                  *)
(***************************************************************************)
EXTENDS Naturals, Sequences, FiniteSets, FiniteSetsExt, SequencesExt, Folds

CONSTANTS Versions,   \* of the connection: a subset of {"v1", "v2"}
          Plans,      \* identifiers of plans
          NoPlan,     \* no plan
          MaxMsgs,    \* bound: messages of the model
          MaxParts,   \* bound: pieces of a message
          MaxBytes,   \* bound: pieces of the terminal's output
          MaxLooks,   \* bound: views opened
          MaxFeed,    \* bound: events on their way, which the code bounds elsewhere
          MaxShown     \* bound: events of the session, and its compactions

VARIABLES book,    \* the session: transcript, active step, plan, phase, terminal
          feed,    \* the events on their way to the adapter
          adapter, \* AcpConnection of the view: version, delivered
          display   \* what the client shows

screenVars == <<book, feed, adapter, display>>

Msgs == 1 .. MaxMsgs
UpTo(n) == [i \in 1 .. n |-> i]
NoTerm == [st |-> "none", raw |-> 0, held |-> FALSE, polled |-> 0]
Blank == [text |-> [m \in Msgs |-> <<>>], cut |-> {}, plans |-> {},
          state |-> "idle", term |-> "none", bytes |-> 0]

ScreenInit ==
  /\ book = [ended |-> {}, past |-> {}, msg |-> 0, len |-> 0, plan |-> NoPlan, phase |-> "idle",
             term |-> NoTerm, told |-> 0]
  /\ feed = <<>>
  /\ adapter \in [version : Versions, on : {FALSE}, delivered : {{}}, looks : {0},
                  whole : {FALSE}, gapped : {{}}, froze : {FALSE}]
  /\ display = Blank

-----------------------------------------------------------------------------
(* The session.  Most events are lines of the transcript; deltas, terminal  *)
(* output and the ends of turns are only broadcast.                         *)

Tells(e) == feed' = IF adapter.on THEN Append(feed, e) ELSE feed
RoomInFeed == Len(feed) < MaxFeed /\ book.told < MaxShown
Writing == book.phase \in {"running", "waiting"} /\ book.msg > 0

Starts(kind) ==
  /\ book.phase = "idle"
  /\ RoomInFeed
  /\ book.msg < MaxMsgs
  /\ \/ /\ kind = "turn"
        /\ book' = [book EXCEPT !.phase = "running", !.msg = @ + 1, !.len = 0, !.told = @ + 1]
        /\ Tells([kind |-> "started"])
     \/ /\ kind = "compaction"
        /\ book' = [book EXCEPT !.phase = "compacting", !.told = @ + 1]
        /\ feed' = feed
  /\ UNCHANGED <<adapter, display>>

\* A manual compaction ends with a notification alone, no turn's end.
CompactionIsOver ==
  /\ book.phase = "compacting"
  /\ book' = [book EXCEPT !.phase = "idle"]
  /\ UNCHANGED <<feed, adapter, display>>

Delta ==
  /\ Writing
  /\ RoomInFeed
  /\ book.len < MaxParts
  /\ book' = [book EXCEPT !.len = @ + 1, !.told = @ + 1]
  /\ Tells([kind |-> "delta", m |-> book.msg, n |-> book.len + 1])
  /\ UNCHANGED <<adapter, display>>

\* AssistantCompleted, and AssistantInterrupted for an attempt that broke off; the
\* step goes on with a new message.
MessageEnds(kind) ==
  LET e == [kind |-> kind, m |-> book.msg, n |-> book.len] IN
  /\ Writing
  /\ RoomInFeed
  /\ book.msg < MaxMsgs
  /\ book.len > 0
  /\ book' = [book EXCEPT !.ended = @ \union {e}, !.msg = @ + 1, !.len = 0,
                         !.told = @ + 1]
  /\ Tells(e)
  /\ UNCHANGED <<adapter, display>>

WritesPlan ==
  /\ Writing
  /\ RoomInFeed
  /\ \E p \in Plans \union {NoPlan} :
       LET e == [kind |-> "plan", p |-> p, of |-> book.plan] IN
       /\ p # book.plan
       /\ book' = [book EXCEPT !.past = @ \union {p}, !.plan = p, !.told = @ + 1]
       /\ Tells(e)
  /\ UNCHANGED <<adapter, display>>

Permission(from, to, kind) ==
  /\ book.phase = from
  /\ RoomInFeed
  /\ book' = [book EXCEPT !.phase = to, !.told = @ + 1]
  /\ Tells([kind |-> kind])
  /\ UNCHANGED <<adapter, display>>

TurnIsOver ==
  /\ book.phase = "running"
  /\ RoomInFeed
  /\ book.len = 0
  /\ book' = [book EXCEPT !.phase = "idle", !.told = @ + 1]
  /\ Tells([kind |-> "ended"])
  /\ UNCHANGED <<adapter, display>>

\* The terminal of a tool call: opened, written to, read by a tool call, ended.
TerminalOpens ==
  /\ Writing
  /\ RoomInFeed
  /\ book.term.st = "none"
  /\ book' = [book EXCEPT !.term = [NoTerm EXCEPT !.st = "live", !.held = TRUE],
                         !.told = @ + 1]
  /\ Tells([kind |-> "opened"])
  /\ UNCHANGED <<adapter, display>>

TerminalWrites ==
  /\ book.term.st = "live"
  /\ book.term.raw < MaxBytes
  /\ RoomInFeed
  /\ book' = [book EXCEPT !.term.raw = @ + 1, !.told = @ + 1]
  /\ Tells([kind |-> "output"])
  /\ UNCHANGED <<adapter, display>>

TerminalEnds ==
  /\ book.term.st = "live"
  /\ RoomInFeed
  /\ book' = [book EXCEPT !.term.st = "exited", !.told = @ + 1]
  /\ Tells([kind |-> "exited"])
  /\ UNCHANGED <<adapter, display>>

\* A tool call's result holds what it polled; the view of the terminal may be pushed out.
TerminalPolled ==
  /\ Writing
  /\ book.term.polled < book.term.raw
  /\ book' = [book EXCEPT !.term.polled = book.term.raw]
  /\ UNCHANGED <<feed, adapter, display>>

ViewEvicted ==
  /\ book.term.held
  /\ book' = [book EXCEPT !.term.held = FALSE]
  /\ UNCHANGED <<feed, adapter, display>>

\* The actor stops between turns, or the daemon does; a later load has no terminal,
\* no view of one, and the transcript may never have seen it exit.
ReloadLost ==
  /\ book.phase = "idle"
  /\ book.term.st = "live"
  /\ book' = [book EXCEPT !.term.st = "lost", !.term.held = FALSE]
  /\ feed' = <<>>
  /\ adapter' = [adapter EXCEPT !.on = FALSE]
  /\ UNCHANGED display

-----------------------------------------------------------------------------
(* Updates, as the adapter sends them and the client applies them.          *)

V2 == adapter.version = "v2"

\* should_send_completed: version 1 sends a message's text once, in one way.
Unsent(done, m) == V2 \/ m \notin done

\* AgentMessage: by id it replaces; version 1 has only chunks.
Message(s, m, n) == [s EXCEPT !.text[m] = IF V2 THEN UpTo(n) ELSE @ \o UpTo(n)]
Chunk(s, m, i) == [s EXCEPT !.text[m] = Append(@, i)]

\* send_assistant_completed and send_assistant_interrupted: an interrupted message
\* is marked even when its text is there already.
Ended(s, done, e) ==
  LET t == IF Unsent(done, e.m) THEN Message(s, e.m, e.n) ELSE s IN
  IF e.kind = "cut" THEN [t EXCEPT !.cut = @ \union {e.m}] ELSE t

\* Plans by id; without one version 1 has the empty plan for all.
PlanShown(s, p, old) ==
  [s EXCEPT !.plans = IF V2 THEN (@ \ {old}) \union ({p} \ {NoPlan}) ELSE {p} \ {NoPlan}]

PhaseShown == IF book.phase \in {"running", "compacting"} THEN "running"
              ELSE IF book.phase = "waiting" THEN "asking" ELSE "idle"

\* replay_snapshot_state
Restored(s) ==
  LET t == IF V2 /\ book.phase \in {"running", "waiting"}
             THEN Message(s, book.msg, book.len) ELSE s
      u == [t EXCEPT !.plans = IF V2 THEN (@ \ book.past) \union ({book.plan} \ {NoPlan})
                               ELSE {book.plan} \ {NoPlan}] IN
  IF V2 THEN [u EXCEPT !.state = PhaseShown] ELSE u

\* replay_terminal_outputs: the actor's view, else what was polled; an end nobody saw
\* is made up for a terminal nobody can reach.
TerminalRestored(s) ==
  IF ~V2 \/ book.term.st = "none" THEN s
  ELSE [s EXCEPT !.bytes = IF book.term.held THEN book.term.raw ELSE book.term.polled,
                 !.term = IF book.term.st = "live" THEN "running" ELSE "ended"]

\* replay_snapshot: the lines of the transcript, then the state.  The transcript holds
\* one line for each message, so their order does not matter to a text.
Replayed(s) ==
  Restored(TerminalRestored(
    FoldSet(LAMBDA e, t : Ended(t, {}, e), s, book.ended)))

SentBy(lines) == {e.m : e \in lines}

\* activate_observer.  A load of version 1 opens a fresh thread; version 2 may replay
\* onto what it shows.  Only a replay makes the display whole; without one a view that
\* is open stays as it is.
Look(replay) ==
  /\ adapter.looks < MaxLooks
  /\ replay \/ ~adapter.on
  /\ adapter' = [adapter EXCEPT !.on = TRUE, !.looks = @ + 1, !.whole = replay,
       !.delivered = IF replay THEN SentBy(book.ended) ELSE {},
       !.gapped = {book.msg} \ {0},
       !.froze = book.phase = "compacting"]
  /\ display' = IF replay THEN Replayed(IF V2 THEN display ELSE Blank) ELSE Restored(display)
  /\ feed' = <<>>
  /\ UNCHANGED book

\* The feed lags and folds deltas into the step as it is by then (module SessionFeed).
FeedFolds ==
  /\ \E i \in 1 .. Len(feed) - 1 :
       /\ feed[i].kind \in {"delta", "step"} /\ feed[i + 1].kind = "delta"
       /\ feed' = [RemoveAt(feed, i) EXCEPT ![i].kind = "step"]
       /\ adapter' = [adapter EXCEPT !.gapped = @ \union {feed[i].m}]
  /\ UNCHANGED <<book, display>>

\* A subscriber that lags too far, or a session/close, ends the view.
ViewEnds ==
  /\ adapter.on
  /\ feed' = <<>>
  /\ adapter' = [adapter EXCEPT !.on = FALSE]
  /\ UNCHANGED <<book, display>>

\* handle_session_event
Applied(e) ==
  CASE e.kind = "delta" -> Chunk(display, e.m, e.n)
    [] e.kind = "step" -> IF V2 THEN Message(display, e.m, e.n) ELSE display
    [] e.kind \in {"text", "cut"} -> Ended(display, adapter.delivered, e)
    [] e.kind = "plan" -> PlanShown(display, e.p, e.of)
    [] e.kind = "opened" -> [display EXCEPT !.term = "running"]
    [] e.kind = "output" -> [display EXCEPT !.bytes = @ + 1]
    [] e.kind = "exited" -> [display EXCEPT !.term = "ended"]
    [] e.kind = "asks" -> [display EXCEPT !.state = "asking"]
    [] e.kind = "ended" -> [display EXCEPT !.state = "idle"]
    [] OTHER -> [display EXCEPT !.state = "running"]

\* mutant: only messages that ended count as delivered.
MarksEnds(e) == IF e.kind \in {"text", "cut"} THEN {e.m} ELSE {}

Marks(e) == IF e.kind \in {"delta", "text", "cut"} THEN {e.m} ELSE {}

HandleEvent ==
  /\ adapter.on
  /\ feed # <<>>
  /\ feed' = Tail(feed)
  /\ display' = Applied(Head(feed))
  /\ adapter' = [adapter EXCEPT !.delivered = @ \union Marks(Head(feed)),
                                !.froze = @ /\ Head(feed).kind # "started"]
  /\ UNCHANGED book

ScreenNext ==
  \/ Starts("turn") \/ Starts("compaction") \/ CompactionIsOver
  \/ Delta \/ MessageEnds("text") \/ MessageEnds("cut") \/ WritesPlan
  \/ Permission("running", "waiting", "asks") \/ Permission("waiting", "running", "answered")
  \/ TurnIsOver \/ TerminalOpens \/ TerminalWrites \/ TerminalEnds \/ TerminalPolled
  \/ ViewEvicted \/ ReloadLost
  \/ Look(TRUE) \/ Look(FALSE) \/ ViewEnds \/ FeedFolds \/ HandleEvent

ScreenSpec == ScreenInit /\ [][ScreenNext]_screenVars

-----------------------------------------------------------------------------
(* Properties. *)

CaughtUp == adapter.on /\ feed = <<>>

\* A version 2 display that was replayed, at any moment and onto anything, and has
\* caught up shows every message in full, the running one as far as it goes, the
\* current plan alone, and the terminal as running only when it is.
WholeScreenIsTrue ==
  CaughtUp /\ V2 /\ adapter.whole =>
    /\ \A e \in book.ended : display.text[e.m] = UpTo(e.n)
    /\ book.phase \in {"running", "waiting"} => display.text[book.msg] = UpTo(book.len)
    /\ display.plans = {book.plan} \ {NoPlan}
    /\ display.term = "running" <=> book.term.st = "live"
    /\ book.term.held => display.bytes = book.term.raw

\* Whatever the moment and the folding, no piece of a text is display twice or before an
\* earlier one; in version 1, as long as the display was filled by a replay.
NothingTwice ==
  V2 \/ adapter.whole => \A m \in Msgs : \A i, j \in 1 .. Len(display.text[m]) :
    i < j => display.text[m][i] < display.text[m][j]

\* A version 1 display that caught up shows every message that ended, in full, unless it
\* came into the middle of it or the feed folded it.
V1IsFull ==
  CaughtUp /\ ~V2 /\ adapter.whole =>
    \A e \in book.ended : e.m \notin adapter.gapped => display.text[e.m] = UpTo(e.n)

\* The state display is the session's: of a turn always; outside one, unless the view
\* looked into a manual compaction, whose end no event tells.
StateIsTrue ==
  CaughtUp /\ V2 /\ book.phase # "compacting" /\ ~adapter.froze => display.state = PhaseShown

ScreenHolds == WholeScreenIsTrue /\ NothingTwice /\ V1IsFull /\ StateIsTrue
=============================================================================
