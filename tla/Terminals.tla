------------------------------ MODULE Terminals ------------------------------
(***************************************************************************)
(* The terminals of one loaded session: the tool calls of a turn's batch,  *)
(* the table of dwo-tools' TerminalManager, the processes behind it with   *)
(* their pumps and timers, the shutdowns that a cancel or an unload starts *)
(* and the telemetry the session actor keeps its terminal views from.      *)
(*                                                                         *)
(* Three tasks meet here.  The turn task runs a batch and is dropped in    *)
(* the middle of it when the turn is cancelled; the actor cancels, unloads *)
(* and reads the telemetry; a shutdown that a cancel spawned runs beside   *)
(* both and takes each terminal's operation lock in turn.                  *)
(*                                                                         *)
(* A piece of output is counted, not spelled; the 1 MiB cap of a buffer,   *)
(* and a code point split over two pieces, are below this grain.  Which of *)
(* two finished terminals is older is left open.                           *)
(***************************************************************************)
EXTENDS Naturals, Sequences, FiniteSets, SequencesExt

CONSTANTS Shells,      \* the terminals that can be opened
          Slots,       \* the places of a batch
          Free,        \* nobody holds the operation lock
          TableCap,    \* TERMINAL_CAP
          ViewCap,     \* TERMINAL_VIEW_COUNT
          MaxCalls,    \* bound: tool calls
          MaxTermTurns, \* bound: turns
          MaxPieces,   \* bound: pieces of output of one terminal
          MaxMail      \* bound: the actor's queue, which has none in the code

VARIABLES actor,    \* the actor: its phase, the turn it runs and its turns so far
          batch,    \* the turn task: where it is, its token and its calls
          shell,    \* each terminal's process and TerminalSession
          table,    \* TerminalManager.terminals
          op,       \* who holds each terminal's operation lock
          sweeps,   \* the shutdowns that run beside the actor, and the actor's own
          mail,     \* the actor's event queue
          seen      \* what the actor keeps: terminal_views and live_terminals

termVars == <<actor, batch, shell, table, op, sweeps, mail, seen>>

NoCall == [op |-> "none", on |-> Free, at |-> "done"]
NoShell == [open |-> FALSE, status |-> "running", finished |-> FALSE, listed |-> FALSE,
            out |-> 0, read |-> 0]

TermInit ==
  /\ actor = [phase |-> "idle", turns |-> 0, calls |-> 0]
  /\ batch = [at |-> "none", token |-> FALSE, calls |-> [k \in Slots |-> NoCall]]
  /\ shell = [s \in Shells |-> NoShell]
  /\ table = {}
  /\ op = [s \in Shells |-> Free]
  /\ sweeps = [cancel |-> <<>>, own |-> <<>>, collecting |-> {}]
  /\ mail = <<>>
  /\ seen = [views |-> <<>>, live |-> {}]

-----------------------------------------------------------------------------
(* One terminal. *)

HasUnread(s) == shell[s].out > shell[s].read

\* TerminalSession::kill: nothing to do for one that finished or was killed.
Killed(sh, s) ==
  IF ~sh[s].open \/ sh[s].finished \/ sh[s].status = "killed" THEN sh
  ELSE [sh EXCEPT ![s].status = "killed"]

\* What a snapshot for the model takes: everything unread.
Taken(sh, s) == [sh EXCEPT ![s].read = sh[s].out]

\* OutputBuffer::push: a piece more, unread; what the cap drops is below this grain.
Pushed(s) == [shell EXCEPT ![s].out = @ + 1]

\* The pump moves a piece the command wrote into the buffer and reports it.
Pump(s) ==
  /\ shell[s].open
  /\ ~shell[s].finished
  /\ shell[s].out < MaxPieces
  /\ Len(mail) < MaxMail
  /\ shell' = Pushed(s)
  /\ mail' = Append(mail, [kind |-> "output", of |-> s])
  /\ UNCHANGED <<actor, batch, table, op, sweeps, seen>>

\* The command ended, by itself or by the kill.  The pump has drained for at most a
\* second, so pieces may be left behind, and reports the exit.
MarkExited(s) ==
  /\ shell[s].open
  /\ ~shell[s].finished
  /\ Len(mail) < MaxMail
  /\ shell' = [shell EXCEPT ![s].finished = TRUE,
                            ![s].status = IF @ = "running" THEN "exited" ELSE @]
  /\ mail' = Append(mail, [kind |-> "exited", of |-> s])
  /\ UNCHANGED <<actor, batch, table, op, sweeps, seen>>

\* The timeout task of a run: at the end of timeout_ms it kills what still runs.
TimesOut(s) ==
  /\ shell[s].listed
  /\ ~shell[s].finished
  /\ shell[s].status # "killed"
  /\ shell' = Killed(shell, s)
  /\ UNCHANGED <<actor, batch, table, op, sweeps, mail, seen>>

-----------------------------------------------------------------------------
(* The table. *)

Finished(tab) == {s \in tab : shell[s].finished}

\* prune: finished terminals go once five minutes have passed since a prune saw
\* them finished (which ones, is left open), and then, beyond the cap, the ones that
\* were read before the ones that were not.  A running terminal stays.
Pruned(tab) ==
  {tab2 \in SUBSET tab :
     \E old \in SUBSET Finished(tab) :
       LET rest == tab \ old
           goes == rest \ tab2
           over == IF Cardinality(rest) > TableCap THEN Cardinality(rest) - TableCap ELSE 0 IN
       /\ tab2 \subseteq rest
       /\ goes \subseteq Finished(rest)
       /\ Cardinality(goes) = Min({over, Cardinality(Finished(rest))})
       /\ \A g \in goes, k \in Finished(tab2) : HasUnread(g) => HasUnread(k)}

-----------------------------------------------------------------------------
(* The turn task and its batch.  Calls of one batch run beside each other. *)

StartTurn ==
  /\ actor.phase = "idle"
  /\ actor.turns < MaxTermTurns
  /\ actor' = [actor EXCEPT !.phase = "running", !.turns = @ + 1]
  /\ batch' = [batch EXCEPT !.at = "model", !.token = FALSE]
  /\ UNCHANGED <<shell, table, op, sweeps, mail, seen>>

Known == {s \in Shells : shell[s].open}
Asks == {[op |-> "run", on |-> s, at |-> "spawn"] : s \in Shells \ Known}
        \union {[op |-> o, on |-> s, at |-> "find"] : o \in {"input", "kill"}, s \in Known}

\* execute_batch, with as many calls as slots at most; a new terminal has a new name.
StartBatch ==
  /\ batch.at = "model"
  /\ ~batch.token
  /\ \E cs \in [Slots -> Asks \union {NoCall}] :
       LET asked == {k \in Slots : cs[k] # NoCall} IN
       /\ asked # {}
       /\ actor.calls + Cardinality(asked) <= MaxCalls
       /\ \A i, j \in asked : i # j /\ cs[i].op = "run" => cs[j].on # cs[i].on
       /\ batch' = [batch EXCEPT !.at = "batch", !.calls = cs]
       /\ actor' = [actor EXCEPT !.calls = @ + Cardinality(asked)]
  /\ UNCHANGED <<shell, table, op, sweeps, mail, seen>>

CallAt(k, p) == batch.at = "batch" /\ batch.calls[k].at = p
Go(k, p) == batch' = [batch EXCEPT !.calls[k].at = p]

\* TerminalSession::spawn: running, with nothing said; its opening is reported before
\* the pump can report anything.
OpenTerminal(s) ==
  /\ shell' = [shell EXCEPT ![s] = [NoShell EXCEPT !.open = TRUE]]
  /\ mail' = Append(mail, [kind |-> "opened", of |-> s])

\* The process is there, or could not be started.
Spawn(k) ==
  /\ CallAt(k, "spawn")
  /\ Len(mail) < MaxMail
  /\ \/ /\ OpenTerminal(batch.calls[k].on)
        /\ Go(k, "list")
     \/ /\ Go(k, "done")
        /\ UNCHANGED <<shell, mail>>
  /\ UNCHANGED <<actor, table, op, sweeps, seen>>

\* Into the table; the timeout task starts.
List(k) ==
  LET s == batch.calls[k].on IN
  /\ CallAt(k, "list")
  /\ table' \in Pruned(table \union {s})
  /\ shell' = [shell EXCEPT ![s].listed = TRUE]
  /\ Go(k, "lock")
  /\ UNCHANGED <<actor, op, sweeps, mail, seen>>

\* An input or a kill looks its terminal up; one that was pruned is "not found".
Find(k) ==
  /\ CallAt(k, "find")
  /\ Go(k, IF batch.calls[k].on \in table THEN "lock" ELSE "done")
  /\ UNCHANGED <<actor, shell, table, op, sweeps, mail, seen>>

\* TerminalSession::input: a killed terminal takes none, even before it has exited.
TakesInput(s) == shell[s].status = "running"

\* With the operation lock: an input with data is refused by a terminal that is not
\* running, one without data only waits, and a kill kills; then the call waits.
Lock(k) ==
  LET c == batch.calls[k] IN
  /\ CallAt(k, "lock")
  /\ op[c.on] = Free
  /\ \/ /\ c.op = "input"
        /\ ~TakesInput(c.on)
        /\ Go(k, "done")
        /\ UNCHANGED <<op, shell>>
     \/ /\ op' = [op EXCEPT ![c.on] = k]
        /\ shell' = IF c.op = "kill" THEN Killed(shell, c.on) ELSE shell
        /\ Go(k, "wait")
  /\ UNCHANGED <<actor, table, sweeps, mail, seen>>

\* The exit, news or the end of yield_ms ends the wait; the call takes what is unread.
Answer(k) ==
  LET c == batch.calls[k] IN
  /\ CallAt(k, "wait")
  /\ IF c.op = "run" THEN table' = table ELSE table' \in Pruned(table)
  /\ shell' = Taken(shell, c.on)
  /\ op' = [op EXCEPT ![c.on] = Free]
  /\ Go(k, "done")
  /\ UNCHANGED <<actor, sweeps, mail, seen>>

EndBatch ==
  /\ batch.at = "batch"
  /\ \A k \in Slots : batch.calls[k].at = "done"
  /\ batch' = [batch EXCEPT !.at = "model", !.calls = [k \in Slots |-> NoCall]]
  /\ UNCHANGED <<actor, shell, table, op, sweeps, mail, seen>>

\* mutant: a dropped call keeps the operation lock of its terminal.
DropBatchLocked ==
  /\ batch.at = "batch"
  /\ batch.token
  /\ batch' = [batch EXCEPT !.at = "model", !.calls = [k \in Slots |-> NoCall]]
  /\ UNCHANGED <<actor, shell, table, op, sweeps, mail, seen>>

\* The cancelled turn drops its batch wherever it is.  A process that no session
\* holds yet dies with its handle; one that waits for the table stays outside it.
DropBatch ==
  /\ batch.at = "batch"
  /\ batch.token
  /\ batch' = [batch EXCEPT !.at = "model", !.calls = [k \in Slots |-> NoCall]]
  /\ op' = [s \in Shells |-> Free]
  /\ UNCHANGED <<actor, shell, table, sweeps, mail, seen>>

\* The turn task ends and says so through the queue of its telemetry.
EndTurn ==
  /\ batch.at = "model"
  /\ Len(mail) < MaxMail
  /\ batch' = [batch EXCEPT !.at = "none"]
  /\ mail' = Append(mail, [kind |-> "finished", of |-> Free])
  /\ UNCHANGED <<actor, shell, table, op, sweeps, seen>>

-----------------------------------------------------------------------------
(* The shutdowns.  shutdown_all copies the table and then, one terminal after *)
(* the other, waits for the operation lock and kills.                         *)

Collect(w) ==
  /\ w \in sweeps.collecting
  /\ \E order \in SetToSeqs(table) :
       sweeps' = [sweeps EXCEPT !.collecting = @ \ {w}, ![w] = order]
  /\ UNCHANGED <<actor, batch, shell, table, op, mail, seen>>

SweepOne(w) ==
  /\ w \notin sweeps.collecting
  /\ sweeps[w] # <<>>
  /\ op[Head(sweeps[w])] = Free
  /\ shell' = Killed(shell, Head(sweeps[w]))
  /\ sweeps' = [sweeps EXCEPT ![w] = Tail(@)]
  /\ UNCHANGED <<actor, batch, table, op, mail, seen>>

Swept(w) == w \notin sweeps.collecting /\ sweeps[w] = <<>>

\* Bound: one spawned shutdown at a time.
SpawnSweep == Swept("cancel") /\ sweeps' = [sweeps EXCEPT !.collecting = @ \union {"cancel"}]

-----------------------------------------------------------------------------
(* The actor. *)

CancelTurn ==
  /\ actor.phase \in {"running", "cancelling"}
  /\ actor' = [actor EXCEPT !.phase = "cancelling"]
  /\ batch' = [batch EXCEPT !.token = TRUE]
  /\ SpawnSweep
  /\ UNCHANGED <<shell, table, op, mail, seen>>

\* With a turn the unload waits for its end; without one it shuts down and stops.
UnloadSession ==
  /\ \/ /\ actor.phase \in {"running", "cancelling"}
        /\ actor' = [actor EXCEPT !.phase = "closing"]
        /\ batch' = [batch EXCEPT !.token = TRUE]
        /\ SpawnSweep
     \/ /\ actor.phase = "idle"
        /\ actor' = [actor EXCEPT !.phase = "stopping"]
        /\ sweeps' = [sweeps EXCEPT !.collecting = @ \union {"own"}]
        /\ batch' = batch
  /\ UNCHANGED <<shell, table, op, mail, seen>>

Stop ==
  /\ actor.phase = "stopping"
  /\ Swept("own")
  /\ actor' = [actor EXCEPT !.phase = "stopped"]
  /\ mail' = <<>>
  /\ UNCHANGED <<batch, shell, table, op, sweeps, seen>>

Viewed(v) == {i \in 1 .. Len(v) : v[i].status # "running"}

NewView(s) == [of |-> s, out |-> 0, status |-> "running"]

\* A new terminal pushes out the one that changed longest ago, a finished one if
\* there is one.
ViewOpened(v, s) ==
  LET room == IF Len(v) < ViewCap THEN v
              ELSE RemoveAt(v, IF Viewed(v) = {} THEN 1
                               ELSE CHOOSE i \in Viewed(v) : \A j \in Viewed(v) : i <= j) IN
  Append(room, NewView(s))

\* The view of s, changed, becomes the last one; without a view nothing happens.
Touched(v, s, Change(_)) ==
  IF \E i \in 1 .. Len(v) : v[i].of = s
    THEN LET i == CHOOSE i \in 1 .. Len(v) : v[i].of = s IN
         Append(RemoveAt(v, i), Change(v[i]))
    ELSE v

ObserveTool(e) ==
  seen' = CASE e.kind = "opened" ->
                 [views |-> ViewOpened(seen.views, e.of), live |-> seen.live \union {e.of}]
            [] e.kind = "output" ->
                 [seen EXCEPT !.views = Touched(@, e.of, LAMBDA w : [w EXCEPT !.out = @ + 1])]
            [] e.kind = "exited" ->
                 [views |-> Touched(seen.views, e.of, LAMBDA w : [w EXCEPT !.status = "ended"]),
                  live |-> seen.live \ {e.of}]
            [] OTHER -> seen

Handle ==
  /\ actor.phase \notin {"stopping", "stopped"}
  /\ mail # <<>>
  /\ mail' = Tail(mail)
  /\ ObserveTool(Head(mail))
  /\ IF Head(mail).kind # "finished" THEN UNCHANGED <<actor, sweeps>>
     ELSE IF actor.phase = "closing"
       THEN /\ actor' = [actor EXCEPT !.phase = "stopping"]
            /\ sweeps' = [sweeps EXCEPT !.collecting = @ \union {"own"}]
       ELSE /\ actor' = [actor EXCEPT !.phase = "idle"]
            /\ sweeps' = sweeps
  /\ UNCHANGED <<batch, shell, table, op>>

TermNext ==
  \/ \E s \in Shells : Pump(s) \/ MarkExited(s) \/ TimesOut(s)
  \/ StartTurn \/ StartBatch \/ EndBatch \/ DropBatch \/ EndTurn
  \/ \E k \in Slots : Spawn(k) \/ List(k) \/ Find(k) \/ Lock(k) \/ Answer(k)
  \/ \E w \in {"cancel", "own"} : Collect(w) \/ SweepOne(w)
  \/ CancelTurn \/ UnloadSession \/ Stop \/ Handle

TermSpec == TermInit /\ [][TermNext]_termVars

-----------------------------------------------------------------------------
(* Properties. *)

\* Once an unload is answered no command that the table ever held runs on: it has
\* ended or was told to.  Eviction must not lose a running
\* terminal, and the last shutdown must come after the turn's last call.
NothingRunsOn ==
  actor.phase = "stopped" => \A s \in Shells : shell[s].listed /\ ~shell[s].finished => shell[s].status = "killed"

Queued(kind, s) == Cardinality({i \in 1 .. Len(mail) : mail[i] = [kind |-> kind, of |-> s]})

\* The actor's picture is the terminal's, late by exactly the telemetry in the queue:
\* a view that is held lacks no piece, none is counted twice, and a terminal is live
\* until its exit was handled.
ViewsFollow ==
  actor.phase # "stopped" =>
    /\ \A i \in 1 .. Len(seen.views) :
         LET view == seen.views[i] IN
         /\ view.out + Queued("output", view.of) = shell[view.of].out
         /\ (view.status = "running") <=> ~shell[view.of].finished \/ Queued("exited", view.of) = 1
    /\ \A s \in Shells :
         s \in seen.live <=> /\ shell[s].open
                             /\ Queued("opened", s) = 0
                             /\ ~shell[s].finished \/ Queued("exited", s) = 1

\* An operation lock is held by a waiting call of the batch that runs, so a shutdown
\* never waits for a turn that is over.
LocksAreServed ==
  \A s \in Shells : op[s] # Free => CallAt(op[s], "wait") /\ batch.calls[op[s]].on = s

TerminalsHold == NothingRunsOn /\ ViewsFollow /\ LocksAreServed
=============================================================================
