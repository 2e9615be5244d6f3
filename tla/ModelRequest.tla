---------------------------- MODULE ModelRequest ----------------------------
(***************************************************************************)
(* The steps of one turn between the model and the transcript: a request   *)
(* is streamed, breaks off, is retried from what it said so far, recovers  *)
(* from an overlong context by a compaction, or answers with texts and     *)
(* tool calls that are then run.  Everything the turn tells goes through   *)
(* one queue to the actor, which keeps the cards of the tool calls; the    *)
(* actor is a step of the same action here, as it applies them in order    *)
(* and the turn waits for it only at a checkpoint.                         *)
(*                                                                         *)
(* A text is the attempt that said it and its length; a call is the        *)
(* attempt and the index the provider gave it.  A provider announces an    *)
(* item before its arguments and completes a response with the items it    *)
(* announced: that is the environment's part.                              *)
(***************************************************************************)
EXTENDS Naturals, Sequences, FiniteSets, SequencesExt

CONSTANTS Indexes,      \* output indexes of a response
          MaxRetries,   \* MAX_MODEL_RETRIES
          MaxAttempts,  \* bound: requests of the turn
          MaxDeltas,    \* bound: text deltas of a request
          MaxToolCalls      \* bound: calls of the turn

ASSUME RetriesAssumption == MaxRetries \in Nat \ {0}

VARIABLES turn,   \* TurnExecution and the loop of request_model
          stream, \* the response being read: StreamAccumulator and what is emitted
          ctx,    \* SessionContext: in the turn's memory, and as last saved
          record,    \* the transcript: what was said, and the card of each call
          tools,  \* ActiveTurnState.tools: the calls of the turn still open
          barren  \* requests in a row that failed without a single event

stepVars == <<turn, stream, ctx, record, tools, barren>>

CallKinds == {"local", "todo", "hosted"}
NoCards == [c \in {} |-> "none"]
NoStream == [len |-> 0, items |-> NoCards, sent |-> {}]
Terminal(status) == status \in {"completed", "failed", "cancelled"}

RequestInit ==
  /\ turn = [at |-> "step", retry |-> 0, tries |-> 0, recovered |-> FALSE, stop |-> FALSE,
             end |-> "none", saved |-> TRUE, local |-> {}, calls |-> 0]
  /\ stream = NoStream
  /\ ctx = [mem |-> <<>>, disk |-> <<>>]
  /\ record = [said |-> {}, cards |-> NoCards, todo |-> {}]
  /\ tools = NoCards
  /\ barren = 0

Text(n) == IF n = 0 THEN <<>> ELSE <<[is |-> "text", of |-> <<turn.tries, n>>]>>
Said(n) == IF n = 0 THEN {} ELSE {<<turn.tries, n>>}
CallOf(i) == <<turn.tries, i>>
Set(f, k, v) == [x \in DOMAIN f \union {k} |-> IF x = k THEN v ELSE f[x]]

\* A turn that ends is Finished: the actor drops its state, and with it the open calls.
\* A failure of a cancelled turn counts as its cancellation.
Ends(how, saved) ==
  /\ turn' = [turn EXCEPT !.at = "over", !.saved = saved,
       !.end = IF how = "failed" /\ turn.stop THEN "cancelled" ELSE how]
  /\ tools' = NoCards

\* settle and checkpoint: the actor saves the context, or the save fails.
SaveFails(mem) == ctx' = [ctx EXCEPT !.mem = mem]
Holds(mem) == ctx' = [mem |-> mem, disk |-> mem]

-----------------------------------------------------------------------------
(* What the actor does with the turn's updates. *)

\* project_tool_call: a call once terminal keeps its status.
Project(open, cards, c, status) ==
  LET now == IF c \in DOMAIN open /\ Terminal(open[c]) /\ ~Terminal(status)
               THEN open[c] ELSE status IN
  <<Set(open, c, now), Set(cards, c, now)>>

\* mutant: the open calls of a request that broke stay as they are.
InterruptNone(cards, status) == cards

\* ToolCallsInterrupted takes every open call and ends those that have not ended.
Interrupt(cards, status) ==
  [c \in DOMAIN cards |-> IF c \in DOMAIN tools /\ ~Terminal(tools[c]) THEN status ELSE cards[c]]

\* ToolCompleted closes the card of its call.
CloseCards(cards, ids, status) == [c \in DOMAIN cards \union ids |-> IF c \in ids THEN status ELSE cards[c]]
Minus(open, ids) == [c \in DOMAIN open \ ids |-> open[c]]

-----------------------------------------------------------------------------
(* A step of the turn. *)

\* begin_step and maybe_compact; refreshing the environment, normalizing for the
\* model or compacting may fail.
BeginStep ==
  /\ turn.at = "step"
  /\ IF turn.stop \/ turn.tries = MaxAttempts THEN Ends("cancelled", TRUE) /\ UNCHANGED ctx
     ELSE \/ turn' = [turn EXCEPT !.at = "send", !.retry = 0, !.recovered = FALSE]
             /\ UNCHANGED <<ctx, tools>>
          \/ /\ ctx.mem # <<>>
             /\ turn' = [turn EXCEPT !.at = "send", !.retry = 0, !.recovered = FALSE]
             /\ Holds(<<[is |-> "summary", of |-> ctx.mem]>>)
             /\ UNCHANGED tools
          \/ Ends("failed", TRUE) /\ UNCHANGED ctx
  /\ barren' = 0
  /\ UNCHANGED <<stream, record>>

\* stream_turn: the context is sent as it is in memory.
SendRequest ==
  /\ turn.at = "send"
  /\ turn.tries < MaxAttempts
  /\ turn' = [turn EXCEPT !.at = "stream", !.tries = @ + 1]
  /\ stream' = NoStream
  /\ UNCHANGED <<ctx, record, tools, barren>>

\* The model's configuration refuses the selection, or provider_input the messages.
InputRejected ==
  /\ turn.at = "send"
  /\ Ends("failed", TRUE)
  /\ UNCHANGED <<stream, ctx, record, barren>>

TextDelta ==
  /\ turn.at = "stream"
  /\ stream.len < MaxDeltas
  /\ stream' = [stream EXCEPT !.len = @ + 1]
  /\ UNCHANGED <<turn, ctx, record, tools, barren>>

\* response.output_item.added, and the arguments behind it.
ItemAdded(i, kind) ==
  /\ turn.at = "stream"
  /\ turn.calls < MaxToolCalls
  /\ i \notin DOMAIN stream.items
  /\ turn' = [turn EXCEPT !.calls = @ + 1]
  /\ stream' = [stream EXCEPT !.items = Set(@, i, kind)]
  /\ UNCHANGED <<ctx, record, tools, barren>>

\* The arguments are done, or the item is: whichever is first emits the call.
\* A hosted call has the provider's status.
ItemDone(i, status) ==
  /\ turn.at = "stream"
  /\ i \in DOMAIN stream.items \ stream.sent
  /\ stream.items[i] # "hosted" => status = "pending"
  /\ LET p == Project(tools, record.cards, CallOf(i), status) IN
     /\ tools' = p[1]
     /\ record' = [record EXCEPT !.cards = p[2],
                  !.todo = IF stream.items[i] = "todo" THEN @ \union {CallOf(i)} ELSE @]
  /\ stream' = [stream EXCEPT !.sent = @ \union {i}]
  /\ UNCHANGED <<turn, ctx, barren>>

\* Any event of the stream is progress; a call is an event once it is emitted.
Progressed == stream.len > 0 \/ stream.sent # {}

-----------------------------------------------------------------------------
(* How a request ends. *)

\* What a response adds to the context: its text, and the calls the turn must answer.
ReplyItems(local) == Text(stream.len) \o SetToSeq({[is |-> "call", of |-> c] : c \in local})

\* The response is complete, or the provider said it is done.  apply_reply appends the
\* items to the context, completes the message and replays the hosted calls.
Replies ==
  LET ids == {CallOf(i) : i \in DOMAIN stream.items}
      hosted == {CallOf(i) : i \in {j \in DOMAIN stream.items : stream.items[j] = "hosted"}}
      todo == {CallOf(i) : i \in {j \in DOMAIN stream.items : stream.items[j] = "todo"}}
      local == ids \ hosted
      mem == ctx.mem \o ReplyItems(local) IN
  /\ turn.at = "stream"
  /\ record' = [record EXCEPT !.said = @ \union Said(stream.len),
                        !.cards = CloseCards(@, hosted, "completed")]
  /\ stream' = NoStream
  /\ IF local = {}
       THEN /\ \/ Holds(mem) /\ Ends("completed", TRUE)
               \/ SaveFails(mem) /\ Ends("failed", FALSE)
       ELSE /\ SaveFails(mem)
            /\ turn' = [turn EXCEPT !.at = "batch", !.local = local]
            /\ tools' = [c \in DOMAIN Minus(tools, hosted) \union (local \ todo) |->
                           IF c \in local \ todo THEN "in_progress" ELSE tools[c]]
  /\ barren' = 0

\* The results of a batch, or the notes that stand for them when the turn is cancelled;
\* a todo call has no card.
BatchEnds ==
  LET shown == turn.local \ record.todo
      mem == ctx.mem \o SetToSeq({[is |-> "result", of |-> c] : c \in turn.local}) IN
  /\ turn.at = "batch"
  /\ \E status \in {"completed"} \union (IF turn.stop THEN {"cancelled"} ELSE {}) :
       record' = [record EXCEPT !.cards = CloseCards(@, shown, status)]
  /\ \/ /\ Holds(mem)
        /\ IF turn.stop THEN Ends("cancelled", TRUE)
           ELSE /\ turn' = [turn EXCEPT !.at = "step", !.local = {}]
                /\ tools' = Minus(tools, shown)
     \/ SaveFails(mem) /\ Ends("failed", FALSE)
  /\ UNCHANGED <<stream, barren>>

\* next_retry_attempt
NextRetry == IF Progressed THEN 1 ELSE turn.retry + 1

\* retry_info: a transient error is retried while the count is within the maximum;
\* the delay, with its jitter, is below this grain.
MayRetry(n) == n \in 1 .. MaxRetries

\* The error is the cancellation, or another one that came first.
RequestFailed(status) ==
  /\ status = "cancelled" => turn.stop
  /\ record' = [record EXCEPT !.cards = Interrupt(@, status)]
  /\ Ends("failed", TRUE)
  /\ stream' = NoStream
  /\ UNCHANGED ctx
  /\ barren' = IF Progressed THEN 0 ELSE barren + 1

\* A cancelled request, one the provider rejects, or one that failed once too often.
RequestFails ==
  /\ turn.at = "stream"
  /\ \E status \in {"failed", "cancelled"} : RequestFailed(status)

\* An overlong context is rejected before anything streams; one compaction may help.
RequestOverflows ==
  /\ turn.at = "stream"
  /\ ~Progressed
  /\ IF turn.recovered THEN RequestFailed("failed")
     ELSE \/ RequestFailed("failed")
          \/ /\ ctx.mem # <<>>
             /\ record' = [record EXCEPT !.cards = Interrupt(@, "failed")]
             /\ tools' = NoCards
             /\ stream' = NoStream
             /\ Holds(<<[is |-> "summary", of |-> ctx.mem]>>)
             /\ turn' = [turn EXCEPT !.at = "send", !.retry = 0, !.recovered = TRUE]
             /\ barren' = 0

\* A transient failure: what was said is a message of its own and part of the context,
\* saved before the wait.
RequestBreaks ==
  /\ turn.at = "stream"
  /\ MayRetry(NextRetry)
  /\ LET mem == ctx.mem \o Text(stream.len) IN
     /\ record' = [record EXCEPT !.cards = Interrupt(@, "failed"), !.said = @ \union Said(stream.len)]
     /\ \/ /\ Holds(mem)
           /\ turn' = [turn EXCEPT !.at = "wait", !.retry = NextRetry]
           /\ tools' = NoCards
        \/ SaveFails(mem) /\ Ends("failed", FALSE)
  /\ stream' = NoStream
  /\ barren' = IF Progressed THEN 0 ELSE barren + 1

\* wait_before_retry ends with the delay or the cancellation.
WaitEnds ==
  /\ turn.at = "wait"
  /\ IF turn.stop \/ turn.tries = MaxAttempts THEN Ends("cancelled", TRUE)
     ELSE turn' = [turn EXCEPT !.at = "send"] /\ UNCHANGED tools
  /\ UNCHANGED <<stream, ctx, record, barren>>

CancelArrives ==
  /\ turn.at # "over"
  /\ ~turn.stop
  /\ turn' = [turn EXCEPT !.stop = TRUE]
  /\ UNCHANGED <<stream, ctx, record, tools, barren>>

RequestNext ==
  \/ BeginStep \/ SendRequest \/ InputRejected \/ TextDelta
  \/ \E i \in Indexes : (\E k \in CallKinds : ItemAdded(i, k))
                     \/ (\E s \in {"pending", "completed"} : ItemDone(i, s))
  \/ Replies \/ BatchEnds \/ RequestFails \/ RequestOverflows \/ RequestBreaks
  \/ WaitEnds \/ CancelArrives

RequestSpec == RequestInit /\ [][RequestNext]_stepVars

-----------------------------------------------------------------------------
(* Properties. *)

RECURSIVE Knows(_, _)
Knows(seq, t) == \E i \in 1 .. Len(seq) :
  \/ seq[i].is = "text" /\ seq[i].of = t
  \/ seq[i].is = "summary" /\ Knows(seq[i].of, t)

\* When a turn is over, whatever broke, was retried or was cancelled, no call it showed
\* is still shown as open: but the calls to the todo tool.
CallsSettle ==
  turn.at = "over" => \A c \in DOMAIN record.cards \ record.todo : Terminal(record.cards[c])

\* What the transcript holds of the model's words is what the saved context knows, once
\* or in a summary, unless a checkpoint of this turn failed.
SaidIsKnown ==
  turn.at = "over" /\ turn.saved => \A t \in record.said : Knows(ctx.disk, t)

\* A request is only sent with a context in which every call has its result.
RequestsAreClosed ==
  turn.at = "stream" => \A i \in 1 .. Len(ctx.mem) : ctx.mem[i].is = "call" =>
    \E j \in i .. Len(ctx.mem) : ctx.mem[j] = [is |-> "result", of |-> ctx.mem[i].of]

\* Requests that fail without an event are given up after MaxRetries of them are retried.
BarrenIsBounded == barren <= MaxRetries + 1

ModelHolds == CallsSettle /\ SaidIsKnown /\ RequestsAreClosed /\ BarrenIsBounded
=============================================================================
