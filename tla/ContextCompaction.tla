-------------------------- MODULE ContextCompaction --------------------------
(***************************************************************************)
(* The context the model is sent, over turns, compactions, changes of the  *)
(* model, of the workspace and of the environment: ContextManager with the *)
(* CompactionPlanner, and the turn and the actor as they call them.  The   *)
(* history is item-first: a reasoning item, a text, a call and a result    *)
(* are messages of their own.  The system prompt is not in `msgs`: it is   *)
(* always there and always first, and `prompt` is the environment it has.  *)
(*                                                                         *)
(* A message is a record of its kind, its number in the order in which     *)
(* messages were appended and the tokens of its content.  The tokens of    *)
(* the tool schemas are a constant left out of every estimate.             *)
(***************************************************************************)
EXTENDS Naturals, Sequences, FiniteSets, FiniteSetsExt, SequencesExt

CONSTANTS Reserve,      \* recent_context_tokens
          UserBudget,   \* recent_user_tokens
          Trigger,      \* compact_trigger_tokens
          TextOwners,   \* providers whose model takes no images
          ImageOwners,  \* providers whose model takes images
          Thinking,     \* providers whose responses begin with a reasoning item
          Counting,     \* providers that report the tokens of a response
          AskSizes,     \* tokens of a prompt's content
          MaxMessages,  \* bound: messages of the session
          MaxEnvironments,  \* bound: environments seen
          MaxSwitches   \* bound: changes of the model and of the workspace

ASSUME BudgetsAssumption == Reserve \in Nat /\ UserBudget \in Nat /\ Trigger \in Nat

VARIABLES mem,     \* the context in work: of the turn, or of the actor when idle
          disk,    \* the context of the stored record
          step,    \* where the turn stands, its provider and its open calls
          world    \* the environment, the selected provider, what was counted so far

contextVars == <<mem, disk, step, world>>

MessageOverhead == 1
BlockOverhead == 1
Providers == TextOwners \union ImageOwners

Weight(m) == MessageOverhead + m.size
RealUser(m) == m.kind = "user"
CutPoint(m) == m.kind \in {"reasoning", "text", "call"}
ContextMessage(kind, n, size) == [kind |-> kind, n |-> n, size |-> size, call |-> 0, owner |-> "none",
                           image |-> FALSE, env |-> 0, covers |-> {}]
Tokens(ms) == MapThenSumSet(LAMBDA i : Weight(ms[i]), DOMAIN ms)

\* SessionUsage: what the provider counted at the last response, the estimate then, and
\* (for the properties) how many messages that was.
NoUsage == [total |-> 0, base |-> 0, upto |-> 0]

ContextInit ==
  /\ mem = [msgs |-> <<>>, usage |-> NoUsage, owner |-> "none", prompt |-> 1, baseline |-> 1, moved |-> FALSE]
  /\ disk = mem
  /\ step = [at |-> "idle", owner |-> "none", calls |-> {}, recovered |-> FALSE]
  /\ world = [env |-> 1, owner |-> CHOOSE o \in ImageOwners : TRUE, next |-> 1, switches |-> 0]

Estimate(ctx) == Tokens(ctx.msgs)

\* refresh_usage
CurrentTokens(ctx) ==
  IF ctx.usage.total = 0 THEN Estimate(ctx)
  ELSE IF Estimate(ctx) >= ctx.usage.base THEN ctx.usage.total + (Estimate(ctx) - ctx.usage.base)
  ELSE LET less == ctx.usage.base - Estimate(ctx) IN
       IF less >= ctx.usage.total THEN 0 ELSE ctx.usage.total - less

Appended(ctx, ms) == [ctx EXCEPT !.msgs = @ \o ms]

\* Whatever rewrites the messages drops the provider's count of them.
Rewritten(ctx, ms) == [ctx EXCEPT !.msgs = ms, !.usage = NoUsage]

-----------------------------------------------------------------------------
(* CompactionPlanner *)

Suffix(ms, i) == Tokens(SubSeq(ms, i, Len(ms)))
UsersUpTo(ms, i) == {j \in 1 .. i : RealUser(ms[j])}
LastOf(S) == IF S = {} THEN 0 ELSE Max(S)

\* find_reserve_cut: the first place whose rest fits, with the question of a turn it splits.
ReserveCut(ms, budget) ==
  LET user(i) == LastOf(UsersUpTo(ms, i))
      fits(i) == \/ RealUser(ms[i]) /\ Suffix(ms, i) <= budget
                 \/ /\ CutPoint(ms[i]) /\ user(i) # 0
                    /\ Suffix(ms, i) + Weight(ms[user(i)]) <= budget
      places == {i \in DOMAIN ms : fits(i)}
      last == user(Len(ms)) IN
  IF Tokens(ms) <= budget THEN [index |-> 1, split |-> 0]
  ELSE IF places # {}
    THEN [index |-> Min(places), split |-> IF RealUser(ms[Min(places)]) THEN 0 ELSE user(Min(places))]
  ELSE IF last = 0 THEN [index |-> Len(ms) + 1, split |-> 0]
  ELSE IF last = Len(ms) THEN [index |-> last, split |-> 0]
  ELSE [index |-> Len(ms) + 1, split |-> last]

\* align_cut_to_tool_calls moves the cut back to the last place no exchange lies across.
Across(ms, cut) == \E i \in 1 .. cut - 1, j \in cut .. Len(ms) :
  ms[i].kind = "call" /\ ms[j].kind = "result" /\ ms[i].call = ms[j].call
\* mutant: the cut falls between a call and its result.
CutWhereItFits(ms, cut) == cut

AlignedCut(ms, cut) == Max({c \in 1 .. cut : ~Across(ms, c)})

\* compact_tool_exchanges: calls and results without the other go, the output of a terminal
\* is left out.
Exchanges(ms) ==
  LET of(kind) == {ms[i].call : i \in {j \in DOMAIN ms : ms[j].kind = kind}}
      paired(m) == m.kind \in {"call", "result"} => m.call \in of("call") \intersect of("result")
      short(m) == IF m.kind = "result" THEN [m EXCEPT !.size = 1] ELSE m
      kept == SelectSeq(ms, paired) IN
  [i \in DOMAIN kept |-> short(kept[i])]

UserTokens(ms) == MapThenSumSet(LAMBDA i : ms[i].size, UsersUpTo(ms, Len(ms)))

\* select_recent_users: the newest users the budget holds, the last one of them cut short.
RecentUsers(ms, budget, split) ==
  LET users == UsersUpTo(ms, Len(ms)) \ {split}
      left(i) == LET newer == MapThenSumSet(LAMBDA j : ms[j].size, {j \in users : j > i})
                 IN IF newer >= budget THEN 0 ELSE budget - newer
      capped(i) == IF ms[i].size <= left(i) THEN ms[i] ELSE [ms[i] EXCEPT !.size = left(i)]
      kept == {i \in users : left(i) >= ms[i].size \/ (left(i) > BlockOverhead /\ ~ms[i].image)}
      order == SetToSortSeq({i \in kept : left(i) > 0}, <) IN
  [i \in DOMAIN order |-> capped(order[i])]

\* CompactionPlanner::build: the history before the cut is to be summarised, the reserve
\* from the cut on is kept, with the question of a turn it splits in front.
Less(n, m) == IF m >= n THEN 0 ELSE n - m
Planned(history, split, raw, reserve) ==
  [view |-> history, reserve |-> reserve, filtered |-> reserve # raw,
   front |-> RecentUsers(history, Less(UserBudget, UserTokens(reserve)), split)]
PlanAt(ms, index, split) ==
  LET raw == (IF split = 0 THEN <<>> ELSE <<ms[split]>>) \o SubSeq(ms, index, Len(ms)) IN
  Planned(SubSeq(ms, 1, index - 1), split, raw, Exchanges(raw))
PlanOf(ms, budget) ==
  LET cut == ReserveCut(ms, budget)
      index == AlignedCut(ms, cut.index) IN
  PlanAt(ms, index, IF cut.split >= index THEN 0 ELSE cut.split)

\* CompactionPlanner::build_recovery
RecoveryPlan(ms) ==
  LET plan == PlanOf(ms, Reserve)
      last == LastOf(UsersUpTo(ms, Len(ms)))
      latest == IF last = 0 THEN 0 ELSE Suffix(ms, last)
      half == Tokens(ms) \div 2 IN
  IF plan.view # <<>> \/ ms = <<>> THEN plan
  ELSE PlanOf(ms, IF half >= latest THEN half ELSE latest)

NeedsReplacement(plan) == plan.view # <<>> \/ plan.filtered

\* What a summary stands for: the messages of the view, and what their summaries stood for.
Covered(ms) == {ms[i].n : i \in DOMAIN ms} \union UNION {ms[i].covers : i \in DOMAIN ms}
SummaryOf(ms) == [ContextMessage("summary", 0, 1) EXCEPT !.covers = Covered(ms) \ {0}]

\* apply_compaction: the prompt is rebuilt from the environment as it is now.  `moved` is for
\* the properties: a note of the reserve now follows a prompt that is newer.
Compacted(ctx, plan) ==
  LET ms == plan.front \o (IF plan.view = <<>> THEN <<>> ELSE <<SummaryOf(plan.view)>>) \o plan.reserve
      notes == {i \in DOMAIN ms : ms[i].kind = "note"} IN
  [Rewritten(ctx, ms) EXCEPT !.prompt = world.env, !.baseline = world.env,
     !.moved = notes # {} /\ (ctx.moved \/ world.env # ctx.baseline)]

\* normalize_for_selection: another provider's model gets no reasoning of this one's, and
\* one without image input no images.
Normalized(ctx, owner) ==
  LET stays(m) == /\ m.owner # "none" => ctx.owner \in {owner, "none"}
                  /\ m.image => owner \in ImageOwners
      ms == SelectSeq(ctx.msgs, stays) IN
  IF ctx.owner = owner /\ ms = ctx.msgs THEN ctx
  ELSE [Rewritten(ctx, ms) EXCEPT !.owner = owner]

-----------------------------------------------------------------------------
(* The turn. *)

TokenRoom(n) == world.next + n <= MaxMessages + 1
Counted(n) == world' = [world EXCEPT !.next = @ + n]

\* The prompt that starts a turn is saved before the turn runs.
PromptStarts(kind, size) ==
  /\ step.at = "idle" /\ TokenRoom(1)
  /\ LET next == Appended(mem, <<ContextMessage(kind, world.next, size)>>) IN mem' = next /\ disk' = next
  /\ step' = [step EXCEPT !.at = "step", !.recovered = FALSE]
  /\ Counted(1)

\* begin_step: the environment is scanned and what changed is noted; then the context is
\* made fit for the selected model, and saved when that changed it.
ScanStep ==
  /\ step.at = "step" /\ TokenRoom(1)
  /\ LET noted == IF world.env = mem.baseline THEN mem
           ELSE [Appended(mem, <<[ContextMessage("note", world.next, 1) EXCEPT !.env = world.env]>>)
                   EXCEPT !.baseline = world.env, !.moved = FALSE]
         fit == Normalized(noted, world.owner) IN
     /\ mem' = fit
     /\ disk' = IF fit = noted THEN disk ELSE fit
     /\ world' = [world EXCEPT !.next = IF noted = mem THEN @ ELSE @ + 1]
  /\ step' = [step EXCEPT !.at = "due", !.owner = world.owner, !.recovered = FALSE]

CompactionDue == Trigger > 0 /\ CurrentTokens(mem) >= Trigger

\* Compaction in a turn checkpoints also when there was nothing to replace.
CompactInTurn(plan) ==
  LET next == IF NeedsReplacement(plan) THEN Compacted(mem, plan) ELSE mem IN
  mem' = next /\ disk' = next

MaybeCompactContext ==
  /\ step.at = "due"
  /\ IF CompactionDue THEN CompactInTurn(PlanOf(mem.msgs, Reserve)) ELSE UNCHANGED <<mem, disk>>
  /\ step' = [step EXCEPT !.at = "send"]
  /\ UNCHANGED world

\* A context the provider calls too long is compacted once for the request.
RecoverContext ==
  /\ step.at = "send" /\ ~step.recovered
  /\ NeedsReplacement(RecoveryPlan(mem.msgs))
  /\ CompactInTurn(RecoveryPlan(mem.msgs))
  /\ step' = [step EXCEPT !.recovered = TRUE]
  /\ UNCHANGED world

\* A request breaks off: what it said is kept, and what the user said meanwhile.
RequestInterrupted(steers) ==
  /\ step.at = "send" /\ TokenRoom(1 + steers)
  /\ LET ms == <<ContextMessage("text", world.next, 1)>>
                 \o [i \in 1 .. steers |-> ContextMessage("user", world.next + i, 2)]
         next == Appended(mem, ms) IN mem' = next /\ disk' = next
  /\ Counted(1 + steers)
  /\ UNCHANGED step

\* append_response_items and record_model_usage: the items of the response in their order,
\* counted by the provider or not.
ResponseOf(calls) ==
  LET first == IF step.owner \in Thinking THEN <<[ContextMessage("reasoning", world.next, 1) EXCEPT !.owner = step.owner]>> ELSE <<>>
      base == world.next + Len(first) IN
  first \o IF calls = 0 THEN <<ContextMessage("text", base, 1)>>
           ELSE [i \in 1 .. calls |-> [ContextMessage("call", base + i - 1, 1) EXCEPT !.call = base + i - 1]]

Answered(calls) ==
  LET next == Appended(mem, ResponseOf(calls)) IN
  [next EXCEPT !.usage = IF step.owner \in Counting
     THEN [total |-> Estimate(next) + 1, base |-> Estimate(next), upto |-> Len(next.msgs)] ELSE NoUsage]

\* A reply without calls takes the steering messages in and is saved; with one of the user's
\* the turn goes on.
ReplyOnly(steers) ==
  /\ step.at = "send" /\ TokenRoom(2 + steers)
  /\ LET said == Answered(0)
         next == Appended(said, [i \in 1 .. steers |-> ContextMessage("user", world.next + 1 + i, 2)]) IN
     mem' = next /\ disk' = next
  /\ step' = [step EXCEPT !.at = IF steers = 0 THEN "idle" ELSE "step"]
  /\ Counted(2 + steers)

ReplyCalls(calls) ==
  /\ step.at = "send" /\ TokenRoom(1 + 2 * calls)
  /\ mem' = Answered(calls)
  /\ step' = [step EXCEPT !.at = "batch",
       !.calls = {mem'.msgs[i].call : i \in {j \in DOMAIN mem'.msgs : mem'.msgs[j].n >= world.next}} \ {0}]
  /\ Counted(1 + calls)
  /\ UNCHANGED disk

\* append_tool_batch: the results in the order of the calls, then the images they add as
\* messages of the user, then the steering messages.
BatchDone(size, image, steers) ==
  /\ step.at = "batch"
  /\ LET calls == SetToSortSeq(step.calls, <)
         n == Len(calls)
         shows == IF image THEN 1 ELSE 0 IN
     /\ TokenRoom(n + shows + steers)
     /\ image => step.owner \in ImageOwners
     /\ LET next == Appended(mem,
              [i \in 1 .. n |-> [ContextMessage("result", world.next + i - 1, size) EXCEPT !.call = calls[i]]]
              \o [i \in 1 .. shows |-> [ContextMessage("user", world.next + n, 2) EXCEPT !.image = TRUE]]
              \o [i \in 1 .. steers |-> ContextMessage("user", world.next + n + shows + i - 1, 2)]) IN
        mem' = next /\ disk' = next
     /\ Counted(n + shows + steers)
  /\ step' = [step EXCEPT !.at = "step", !.calls = {}]

\* A turn that fails, is cancelled or cannot compact leaves what was saved last.
TurnGivesUp ==
  /\ step.at \in {"step", "due", "send", "batch"}
  /\ mem' = disk
  /\ step' = [step EXCEPT !.at = "idle", !.calls = {}]
  /\ UNCHANGED <<disk, world>>

-----------------------------------------------------------------------------
(* Between turns, and beside them. *)

\* Manual compaction fits the context to the selected model and saves it, and saves again
\* what it made of it, when it is not cancelled and there was something to replace.
CompactIdle ==
  /\ step.at = "idle"
  /\ LET fit == Normalized(mem, world.owner)
         plan == PlanOf(fit.msgs, Reserve) IN
     \/ mem' = fit /\ disk' = fit
     \/ /\ NeedsReplacement(plan)
        /\ mem' = Compacted(fit, plan) /\ disk' = mem'
  /\ UNCHANGED <<step, world>>

\* A change of the model fits the stored context to it; a turn that runs keeps its own and
\* writes it over the stored one with its next checkpoint.
SelectModel(owner) ==
  /\ world.switches < MaxSwitches /\ owner # world.owner
  /\ LET fit == Normalized(disk, owner) IN
     /\ disk' = fit
     /\ mem' = IF step.at = "idle" THEN fit ELSE mem
     /\ world' = [world EXCEPT !.owner = owner, !.switches = @ + 1]
  /\ UNCHANGED step

\* set_workspace: the prompt is the new directory's, and a note says so.
WorkspaceMoves ==
  /\ step.at = "idle" /\ TokenRoom(1)
  /\ world.switches < MaxSwitches /\ world.env < MaxEnvironments
  /\ LET env == world.env + 1
         notes == {i \in DOMAIN mem.msgs : mem.msgs[i].kind = "note"}
         next == [Appended(Rewritten(mem, mem.msgs), <<ContextMessage("runtime", world.next, 1)>>)
                    EXCEPT !.prompt = env, !.baseline = env, !.moved = notes # {}] IN
     mem' = next /\ disk' = next
  /\ world' = [world EXCEPT !.env = @ + 1, !.switches = @ + 1, !.next = @ + 1]
  /\ UNCHANGED step

\* The profile, the rules, the skills or the channels change.
EnvironmentChanges ==
  /\ world.env < MaxEnvironments
  /\ world' = [world EXCEPT !.env = @ + 1]
  /\ UNCHANGED <<mem, disk, step>>

ContextNext ==
  \/ \E kind \in {"user", "runtime"}, size \in AskSizes : PromptStarts(kind, size)
  \/ ScanStep \/ MaybeCompactContext \/ RecoverContext \/ TurnGivesUp
  \/ \E steers \in {0, 1} :
       \/ RequestInterrupted(steers)
       \/ ReplyOnly(steers)
       \/ \E size \in {1, 3}, image \in BOOLEAN : BatchDone(size, image, steers)
  \/ \E calls \in {1, 2} : ReplyCalls(calls)
  \/ CompactIdle \/ WorkspaceMoves \/ EnvironmentChanges
  \/ \E owner \in Providers : SelectModel(owner)

ContextSpec == ContextInit /\ [][ContextNext]_contextVars
-----------------------------------------------------------------------------
(* Properties. *)

\* A request carries every call with its one result behind it, and no result alone.
CallsArePaired ==
  step.at = "send" => \A i \in DOMAIN mem.msgs :
    /\ mem.msgs[i].kind = "call" => Cardinality({j \in i .. Len(mem.msgs) :
         mem.msgs[j].kind = "result" /\ mem.msgs[j].call = mem.msgs[i].call}) = 1
    /\ mem.msgs[i].kind = "result" => \E j \in 1 .. i :
         mem.msgs[j].kind = "call" /\ mem.msgs[j].call = mem.msgs[i].call

\* A request carries the reasoning of the provider it goes to and of no other, and images
\* only for a model that takes them.
RequestIsFit ==
  step.at = "send" => \A i \in DOMAIN mem.msgs :
    /\ mem.msgs[i].owner \in {"none", step.owner}
    /\ mem.msgs[i].image => step.owner \in ImageOwners

\* However often the context is compacted, no message of the user is in it twice or out of
\* its order, and those kept in front of the summary stay within their budget.
UsersAreKeptOnce ==
  LET users == {i \in DOMAIN mem.msgs : RealUser(mem.msgs[i])}
      folds == {i \in DOMAIN mem.msgs : mem.msgs[i].kind = "summary"} IN
  /\ \A i, j \in users : i < j => mem.msgs[i].n < mem.msgs[j].n
  /\ folds # {} => UserTokens(SubSeq(mem.msgs, 1, Min(folds))) <= UserBudget

\* The provider's count of the context is used only while every message it counted is there.
CountStands ==
  mem.usage.total > 0 => /\ mem.usage.upto <= Len(mem.msgs)
                         /\ Tokens(SubSeq(mem.msgs, 1, mem.usage.upto)) = mem.usage.base

\* The last the model reads of its environment is what the watcher takes it to know: but
\* where a prompt was rebuilt for an environment the notes behind it are older than.
EnvironmentIsTold ==
  LET notes == {i \in DOMAIN mem.msgs : mem.msgs[i].kind = "note"} IN
  mem.moved \/ mem.baseline = IF notes = {} THEN mem.prompt ELSE mem.msgs[Max(notes)].env

ContextHolds ==
  CallsArePaired /\ RequestIsFit /\ UsersAreKeptOnce /\ CountStands /\ EnvironmentIsTold

\* No step makes the model forget what it was asked last: the newest message of the user
\* stays whole.  An image goes when the model takes none.
LastAskStays ==
  [][LET last == LastOf(UsersUpTo(mem.msgs, Len(mem.msgs))) IN
     last # 0 /\ ~mem.msgs[last].image => \E i \in DOMAIN mem'.msgs : mem'.msgs[i] = mem.msgs[last]
    ]_contextVars

\* What the stored context held it still holds, or a summary was made of it: only reasoning
\* and images a new model cannot take are dropped.
NothingForgotten ==
  [][/\ \A i \in DOMAIN disk.msgs : \/ disk.msgs[i].n \in Covered(disk'.msgs)
                                    \/ disk.msgs[i].kind = "reasoning" \/ disk.msgs[i].image
     /\ UNION {disk.msgs[i].covers : i \in DOMAIN disk.msgs} \subseteq Covered(disk'.msgs)
    ]_contextVars

\* However a context is compacted, trimmed, repaired and reloaded, what is sent of it is
\* well formed and nothing the model was asked or told is lost.
ContextIsKept == []ContextHolds /\ LastAskStays /\ NothingForgotten
=============================================================================
