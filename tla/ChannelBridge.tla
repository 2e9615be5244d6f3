--------------------------- MODULE ChannelBridge ---------------------------
(* One conversation of a message channel (Weixin, Telegram, Feishu or QQ): the *)
(* bridge that keeps the selected session and the task observing it, the      *)
(* adapter that receives messages and button presses, the permission buttons, *)
(* and the selection the channel saves. The sessions behind the host are      *)
(* reduced to turns that may ask for a permission and end.                    *)
EXTENDS Integers, Sequences, FiniteSets, SequencesExt

CONSTANTS
  Chats,        (* sessions the conversation may select                        *)
  Adapters,     (* kinds of channel, of "weixin", "telegram", "feishu", "qq"   *)
  MaxInputs,    (* messages received                                           *)
  MaxChatTurns, (* turns run                                                   *)
  MaxCards,     (* turns that ask for a permission                             *)
  ReplayTurns,  (* turns a selection replays, 0 .. 10 in a profile             *)
  MaxBreaks     (* failing calls, lost feeds, deletions, restarts              *)

ASSUME ReplayAssumption == ReplayTurns \in Nat
ASSUME AdaptersAssumption == Adapters \subseteq {"weixin", "telegram", "feishu", "qq"}

VARIABLES
  line,     (* the channel: its kind, whether it runs, the selection in memory *)
            (* and in the file, the cards Feishu remembers, and those on their *)
            (* way to the platform                                             *)
  chats,    (* each session: whether it exists, its turn, its pending request  *)
  watch,    (* the observer: its session, whether its subscription is open,    *)
            (* what it has still to read, the card it is sending               *)
  buttons,  (* PermissionActionStore                                           *)
  shown,    (* the buttons on the user's screen                                *)
  handler,  (* the message being handled                                       *)
  press,    (* the button press being handled                                  *)
  diary     (* bounds, and what the properties remember                        *)

bridgeVars == <<line, chats, watch, buttons, shown, handler, press, diary>>

Nowhere == "nowhere"
ASSUME ChatsAssumption == Nowhere \notin Chats
NoHandler == [pc |-> "idle", what |-> Nowhere, s |-> Nowhere]
NoPress == [pc |-> "idle", turn |-> 0, s |-> Nowhere]
NoWatch == [on |-> Nowhere, open |-> FALSE, feed |-> <<>>, card |-> 0]

BridgeInit ==
  /\ line \in [kind : Adapters, up : {TRUE}, selected : {Nowhere}, saved : {Nowhere},
               cards : {{}}, flying : {{}}]
  /\ chats = [s \in Chats |-> [made |-> FALSE, turn |-> 0, ask |-> FALSE]]
  /\ watch = NoWatch
  /\ buttons = {} /\ shown = {}
  /\ handler = NoHandler /\ press = NoPress
  /\ diary = [inputs |-> 0, turns |-> 0, breaks |-> 0, told |-> Nowhere, unsaved |-> FALSE,
              owed |-> {}, ended |-> {}, seen |-> {}, lost |-> {}, used |-> Nowhere,
              pressed |-> {}, void |-> {}, twice |-> FALSE, asked |-> {}, of |-> <<>>]

Break == diary.breaks < MaxBreaks
Broken == [diary EXCEPT !.breaks = @ + 1]
At(pc) == handler.pc = pc
Step(pc) == handler' = [handler EXCEPT !.pc = pc]
Done == handler' = NoHandler
Existing(s) == s \in Chats /\ chats[s].made
Feishu == line.kind = "feishu"

Watching(s) == [NoWatch EXCEPT !.on = s, !.open = TRUE]
Watched(s) == watch.on = s /\ watch.open

(* an event of session s reaches the observer, when it watches s *)
Told(s, kind, t) ==
  IF ~Watched(s) THEN watch
  ELSE [watch EXCEPT !.feed = Append(@, [kind |-> kind, turn |-> t])]
(* a turn nobody watches any more owes its user nothing *)
Excused(s) == {t \in diary.owed : diary.of[t] # s}
(* one that ended before the subscription closed is still read *)
Unheard(s) == {t \in diary.owed : diary.of[t] # s \/ t \in diary.ended}

-----------------------------------------------------------------------------
(* the sessions behind the host *)

OpenTurn(s) ==
  /\ Existing(s) /\ chats[s].turn = 0 /\ diary.turns < MaxChatTurns
  /\ chats' = [chats EXCEPT ![s].turn = diary.turns + 1]

ChatTurnElsewhere(s) ==
  /\ OpenTurn(s)
  /\ diary' = [diary EXCEPT !.turns = @ + 1, !.of = Append(@, s)]
  /\ UNCHANGED <<line, watch, buttons, shown, handler, press>>

(* one request of a turn, at most *)
ChatAsks(s) ==
  /\ chats[s].turn # 0 /\ ~chats[s].ask /\ chats[s].turn \notin diary.asked
  /\ Cardinality(diary.asked) < MaxCards
  /\ chats' = [chats EXCEPT ![s].ask = TRUE]
  /\ watch' = Told(s, "ask", chats[s].turn)
  /\ diary' = [diary EXCEPT !.asked = @ \cup {chats[s].turn}]
  /\ UNCHANGED <<line, buttons, shown, handler, press>>

Decide(s) == chats' = [chats EXCEPT ![s].ask = FALSE]

ChatDecidedElsewhere(s) ==
  /\ chats[s].ask /\ Decide(s)
  /\ UNCHANGED <<line, watch, buttons, shown, handler, press, diary>>

ChatEnds(s) ==
  /\ chats[s].turn # 0
  /\ chats' = [chats EXCEPT ![s].turn = 0, ![s].ask = FALSE]
  /\ watch' = Told(s, "end", chats[s].turn)
  /\ diary' = [diary EXCEPT !.ended = @ \cup {chats[s].turn}]
  /\ UNCHANGED <<line, buttons, shown, handler, press>>

(* the subscription closes: the observer reads what is in it, and ends then *)
Closed(s) == IF watch.on = s THEN [watch EXCEPT !.open = FALSE] ELSE watch
Unsubmitted(s) ==
  IF At("submit") /\ handler.s = s THEN [handler EXCEPT !.pc = "excused"] ELSE handler
Closing(s) ==
  [Broken EXCEPT !.owed = Unheard(s), !.used = IF @ = s THEN Nowhere ELSE @]

(* the observer lags *)
FeedCloses ==
  /\ Break /\ watch.open
  /\ watch' = Closed(watch.on) /\ handler' = Unsubmitted(watch.on)
  /\ diary' = Closing(watch.on)
  /\ UNCHANGED <<line, chats, buttons, shown, press>>

DeleteChat(s) ==
  /\ Break /\ Existing(s)
  /\ chats' = [chats EXCEPT ![s] = [made |-> FALSE, turn |-> 0, ask |-> FALSE]]
  /\ watch' = Closed(s) /\ handler' = Unsubmitted(s)
  /\ diary' = Closing(s)
  /\ UNCHANGED <<line, buttons, shown, press>>

-----------------------------------------------------------------------------
(* the bridge *)

(* ensure_observer: kept when it is of the session and has not ended, though   *)
(* its subscription may have closed, else aborted and replaced                 *)
Observe(s) == watch' = IF watch.on = s THEN watch ELSE Watching(s)
StopWatching ==
  [diary EXCEPT !.owed = IF watch.on = Nowhere THEN @ ELSE Excused(watch.on), !.used = Nowhere]

(* a message reaches the handler; Feishu handles messages and presses in turn *)
Receive(what) ==
  /\ line.up /\ At("idle") /\ diary.inputs < MaxInputs
  /\ Feishu => press.pc = "idle"
  /\ handler' = [NoHandler EXCEPT !.pc = "route", !.what = what]
  /\ diary' = [diary EXCEPT !.inputs = @ + 1]

ReceiveMessage ==
  /\ \E what \in {"prompt", "new", "cancel", "resume", "allow"} \cup Chats : Receive(what)
  /\ UNCHANGED <<line, chats, watch, buttons, shown, press>>

Selected == line.selected

(* ensure_prompt_session, and the session /new creates *)
MakeSession ==
  /\ At("route")
  /\ handler.what = "new" \/ (handler.what = "prompt" /\ Selected = Nowhere)
  /\ \E s \in Chats :
       /\ ~chats[s].made /\ s \notin {Selected, line.saved}
       /\ \A t \in DOMAIN diary.of : diary.of[t] # s
       /\ chats' = [chats EXCEPT ![s].made = TRUE]
       /\ handler' = [handler EXCEPT !.pc = "select", !.s = s]
  /\ UNCHANGED <<line, watch, buttons, shown, press, diary>>

PromptSelected ==
  /\ At("route") /\ handler.what = "prompt" /\ Selected # Nowhere
  /\ handler' = [handler EXCEPT !.pc = "ready", !.s = Selected]
  /\ UNCHANGED <<line, chats, watch, buttons, shown, press, diary>>

(* the reference of /use: a full id is taken as it is, a number may be of a    *)
(* session deleted since, a short id names one there is                        *)
UseChat ==
  /\ At("route") /\ handler.what \in Chats
  /\ \/ handler' = [handler EXCEPT !.pc = "select", !.s = handler.what]
     \/ ~Existing(handler.what) /\ Done
  /\ UNCHANGED <<line, chats, watch, buttons, shown, press, diary>>

(* set_selected_session: the bridge and the adapter's state, then the file *)
SelectChat ==
  /\ At("select")
  /\ line' = [line EXCEPT !.selected = handler.s]
  /\ Step("save")
  /\ diary' = [diary EXCEPT !.told = IF @ = handler.s THEN @ ELSE Nowhere]
  /\ UNCHANGED <<chats, watch, buttons, shown, press>>

SaveState ==
  /\ At("save")
  /\ line' = [line EXCEPT !.saved = handler.s]
  /\ Step("observe")
  /\ UNCHANGED <<chats, watch, buttons, shown, press, diary>>

SaveStateFails ==
  /\ At("save") /\ Break
  /\ diary' = [Broken EXCEPT !.unsaved = TRUE]
  /\ Done
  /\ UNCHANGED <<line, chats, watch, buttons, shown, press>>

ObserveSelected ==
  /\ At("observe")
  /\ IF Existing(handler.s)
     THEN /\ Observe(handler.s)
          /\ Step(IF handler.what = "prompt" THEN "ready" ELSE "replay")
          /\ diary' = IF watch.on = handler.s THEN diary ELSE StopWatching
     ELSE /\ watch' = NoWatch /\ Done /\ diary' = StopWatching
  /\ UNCHANGED <<line, chats, buttons, shown, press>>

(* the reply of /new and /use; the second replays the last turns of a new      *)
(* snapshot, the running one among them                                        *)
Later(t) == {u \in DOMAIN diary.of : u > t /\ diary.of[u] = diary.of[t]}
Replayed(s) ==
  {t \in diary.ended : diary.of[t] = s /\ Cardinality(Later(t)) < ReplayTurns}
ReplySelected ==
  /\ At("replay") /\ Done
  /\ \/ handler.what = "new" /\ diary' = [diary EXCEPT !.told = handler.s]
     \/ /\ handler.what # "new" /\ Existing(handler.s)
        /\ diary' = [diary EXCEPT
             !.told = handler.s,
             !.used = IF Watched(handler.s) THEN handler.s ELSE @,
             !.seen = @ \cup Replayed(handler.s)]
     \/ handler.what # "new" /\ ~Existing(handler.s) /\ UNCHANGED diary
     \/ Break /\ diary' = Broken
  /\ UNCHANGED <<line, chats, watch, buttons, shown, press>>

\* mutant: the prompt is submitted without an observer.
SubmitUnobserved ==
  /\ At("ready")
  /\ IF Existing(Selected) THEN handler' = [handler EXCEPT !.pc = "submit", !.s = Selected] ELSE Done
  /\ UNCHANGED <<line, chats, watch, buttons, shown, press, diary>>

(* submit_prompt: the selection is read again, the observer comes first *)
SubmitObserve ==
  /\ At("ready")
  /\ IF Existing(Selected)
     THEN /\ Observe(Selected)
          /\ handler' = [handler EXCEPT !.s = Selected,
               !.pc = IF watch.on = Selected /\ ~watch.open THEN "excused" ELSE "submit"]
          /\ diary' = IF watch.on = Selected THEN diary ELSE StopWatching
     ELSE /\ watch' = NoWatch /\ Done /\ diary' = StopWatching
  /\ UNCHANGED <<line, chats, buttons, shown, press>>

(* the host takes the prompt: a turn of its own, or a steer of the running one *)
SubmitPrompt ==
  /\ At("submit") \/ At("excused")
  /\ LET s == handler.s
         t == IF chats[s].turn = 0 THEN diary.turns + 1 ELSE chats[s].turn
     IN IF ~Existing(s) \/ t > MaxChatTurns THEN UNCHANGED <<chats, diary>>
        ELSE /\ chats' = [chats EXCEPT ![s].turn = t]
             /\ diary' = [diary EXCEPT !.told = s,
                  !.turns = IF t > @ THEN t ELSE @,
                  !.of = IF t > Len(@) THEN Append(@, s) ELSE @,
                  !.owed = IF At("excused") THEN @ ELSE @ \cup {t}]
  /\ Done
  /\ UNCHANGED <<line, watch, buttons, shown, press>>

CancelChat ==
  /\ At("route") /\ handler.what = "cancel" /\ Done
  /\ IF Existing(Selected) /\ chats[Selected].turn # 0
     THEN /\ chats' = [chats EXCEPT ![Selected].turn = 0, ![Selected].ask = FALSE]
          /\ watch' = Told(Selected, "end", chats[Selected].turn)
          /\ diary' = [diary EXCEPT !.ended = @ \cup {chats[Selected].turn}]
     ELSE UNCHANGED <<chats, watch, diary>>
  /\ UNCHANGED <<line, buttons, shown, press>>

(* /resume and /compact: the observer, then the call *)
ResumeChat ==
  /\ At("route") /\ handler.what = "resume"
  /\ handler' = IF Selected = Nowhere THEN NoHandler
                ELSE [handler EXCEPT !.pc = "ready", !.s = Selected]
  /\ UNCHANGED <<line, chats, watch, buttons, shown, press, diary>>

(* /allow and /deny without an id: the request pending in the snapshot *)
PermissionRequested(s) == Existing(s) /\ chats[s].ask
AllowByCommand ==
  /\ At("route") /\ handler.what = "allow" /\ Done
  /\ IF PermissionRequested(Selected) THEN Decide(Selected) ELSE UNCHANGED chats
  /\ UNCHANGED <<line, watch, buttons, shown, press, diary>>

-----------------------------------------------------------------------------
(* the observer's task: stream_session *)

Streams(kind) == watch.card = 0 /\ watch.feed # <<>> /\ Head(watch.feed).kind = kind
Consumed == [watch EXCEPT !.feed = Tail(@)]

(* the answer, or the marker of a turn that failed or was cancelled; when it    *)
(* cannot be sent it is logged and lost                                        *)
StreamEnd ==
  /\ Streams("end")
  /\ watch' = Consumed
  /\ \/ diary' = [diary EXCEPT !.seen = @ \cup {Head(watch.feed).turn}]
     \/ Break /\ diary' = [Broken EXCEPT !.lost = @ \cup {Head(watch.feed).turn}]
  /\ UNCHANGED <<line, chats, buttons, shown, handler, press>>

(* the closed subscription is read to its end                                  *)
ObserverEnds ==
  /\ watch.on # Nowhere /\ ~watch.open /\ watch.feed = <<>> /\ watch.card = 0
  /\ watch' = NoWatch
  /\ UNCHANGED <<line, chats, buttons, shown, handler, press, diary>>

Pair(t) == [turn : {t}, s : {diary.of[t]}, allowed : BOOLEAN]
WithoutCard(t) == {b \in buttons : b.turn # t}

(* the two actions go into the store before the message is sent; Weixin sends *)
(* the request as a text                                                      *)
StreamAsk ==
  /\ Streams("ask")
  /\ IF line.kind = "weixin" THEN watch' = Consumed /\ UNCHANGED <<line, buttons>>
     ELSE LET t == Head(watch.feed).turn IN
            /\ watch' = [Consumed EXCEPT !.card = t]
            /\ line' = [line EXCEPT !.flying = @ \cup {t}]
            /\ buttons' = buttons \cup Pair(t)
  /\ UNCHANGED <<chats, shown, handler, press, diary>>

(* the platform shows the card: before the call that sent it returns, after    *)
(* that timed out, or when nobody waits for it any more                        *)
SendCard ==
  /\ \E t \in line.flying :
       /\ line' = [line EXCEPT !.flying = @ \ {t}]
       /\ shown' = shown \cup Pair(t)
  /\ UNCHANGED <<chats, watch, buttons, handler, press, diary>>

(* Feishu remembers the card, to close it once it is pressed *)
PutCard(t) == [line EXCEPT !.cards = @ \cup {t}]
TakeCard(t) == [line EXCEPT !.cards = @ \ {t}]
CardSent ==
  /\ watch.card # 0 /\ watch.card \notin line.flying
  /\ watch' = [watch EXCEPT !.card = 0]
  /\ line' = IF Feishu THEN PutCard(watch.card) ELSE line
  /\ UNCHANGED <<chats, buttons, shown, handler, press, diary>>

(* a failing send, of a part that follows one already shown or of a call that   *)
(* timed out too: Telegram and Feishu take the actions back, QQ keeps them     *)
CardFails ==
  /\ watch.card # 0 /\ Break
  /\ watch' = [watch EXCEPT !.card = 0]
  /\ IF line.kind = "qq" THEN UNCHANGED buttons /\ diary' = Broken
     ELSE /\ buttons' = WithoutCard(watch.card)
          /\ diary' = [Broken EXCEPT !.void = @ \cup {watch.card}]
  /\ UNCHANGED <<line, chats, shown, handler, press>>

(* ten minutes after a request; its buttons stay on the screen *)
ButtonsExpire ==
  /\ Break
  /\ \E b \in buttons :
       /\ b.turn # watch.card
       /\ buttons' = WithoutCard(b.turn)
       /\ line' = TakeCard(b.turn)
       /\ diary' = [Broken EXCEPT !.void = @ \cup {b.turn}]
  /\ UNCHANGED <<chats, watch, shown, handler, press>>

-----------------------------------------------------------------------------
(* a button is pressed: run_messages (serial), handle_callback_query,         *)
(* interaction_create                                                         *)

(* the whole group leaves the store with the action *)
TakeAction(b) ==
  IF b \in buttons
  THEN press' = [pc |-> "resolve", turn |-> b.turn, s |-> b.s] /\ buttons' = WithoutCard(b.turn)
  ELSE UNCHANGED <<press, buttons>>

PressButton(b) ==
  /\ line.up /\ press.pc = "idle"
  /\ b \in shown /\ Feishu => At("idle")
  /\ TakeAction(b)
  /\ UNCHANGED <<line, chats, watch, shown, handler, diary>>

(* the host refuses a request that is not pending any more *)
ResolvePress ==
  /\ press.pc = "resolve"
  /\ LET s == press.s IN
       IF Existing(s) /\ chats[s].ask /\ chats[s].turn = press.turn THEN Decide(s)
       ELSE UNCHANGED chats
  /\ diary' = [diary EXCEPT !.twice = @ \/ press.turn \in diary.pressed,
                            !.pressed = @ \cup {press.turn}]
  /\ press' = IF Feishu THEN [press EXCEPT !.pc = "close"] ELSE NoPress
  /\ UNCHANGED <<line, watch, buttons, shown, handler>>

(* Feishu takes the card, when it is there already, and removes its buttons *)
CloseCard ==
  /\ press.pc = "close" /\ press' = NoPress
  /\ line' = TakeCard(press.turn)
  /\ shown' = IF press.turn \in line.cards THEN {b \in shown : b.turn # press.turn} ELSE shown
  /\ UNCHANGED <<chats, watch, buttons, handler, diary>>

-----------------------------------------------------------------------------
(* the channel stops, with what it was handling, and starts again *)

StopChannel ==
  /\ line.up /\ Break
  /\ line' = [line EXCEPT !.up = FALSE, !.selected = Nowhere, !.cards = {}]
  /\ watch' = NoWatch /\ handler' = NoHandler /\ press' = NoPress
  /\ buttons' = {}
  /\ diary' = [Broken EXCEPT !.owed = {}, !.used = Nowhere,
                             !.void = @ \cup {b.turn : b \in buttons} \cup {press.turn}]
  /\ UNCHANGED <<chats, shown>>

(* prepare loads what was saved; resume_observer watches it, when it can *)
Prepared == [line EXCEPT !.up = TRUE, !.selected = line.saved]
ResumeObserver == IF Existing(line.saved) THEN Watching(line.saved) ELSE NoWatch
StartChannel ==
  /\ ~line.up
  /\ line' = Prepared /\ watch' = ResumeObserver
  /\ UNCHANGED <<chats, buttons, shown, handler, press, diary>>

-----------------------------------------------------------------------------
BridgeNext ==
  \/ \E s \in Chats : \/ ChatTurnElsewhere(s) \/ ChatAsks(s)
                      \/ ChatDecidedElsewhere(s) \/ ChatEnds(s) \/ DeleteChat(s)
  \/ FeedCloses \/ ReceiveMessage
  \/ MakeSession \/ PromptSelected \/ UseChat \/ SelectChat
  \/ SaveState \/ SaveStateFails \/ ObserveSelected \/ ReplySelected
  \/ SubmitObserve \/ SubmitPrompt \/ CancelChat \/ ResumeChat \/ AllowByCommand
  \/ StreamEnd \/ ObserverEnds \/ StreamAsk
  \/ SendCard \/ CardSent \/ CardFails \/ ButtonsExpire
  \/ \E b \in shown : PressButton(b)
  \/ ResolvePress \/ CloseCard \/ StopChannel \/ StartChannel

BridgeSpec == BridgeInit /\ [][BridgeNext]_bridgeVars

-----------------------------------------------------------------------------
(* The end of a turn prompted from the conversation is told to it: the observer *)
(* is there before the prompt is (submit_prompt, ensure_observer,               *)
(* stream_session). Not when the message with it cannot be sent, when the       *)
(* conversation turned to another session, or when the subscription closed      *)
(* before the turn ended; then not even a turn prompted while the observer      *)
(* still reads what was left in it.                                             *)
Coming == IF watch.feed = <<>> THEN {} ELSE {e.turn : e \in {x \in Range(watch.feed) : x.kind = "end"}}
AnswersArrive == diary.owed \cap diary.ended \subseteq diary.seen \cup diary.lost \cup Coming

(* After /use, a turn of the session that ended was replayed, or is told by the *)
(* observer as far as it can be sent, or is older than the last ReplayTurns     *)
(* turns: the snapshot is taken once the observer has subscribed.               *)
UseLeavesNoGap ==
  \A t \in diary.ended : diary.used # Nowhere /\ diary.of[t] = diary.used =>
    \/ t \in diary.seen \cup diary.lost \cup Coming
    \/ Cardinality(Later(t)) >= ReplayTurns

(* The session the user was last told of is the one a restart selects, unless a *)
(* save failed: the reply follows the save (select_session, save_state).        *)
SelectionSurvives ==
  diary.told # Nowhere /\ ~diary.unsaved /\ At("idle") => line.saved = diary.told

(* Of the two buttons of a request one is taken, once (take_action), and both   *)
(* buttons on the screen are in the store, before anyone can press them, until  *)
(* one is: unless the group was given up since, because sending the card        *)
(* failed, ten minutes passed or the channel stopped (remove_group).            *)
OneAnswerPerCard ==
  /\ ~diary.twice
  /\ \A b \in shown :
       b.turn \notin diary.pressed \cup diary.void /\ press.turn # b.turn => b \in buttons

ConversationHolds == AnswersArrive /\ UseLeavesNoGap /\ SelectionSurvives /\ OneAnswerPerCard
=============================================================================
