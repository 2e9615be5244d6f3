---------------------------- MODULE ConfigProofs ----------------------------
(* One configuration in all parts of the host (ConfigHolds), whatever calls,  *)
(* reloads, edits by hand, failures and restarts overlap: the profile, the    *)
(* session service, the gateways of a channel and the websocket listener.     *)
(* And one title, selection and questionnaire of a session (SettingsHold) in  *)
(* memory, on disk, in the turns and at the clients.                          *)
EXTENDS HostConfig, SessionSettings, FiniteSetTheorems, TLAPS
-----------------------------------------------------------------------------
(* What a call may carry to its edit, or to the write of a secret.            *)
NoEdit == AtRest.edit
ConfigEdits ==
  {NoEdit} \cup [enabled : BOOLEAN] \cup [enabled : BOOLEAN, turns : BOOLEAN]
    \cup [ws : BOOLEAN] \cup [rest : BOOLEAN] \cup [secret : Secrets]
ConfigTask == [pc : Steps, gate : 0..MaxGates, edit : ConfigEdits, loaded : Contents,
               source : Contents, copy : Nat]
Gate == [made : BOOLEAN, enabled : BOOLEAN, busy : Tasks \cup {Nobody}, active : BOOLEAN]
Listener == [on : BOOLEAN, uses : Nat, over : BOOLEAN, running : BOOLEAN,
             pc : {"idle", "reconcile", "open"}, seen : BOOLEAN, read : Nat,
             news : BOOLEAN, failed : BOOLEAN]
Tally == [calls : Nat, faults : Nat, partial : BOOLEAN, overtaken : BOOLEAN, started : BOOLEAN]

ConfigTypes ==
  /\ secret \in Secrets
  /\ profile \in Contents /\ agent \in Contents
  /\ live \in [content : Contents, source : Contents]
  /\ tasks \in [Tasks -> ConfigTask]
  /\ reloading \in Tasks \cup {Nobody}
  /\ gates \in [1..MaxGates -> Gate]
  /\ now \in 1..MaxGates
  /\ wizard \in SUBSET Nat
  /\ tokens \in Nat
  /\ socket \in Listener
  /\ tally \in Tally

(* Tokens are renewed by calls, and the listener knows no later ones.         *)
TokensCounted ==
  /\ tokens <= tally.calls /\ tally.calls <= MaxCalls
  /\ socket.uses <= tokens /\ socket.read <= tokens

(* The gateways are built one after the other, and only they are used.        *)
GatesInOrder == {g \in 1..MaxGates : gates[g].made} = 1..Made
Held == {"stopbind", "stopunbind", "swap", "stop", "start", "prepare", "poll", "save"}
Unused == {"idle", "edit", "check", "load", "lock", "build", "write", "announce"}
GatesKnown ==
  /\ gates[now].made
  /\ \A g \in 1..MaxGates : gates[g].active => gates[g].made
  /\ \A t \in Tasks :
       /\ tasks[t].gate # 0 => gates[tasks[t].gate].made
       /\ tasks[t].pc \in Held => tasks[t].gate # 0
       /\ tasks[t].pc \in Unused => tasks[t].gate = 0

(* The places of a reload are behind the lock of the reload.                  *)
Starting == {"start", "prepare"}
Reloading == {"build", "apply", "stop", "swap", "record", "publish"}
LockIsKept ==
  /\ \A t \in Tasks : tasks[t].pc \in Reloading => reloading = t
  /\ \A t \in Tasks : reloading = t => tasks[t].pc \in Reloading \cup Starting

(* How far a reload is: before it told the session service, before it moved   *)
(* the pointers, and after.                                                   *)
GateFits == gates[now].enabled = live.content.enabled
ReloadFits(t) ==
  /\ tasks[t].pc \in {"build", "apply"} =>
       /\ GateFits
       /\ ~tally.partial => agent = live.content
  /\ tasks[t].pc = "apply" /\ tasks[t].gate = 0 =>
       tasks[t].loaded.enabled = live.content.enabled
  /\ tasks[t].pc \in {"apply", "stop", "swap"} /\ tasks[t].gate # 0 =>
       gates[tasks[t].gate].enabled = tasks[t].loaded.enabled
  /\ tasks[t].pc \in {"stop", "swap"} => GateFits /\ agent = tasks[t].loaded
  /\ tasks[t].pc \in Starting \cup {"record"} =>
       agent = tasks[t].loaded /\ gates[now].enabled = tasks[t].loaded.enabled
  /\ tasks[t].pc \in Starting => tasks[t].gate = now
  /\ tasks[t].pc = "publish" => GateFits /\ (~tally.partial => agent = live.content)
  /\ tasks[t].pc # "publish" /\ ~tally.overtaken => tasks[t].source = tasks[t].loaded
ReloadsFit ==
  /\ reloading = Nobody => GateFits /\ (~tally.partial => agent = live.content)
  /\ \A t \in Tasks : reloading = t => ReloadFits(t)

(* Unless a binding started the channel, only the reload starts one, that of  *)
(* the gateway the host points at, and none is at work when the pointers move. *)
StartsFit ==
  ~tally.started =>
    /\ \A t \in Tasks : tasks[t].pc \in Starting => reloading = t
    /\ \A g \in 1..MaxGates : gates[g].active => g = now
    /\ \A t \in Tasks : tasks[t].pc = "swap" => \A g \in 1..MaxGates : ~gates[g].active

(* The websocket loop has read what there is, or will be told of it.          *)
Announced == socket.news \/ \E t \in Tasks : tasks[t].pc \in {"publish", "announce"}
Current == socket.seen = live.content.ws /\ socket.read = tokens
LoopFollows ==
  /\ socket.pc \in {"reconcile", "open"} => Announced \/ Current
  /\ socket.pc = "open" => ~socket.on /\ ~socket.over /\ socket.seen
  /\ socket.pc = "idle" => \/ Announced \/ socket.failed \/ Missed
                           \/ socket.on = live.content.ws /\ (socket.on => socket.uses = tokens)
  /\ socket.running => socket.on /\ ~socket.over

ConfigInv ==
  /\ ConfigTypes /\ TokensCounted /\ GatesInOrder /\ GatesKnown /\ LockIsKept
  /\ ReloadsFit /\ FingerprintIsTrue /\ StartsFit /\ LoopFollows

-----------------------------------------------------------------------------
LEMMA ConfigParts ==
  ASSUME ConfigInv
  PROVE  /\ secret \in Secrets /\ profile \in Contents /\ agent \in Contents
         /\ live \in [content : Contents, source : Contents]
         /\ live.content \in Contents /\ live.source \in Contents
         /\ tasks \in [Tasks -> ConfigTask] /\ reloading \in Tasks \cup {Nobody}
         /\ gates \in [1..MaxGates -> Gate] /\ now \in 1..MaxGates
         /\ wizard \in SUBSET Nat /\ tokens \in Nat /\ socket \in Listener /\ tally \in Tally
         /\ TokensCounted /\ GatesInOrder /\ GatesKnown /\ LockIsKept
         /\ ReloadsFit /\ FingerprintIsTrue /\ StartsFit /\ LoopFollows
         /\ MaxGates \in Nat \ {0} /\ MaxCalls \in Nat /\ Nobody \notin Tasks
BY ConfigBoundsAssumption, TasksAssumption DEF ConfigInv, ConfigTypes, Tasks

LEMMA RestIsATask == AtRest \in ConfigTask /\ NoEdit \in ConfigEdits /\ Plain \in Contents
<1>1. Plain \in Contents
  BY DEF Plain, Contents
<1>2. NoEdit \in ConfigEdits
  BY DEF ConfigEdits
<1> DEFINE e == NoEdit
<1>3. AtRest = [pc |-> "idle", gate |-> 0, edit |-> e, loaded |-> Plain, source |-> Plain, copy |-> 0]
  BY DEF AtRest, NoEdit
<1>4. e \in ConfigEdits
  BY <1>2
<1> HIDE DEF e
<1>5. AtRest \in ConfigTask
  BY <1>1, <1>3, <1>4, ConfigBoundsAssumption DEF ConfigTask, Steps
<1> QED
  BY <1>1, <1>2, <1>5

LEMMA ConfigInitHolds == ConfigInit => ConfigInv
<1> SUFFICES ASSUME ConfigInit PROVE ConfigInv
  OBVIOUS
<1>1. PICK on \in BOOLEAN :
       /\ profile = [Plain EXCEPT !.enabled = on]
       /\ gates = [g \in 1..MaxGates |->
            IF g = 1 THEN [NoGate EXCEPT !.made = TRUE, !.enabled = on, !.active = on]
            ELSE NoGate]
  BY DEF ConfigInit
<1>2. profile \in Contents /\ profile.enabled = on
  BY <1>1 DEF Plain, Contents
<1>3. MaxGates \in Nat \ {0} /\ MaxCalls \in Nat /\ Nobody \notin Tasks
  BY ConfigBoundsAssumption, TasksAssumption DEF Tasks
<1> DEFINE first == [NoGate EXCEPT !.made = TRUE, !.enabled = on, !.active = on]
<1>a. first \in Gate /\ first.made /\ first.enabled = on /\ NoGate \in Gate /\ ~NoGate.made /\ ~NoGate.active
  BY <1>1 DEF NoGate, Gate
<1>b. gates = [g \in 1..MaxGates |-> IF g = 1 THEN first ELSE NoGate]
  BY <1>1
<1> HIDE DEF first
<1>4. /\ gates \in [1..MaxGates -> Gate]
      /\ 1 \in 1..MaxGates /\ gates[1].made
      /\ \A g \in 1..MaxGates : g # 1 => ~gates[g].made /\ ~gates[g].active
      /\ gates[1].enabled = on
  BY <1>3, <1>a, <1>b
<1>5. live \in [content : Contents, source : Contents] /\ live.content = profile /\ live.source = profile
      /\ agent = profile /\ secret \in Secrets /\ now = 1 /\ reloading = Nobody /\ wizard \in SUBSET Nat
      /\ tokens = 0
  BY <1>2 DEF ConfigInit, Secrets
<1>6. tasks \in [Tasks -> ConfigTask] /\ \A t \in Tasks : tasks[t] = AtRest
  BY RestIsATask DEF ConfigInit
<1>7. AtRest.pc = "idle" /\ AtRest.gate = 0
  BY DEF AtRest
<1>8. socket \in Listener /\ socket.pc = "idle" /\ socket.uses = 0 /\ socket.read = 0 /\ ~socket.on
      /\ ~socket.running
  BY DEF ConfigInit, NoSocket, Listener
<1>9. tally \in Tally /\ tally.calls = 0
  BY DEF ConfigInit, Tally
<1>10. ConfigTypes /\ TokensCounted
  BY <1>2, <1>3, <1>4, <1>5, <1>6, <1>8, <1>9 DEF ConfigTypes, TokensCounted
<1>11. GatesInOrder
  <2>1. {g \in 1..MaxGates : gates[g].made} = {1}
    BY <1>3, <1>4
  <2>2. Made = 1
    BY <2>1, FS_Singleton DEF Made
  <2> QED
    BY <2>1, <2>2 DEF GatesInOrder
<1>12. GatesKnown /\ LockIsKept /\ StartsFit
  BY <1>3, <1>4, <1>5, <1>6, <1>7 DEF GatesKnown, LockIsKept, StartsFit, Held, Reloading, Starting, Unused
<1>13. ReloadsFit /\ FingerprintIsTrue
  BY <1>2, <1>3, <1>4, <1>5 DEF ReloadsFit, FingerprintIsTrue, GateFits
<1>c. live.content.ws = FALSE
  BY <1>1, <1>5 DEF Plain
<1>14. LoopFollows
  BY <1>2, <1>5, <1>8, <1>c DEF LoopFollows, Missed, Listener
<1> QED
  BY <1>10, <1>11, <1>12, <1>13, <1>14 DEF ConfigInv

(* What nobody but the listener's loop and its callers know is no concern of  *)
(* the reload: a step that leaves the reload's state alone.                   *)
LEMMA GatesStay ==
  ASSUME ConfigInv, gates' = gates
  PROVE  Made' = Made /\ GatesInOrder'
BY ConfigParts DEF Made, GatesInOrder

(* A call that is not in a reload goes to a place that is not in one.         *)
CalmTask(x) == x.pc \notin Reloading \cup Starting \cup {"announce"}

LEMMA CalmStep ==
  ASSUME ConfigInv, NEW t \in Tasks, NEW x \in ConfigTask,
         CalmTask(tasks[t]), CalmTask(x),
         x.gate = 0 \/ x.gate = now \/ x.gate = tasks[t].gate,
         x.pc \in Held => x.gate # 0, x.pc \in Unused => x.gate = 0,
         tasks' = [tasks EXCEPT ![t] = x],
         profile' \in Contents, secret' \in Secrets, wizard' \in SUBSET Nat,
         tally' \in Tally, tally.calls <= tally'.calls, tally'.calls <= MaxCalls,
         tally'.partial = tally.partial, tally'.overtaken = tally.overtaken,
         tally'.started = tally.started,
         UNCHANGED <<live, agent, reloading, gates, now, tokens, socket>>
  PROVE  ConfigInv'
<1>1. ConfigTypes'
  BY ConfigParts DEF ConfigTypes
<1>2. tasks'[t] = x /\ \A d \in Tasks \ {t} : tasks'[d] = tasks[d]
  BY ConfigParts
<1>3. TokensCounted'
  BY ConfigParts DEF TokensCounted, Tally, Listener
<1>4. GatesInOrder'
  BY GatesStay
<1>5. GatesKnown'
  BY <1>2, ConfigParts DEF GatesKnown
<1>6. LockIsKept' /\ reloading # t
  BY <1>2, ConfigParts DEF LockIsKept, CalmTask
<1>7. ReloadsFit'
  <2>1. \A d \in Tasks : reloading = d => ReloadFits(d)'
    BY <1>2, <1>6, ConfigParts DEF ReloadsFit, ReloadFits, GateFits
  <2> QED
    BY <2>1, ConfigParts DEF ReloadsFit, GateFits
<1>8. FingerprintIsTrue'
  BY ConfigParts DEF FingerprintIsTrue
<1>9. StartsFit'
  BY <1>2, ConfigParts DEF StartsFit, CalmTask, Reloading
<1>10. LoopFollows'
  <2>1. Announced' = Announced
    BY <1>2, ConfigParts DEF Announced, CalmTask, Reloading
  <2> QED
    BY <2>1, ConfigParts DEF LoopFollows, Current, Missed
<1> QED
  BY <1>1, <1>3, <1>4, <1>5, <1>6, <1>7, <1>8, <1>9, <1>10 DEF ConfigInv

(* The websocket loop, and edits by hand: nothing of the reload moves.        *)
LEMMA StillStep ==
  ASSUME ConfigInv, profile' \in Contents, socket' \in Listener, tally' \in Tally,
         socket'.uses <= tokens, socket'.read <= tokens,
         tally.calls <= tally'.calls, tally'.calls <= MaxCalls,
         tally'.partial = tally.partial, tally'.overtaken = tally.overtaken,
         tally'.started = tally.started,
         UNCHANGED <<secret, live, agent, tasks, reloading, gates, now, wizard, tokens>>,
         LoopFollows'
  PROVE  ConfigInv'
<1>1. ConfigTypes'
  BY ConfigParts DEF ConfigTypes
<1>2. TokensCounted'
  BY ConfigParts DEF TokensCounted, Tally, Listener
<1>3. GatesInOrder'
  BY GatesStay
<1>4. GatesKnown' /\ LockIsKept' /\ FingerprintIsTrue'
  BY ConfigParts DEF GatesKnown, LockIsKept, FingerprintIsTrue
<1>5. ReloadsFit'
  <2>1. \A d \in Tasks : reloading = d => ReloadFits(d)'
    BY ConfigParts DEF ReloadsFit, ReloadFits, GateFits
  <2> QED
    BY <2>1, ConfigParts DEF ReloadsFit, GateFits
<1>6. StartsFit'
  BY ConfigParts DEF StartsFit
<1> QED
  BY <1>1, <1>2, <1>3, <1>4, <1>5, <1>6 DEF ConfigInv

LEMMA FaultKeeps ==
  ASSUME ConfigInv, Fault
  PROVE  /\ tally' \in Tally /\ tally'.calls = tally.calls /\ tally'.partial = tally.partial
         /\ tally'.overtaken = tally.overtaken /\ tally'.started = tally.started
         /\ tally.calls \in Nat /\ tally.calls <= tally'.calls /\ tally'.calls <= MaxCalls
BY ConfigParts, SMTT(30) DEF Fault, Tally, TokensCounted

LEMMA TallyStays ==
  ASSUME ConfigInv, tally' = tally
  PROVE  /\ tally' \in Tally /\ tally'.calls = tally.calls /\ tally'.partial = tally.partial
         /\ tally'.overtaken = tally.overtaken /\ tally'.started = tally.started
         /\ tally.calls \in Nat /\ tally.calls <= tally'.calls /\ tally'.calls <= MaxCalls
BY ConfigParts DEF Tally, TokensCounted

LEMMA CallCounts ==
  ASSUME ConfigInv, NEW t \in Tasks, Call(t)
  PROVE  /\ tally' \in Tally /\ tally'.calls = tally.calls + 1 /\ tally'.partial = tally.partial
         /\ tally'.overtaken = tally.overtaken /\ tally'.started = tally.started
         /\ tally.calls \in Nat /\ tally.calls <= tally'.calls /\ tally'.calls <= MaxCalls
         /\ tasks[t].pc = "idle"
BY ConfigParts DEF Call, At, Tally, TokensCounted

LEMMA HandEditHolds == ASSUME ConfigInv, HandEdit PROVE ConfigInv'
<1>1. /\ tally' \in Tally /\ tally'.partial = tally.partial
      /\ tally'.overtaken = tally.overtaken /\ tally'.started = tally.started
      /\ tally.calls <= tally'.calls /\ tally'.calls <= MaxCalls
  BY ConfigParts DEF HandEdit, Tally, TokensCounted
<1>2. profile' \in Contents
  BY ConfigParts DEF HandEdit, Contents
<1>3. socket' \in Listener /\ socket'.uses <= tokens /\ socket'.read <= tokens
  BY ConfigParts DEF HandEdit, TokensCounted
<1>4. LoopFollows'
  BY ConfigParts DEF HandEdit, LoopFollows, Announced, Current, Missed
<1> QED
  BY <1>1, <1>2, <1>3, <1>4, StillStep DEF HandEdit

(* One step of the websocket loop.                                            *)
LEMMA LoopStep ==
  ASSUME ConfigInv, UNCHANGED onlySocket, Fault \/ UNCHANGED tally,
         socket' \in Listener, socket'.uses <= tokens, socket'.read <= tokens, LoopFollows'
  PROVE  ConfigInv'
BY ConfigParts, FaultKeeps, TallyStays, StillStep DEF onlySocket

LEMMA SocketWakesHolds == ASSUME ConfigInv, SocketWakes PROVE ConfigInv'
<1>1. /\ socket' \in Listener /\ socket'.pc = "reconcile" /\ socket'.seen = live.content.ws
      /\ socket'.read = tokens /\ socket'.uses = socket.uses /\ socket'.on = socket.on
      /\ socket'.over = socket.over /\ socket'.running = socket.running
  BY ConfigParts, ZenonT(40) DEF SocketWakes, Runtime, Listener, Contents
<1>2. LoopFollows' /\ socket'.uses <= tokens /\ socket'.read <= tokens
  BY <1>1, ConfigParts DEF SocketWakes, onlySocket, LoopFollows, Current, TokensCounted
<1> QED
  BY <1>1, <1>2, LoopStep DEF SocketWakes

LEMMA ReconcileHolds ==
  ASSUME ConfigInv, TokensUnread \/ KeepListener \/ StopListener
  PROVE  ConfigInv'
<1>1. CASE TokensUnread
  <2>1. /\ socket' \in Listener /\ socket'.pc = "idle" /\ socket'.failed /\ ~socket'.running
        /\ socket'.uses = socket.uses /\ socket'.read = socket.read
    BY <1>1, ConfigParts DEF TokensUnread, Listener
  <2>2. LoopFollows' /\ socket'.uses <= tokens /\ socket'.read <= tokens
    BY <2>1, ConfigParts DEF LoopFollows, TokensCounted
  <2> QED
    BY <1>1, <2>1, <2>2, LoopStep DEF TokensUnread
<1>2. CASE KeepListener
  <2>1. /\ socket' \in Listener /\ socket'.pc = "idle" /\ socket'.running = socket.running
        /\ socket'.uses = socket.uses /\ socket'.read = socket.read /\ socket'.news = socket.news
        /\ socket'.on = socket.on /\ socket'.over = socket.over /\ socket.on /\ ~socket.over
        /\ socket.uses = socket.read /\ socket.seen /\ socket.pc = "reconcile"
    BY <1>2, ConfigParts DEF KeepListener, Matches, Listener
  <2>2. Announced' = Announced
    BY <1>2, <2>1 DEF Announced, KeepListener, onlySocket
  <2>3. LoopFollows' /\ socket'.uses <= tokens /\ socket'.read <= tokens
    BY <1>2, <2>1, <2>2, ConfigParts DEF LoopFollows, TokensCounted, Current, KeepListener, onlySocket,
       Contents
  <2> QED
    BY <1>2, <2>1, <2>3, LoopStep DEF KeepListener
<1>3. CASE StopListener
  <2>1. /\ socket' \in Listener /\ socket'.pc = (IF socket.seen THEN "open" ELSE "idle")
        /\ ~socket'.running /\ socket'.on = FALSE /\ ~socket'.over /\ socket'.seen = socket.seen
        /\ socket'.uses = 0 /\ socket'.read = socket.read /\ socket'.news = socket.news
        /\ socket.pc = "reconcile"
    BY <1>3, ConfigParts DEF StopListener, Listener
  <2>2. Announced' = Announced
    BY <1>3, <2>1 DEF Announced, StopListener, onlySocket
  <2>4. live' = live /\ tokens' = tokens /\ live.content.ws \in BOOLEAN /\ socket.seen \in BOOLEAN
    BY <1>3, ConfigParts DEF StopListener, onlySocket, Contents, Listener
  <2>5. socket'.uses <= tokens /\ socket'.read <= tokens
    BY <2>1, ConfigParts DEF TokensCounted
  <2>3. LoopFollows'
    <3>1. CASE socket.seen
      BY <2>1, <2>2, <2>4, <3>1, ConfigParts DEF LoopFollows, Current
    <3>2. CASE ~socket.seen
      <4>1. Announced' \/ live'.content.ws = FALSE
        BY <2>1, <2>2, <2>4, <3>2, ConfigParts DEF LoopFollows, Current
      <4> QED
        BY <2>1, <3>2, <4>1 DEF LoopFollows
    <3> QED
      BY <3>1, <3>2
  <2> QED
    BY <1>3, <2>1, <2>3, <2>5, LoopStep DEF StopListener
<1> QED
  BY <1>1, <1>2, <1>3

LEMMA ListenerHolds ==
  ASSUME ConfigInv, StartListener \/ ListenFails \/ ListenerEnds
  PROVE  ConfigInv'
<1>1. CASE StartListener
  <2>1. /\ socket' \in Listener /\ socket'.pc = "idle" /\ socket'.running /\ socket'.on
        /\ socket'.over = socket.over
        /\ socket'.uses = socket.read /\ socket'.read = socket.read /\ socket'.news = socket.news
        /\ socket.pc = "open"
    BY <1>1, ConfigParts DEF StartListener, Listener
  <2>2. Announced' = Announced
    BY <1>1, <2>1 DEF Announced, StartListener, onlySocket
  <2>3. LoopFollows' /\ socket'.uses <= tokens /\ socket'.read <= tokens
    BY <1>1, <2>1, <2>2, ConfigParts DEF LoopFollows, TokensCounted, Current, StartListener, onlySocket,
       Contents, Listener
  <2> QED
    BY <1>1, <2>1, <2>3, LoopStep DEF StartListener
<1>2. CASE ListenFails
  <2>1. /\ socket' \in Listener /\ socket'.pc = "idle" /\ socket'.failed
        /\ socket'.running = socket.running /\ socket'.on = socket.on /\ socket'.over = socket.over
        /\ socket'.uses = socket.uses /\ socket'.read = socket.read
    BY <1>2, ConfigParts DEF ListenFails, Listener
  <2>2. LoopFollows' /\ socket'.uses <= tokens /\ socket'.read <= tokens
    BY <2>1, ConfigParts DEF LoopFollows, TokensCounted
  <2> QED
    BY <1>2, <2>1, <2>2, LoopStep DEF ListenFails
<1>3. CASE ListenerEnds
  <2>1. /\ socket' \in Listener /\ socket'.pc = socket.pc /\ ~socket'.running /\ socket'.over
        /\ socket'.on = socket.on /\ socket.on /\ socket'.seen = socket.seen
        /\ socket'.uses = socket.uses /\ socket'.read = socket.read /\ socket'.news = socket.news
    BY <1>3, ConfigParts DEF ListenerEnds, Listener
  <2>2. Announced' = Announced
    BY <1>3, <2>1 DEF Announced, ListenerEnds, onlySocket
  <2>3. LoopFollows' /\ socket'.uses <= tokens /\ socket'.read <= tokens
    BY <1>3, <2>1, <2>2, ConfigParts DEF LoopFollows, TokensCounted, Current, ListenerEnds, onlySocket,
       Missed
  <2> QED
    BY <1>3, <2>1, <2>3, LoopStep DEF ListenerEnds
<1> QED
  BY <1>1, <1>2, <1>3

-----------------------------------------------------------------------------
(* Calls outside a reload.                                                    *)

LEMMA CallsHold ==
  ASSUME ConfigInv, NEW t \in Tasks, NEW edit \in ConfigEdits, NEW pc \in Steps, NEW gate \in {now, tasks[t].gate},
         NEW copy \in Nat, Call(t), UNCHANGED onlyTasks,
         pc \notin Reloading \cup Starting \cup {"announce"}, pc \in Held => gate = now,
         pc \in Unused => gate = tasks[t].gate,
         tasks' = [tasks EXCEPT ![t] =
                     [tasks[t] EXCEPT !.pc = pc, !.edit = edit, !.gate = gate, !.copy = copy]]
  PROVE  ConfigInv'
<1> DEFINE x == [tasks[t] EXCEPT !.pc = pc, !.edit = edit, !.gate = gate, !.copy = copy]
<1>4. gate \in 0..MaxGates
  BY ConfigParts DEF ConfigTask
<1>7. tasks[t] \in ConfigTask
  BY ConfigParts
<1>1. x \in ConfigTask /\ x.pc = pc /\ x.gate = gate
  BY <1>4, <1>7 DEF ConfigTask
<1>5. tasks' = [tasks EXCEPT ![t] = x]
  OBVIOUS
<1>2. CalmTask(tasks[t]) /\ CalmTask(x)
  BY <1>1, CallCounts DEF CalmTask, Reloading, Starting
<1>3. now # 0
  BY ConfigParts
<1>6. x.pc \in Unused => x.gate = 0
  BY <1>1, CallCounts, ConfigParts DEF GatesKnown, Unused
<1> HIDE DEF x
<1> QED
  BY <1>1, <1>2, <1>3, <1>5, <1>6, ConfigParts, CallCounts, CalmStep DEF onlyTasks

Moved(t, pc) == [tasks[t] EXCEPT !.pc = pc]

LEMMA ToPlace ==
  ASSUME ConfigInv, NEW t \in Tasks, NEW pc \in Steps
  PROVE  /\ Moved(t, pc) \in ConfigTask /\ Moved(t, pc).pc = pc /\ Moved(t, pc).gate = tasks[t].gate
         /\ Moved(t, pc).loaded = tasks[t].loaded /\ Moved(t, pc).source = tasks[t].source
         /\ To(t, pc) => tasks' = [tasks EXCEPT ![t] = Moved(t, pc)]
BY ConfigParts DEF Moved, To, ConfigTask


LEMMA SetEnabledHolds ==
  ASSUME ConfigInv, NEW t \in Tasks, NEW on \in BOOLEAN, SetEnabled(t, on) PROVE ConfigInv'
<1> DEFINE edit == [enabled |-> on]
<1>1. edit \in ConfigEdits /\ tasks[t].copy \in Nat /\ tasks[t] \in ConfigTask
  BY ConfigParts DEF ConfigEdits, ConfigTask, Contents
<1>2. Call(t) /\ UNCHANGED onlyTasks
  BY DEF SetEnabled
<1> HIDE DEF edit
<1>3. tasks' = [tasks EXCEPT ![t] =
        [tasks[t] EXCEPT !.pc = "edit", !.edit = edit, !.gate = tasks[t].gate, !.copy = tasks[t].copy]]
  BY <1>1, ConfigParts DEF SetEnabled, WillEdit, ConfigTask, edit
<1>4. "edit" \in Steps /\ "edit" \notin Reloading \cup Starting \cup {"announce"}
  BY DEF Steps, Reloading, Starting
<1>5. "edit" \in Held => tasks[t].gate = now
  BY DEF Held
<1>6. "edit" \in Unused => tasks[t].gate = tasks[t].gate
  BY DEF Unused
<1> QED
  BY <1>1, <1>2, <1>3, <1>4, <1>5, <1>6, CallsHold

LEMMA ConfigureChannelHolds ==
  ASSUME ConfigInv, NEW t \in Tasks, NEW on \in BOOLEAN, ConfigureChannel(t, on) PROVE ConfigInv'
<1> DEFINE edit == [enabled |-> on, turns |-> ~profile.turns]
<1>1. edit \in ConfigEdits /\ tasks[t].copy \in Nat /\ tasks[t] \in ConfigTask
  BY ConfigParts DEF ConfigEdits, ConfigTask, Contents
<1>2. Call(t) /\ UNCHANGED onlyTasks
  BY DEF ConfigureChannel
<1> HIDE DEF edit
<1>3. tasks' = [tasks EXCEPT ![t] =
        [tasks[t] EXCEPT !.pc = "edit", !.edit = edit, !.gate = tasks[t].gate, !.copy = tasks[t].copy]]
  BY <1>1, ConfigParts DEF ConfigureChannel, WillEdit, ConfigTask, edit
<1>4. "edit" \in Steps /\ "edit" \notin Reloading \cup Starting \cup {"announce"}
  BY DEF Steps, Reloading, Starting
<1>5. "edit" \in Held => tasks[t].gate = now
  BY DEF Held
<1>6. "edit" \in Unused => tasks[t].gate = tasks[t].gate
  BY DEF Unused
<1> QED
  BY <1>1, <1>2, <1>3, <1>4, <1>5, <1>6, CallsHold

LEMMA SetSocketHolds ==
  ASSUME ConfigInv, NEW t \in Tasks, NEW on \in BOOLEAN, SetSocket(t, on) PROVE ConfigInv'
<1> DEFINE edit == [ws |-> on]
<1>1. edit \in ConfigEdits /\ tasks[t].copy \in Nat /\ tasks[t] \in ConfigTask
  BY ConfigParts DEF ConfigEdits, ConfigTask, Contents
<1>2. Call(t) /\ UNCHANGED onlyTasks
  BY DEF SetSocket
<1> HIDE DEF edit
<1>3. tasks' = [tasks EXCEPT ![t] =
        [tasks[t] EXCEPT !.pc = "edit", !.edit = edit, !.gate = tasks[t].gate, !.copy = tasks[t].copy]]
  BY <1>1, ConfigParts DEF SetSocket, WillEdit, ConfigTask, edit
<1>4. "edit" \in Steps /\ "edit" \notin Reloading \cup Starting \cup {"announce"}
  BY DEF Steps, Reloading, Starting
<1>5. "edit" \in Held => tasks[t].gate = now
  BY DEF Held
<1>6. "edit" \in Unused => tasks[t].gate = tasks[t].gate
  BY DEF Unused
<1> QED
  BY <1>1, <1>2, <1>3, <1>4, <1>5, <1>6, CallsHold

LEMMA UpdateConfigHolds ==
  ASSUME ConfigInv, NEW t \in Tasks, UpdateConfig(t) PROVE ConfigInv'
<1> DEFINE edit == [rest |-> ~profile.rest]
<1>1. edit \in ConfigEdits /\ tasks[t].copy \in Nat /\ tasks[t] \in ConfigTask
  BY ConfigParts DEF ConfigEdits, ConfigTask, Contents
<1>2. Call(t) /\ UNCHANGED onlyTasks
  BY DEF UpdateConfig
<1> HIDE DEF edit
<1>3. tasks' = [tasks EXCEPT ![t] =
        [tasks[t] EXCEPT !.pc = "edit", !.edit = edit, !.gate = tasks[t].gate, !.copy = tasks[t].copy]]
  BY <1>1, ConfigParts DEF UpdateConfig, WillEdit, ConfigTask, edit
<1>4. "edit" \in Steps /\ "edit" \notin Reloading \cup Starting \cup {"announce"}
  BY DEF Steps, Reloading, Starting
<1>5. "edit" \in Held => tasks[t].gate = now
  BY DEF Held
<1>6. "edit" \in Unused => tasks[t].gate = tasks[t].gate
  BY DEF Unused
<1> QED
  BY <1>1, <1>2, <1>3, <1>4, <1>5, <1>6, CallsHold

LEMMA ReadSecretHolds ==
  ASSUME ConfigInv, NEW t \in Tasks, ReadSecret(t) PROVE ConfigInv'
<1> DEFINE edit == [secret |-> secret]
<1>1. edit \in ConfigEdits /\ tasks[t].copy \in Nat /\ tasks[t] \in ConfigTask
  BY ConfigParts DEF ConfigEdits, ConfigTask, Contents
<1>2. Call(t) /\ UNCHANGED onlyTasks
  BY DEF ReadSecret
<1> HIDE DEF edit
<1>3. tasks' = [tasks EXCEPT ![t] =
        [tasks[t] EXCEPT !.pc = "write", !.edit = edit, !.gate = tasks[t].gate, !.copy = tasks[t].copy]]
  BY <1>1, ConfigParts DEF ReadSecret, WillEdit, ConfigTask, edit
<1>4. "write" \in Steps /\ "write" \notin Reloading \cup Starting \cup {"announce"}
  BY DEF Steps, Reloading, Starting
<1>5. "write" \in Held => tasks[t].gate = now
  BY DEF Held
<1>6. "write" \in Unused => tasks[t].gate = tasks[t].gate
  BY DEF Unused
<1> QED
  BY <1>1, <1>2, <1>3, <1>4, <1>5, <1>6, CallsHold

LEMMA UnbindHolds ==
  ASSUME ConfigInv, NEW t \in Tasks, Unbind(t) PROVE ConfigInv'
<1> DEFINE edit == tasks[t].edit
<1>1. edit \in ConfigEdits /\ tasks[t].copy \in Nat /\ tasks[t] \in ConfigTask
  BY ConfigParts DEF ConfigEdits, ConfigTask, Contents
<1>2. Call(t) /\ UNCHANGED onlyTasks
  BY DEF Unbind
<1> HIDE DEF edit
<1>3. tasks' = [tasks EXCEPT ![t] =
        [tasks[t] EXCEPT !.pc = "stopunbind", !.edit = edit, !.gate = now, !.copy = tasks[t].copy]]
  BY <1>1, ConfigParts DEF Unbind, WillEdit, ConfigTask, edit
<1>4. "stopunbind" \in Steps /\ "stopunbind" \notin Reloading \cup Starting \cup {"announce"}
  BY DEF Steps, Reloading, Starting
<1>5. "stopunbind" \in Held => now = now
  BY DEF Held
<1>6. "stopunbind" \in Unused => now = tasks[t].gate
  BY DEF Unused
<1> QED
  BY <1>1, <1>2, <1>3, <1>4, <1>5, <1>6, CallsHold

LEMMA BeginBindHolds ==
  ASSUME ConfigInv, NEW t \in Tasks, BeginBind(t) PROVE ConfigInv'
<1> DEFINE edit == tasks[t].edit
<1>1. edit \in ConfigEdits /\ tasks[t].copy \in Nat /\ tasks[t] \in ConfigTask
  BY ConfigParts DEF ConfigEdits, ConfigTask, Contents
<1>2. Call(t) /\ UNCHANGED onlyTasks
  BY DEF BeginBind
<1> HIDE DEF edit
<1>3. tasks' = [tasks EXCEPT ![t] =
        [tasks[t] EXCEPT !.pc = "stopbind", !.edit = edit, !.gate = now, !.copy = tasks[t].copy]]
  BY <1>1, ConfigParts DEF BeginBind, WillEdit, ConfigTask, edit
<1>4. "stopbind" \in Steps /\ "stopbind" \notin Reloading \cup Starting \cup {"announce"}
  BY DEF Steps, Reloading, Starting
<1>5. "stopbind" \in Held => now = now
  BY DEF Held
<1>6. "stopbind" \in Unused => now = tasks[t].gate
  BY DEF Unused
<1> QED
  BY <1>1, <1>2, <1>3, <1>4, <1>5, <1>6, CallsHold

LEMMA PollHolds ==
  ASSUME ConfigInv, NEW t \in Tasks, NEW b \in wizard, Poll(t, b) PROVE ConfigInv'
<1> DEFINE edit == tasks[t].edit
<1>1. edit \in ConfigEdits /\ b \in Nat /\ tasks[t] \in ConfigTask
  BY ConfigParts DEF ConfigEdits, ConfigTask, Contents
<1>2. Call(t) /\ UNCHANGED onlyTasks
  BY DEF Poll
<1> HIDE DEF edit
<1>3. tasks' = [tasks EXCEPT ![t] =
        [tasks[t] EXCEPT !.pc = "poll", !.edit = edit, !.gate = now, !.copy = b]]
  BY <1>1, ConfigParts DEF Poll, WillEdit, ConfigTask, edit
<1>4. "poll" \in Steps /\ "poll" \notin Reloading \cup Starting \cup {"announce"}
  BY DEF Steps, Reloading, Starting
<1>5. "poll" \in Held => now = now
  BY DEF Held
<1>6. "poll" \in Unused => now = tasks[t].gate
  BY DEF Unused
<1> QED
  BY <1>1, <1>2, <1>3, <1>4, <1>5, <1>6, CallsHold

(* Back to rest.                                                              *)
LEMMA RestIsCalm ==
  /\ AtRest \in ConfigTask /\ CalmTask(AtRest) /\ AtRest.gate = 0 /\ AtRest.pc \notin Held
  /\ AtRest.pc = "idle"
<1>1. AtRest.pc = "idle" /\ AtRest.gate = 0
  BY DEF AtRest
<1> QED
  BY <1>1, RestIsATask DEF CalmTask, Reloading, Starting, Held

LEMMA EndsCalmly ==
  ASSUME ConfigInv, NEW t \in Tasks, CalmTask(tasks[t]), Done(t), Fault \/ UNCHANGED tally,
         profile' \in Contents, secret' \in Secrets, wizard' \in SUBSET Nat,
         UNCHANGED <<live, agent, reloading, gates, now, tokens, socket>>
  PROVE  ConfigInv'
BY RestIsCalm, FaultKeeps, TallyStays, CalmStep DEF Done

LEMMA MovesCalmly ==
  ASSUME ConfigInv, NEW t \in Tasks, NEW pc \in Steps, CalmTask(tasks[t]), To(t, pc),
         pc \notin Reloading \cup Starting \cup {"announce"}, pc \in Held => tasks[t].gate # 0,
         pc \in Unused => tasks[t].gate = 0, Call(t) \/ UNCHANGED tally,
         profile' \in Contents, secret' \in Secrets, wizard' \in SUBSET Nat,
         UNCHANGED <<live, agent, reloading, gates, now, tokens, socket>>
  PROVE  ConfigInv'
<1>1. CalmTask(Moved(t, pc))
  BY ToPlace DEF CalmTask
<1> QED
  BY <1>1, ToPlace, CallCounts, TallyStays, CalmStep

LEMMA EditHolds == ASSUME ConfigInv, NEW t \in Tasks, Edit(t) PROVE ConfigInv'
<1> DEFINE x == [AtRest EXCEPT !.pc = "check"]
<1>1. x \in ConfigTask /\ x.pc = "check" /\ x.gate = 0
  <2>1. "check" \in Steps
    BY DEF Steps
  <2> QED
    BY <2>1, RestIsCalm DEF ConfigTask
<1>2. tasks' = [tasks EXCEPT ![t] = x]
  BY DEF Edit
<1>3. CalmTask(tasks[t]) /\ CalmTask(x) /\ x.pc \notin Held
  BY <1>1 DEF Edit, At, CalmTask, Reloading, Starting, Held
<1>4. profile' \in Contents
  <2>1. tasks[t].edit \in ConfigEdits
    BY ConfigParts DEF ConfigTask
  <2>2. ASSUME NEW f \in {"enabled", "turns", "ws", "rest"}, f \in DOMAIN tasks[t].edit
        PROVE tasks[t].edit[f] \in BOOLEAN
    BY <2>1, <2>2 DEF ConfigEdits, NoEdit, AtRest
  <2>3. DOMAIN profile = {"enabled", "turns", "ws", "rest"}
        /\ \A f \in {"enabled", "turns", "ws", "rest"} : profile[f] \in BOOLEAN
    BY ConfigParts DEF Contents
  <2>4. profile' = [f \in {"enabled", "turns", "ws", "rest"} |->
          IF f \in DOMAIN tasks[t].edit THEN tasks[t].edit[f] ELSE profile[f]]
    BY <2>3 DEF Edit
  <2>5. profile' \in [{"enabled", "turns", "ws", "rest"} -> BOOLEAN]
    BY <2>2, <2>3, <2>4
  <2> QED
    BY <2>5 DEF Contents
<1> HIDE DEF x
<1> QED
  BY <1>1, <1>2, <1>3, <1>4, ConfigParts, TallyStays, CalmStep DEF Edit

LEMMA EditRefusedHolds == ASSUME ConfigInv, NEW t \in Tasks, EditRefused(t) PROVE ConfigInv'
<1>1. CalmTask(tasks[t])
  BY DEF EditRefused, At, CalmTask, Reloading, Starting
<1> QED
  BY <1>1, ConfigParts, EndsCalmly DEF EditRefused, onlyTasks

LEMMA WriteResourceHolds == ASSUME ConfigInv, NEW t \in Tasks, WriteResource(t) PROVE ConfigInv'
<1>1. CalmTask(tasks[t]) /\ tasks[t].gate = 0
  BY ConfigParts DEF WriteResource, Call, At, CalmTask, Reloading, Starting, GatesKnown, Unused
<1>2. profile' \in Contents
  BY ConfigParts DEF WriteResource, Contents
<1>3. "load" \in Steps /\ "load" \notin Reloading \cup Starting \cup {"announce"} /\ "load" \notin Held
  BY DEF Steps, Reloading, Starting, Held
<1> QED
  BY <1>1, <1>2, <1>3, ConfigParts, MovesCalmly DEF WriteResource

LEMMA WatchHolds == ASSUME ConfigInv, Watch PROVE ConfigInv'
<1>3. Watcher \in Tasks
  BY DEF Tasks
<1>1. CalmTask(tasks[Watcher]) /\ tasks[Watcher].gate = 0
  BY <1>3, ConfigParts DEF Watch, At, CalmTask, Reloading, Starting, GatesKnown, Unused
<1>2. "load" \in Steps /\ "load" \notin Reloading \cup Starting \cup {"announce"} /\ "load" \notin Held
  BY DEF Steps, Reloading, Starting, Held
<1> QED
  BY <1>1, <1>2, <1>3, ConfigParts, MovesCalmly DEF Watch, onlyTasks

LEMMA CheckHolds == ASSUME ConfigInv, NEW t \in Tasks, Check(t) PROVE ConfigInv'
<1>1. CalmTask(tasks[t]) /\ tasks[t].gate = 0
  BY ConfigParts DEF Check, At, CalmTask, Reloading, Starting, GatesKnown, Unused
<1>2. "load" \in Steps /\ "load" \notin Reloading \cup Starting \cup {"announce"} /\ "load" \notin Held
  BY DEF Steps, Reloading, Starting, Held
<1>3. CASE Done(t)
  BY <1>1, <1>3, ConfigParts, EndsCalmly DEF Check, onlyTasks
<1>4. CASE To(t, "load")
  BY <1>1, <1>2, <1>4, ConfigParts, MovesCalmly DEF Check, onlyTasks
<1> QED
  BY <1>3, <1>4 DEF Check

LEMMA LoadHolds == ASSUME ConfigInv, NEW t \in Tasks, Load(t) PROVE ConfigInv'
<1> DEFINE x == [tasks[t] EXCEPT !.pc = "lock", !.loaded = profile]
<1>1. x \in ConfigTask /\ x.pc = "lock" /\ x.gate = tasks[t].gate
  <2>1. "lock" \in Steps
    BY DEF Steps
  <2> QED
    BY <2>1, ConfigParts, ZenonT(40) DEF ConfigTask
<1>2. tasks' = [tasks EXCEPT ![t] = x]
  BY ConfigParts DEF Load, ConfigTask
<1>3. CalmTask(tasks[t]) /\ CalmTask(x) /\ x.pc \notin Held /\ x.gate = 0
  BY <1>1, ConfigParts DEF Load, At, CalmTask, Reloading, Starting, Held, GatesKnown, Unused
<1> HIDE DEF x
<1> QED
  BY <1>1, <1>2, <1>3, ConfigParts, TallyStays, CalmStep DEF Load, onlyTasks

LEMMA RemoveSecretHolds == ASSUME ConfigInv, NEW t \in Tasks, RemoveSecret(t) PROVE ConfigInv'
<1> DEFINE e == [enabled |-> FALSE]
           x == [AtRest EXCEPT !.pc = "edit", !.edit = e]
<1>1. e \in ConfigEdits /\ "edit" \in Steps
  BY DEF ConfigEdits, Steps
<1>2. tasks' = [tasks EXCEPT ![t] = x] /\ secret' = "none"
  BY DEF RemoveSecret
<1> HIDE DEF e
<1>3. x \in ConfigTask /\ x.pc = "edit" /\ x.gate = 0
  BY <1>1, RestIsCalm DEF ConfigTask
<1> HIDE DEF x
<1>4. CalmTask(tasks[t]) /\ CalmTask(x) /\ x.pc \notin Held /\ secret' \in Secrets
  BY <1>2, <1>3 DEF RemoveSecret, At, CalmTask, Reloading, Starting, Held, Secrets
<1> QED
  BY <1>2, <1>3, <1>4, ConfigParts, TallyStays, CalmStep DEF RemoveSecret

LEMMA WriteSecretHolds == ASSUME ConfigInv, NEW t \in Tasks, WriteSecret(t) PROVE ConfigInv'
<1>1. CalmTask(tasks[t]) /\ secret' \in Secrets
  BY DEF WriteSecret, At, CalmTask, Reloading, Starting, Secrets
<1> QED
  BY <1>1, ConfigParts, EndsCalmly DEF WriteSecret

LEMMA OpenWizardHolds ==
  ASSUME ConfigInv, NEW t \in Tasks, BeginTelegram(t) \/ BeginFeishu(t) \/ BeginQq(t) \/ BeginWeixin(t)
  PROVE ConfigInv'
<1>1. PICK kept \in SUBSET wizard : OpenWizard(t, kept)
  BY DEF BeginTelegram, BeginFeishu, BeginQq, BeginWeixin
<1>2. wizard' \in SUBSET Nat
  BY <1>1, ConfigParts DEF OpenWizard, Fresh, Tally
<1>3. CalmTask(tasks[t])
  BY <1>1 DEF OpenWizard, At, CalmTask, Reloading, Starting
<1> QED
  BY <1>1, <1>2, <1>3, ConfigParts, EndsCalmly DEF OpenWizard

LEMMA BeginFailsHolds == ASSUME ConfigInv, NEW t \in Tasks, BeginFails(t) PROVE ConfigInv'
<1>1. CalmTask(tasks[t])
  BY DEF BeginFails, At, CalmTask, Reloading, Starting
<1> QED
  BY <1>1, ConfigParts, EndsCalmly DEF BeginFails, onlyTasks

LEMMA PollEndsHolds ==
  ASSUME ConfigInv, NEW t \in Tasks, PollWaits(t) \/ PollExpires(t) PROVE ConfigInv'
<1>1. PICK kept \in SUBSET wizard : PollEnds(t, kept)
  BY DEF PollWaits, PollExpires
<1>2. CalmTask(tasks[t])
  BY <1>1 DEF PollEnds, At, CalmTask, Reloading, Starting
<1> QED
  BY <1>1, <1>2, ConfigParts, EndsCalmly DEF PollEnds

LEMMA LeaveWizardHolds == ASSUME ConfigInv, NEW t \in Tasks, LeaveWizard(t) PROVE ConfigInv'
<1>1. CalmTask(tasks[t]) /\ tasks[t].gate # 0
  BY ConfigParts DEF LeaveWizard, At, CalmTask, Reloading, Starting, GatesKnown, Held
<1>2. "save" \in Steps /\ "save" \notin Reloading \cup Starting \cup Unused \cup {"announce"}
  BY DEF Steps, Reloading, Starting, Unused
<1>3. wizard' \in SUBSET Nat
  BY ConfigParts DEF LeaveWizard
<1> QED
  BY <1>1, <1>2, <1>3, ConfigParts, MovesCalmly DEF LeaveWizard

-----------------------------------------------------------------------------
(* Tokens.                                                                    *)

LEMMA ResetTokensHolds == ASSUME ConfigInv, NEW t \in Tasks, ResetTokens(t) PROVE ConfigInv'
<1> DEFINE x == Moved(t, "announce")
<1>1. "announce" \in Steps /\ "announce" \notin Reloading \cup Starting \cup Held
  BY DEF Steps, Reloading, Starting, Held
<1>2. x \in ConfigTask /\ x.pc = "announce" /\ x.gate = tasks[t].gate /\ tasks' = [tasks EXCEPT ![t] = x]
  BY <1>1, ToPlace DEF ResetTokens
<1> HIDE DEF x
<1>3. Call(t) /\ tokens' = tokens + 1 /\ tasks[t].pc = "idle"
  BY CallCounts DEF ResetTokens
<1>4. tasks'[t] = x /\ \A d \in Tasks \ {t} : tasks'[d] = tasks[d]
  BY <1>2, ConfigParts
<1>5. reloading # t /\ x.gate = 0
  BY <1>2, <1>3, ConfigParts DEF LockIsKept, Reloading, Starting, GatesKnown, Unused
<1>6. ConfigTypes'
  BY <1>2, <1>3, CallCounts, ConfigParts DEF ResetTokens, ConfigTypes
<1>7. TokensCounted'
  BY <1>3, CallCounts, ConfigParts DEF ResetTokens, TokensCounted, Listener
<1>8. GatesInOrder'
  BY GatesStay DEF ResetTokens
<1>9. GatesKnown' /\ LockIsKept'
  BY <1>1, <1>2, <1>4, <1>5, ConfigParts DEF ResetTokens, GatesKnown, LockIsKept
<1>10. ReloadsFit'
  <2>1. \A d \in Tasks : reloading = d => ReloadFits(d)'
    BY <1>3, <1>4, <1>5, CallCounts, ConfigParts DEF ResetTokens, ReloadsFit, ReloadFits, GateFits
  <2> QED
    BY <1>3, <2>1, CallCounts, ConfigParts DEF ResetTokens, ReloadsFit, GateFits
<1>11. FingerprintIsTrue' /\ StartsFit'
  BY <1>1, <1>2, <1>3, <1>4, CallCounts, ConfigParts DEF ResetTokens, FingerprintIsTrue, StartsFit, Reloading
<1>12. LoopFollows'
  <2>1. Announced'
    BY <1>2, <1>4 DEF Announced
  <2> QED
    BY <2>1, ConfigParts DEF ResetTokens, LoopFollows
<1> QED
  BY <1>6, <1>7, <1>8, <1>9, <1>10, <1>11, <1>12 DEF ConfigInv

(* The news reaches the listener's loop, and the caller is done.              *)
LEMMA NewsKeep ==
  ASSUME ConfigInv, socket' = [socket EXCEPT !.news = TRUE], UNCHANGED <<live, tokens>>
  PROVE  LoopFollows' /\ socket' \in Listener /\ socket'.uses = socket.uses /\ socket'.read = socket.read
<1>1. /\ socket' \in Listener /\ socket'.uses = socket.uses /\ socket'.read = socket.read /\ socket'.news
      /\ socket'.on = socket.on /\ socket'.over = socket.over /\ socket'.running = socket.running
      /\ socket'.pc = socket.pc /\ socket'.seen = socket.seen
  BY ConfigParts DEF Listener
<1> QED
  BY <1>1, ConfigParts DEF LoopFollows, Announced

LEMMA AnnounceHolds == ASSUME ConfigInv, NEW t \in Tasks, Announce(t) PROVE ConfigInv'
<1>1. tasks[t].pc = "announce" /\ tasks' = [tasks EXCEPT ![t] = AtRest]
  BY DEF Announce, At, Done
<1>2. tasks'[t] = AtRest /\ \A d \in Tasks \ {t} : tasks'[d] = tasks[d]
  BY <1>1, ConfigParts
<1>3. LoopFollows' /\ socket' \in Listener /\ socket'.uses = socket.uses /\ socket'.read = socket.read
  BY NewsKeep DEF Announce
<1>4. reloading # t
  BY <1>1, ConfigParts DEF LockIsKept, Reloading, Starting
<1>5. ConfigTypes'
  BY <1>1, <1>3, RestIsCalm, ConfigParts DEF Announce, ConfigTypes
<1>6. TokensCounted' /\ FingerprintIsTrue'
  BY <1>3, ConfigParts DEF Announce, TokensCounted, FingerprintIsTrue
<1>7. GatesInOrder'
  BY GatesStay DEF Announce
<1>8. GatesKnown' /\ LockIsKept' /\ StartsFit'
  BY <1>2, <1>4, RestIsCalm, ConfigParts, ZenonT(40)
     DEF Announce, GatesKnown, LockIsKept, StartsFit, Reloading, Starting
<1>9. ReloadsFit'
  <2>1. \A d \in Tasks : reloading = d => ReloadFits(d)'
    BY <1>2, <1>4, ConfigParts DEF Announce, ReloadsFit, ReloadFits, GateFits
  <2> QED
    BY <2>1, ConfigParts DEF Announce, ReloadsFit, GateFits
<1> QED
  BY <1>3, <1>5, <1>6, <1>7, <1>8, <1>9 DEF ConfigInv

-----------------------------------------------------------------------------
(* Gateways.                                                                  *)

LEMMA MadeStays ==
  ASSUME ConfigInv, \A g \in 1..MaxGates : gates'[g].made = gates[g].made
  PROVE  GatesInOrder'
<1>1. {g \in 1..MaxGates : gates'[g].made} = {g \in 1..MaxGates : gates[g].made}
  OBVIOUS
<1>2. Made' = Made
  BY <1>1 DEF Made
<1> QED
  BY <1>1, <1>2, ConfigParts DEF GatesInOrder

(* A step of a call that does not hold the lock of the reload.                *)
LEMMA BesideStep ==
  ASSUME ConfigInv, NEW t \in Tasks, NEW x \in ConfigTask, reloading # t,
         CalmTask(x) \/ (x.pc \in Starting /\ tally'.started),
         tasks[t].pc # "announce",
         x.gate = 0 \/ x.gate = tasks[t].gate, x.pc \in Held => x.gate # 0,
         x.pc \in Unused => x.gate = 0,
         tasks' = [tasks EXCEPT ![t] = x],
         gates' \in [1..MaxGates -> Gate],
         \A g \in 1..MaxGates :
           /\ gates'[g].made = gates[g].made /\ gates'[g].enabled = gates[g].enabled
           /\ gates'[g].active => gates[g].active \/ (gates[g].made /\ tally'.started),
         secret' \in Secrets, wizard' \in SUBSET Nat,
         tally' \in Tally, tally'.calls = tally.calls,
         tally'.partial = tally.partial, tally'.overtaken = tally.overtaken,
         tally.started => tally'.started,
         UNCHANGED <<profile, live, agent, reloading, now, tokens, socket>>
  PROVE  ConfigInv'
<1>1. ConfigTypes'
  BY ConfigParts DEF ConfigTypes
<1>2. tasks'[t] = x /\ \A d \in Tasks \ {t} : tasks'[d] = tasks[d]
  BY ConfigParts
<1>3. TokensCounted' /\ FingerprintIsTrue'
  BY ConfigParts DEF TokensCounted, FingerprintIsTrue
<1>4. GatesInOrder'
  BY MadeStays
<1>5. tasks[t].pc \notin Reloading
  BY ConfigParts DEF LockIsKept
<1>6. x.pc \notin Reloading
  BY DEF CalmTask, Starting, Reloading
<1>7. GatesKnown'
  <2>1. \A d \in Tasks : tasks[d].gate \in 0..MaxGates
    BY ConfigParts DEF ConfigTask
  <2>2. gates[now].made /\ \A g \in 1..MaxGates : gates[g].active => gates[g].made
    BY ConfigParts DEF GatesKnown
  <2>3. \A d \in Tasks : tasks[d].gate # 0 => tasks[d].gate \in 1..MaxGates /\ gates[tasks[d].gate].made
    BY <2>1, ConfigParts DEF GatesKnown
  <2>4. \A d \in Tasks : tasks'[d].gate # 0 => gates'[tasks'[d].gate].made
    BY <1>2, <2>3
  <2>5. \A d \in Tasks : /\ tasks'[d].pc \in Held => tasks'[d].gate # 0
                         /\ tasks'[d].pc \in Unused => tasks'[d].gate = 0
    BY <1>2, ConfigParts DEF GatesKnown
  <2> QED
    BY <2>2, <2>4, <2>5, ConfigParts DEF GatesKnown
<1>8. LockIsKept'
  BY <1>2, <1>6, ConfigParts DEF LockIsKept
<1>9. ReloadsFit'
  <2>1. gates'[now].enabled = gates[now].enabled
    BY ConfigParts
  <2>2. ASSUME NEW d \in Tasks, reloading = d PROVE ReloadFits(d)'
    <3>1. tasks'[d] = tasks[d] /\ tasks[d].gate \in 0..MaxGates /\ ReloadFits(d)
      BY <1>2, <2>2, ConfigParts DEF ReloadsFit, ConfigTask
    <3>2. tasks[d].gate # 0 => gates'[tasks[d].gate].enabled = gates[tasks[d].gate].enabled
      BY <3>1, ConfigParts
    <3> QED
      BY <2>1, <3>1, <3>2 DEF ReloadFits, GateFits
  <2> QED
    BY <2>1, <2>2, ConfigParts DEF ReloadsFit, GateFits
<1>10. StartsFit'
  BY <1>2, <1>6, ConfigParts DEF StartsFit, CalmTask, Reloading
<1>11. LoopFollows'
  <2>1. Announced' = Announced
    BY <1>2, <1>5, <1>6, ConfigParts DEF Announced, CalmTask, Reloading, Starting
  <2> QED
    BY <2>1, ConfigParts DEF LoopFollows, Current, Missed
<1> QED
  BY <1>1, <1>3, <1>4, <1>7, <1>8, <1>9, <1>10, <1>11 DEF ConfigInv

(* A step of the reload, which keeps its lock.                                *)
LEMMA LockStep ==
  ASSUME ConfigInv, NEW t \in Tasks, NEW x \in ConfigTask, reloading \in {t, Nobody},
         reloading' = t, x.pc \in Reloading \cup Starting,
         tasks[t].pc \notin {"announce", "publish"},
         tasks' = [tasks EXCEPT ![t] = x],
         agent' \in Contents, live' \in [content : Contents, source : Contents],
         gates' \in [1..MaxGates -> Gate], now' \in 1..MaxGates,
         tally' \in Tally, tally'.calls = tally.calls,
         GatesInOrder', gates'[now'].made,
         \A g \in 1..MaxGates : (gates[g].made => gates'[g].made) /\ (gates'[g].active => gates'[g].made),
         x.gate # 0 => gates'[x.gate].made, x.pc \in Held => x.gate # 0, x.pc \in Unused => x.gate = 0,
         ReloadFits(t)', FingerprintIsTrue', StartsFit',
         live'.content.ws = live.content.ws \/ x.pc = "publish",
         UNCHANGED <<profile, secret, wizard, tokens, socket>>
  PROVE  ConfigInv'
<1>1. ConfigTypes'
  BY ConfigParts DEF ConfigTypes
<1>2. tasks'[t] = x /\ \A d \in Tasks \ {t} : tasks'[d] = tasks[d]
  BY ConfigParts
<1>3. TokensCounted'
  BY ConfigParts DEF TokensCounted
<1>4. GatesKnown'
  <2>1. \A d \in Tasks : tasks[d].gate # 0 => tasks[d].gate \in 1..MaxGates /\ gates[tasks[d].gate].made
    BY ConfigParts DEF ConfigTask, GatesKnown
  <2>2. \A d \in Tasks : tasks'[d].gate # 0 => gates'[tasks'[d].gate].made
    BY <1>2, <2>1
  <2>3. \A d \in Tasks : /\ tasks'[d].pc \in Held => tasks'[d].gate # 0
                         /\ tasks'[d].pc \in Unused => tasks'[d].gate = 0
    BY <1>2, ConfigParts DEF GatesKnown
  <2> QED
    BY <2>2, <2>3 DEF GatesKnown
<1>5. LockIsKept'
  BY <1>2, ConfigParts DEF LockIsKept
<1>6. ReloadsFit'
  BY ConfigParts DEF ReloadsFit
<1>7. LoopFollows'
  <2>1. Announced \/ x.pc = "publish" => Announced'
    BY <1>2 DEF Announced
  <2>2. CASE x.pc = "publish"
    BY <2>1, <2>2, ConfigParts DEF LoopFollows
  <2>3. CASE x.pc # "publish"
    <3>1. Missed' = Missed
      BY <2>3 DEF Missed
    <3> QED
      BY <2>1, <2>3, <3>1, ConfigParts DEF LoopFollows, Current
  <2> QED
    BY <2>2, <2>3
<1> QED
  BY <1>1, <1>3, <1>4, <1>5, <1>6, <1>7 DEF ConfigInv

(* The end of a reload.                                                       *)
LEMMA ReleaseStep ==
  ASSUME ConfigInv, NEW t \in Tasks, reloading = t, Release(t), agent' \in Contents,
         socket' \in Listener, socket'.uses = socket.uses, socket'.read = socket.read,
         tally' \in Tally, tally'.calls = tally.calls, tally'.overtaken = tally.overtaken,
         tally'.started = tally.started,
         GateFits, ~tally'.partial => agent' = live.content,
         LoopFollows',
         UNCHANGED <<profile, secret, live, gates, now, wizard, tokens>>
  PROVE  ConfigInv'
<1>1. tasks' = [tasks EXCEPT ![t] = AtRest] /\ reloading' = Nobody
  BY DEF Release, Done
<1>2. tasks'[t] = AtRest /\ \A d \in Tasks \ {t} : tasks'[d] = tasks[d]
  BY <1>1, ConfigParts
<1>3. ConfigTypes'
  BY <1>1, RestIsCalm, ConfigParts DEF ConfigTypes
<1>4. TokensCounted' /\ FingerprintIsTrue'
  BY ConfigParts DEF TokensCounted, FingerprintIsTrue
<1>5. GatesInOrder'
  BY GatesStay
<1>6. GatesKnown'
  BY <1>2, RestIsCalm, ConfigParts DEF GatesKnown
<1>7. \A d \in Tasks : tasks'[d].pc \notin Reloading
  BY <1>2, RestIsCalm, ConfigParts DEF LockIsKept, Reloading
<1>8. LockIsKept'
  BY <1>1, <1>7, ConfigParts DEF LockIsKept
<1>9. ReloadsFit'
  BY <1>1, ConfigParts DEF ReloadsFit, GateFits
<1>10. StartsFit'
  BY <1>2, <1>7, RestIsCalm, ConfigParts DEF StartsFit, Starting, Reloading
<1> QED
  BY <1>3, <1>4, <1>5, <1>6, <1>8, <1>9, <1>10 DEF ConfigInv

-----------------------------------------------------------------------------
(* The reload.                                                                *)

LEMMA TakeReloadHolds == ASSUME ConfigInv, NEW t \in Tasks, TakeReload(t) PROVE ConfigInv'
<1> DEFINE x == [tasks[t] EXCEPT !.pc = "build", !.source = profile]
<1>1. "build" \in Steps /\ "build" \in Reloading /\ "build" \notin Held
  BY DEF Steps, Reloading, Held
<1>2. x \in ConfigTask /\ x.pc = "build" /\ x.gate = tasks[t].gate /\ x.source = profile
      /\ x.loaded = tasks[t].loaded
  BY <1>1, ConfigParts, ZenonT(40) DEF ConfigTask
<1>11. tasks[t].gate = 0
  BY ConfigParts DEF TakeReload, At, GatesKnown, Unused
<1>3. tasks' = [tasks EXCEPT ![t] = x]
  BY ConfigParts DEF TakeReload, ConfigTask
<1>4. tally' \in Tally /\ tally'.calls = tally.calls /\ tally'.partial = tally.partial
      /\ tally'.started = tally.started /\ tally'.overtaken = (tally.overtaken \/ profile # tasks[t].loaded)
  BY ConfigParts DEF TakeReload, Tally
<1> HIDE DEF x
<1>5. tasks'[t] = x /\ \A d \in Tasks \ {t} : tasks'[d] = tasks[d]
  BY <1>3, ConfigParts
<1>6. reloading = Nobody /\ reloading' = t /\ tasks[t].pc = "lock"
  BY DEF TakeReload, At
<1>7. ReloadFits(t)'
  BY <1>2, <1>4, <1>5, <1>6, ConfigParts DEF TakeReload, ReloadFits, ReloadsFit, GateFits, Starting
<1>8. FingerprintIsTrue' /\ StartsFit'
  BY <1>2, <1>4, <1>5, <1>6, ConfigParts, ZenonT(40) DEF TakeReload, FingerprintIsTrue, StartsFit, Starting
<1>9. GatesInOrder' /\ gates[now].made
  BY GatesStay, ConfigParts DEF TakeReload, GatesKnown
<1>10. \A g \in 1..MaxGates : (gates[g].made => gates'[g].made) /\ (gates'[g].active => gates'[g].made)
  BY ConfigParts DEF GatesKnown, TakeReload
<1>12. /\ agent' \in Contents /\ live' \in [content : Contents, source : Contents]
       /\ gates' \in [1..MaxGates -> Gate] /\ now' \in 1..MaxGates /\ gates'[now'].made
       /\ live'.content.ws = live.content.ws /\ UNCHANGED <<profile, secret, wizard, tokens, socket>>
  BY <1>9, ConfigParts DEF TakeReload
<1>13. tasks[t].pc \notin {"announce", "publish"} /\ x.gate = 0 /\ reloading \in {t, Nobody}
  BY <1>2, <1>6, <1>11
<1> QED
  BY <1>1, <1>2, <1>3, <1>4, <1>6, <1>7, <1>8, <1>9, <1>10, <1>12, <1>13, LockStep

(* Whoever is at a place of the reload has its lock.                          *)
LEMMA HolderKnown ==
  ASSUME ConfigInv, NEW t \in Tasks, tasks[t].pc \in Reloading
  PROVE  reloading = t /\ ReloadFits(t)
BY ConfigParts DEF LockIsKept, ReloadsFit

LEMMA MadeGrows ==
  ASSUME ConfigInv, Made < MaxGates
  PROVE  /\ Made \in Nat /\ Made + 1 \in 1..MaxGates /\ ~gates[Made + 1].made
         /\ gates' = [gates EXCEPT ![Made + 1] = [NoGate EXCEPT !.made = TRUE, !.enabled = gates'[Made + 1].enabled]]
              => GatesInOrder'
<1> DEFINE made == {g \in 1..MaxGates : gates[g].made}
           m == Made
<1>1. IsFiniteSet(1..MaxGates) /\ made \subseteq 1..MaxGates
  BY FS_Interval, ConfigParts
<1>2. IsFiniteSet(made)
  BY <1>1, FS_Subset
<1>3. m \in Nat /\ m = Cardinality(made)
  BY <1>2, FS_CardinalityType DEF Made
<1>4. made = 1..m
  BY ConfigParts DEF GatesInOrder
<1> HIDE DEF m
<1>5. m + 1 \in 1..MaxGates /\ m + 1 \notin 1..m
  BY <1>3, ConfigParts DEF m
<1>6. ~gates[m + 1].made
  BY <1>4, <1>5
<1>7. ASSUME gates' = [gates EXCEPT ![m + 1] = [NoGate EXCEPT !.made = TRUE, !.enabled = gates'[m + 1].enabled]]
      PROVE GatesInOrder'
  <2> DEFINE new == [NoGate EXCEPT !.made = TRUE, !.enabled = gates'[m + 1].enabled]
  <2>1. new.made
    BY DEF NoGate
  <2>2. gates' = [gates EXCEPT ![m + 1] = new]
    BY <1>7
  <2> HIDE DEF new
  <2>3. gates'[m + 1].made /\ \A g \in 1..MaxGates : g # m + 1 => gates'[g] = gates[g]
    BY <1>5, <2>1, <2>2, ConfigParts
  <2>4. {g \in 1..MaxGates : gates'[g].made} = made \cup {m + 1}
    BY <1>5, <2>3
  <2>5. Made' = m + 1
    <3>1. m + 1 \notin made
      BY <1>6
    <3>2. Cardinality(made \cup {m + 1}) = Cardinality(made) + 1
      BY <1>2, <3>1, FS_AddElement
    <3> QED
      BY <1>3, <2>4, <3>2 DEF Made
  <2>6. made \cup {m + 1} = 1..(m + 1)
    <3>1. 1..m \cup {m + 1} = 1..(m + 1)
      BY <1>3
    <3> QED
      BY <1>4, <3>1
  <2> QED
    BY <2>4, <2>5, <2>6 DEF GatesInOrder
<1> QED
  BY <1>3, <1>5, <1>6, <1>7 DEF m

LEMMA BuildHolds == ASSUME ConfigInv, NEW t \in Tasks, Build(t) PROVE ConfigInv'
<1>1. tasks[t].pc = "build" /\ reloading = t /\ ReloadFits(t)
  BY HolderKnown DEF Build, At, Reloading
<1>2. "apply" \in Steps /\ "apply" \in Reloading /\ "apply" \notin Held
  BY DEF Steps, Reloading, Held
<1>3. gates[now].made /\ live.content \in Contents /\ tasks[t] \in ConfigTask
  BY ConfigParts DEF GatesKnown
<1>4. CASE ChannelChanged(t)
  <2> DEFINE n == Made + 1
             new == [NoGate EXCEPT !.made = TRUE, !.enabled = tasks[t].loaded.enabled]
             x == [tasks[t] EXCEPT !.pc = "apply", !.gate = n]
  <2>1. n \in 1..MaxGates /\ ~gates[n].made /\ n # 0
    BY <1>4, MadeGrows, ConfigParts DEF Build
  <2>2. gates' = [gates EXCEPT ![n] = new] /\ tasks' = [tasks EXCEPT ![t].pc = "apply", ![t].gate = n]
    BY <1>4 DEF Build
  <2>3. new \in Gate /\ new.made /\ new.enabled = tasks[t].loaded.enabled /\ ~new.active
    BY <1>3 DEF NoGate, Gate, ConfigTask, Contents
  <2> HIDE DEF new
  <2>4. gates' \in [1..MaxGates -> Gate] /\ gates'[n] = new
        /\ \A g \in 1..MaxGates : g # n => gates'[g] = gates[g]
    BY <2>1, <2>2, <2>3, ConfigParts
  <2>5. GatesInOrder'
    <3>1. new = [NoGate EXCEPT !.made = TRUE, !.enabled = gates'[Made + 1].enabled]
      BY <2>3, <2>4 DEF new
    <3> QED
      BY <1>4, <2>2, <3>1, MadeGrows DEF Build
  <2> HIDE DEF n
  <2>a. n \in 0..MaxGates
    BY <2>1, ConfigParts
  <2>6. x \in ConfigTask /\ x.pc = "apply" /\ x.gate = n /\ x.loaded = tasks[t].loaded /\ x.source = tasks[t].source
    BY <1>2, <1>3, <2>a DEF ConfigTask
  <2>7. tasks' = [tasks EXCEPT ![t] = x]
    BY <1>3, <2>2, ConfigParts DEF ConfigTask
  <2> HIDE DEF x
  <2>8. tasks'[t] = x /\ \A d \in Tasks \ {t} : tasks'[d] = tasks[d]
    BY <2>7, ConfigParts
  <2>9. now # n
    BY <1>3, <2>1
  <2>10. ReloadFits(t)'
    BY <1>1, <2>1, <2>3, <2>4, <2>6, <2>8, <2>9, ConfigParts DEF Build, ReloadFits, GateFits, Starting
  <2>11. FingerprintIsTrue'
    BY ConfigParts DEF Build, FingerprintIsTrue
  <2>12. StartsFit'
    BY <1>1, <2>3, <2>4, <2>6, <2>8, ConfigParts, SMTT(30) DEF Build, StartsFit, Starting
  <2>13. \A g \in 1..MaxGates : (gates[g].made => gates'[g].made) /\ (gates'[g].active => gates'[g].made)
    BY <2>1, <2>3, <2>4, ConfigParts DEF GatesKnown
  <2>14. gates'[now].made
    BY <1>3, <2>9, <2>4, ConfigParts
  <2> QED
    <3>1. /\ agent' \in Contents /\ live' \in [content : Contents, source : Contents]
          /\ now' \in 1..MaxGates /\ gates'[now'].made /\ live'.content.ws = live.content.ws
          /\ reloading' = t /\ reloading \in {t, Nobody}
          /\ UNCHANGED <<profile, secret, wizard, tokens, socket>>
      BY <1>1, <2>14, ConfigParts DEF Build
    <3>2. tally' \in Tally /\ tally'.calls = tally.calls
      BY TallyStays DEF Build
    <3>3. x.gate # 0 => gates'[x.gate].made
      BY <2>3, <2>4, <2>6
    <3>4. x.pc \in Reloading \cup Starting /\ x.pc \notin Held \cup Unused
      BY <1>2, <2>6 DEF Unused, Held
    <3> QED
      BY <1>1, <2>4, <2>5, <2>6, <2>7, <2>10, <2>11, <2>12, <2>13, <3>1, <3>2, <3>3, <3>4, LockStep
<1>5. CASE ~ChannelChanged(t)
  <2> DEFINE x == Moved(t, "apply")
  <2>1. x \in ConfigTask /\ x.pc = "apply" /\ x.gate = tasks[t].gate /\ x.loaded = tasks[t].loaded
        /\ x.source = tasks[t].source /\ tasks' = [tasks EXCEPT ![t] = x] /\ gates' = gates
    BY <1>2, <1>5, ToPlace DEF Build
  <2> HIDE DEF x
  <2>2. tasks'[t] = x /\ \A d \in Tasks \ {t} : tasks'[d] = tasks[d]
    BY <2>1, ConfigParts
  <2>3. tasks[t].loaded.enabled = live.content.enabled
    BY <1>5 DEF ChannelChanged, ChannelFields
  <2>4. tasks[t].gate = 0
    BY <1>1, ConfigParts DEF GatesKnown, Unused
  <2>5. ReloadFits(t)'
    BY <1>1, <2>1, <2>2, <2>3, <2>4, ConfigParts DEF Build, ReloadFits, GateFits, Starting
  <2>6. FingerprintIsTrue'
    BY ConfigParts DEF Build, FingerprintIsTrue
  <2>7. StartsFit'
    BY <1>1, <2>1, <2>2, ConfigParts DEF Build, StartsFit, Starting
  <2>8. \A g \in 1..MaxGates : (gates[g].made => gates'[g].made) /\ (gates'[g].active => gates'[g].made)
    BY <2>1, ConfigParts DEF GatesKnown
  <2>9. GatesInOrder' /\ gates'[now].made
    BY <1>3, <2>1, GatesStay
  <2> QED
    BY <1>1, <1>2, <2>1, <2>4, <2>5, <2>6, <2>7, <2>8, <2>9, ConfigParts, TallyStays, LockStep DEF Build
<1> QED
  BY <1>4, <1>5

(* A step of the reload that moves to another place and no more.              *)
LEMMA LockMove ==
  ASSUME ConfigInv, NEW t \in Tasks, NEW pc \in Steps, reloading = t, reloading' = t, To(t, pc),
         pc \in Reloading \cup Starting, tasks[t].pc # "publish",
         agent' \in Contents, live' \in [content : Contents, source : Contents],
         gates' \in [1..MaxGates -> Gate], now' \in 1..MaxGates,
         \A g \in 1..MaxGates :
           /\ gates'[g].made = gates[g].made
           /\ gates'[g].active => gates'[g].made,
         gates'[now'].made, pc \in Held => tasks[t].gate # 0, pc \notin Unused,
         tally' \in Tally, tally'.calls = tally.calls,
         ReloadFits(t)', FingerprintIsTrue', StartsFit',
         live'.content.ws = live.content.ws \/ pc = "publish",
         UNCHANGED <<profile, secret, wizard, tokens, socket>>
  PROVE  ConfigInv'
<1> DEFINE x == Moved(t, pc)
<1>1. x \in ConfigTask /\ x.pc = pc /\ x.gate = tasks[t].gate /\ tasks' = [tasks EXCEPT ![t] = x]
  BY ToPlace
<1> HIDE DEF x
<1>2. tasks[t].pc # "announce"
  BY ConfigParts DEF LockIsKept, Reloading, Starting
<1>3. GatesInOrder'
  BY MadeStays
<1>4. x.gate # 0 => gates'[x.gate].made
  BY <1>1, ConfigParts DEF GatesKnown, ConfigTask
<1> QED
  BY <1>1, <1>2, <1>3, <1>4, LockStep

LEMMA PlaceOf ==
  ASSUME ConfigInv, NEW t \in Tasks, NEW pc \in Steps, To(t, pc)
  PROVE  /\ tasks'[t].pc = pc /\ tasks'[t].gate = tasks[t].gate
         /\ tasks'[t].loaded = tasks[t].loaded /\ tasks'[t].source = tasks[t].source
         /\ \A d \in Tasks \ {t} : tasks'[d] = tasks[d]
BY ToPlace, ConfigParts

LEMMA BuildFailsHolds == ASSUME ConfigInv, NEW t \in Tasks, BuildFails(t) PROVE ConfigInv'
<1>1. tasks[t].pc = "build" /\ reloading = t /\ ReloadFits(t)
  BY HolderKnown DEF BuildFails, At, Reloading
<1>2. GateFits /\ (~tally.partial => agent = live.content)
  BY <1>1 DEF ReloadFits
<1>3. UNCHANGED tally \/ Fault
  BY DEF BuildFails
<1>4. LoopFollows'
  <2>1. Announced => Announced'
    <3>1. tasks' = [tasks EXCEPT ![t] = AtRest]
      BY DEF BuildFails, Release, Done
    <3> QED
      BY <1>1, <3>1, ConfigParts DEF Announced, BuildFails
  <2> QED
    BY <2>1, ConfigParts DEF BuildFails, LoopFollows, Current, Missed
<1>5. /\ agent' = agent /\ socket' = socket /\ Release(t)
      /\ UNCHANGED <<profile, secret, live, gates, now, wizard, tokens>>
  BY DEF BuildFails
<1> QED
  BY <1>1, <1>2, <1>3, <1>4, <1>5, FaultKeeps, TallyStays, ConfigParts, ReleaseStep

LEMMA ApplyHolds == ASSUME ConfigInv, NEW t \in Tasks, Apply(t) PROVE ConfigInv'
<1>1. tasks[t].pc = "apply" /\ reloading = t /\ ReloadFits(t)
  BY HolderKnown DEF Apply, At, Reloading
<1>2. PICK pc \in {"stop", "record"} : To(t, pc) /\ (pc = "stop" => tasks[t].gate # 0)
                                       /\ (pc = "record" => tasks[t].gate = 0)
  BY DEF Apply
<1>3. pc \in Steps /\ pc \in Reloading /\ pc \notin Unused \cup Starting /\ pc \notin {"publish", "swap", "apply", "build"}
  BY <1>2 DEF Steps, Reloading, Unused, Starting
<1>4. tasks[t] \in ConfigTask /\ agent' = tasks[t].loaded /\ agent' \in Contents
  BY ConfigParts DEF Apply, ConfigTask
<1>5. /\ tasks'[t].pc = pc /\ tasks'[t].gate = tasks[t].gate
      /\ tasks'[t].loaded = tasks[t].loaded /\ tasks'[t].source = tasks[t].source
      /\ \A d \in Tasks \ {t} : tasks'[d] = tasks[d]
  BY <1>2, <1>3, PlaceOf
<1>6. UNCHANGED <<profile, secret, live, reloading, gates, now, wizard, tokens, socket, tally>>
  BY DEF Apply
<1>7. ReloadFits(t)'
  <2>1. CASE pc = "stop"
    BY <1>1, <1>2, <1>3, <1>4, <1>5, <1>6, <2>1 DEF ReloadFits, GateFits, Starting
  <2>2. CASE pc = "record"
    BY <1>1, <1>2, <1>3, <1>4, <1>5, <1>6, <2>2 DEF ReloadFits, GateFits, Starting
  <2> QED
    BY <2>1, <2>2
<1>8. FingerprintIsTrue' /\ StartsFit'
  BY <1>1, <1>3, <1>5, <1>6, ConfigParts DEF FingerprintIsTrue, StartsFit
<1>9. \A g \in 1..MaxGates : gates'[g].made = gates[g].made /\ (gates'[g].active => gates'[g].made)
  BY <1>6, ConfigParts DEF GatesKnown
<1>10. gates'[now'].made /\ (pc \in Held => tasks[t].gate # 0)
  BY <1>2, <1>6, ConfigParts DEF GatesKnown, Held
<1> QED
  BY <1>1, <1>2, <1>3, <1>4, <1>6, <1>7, <1>8, <1>9, <1>10, ConfigParts, LockMove

LEMMA ApplyHalfHolds == ASSUME ConfigInv, NEW t \in Tasks, ApplyHalf(t) PROVE ConfigInv'
<1>1. tasks[t].pc = "apply" /\ reloading = t /\ ReloadFits(t)
  BY HolderKnown DEF ApplyHalf, At, Reloading
<1>2. GateFits /\ agent' \in Contents
  BY <1>1, ConfigParts DEF ReloadFits, ApplyHalf, ConfigTask
<1>3. /\ tally' \in Tally /\ tally'.calls = tally.calls /\ tally'.overtaken = tally.overtaken
      /\ tally'.started = tally.started /\ tally'.partial
  <2> DEFINE n == tally.faults + 1
  <2>1. tally \in Tally /\ n \in Nat
    BY ConfigParts DEF Tally
  <2>2. tally' = [tally EXCEPT !.faults = n, !.partial = TRUE]
    BY DEF ApplyHalf
  <2> HIDE DEF n
  <2> QED
    BY <2>1, <2>2 DEF Tally
<1>4. LoopFollows'
  <2>1. Announced => Announced'
    <3>1. tasks' = [tasks EXCEPT ![t] = AtRest]
      BY DEF ApplyHalf, Release, Done
    <3> QED
      BY <1>1, <3>1, ConfigParts DEF Announced, ApplyHalf
  <2> QED
    BY <2>1, ConfigParts DEF ApplyHalf, LoopFollows, Current, Missed
<1>5. /\ socket' = socket /\ Release(t)
      /\ UNCHANGED <<profile, secret, live, gates, now, wizard, tokens>>
  BY DEF ApplyHalf
<1> QED
  BY <1>1, <1>2, <1>3, <1>4, <1>5, ConfigParts, ReleaseStep

LEMMA RecordHolds == ASSUME ConfigInv, NEW t \in Tasks, Record(t) PROVE ConfigInv'
<1>1. tasks[t].pc = "record" /\ reloading = t /\ ReloadFits(t)
  BY HolderKnown DEF Record, At, Reloading
<1>2. "publish" \in Steps /\ "publish" \in Reloading /\ "publish" \notin Unused \cup Starting \cup Held
  BY DEF Steps, Reloading, Unused, Starting, Held
<1>3. To(t, "publish") /\ UNCHANGED <<profile, secret, agent, reloading, gates, now, wizard, tokens, socket>>
  BY DEF Record, To
<1>4. /\ tasks'[t].pc = "publish" /\ tasks'[t].gate = tasks[t].gate
      /\ tasks'[t].loaded = tasks[t].loaded /\ tasks'[t].source = tasks[t].source
      /\ \A d \in Tasks \ {t} : tasks'[d] = tasks[d]
  BY <1>2, <1>3, PlaceOf
<1>5. /\ live' \in [content : Contents, source : Contents]
      /\ live'.content = tasks[t].loaded /\ live'.source = tasks[t].source
  BY ConfigParts DEF Record, ConfigTask
<1>6. /\ tally' \in Tally /\ tally'.calls = tally.calls /\ tally'.overtaken = tally.overtaken
      /\ tally'.started = tally.started /\ ~tally'.partial
  BY ConfigParts DEF Record, Tally
<1>7. ReloadFits(t)'
  BY <1>1, <1>2, <1>3, <1>4, <1>5, <1>6 DEF ReloadFits, GateFits, Starting
<1>8. FingerprintIsTrue' /\ StartsFit'
  BY <1>1, <1>2, <1>3, <1>4, <1>5, <1>6, ConfigParts DEF FingerprintIsTrue, StartsFit, ReloadFits
<1>9. \A g \in 1..MaxGates : gates'[g].made = gates[g].made /\ (gates'[g].active => gates'[g].made)
  BY <1>3, ConfigParts DEF GatesKnown
<1>10. gates'[now'].made
  BY <1>3, ConfigParts DEF GatesKnown
<1> QED
  BY <1>1, <1>2, <1>3, <1>5, <1>6, <1>7, <1>8, <1>9, <1>10, ConfigParts, LockMove

LEMMA PublishHolds == ASSUME ConfigInv, NEW t \in Tasks, Publish(t) PROVE ConfigInv'
<1>1. tasks[t].pc = "publish" /\ reloading = t /\ ReloadFits(t)
  BY HolderKnown DEF Publish, At, Reloading
<1>2. GateFits /\ (~tally.partial => agent = live.content)
  BY <1>1 DEF ReloadFits
<1>3. LoopFollows' /\ socket' \in Listener /\ socket'.uses = socket.uses /\ socket'.read = socket.read
  BY NewsKeep DEF Publish
<1>4. /\ agent' = agent /\ tally' = tally /\ Release(t)
      /\ UNCHANGED <<profile, secret, live, gates, now, wizard, tokens>>
  BY DEF Publish
<1> QED
  BY <1>1, <1>2, <1>3, <1>4, TallyStays, ConfigParts, ReleaseStep

-----------------------------------------------------------------------------
(* Stopping, starting and moving the pointers.                                *)

LEMMA StopGateHolds == ASSUME ConfigInv, NEW t \in Tasks, StopGate(t) PROVE ConfigInv'
<1> DEFINE g == GateOf(t)
<1>1. /\ gates' = [gates EXCEPT ![g].active = FALSE]
      /\ UNCHANGED <<profile, secret, live, agent, reloading, now, wizard, tokens, socket, tally>>
  BY DEF StopGate
<1>2. \/ tasks[t].pc = "stop" /\ To(t, "swap")
      \/ tasks[t].pc = "stopbind" /\ To(t, "begin")
      \/ tasks[t].pc = "stopunbind" /\ To(t, "remove")
  BY DEF StopGate, Stopping
<1>3. tasks[t].gate # 0 /\ tasks[t].gate \in 0..MaxGates
  BY <1>2, ConfigParts DEF GatesKnown, Held, ConfigTask
<1>4. g \in 1..MaxGates /\ (tasks[t].pc = "stop" => g = now)
  BY <1>2, <1>3, ConfigParts DEF GateOf, At
<1> HIDE DEF g
<1>5. /\ gates' \in [1..MaxGates -> Gate] /\ ~gates'[g].active
      /\ \A h \in 1..MaxGates : /\ gates'[h].made = gates[h].made /\ gates'[h].enabled = gates[h].enabled
                                /\ gates'[h].active => gates[h].active
  <2> DEFINE y == [gates[g] EXCEPT !.active = FALSE]
  <2>1. gates[g] \in Gate
    BY <1>4, ConfigParts
  <2>2. y \in Gate /\ ~y.active /\ y.made = gates[g].made /\ y.enabled = gates[g].enabled
    BY <2>1 DEF Gate
  <2>3. gates' = [gates EXCEPT ![g] = y]
    BY <1>1, <2>1 DEF Gate
  <2> HIDE DEF y
  <2> QED
    BY <1>4, <2>2, <2>3, ConfigParts
<1>6. \A h \in 1..MaxGates : gates'[h].active => gates'[h].made
  BY <1>5, ConfigParts DEF GatesKnown
<1>7. CASE tasks[t].pc = "stop" /\ To(t, "swap")
  <2>1. reloading = t /\ ReloadFits(t)
    BY <1>7, HolderKnown DEF Reloading
  <2>2. "swap" \in Steps /\ "swap" \in Reloading /\ "swap" \notin Unused \cup Starting
    BY DEF Steps, Reloading, Unused, Starting
  <2>3. /\ tasks'[t].pc = "swap" /\ tasks'[t].gate = tasks[t].gate
        /\ tasks'[t].loaded = tasks[t].loaded /\ tasks'[t].source = tasks[t].source
        /\ \A d \in Tasks \ {t} : tasks'[d] = tasks[d]
    BY <1>7, <2>2, PlaceOf
  <2>4. tasks[t].gate \in 1..MaxGates /\ gates'[tasks[t].gate].enabled = gates[tasks[t].gate].enabled
        /\ gates'[now].enabled = gates[now].enabled
    BY <1>3, <1>5, ConfigParts
  <2>5. ReloadFits(t)'
    BY <1>1, <1>7, <2>1, <2>2, <2>3, <2>4 DEF ReloadFits, GateFits, Starting
  <2>6. FingerprintIsTrue'
    BY <1>1, ConfigParts DEF FingerprintIsTrue
  <2>7. StartsFit'
    BY <1>1, <1>4, <1>5, <1>7, <2>1, <2>2, <2>3, ConfigParts DEF StartsFit
  <2>8. gates'[now'].made
    BY <1>1, <1>5, ConfigParts DEF GatesKnown
  <2> QED
    BY <1>1, <1>3, <1>5, <1>6, <1>7, <2>1, <2>2, <2>5, <2>6, <2>7, <2>8, ConfigParts, TallyStays, LockMove
<1>8. CASE tasks[t].pc # "stop"
  <2>1. PICK pc \in {"begin", "remove"} : To(t, pc)
    BY <1>2, <1>8
  <2>2. pc \in Steps /\ pc \notin Reloading \cup Starting \cup Held \cup Unused \cup {"announce"}
    BY <2>1 DEF Steps, Reloading, Starting, Held, Unused
  <2>3. reloading # t
    BY <1>2, <1>8, ConfigParts DEF LockIsKept, Reloading, Starting
  <2> DEFINE x == Moved(t, pc)
  <2>4. x \in ConfigTask /\ x.pc = pc /\ x.gate = tasks[t].gate /\ tasks' = [tasks EXCEPT ![t] = x]
    BY <2>1, <2>2, ToPlace
  <2> HIDE DEF x
  <2>5. CalmTask(x) /\ tasks[t].pc # "announce"
    BY <1>2, <2>2, <2>4 DEF CalmTask
  <2> QED
    BY <1>1, <1>5, <2>2, <2>3, <2>4, <2>5, ConfigParts, TallyStays, BesideStep
<1> QED
  BY <1>2, <1>7, <1>8

LEMMA SwapHolds == ASSUME ConfigInv, NEW t \in Tasks, Swap(t) PROVE ConfigInv'
<1>1. tasks[t].pc = "swap" /\ reloading = t /\ ReloadFits(t)
  BY HolderKnown DEF Swap, At, Reloading
<1>2. PICK pc \in {"start", "record"} : To(t, pc)
  BY DEF Swap
<1>3. pc \in Steps /\ pc \in Reloading \cup Starting /\ pc \notin Unused /\ pc # "swap"
  BY <1>2 DEF Steps, Reloading, Starting, Unused
<1>4. /\ now' = tasks[t].gate
      /\ UNCHANGED <<profile, secret, live, agent, reloading, gates, wizard, tokens, socket, tally>>
  BY DEF Swap
<1>5. /\ tasks'[t].pc = pc /\ tasks'[t].gate = tasks[t].gate
      /\ tasks'[t].loaded = tasks[t].loaded /\ tasks'[t].source = tasks[t].source
      /\ \A d \in Tasks \ {t} : tasks'[d] = tasks[d]
  BY <1>2, <1>3, PlaceOf
<1>6. tasks[t].gate # 0 /\ tasks[t].gate \in 1..MaxGates /\ gates[tasks[t].gate].made
  BY <1>1, ConfigParts DEF GatesKnown, Held, ConfigTask
<1>7. ReloadFits(t)'
  BY <1>1, <1>2, <1>4, <1>5, <1>6 DEF ReloadFits, GateFits, Starting
<1>8. FingerprintIsTrue'
  BY <1>4, ConfigParts DEF FingerprintIsTrue
<1>9. StartsFit'
  BY <1>1, <1>3, <1>4, <1>5, ConfigParts DEF StartsFit
<1>10. \A g \in 1..MaxGates : gates'[g].made = gates[g].made /\ (gates'[g].active => gates'[g].made)
  BY <1>4, ConfigParts DEF GatesKnown
<1> QED
  BY <1>1, <1>2, <1>3, <1>4, <1>6, <1>7, <1>8, <1>9, <1>10, ConfigParts, TallyStays, LockMove

(* Where a start of a channel leads: on in the reload, or to the end of the   *)
(* call that bound it.                                                        *)
LEMMA StartStep ==
  ASSUME ConfigInv, NEW t \in Tasks, tasks[t].pc \in Starting,
         \/ reloading = t /\ (To(t, "prepare") \/ To(t, "record"))
         \/ reloading # t /\ (To(t, "prepare") \/ Done(t)),
         gates' \in [1..MaxGates -> Gate],
         \A h \in 1..MaxGates :
           /\ gates'[h].made = gates[h].made /\ gates'[h].enabled = gates[h].enabled
           /\ gates'[h].active => gates[h].active \/ h = tasks[t].gate,
         Fault \/ UNCHANGED tally,
         UNCHANGED <<profile, secret, live, agent, reloading, now, wizard, tokens, socket>>
  PROVE  ConfigInv'
<1>1. /\ tally' \in Tally /\ tally'.calls = tally.calls /\ tally'.partial = tally.partial
      /\ tally'.overtaken = tally.overtaken /\ tally'.started = tally.started
  BY FaultKeeps, TallyStays
<1>2. tasks[t].gate \in 1..MaxGates /\ gates[tasks[t].gate].made
  BY ConfigParts DEF GatesKnown, Held, Starting, ConfigTask
<1>3. \A h \in 1..MaxGates : gates'[h].active => gates'[h].made
  BY <1>2, ConfigParts DEF GatesKnown
<1>4. CASE reloading = t
  <2>1. PICK pc \in {"prepare", "record"} : To(t, pc)
    BY <1>4
  <2>2. pc \in Steps /\ pc \in Reloading \cup Starting /\ pc \notin Unused \cup {"swap", "publish", "apply", "build", "stop"}
    BY <2>1 DEF Steps, Reloading, Starting, Unused
  <2>3. /\ tasks'[t].pc = pc /\ tasks'[t].gate = tasks[t].gate
        /\ tasks'[t].loaded = tasks[t].loaded /\ tasks'[t].source = tasks[t].source
        /\ \A d \in Tasks \ {t} : tasks'[d] = tasks[d]
    BY <2>1, <2>2, PlaceOf
  <2>4. ReloadFits(t) /\ gates'[now].enabled = gates[now].enabled
    BY <1>4, ConfigParts DEF ReloadsFit
  <2>5. tasks[t].gate = now /\ tasks[t].pc # "publish" /\ tasks[t].pc # "swap"
    BY <2>4 DEF ReloadFits, Starting
  <2>6. ReloadFits(t)'
    BY <1>1, <1>4, <2>1, <2>2, <2>3, <2>4, <2>5 DEF ReloadFits, GateFits, Starting
  <2>7. FingerprintIsTrue'
    BY <1>1, ConfigParts DEF FingerprintIsTrue
  <2>8. StartsFit'
    <3>1. \A d \in Tasks : tasks'[d].pc = "swap" => reloading = d /\ d # t
      BY <2>2, <2>3, ConfigParts DEF LockIsKept, Reloading
    <3> QED
      BY <1>1, <1>4, <2>3, <2>5, <3>1, ConfigParts DEF StartsFit
  <2>9. gates'[now'].made
    BY ConfigParts DEF GatesKnown
  <2> QED
    BY <1>1, <1>2, <1>3, <1>4, <2>1, <2>2, <2>5, <2>6, <2>7, <2>8, <2>9, ConfigParts, LockMove
<1>5. CASE reloading # t
  <2>1. tally.started
    BY <1>5, ConfigParts DEF StartsFit
  <2>2. \A h \in 1..MaxGates :
          /\ gates'[h].made = gates[h].made /\ gates'[h].enabled = gates[h].enabled
          /\ gates'[h].active => gates[h].active \/ (gates[h].made /\ tally'.started)
    BY <1>1, <1>2, <2>1
  <2>3. tasks[t].pc # "announce"
    BY DEF Starting
  <2>4. CASE To(t, "prepare")
    <3> DEFINE x == Moved(t, "prepare")
    <3>1. "prepare" \in Steps /\ "prepare" \in Starting /\ "prepare" \notin Unused
      BY DEF Steps, Starting, Unused
    <3>2. x \in ConfigTask /\ x.pc = "prepare" /\ x.gate = tasks[t].gate /\ tasks' = [tasks EXCEPT ![t] = x]
      BY <2>4, <3>1, ToPlace
    <3> HIDE DEF x
    <3>3. x.gate # 0
      BY <1>2, <3>2
    <3> QED
      BY <1>1, <1>5, <2>1, <2>2, <2>3, <3>1, <3>2, <3>3, ConfigParts, BesideStep
  <2>5. CASE Done(t)
    <3>1. tasks' = [tasks EXCEPT ![t] = AtRest]
      BY <2>5 DEF Done
    <3> QED
      BY <1>1, <1>5, <2>1, <2>2, <2>3, <3>1, RestIsCalm, ConfigParts, BesideStep
  <2> QED
    BY <1>5, <2>4, <2>5
<1> QED
  BY <1>4, <1>5

LEMMA StartGateHolds == ASSUME ConfigInv, NEW t \in Tasks, StartGate(t) PROVE ConfigInv'
<1> DEFINE g == tasks[t].gate
<1>1. tasks[t].pc = "start" /\ tasks[t].pc \in Starting /\ g \in 1..MaxGates
  BY ConfigParts DEF StartGate, At, Starting, GatesKnown, Held, ConfigTask
<1>2. UNCHANGED <<profile, secret, live, agent, reloading, now, wizard, tokens, socket, tally>>
  BY DEF StartGate
<1>3. \/ reloading = t /\ (To(t, "prepare") \/ To(t, "record"))
      \/ reloading # t /\ (To(t, "prepare") \/ Done(t))
  BY DEF StartGate, AfterStart
<1>4. gates' = gates \/ gates' = [gates EXCEPT ![g].busy = t]
  BY DEF StartGate
<1> HIDE DEF g
<1>5. /\ gates' \in [1..MaxGates -> Gate]
      /\ \A h \in 1..MaxGates :
           /\ gates'[h].made = gates[h].made /\ gates'[h].enabled = gates[h].enabled
           /\ gates'[h].active = gates[h].active
  <2> DEFINE y == [gates[g] EXCEPT !.busy = t]
  <2>1. gates[g] \in Gate
    BY <1>1, ConfigParts
  <2>2. y \in Gate /\ y.active = gates[g].active /\ y.made = gates[g].made /\ y.enabled = gates[g].enabled
    BY <2>1 DEF Gate
  <2>3. gates' = gates \/ gates' = [gates EXCEPT ![g] = y]
    BY <1>4, <2>1 DEF Gate
  <2> HIDE DEF y
  <2> QED
    BY <1>1, <2>2, <2>3, ConfigParts
<1> QED
  BY <1>1, <1>2, <1>3, <1>5, StartStep

LEMMA PreparedHolds ==
  ASSUME ConfigInv, NEW t \in Tasks, Started(t) \/ StartFailed(t) PROVE ConfigInv'
<1> DEFINE g == tasks[t].gate
<1>1. tasks[t].pc \in Starting /\ g \in 1..MaxGates
  BY ConfigParts DEF Started, StartFailed, At, Starting, GatesKnown, Held, ConfigTask
<1>2. UNCHANGED <<profile, secret, live, agent, reloading, now, wizard, tokens, socket>>
      /\ (UNCHANGED tally \/ Fault)
  BY DEF Started, StartFailed
<1>3. \/ reloading = t /\ (To(t, "prepare") \/ To(t, "record"))
      \/ reloading # t /\ (To(t, "prepare") \/ Done(t))
  BY DEF Started, StartFailed, AfterStart
<1>4. \/ gates' = [gates EXCEPT ![g].busy = Nobody, ![g].active = TRUE]
      \/ gates' = [gates EXCEPT ![g].busy = Nobody]
  BY DEF Started, StartFailed
<1> HIDE DEF g
<1>5. /\ gates' \in [1..MaxGates -> Gate]
      /\ \A h \in 1..MaxGates :
           /\ gates'[h].made = gates[h].made /\ gates'[h].enabled = gates[h].enabled
           /\ gates'[h].active => gates[h].active \/ h = g
  <2> DEFINE y == [gates[g] EXCEPT !.busy = Nobody, !.active = TRUE]
             z == [gates[g] EXCEPT !.busy = Nobody]
  <2>1. gates[g] \in Gate
    BY <1>1, ConfigParts
  <2>2. /\ y \in Gate /\ y.made = gates[g].made /\ y.enabled = gates[g].enabled
        /\ z \in Gate /\ z.made = gates[g].made /\ z.enabled = gates[g].enabled
    BY <2>1 DEF Gate
  <2>3. gates' = [gates EXCEPT ![g] = y] \/ gates' = [gates EXCEPT ![g] = z]
    BY <1>1, <1>4, <2>1, ConfigParts DEF Gate
  <2> HIDE DEF y, z
  <2> QED
    BY <1>1, <2>2, <2>3, ConfigParts
<1>6. \A h \in 1..MaxGates :
           /\ gates'[h].made = gates[h].made /\ gates'[h].enabled = gates[h].enabled
           /\ gates'[h].active => gates[h].active \/ h = tasks[t].gate
  BY <1>5 DEF g
<1> QED
  BY <1>1, <1>2, <1>3, <1>5, <1>6, StartStep

LEMMA ConfirmHolds ==
  ASSUME ConfigInv, NEW t \in Tasks,
         ConfirmTelegram(t) \/ ConfirmFeishu(t) \/ ConfirmQq(t) \/ ConfirmWeixin(t)
  PROVE  ConfigInv'
<1>1. PICK from \in {"poll", "save"}, saved \in {"bound", "identity"}, gone \in BOOLEAN : Confirm(t, from, saved, gone)
  <2>1. CASE ConfirmFeishu(t)
    BY <2>1 DEF ConfirmFeishu
  <2>2. CASE ConfirmTelegram(t) \/ ConfirmQq(t) \/ ConfirmWeixin(t)
    BY <2>2 DEF ConfirmTelegram, ConfirmQq, ConfirmWeixin
  <2> QED
    BY <2>1, <2>2
<1>2. tasks[t].pc = from /\ tasks[t].gate \in 1..MaxGates
  BY <1>1, ConfigParts DEF Confirm, At, GatesKnown, Held, ConfigTask
<1>3. reloading # t /\ tasks[t].pc # "announce"
  BY <1>1, <1>2, ConfigParts DEF LockIsKept, Reloading, Starting
<1>4. secret' \in Secrets /\ wizard' \in SUBSET Nat
      /\ UNCHANGED <<profile, live, agent, reloading, gates, now, tokens, socket>>
  BY <1>1, ConfigParts DEF Confirm, Secrets
<1>5. \A h \in 1..MaxGates :
        /\ gates'[h].made = gates[h].made /\ gates'[h].enabled = gates[h].enabled
        /\ gates'[h].active => gates[h].active
  BY <1>4
<1>6. CASE /\ tasks' = [tasks EXCEPT ![t].pc = "start"]
           /\ tally' = [tally EXCEPT !.started = TRUE]
  <2> DEFINE x == Moved(t, "start")
  <2>1. "start" \in Steps /\ "start" \in Starting /\ "start" \notin Unused
    BY DEF Steps, Starting, Unused
  <2>2. x \in ConfigTask /\ x.pc = "start" /\ x.gate = tasks[t].gate /\ tasks' = [tasks EXCEPT ![t] = x]
    BY <1>6, <2>1, ToPlace DEF To
  <2> HIDE DEF x
  <2>3. /\ tally' \in Tally /\ tally'.calls = tally.calls /\ tally'.partial = tally.partial
        /\ tally'.overtaken = tally.overtaken /\ tally'.started
    BY <1>6, ConfigParts DEF Tally
  <2>4. x.gate # 0
    BY <1>2, <2>2
  <2> QED
    BY <1>3, <1>4, <1>5, <2>1, <2>2, <2>3, <2>4, ConfigParts, BesideStep
<1>7. CASE Done(t) /\ UNCHANGED tally
  <2>1. tasks' = [tasks EXCEPT ![t] = AtRest]
    BY <1>7 DEF Done
  <2> QED
    BY <1>3, <1>4, <1>5, <1>7, <2>1, TallyStays, RestIsCalm, ConfigParts, BesideStep
<1> QED
  BY <1>1, <1>6, <1>7 DEF Confirm

-----------------------------------------------------------------------------
LEMMA ConfigStep == ASSUME ConfigInv, [ConfigNext]_configVars PROVE ConfigInv'
<1>1. CASE UNCHANGED configVars
  <2>1. LoopFollows'
    BY <1>1, ConfigParts DEF configVars, LoopFollows, Announced, Current, Missed
  <2>2. /\ UNCHANGED <<profile, secret, live, agent, tasks, reloading, gates, now, wizard, tokens>>
        /\ socket' = socket /\ tally' = tally
    BY <1>1 DEF configVars
  <2> QED
    BY <2>1, <2>2, TallyStays, ConfigParts, StillStep DEF TokensCounted
<1>2. CASE \/ HandEdit \/ Watch \/ SocketWakes \/ TokensUnread \/ KeepListener
           \/ StopListener \/ StartListener \/ ListenFails \/ ListenerEnds
  BY <1>2, HandEditHolds, WatchHolds, SocketWakesHolds, ReconcileHolds, ListenerHolds
<1>3. ASSUME NEW t \in Tasks, NEW on \in BOOLEAN,
             SetEnabled(t, on) \/ ConfigureChannel(t, on) \/ SetSocket(t, on)
      PROVE ConfigInv'
  BY <1>3, SetEnabledHolds, ConfigureChannelHolds, SetSocketHolds
<1>4. ASSUME NEW t \in Tasks,
             \/ ResetTokens(t) \/ Announce(t) \/ UpdateConfig(t) \/ Edit(t) \/ EditRefused(t)
             \/ WriteResource(t) \/ Check(t) \/ Load(t) \/ TakeReload(t) \/ Build(t) \/ BuildFails(t)
             \/ Apply(t) \/ ApplyHalf(t) \/ Record(t) \/ Publish(t)
      PROVE ConfigInv'
  BY <1>4, ResetTokensHolds, AnnounceHolds, UpdateConfigHolds, EditHolds, EditRefusedHolds,
     WriteResourceHolds, CheckHolds, LoadHolds, TakeReloadHolds, BuildHolds, BuildFailsHolds,
     ApplyHolds, ApplyHalfHolds, RecordHolds, PublishHolds
<1>5. ASSUME NEW t \in Tasks,
             \/ StopGate(t) \/ Swap(t) \/ StartGate(t) \/ Started(t) \/ StartFailed(t)
             \/ Unbind(t) \/ RemoveSecret(t) \/ ReadSecret(t) \/ WriteSecret(t)
             \/ BeginBind(t) \/ BeginTelegram(t) \/ BeginFeishu(t) \/ BeginQq(t)
             \/ BeginWeixin(t) \/ BeginFails(t)
             \/ PollWaits(t) \/ PollExpires(t) \/ ConfirmTelegram(t) \/ LeaveWizard(t)
             \/ ConfirmFeishu(t) \/ ConfirmQq(t) \/ ConfirmWeixin(t)
      PROVE ConfigInv'
  BY <1>5, StopGateHolds, SwapHolds, StartGateHolds, PreparedHolds, UnbindHolds, RemoveSecretHolds,
     ReadSecretHolds, WriteSecretHolds, BeginBindHolds, OpenWizardHolds, BeginFailsHolds,
     PollEndsHolds, LeaveWizardHolds, ConfirmHolds
<1>6. ASSUME NEW t \in Tasks, NEW b \in wizard, Poll(t, b) PROVE ConfigInv'
  BY <1>6, PollHolds
<1> QED
  BY <1>1, <1>2, <1>3, <1>4, <1>5, <1>6 DEF ConfigNext

(* However calls, edits by hand, reloads, bindings and the websocket's loop   *)
(* overlap and fail: outside a reload the session service, the profile and    *)
(* the gateway speak of one configuration, a fingerprint is that of what      *)
(* runs, no reload leaves two gateways at work, and the listener is open as   *)
(* the profile asks, with the tokens of the secret, or will be told.          *)
THEOREM ConfigCorrect == ConfigSpec => []ConfigHolds
<1>1. ConfigInit => ConfigInv
  BY ConfigInitHolds
<1>2. ConfigInv /\ [ConfigNext]_configVars => ConfigInv'
  BY ConfigStep
<1>3. ConfigInv => ConfigHolds
  <2> SUFFICES ASSUME ConfigInv PROVE ConfigHolds
    OBVIOUS
  <2>1. ConfigTypeOK
    BY ConfigParts DEF ConfigTypeOK, ConfigTask, TokensCounted, GatesKnown, Listener, Tally
  <2>2. CopiesAgree
    BY ConfigParts DEF CopiesAgree, ReloadsFit, GateFits
  <2>3. OneRuntime
    <3> DEFINE on == {g \in 1..MaxGates : gates[g].active}
    <3>1. ~tally.started => on \subseteq {now}
      BY ConfigParts DEF StartsFit
    <3>2. IsFiniteSet({now}) /\ Cardinality({now}) = 1
      BY FS_Singleton
    <3>3. ~tally.started => Cardinality(on) <= 1
      BY <3>1, <3>2, FS_Subset
    <3> QED
      BY <3>3 DEF OneRuntime
  <2>4. ListenerFollows
    BY ConfigParts DEF ListenerFollows, LoopFollows, Announced
  <2> QED
    BY <2>1, <2>2, <2>3, <2>4, ConfigParts DEF ConfigHolds
<1> QED
  BY <1>1, <1>2, <1>3, PTL DEF ConfigSpec

-------------------------------------------------------------------------------
(* The settings of a session: SettingsHold for any models, efforts, titles,    *)
(* generations, updates, questionnaires and failures.                          *)

(* The fields each variable has; what is in most of them plays no part.        *)
Fields(r) ==
  r = [title |-> r.title, auto |-> r.auto, model |-> r.model, effort |-> r.effort,
       memory |-> r.memory, quiz |-> r.quiz]
(* A title that was chosen or generated.                                       *)
Named(r) == r.auto = FALSE
HeardFields(h) == h = [title |-> h.title, config |-> h.config, quiz |-> h.quiz]
TitlingFields(g) == g = [asking |-> g.asking, token |-> g.token, made |-> g.made]
SeatFields(a) == a = [phase |-> a.phase, config |-> a.config, prompted |-> a.prompted]
TrailFields(t) ==
  t = [updates |-> t.updates, quizzes |-> t.quizzes, trouble |-> t.trouble, choice |-> t.choice,
       wish |-> t.wish, replies |-> t.replies, failed |-> t.failed, untold |-> t.untold,
       unshown |-> t.unshown]
SettingsFit ==
  /\ Fields(memo) /\ Fields(stored) /\ HeardFields(heard)
  /\ TitlingFields(titling) /\ SeatFields(seat) /\ TrailFields(trail)
  /\ trail.quizzes \in 0 .. MaxQuizzes
  /\ trail.replies \in [1 .. MaxQuizzes -> Nat]

(* A save fails behind a change of the title or of the questionnaire only: the *)
(* selection in memory is always the one on disk, with what it remembers.      *)
SameSelection(r1, r2) == r1.model = r2.model /\ r1.effort = r2.effort /\ r1.memory = r2.memory
SelectionKept == SameSelection(memo, stored)

(* A chosen title is not waiting to be generated, and no generation under way  *)
(* was asked for those words.                                                  *)
ChoiceKept ==
  /\ \A t \in trail.choice : memo.title = t /\ stored.title = t /\ t # ""
  /\ trail.choice # {} => Named(memo) /\ Named(stored)
  /\ \A t \in trail.choice, g \in titling.asking : g.from # t

(* What was set for a model is what runs, or is remembered for its return.     *)
Minded(r, wish) ==
  \A m \in DOMAIN wish :
    IF m = r.model THEN r.effort = wish[m]
    ELSE m \in DOMAIN r.memory /\ r.memory[m] = wish[m]
WishKept == Minded(memo, trail.wish)

(* A questionnaire that waits is one that was asked, and it was not answered   *)
(* yet unless its answer failed; the numbers still to come are unused.         *)
Waits(q) == q \in 1 .. trail.quizzes /\ (trail.replies[q] = 0 \/ q \in trail.failed)
QuizKept ==
  /\ \A q \in 1 .. trail.quizzes :
       /\ trail.replies[q] = 0 => memo.quiz = q /\ stored.quiz = q
       /\ trail.replies[q] <= 1 \/ q \in trail.failed
  /\ memo.quiz # 0 => Waits(memo.quiz)
  /\ stored.quiz # 0 => Waits(stored.quiz)
  /\ \A q \in 1 .. MaxQuizzes : q > trail.quizzes => trail.replies[q] = 0
  /\ seat.phase # "down" => heard.quiz = memo.quiz \/ trail.unshown

SettingsInv ==
  SettingsFit /\ SelectionKept /\ ChoiceKept /\ WishKept /\ OneSelection /\ QuizKept

-------------------------------------------------------------------------------
(* The operators on records.                                                   *)
LEMMA TitledIs ==
  ASSUME NEW r, NEW t, Fields(r)
  PROVE  /\ Fields(WithTitle(r, t)) /\ SameSelection(WithTitle(r, t), r)
         /\ WithTitle(r, t).title = t /\ Named(WithTitle(r, t))
         /\ WithTitle(r, t).quiz = r.quiz
<1> DEFINE n == WithTitle(r, t)
           no == FALSE
<1>1. n = [r EXCEPT !.title = t, !.auto = no]
  BY DEF WithTitle
<1>2. no = FALSE
  OBVIOUS
<1> HIDE DEF no, n
<1>3. n = [title |-> t, auto |-> no, model |-> r.model, effort |-> r.effort,
           memory |-> r.memory, quiz |-> r.quiz]
  BY <1>1 DEF Fields
<1> QED
  BY <1>2, <1>3 DEF Fields, SameSelection, n, Named

LEMMA NamedToo ==
  ASSUME NEW r1, NEW r2, Named(r1), r2.auto = r1.auto
  PROVE  Named(r2)
  BY DEF Named

LEMMA RememberedIs ==
  ASSUME NEW r, Fields(r)
  PROVE  /\ Fields(Remembering(r)) /\ Remembering(r).title = r.title /\ Remembering(r).auto = r.auto
         /\ Remembering(r).quiz = r.quiz /\ Remembering(r).model = r.model
         /\ Remembering(r).effort = r.effort
         /\ Remembering(r).memory = With(r.memory, r.model, r.effort)
<1> DEFINE n == Remembering(r)
           w == With(r.memory, r.model, r.effort)
<1>1. n = [r EXCEPT !.memory = w]
  BY DEF Remembering
<1> HIDE DEF w
<1>2. n = [title |-> r.title, auto |-> r.auto, model |-> r.model, effort |-> r.effort,
           memory |-> w, quiz |-> r.quiz]
  BY <1>1 DEF Fields
<1> QED
  BY <1>2 DEF Fields, w

LEMMA ReasonedIs ==
  ASSUME NEW r, NEW e, Fields(r)
  PROVE  LET n == [r EXCEPT !.effort = e] IN
         /\ Fields(n) /\ n.title = r.title /\ n.auto = r.auto /\ n.quiz = r.quiz
         /\ n.model = r.model /\ n.effort = e /\ n.memory = r.memory
<1> DEFINE n == [r EXCEPT !.effort = e]
<1>1. n = [title |-> r.title, auto |-> r.auto, model |-> r.model, effort |-> e,
           memory |-> r.memory, quiz |-> r.quiz]
  BY DEF Fields
<1> QED
  BY <1>1 DEF Fields

LEMMA QuizIs ==
  ASSUME NEW r, NEW q, Fields(r)
  PROVE  LET n == [r EXCEPT !.quiz = q] IN
         /\ Fields(n) /\ SameSelection(n, r) /\ n.title = r.title /\ n.auto = r.auto /\ n.quiz = q
<1> DEFINE n == [r EXCEPT !.quiz = q]
<1>1. n = [title |-> r.title, auto |-> r.auto, model |-> r.model, effort |-> r.effort,
           memory |-> r.memory, quiz |-> q]
  BY DEF Fields
<1> QED
  BY <1>1 DEF Fields, SameSelection

(* What is minded is a matter of the selection, and of what is remembered.     *)
LEMMA MindedSame ==
  ASSUME NEW r1, NEW r2, NEW w, SameSelection(r1, r2), Minded(r1, w)
  PROVE  Minded(r2, w)
  BY DEF SameSelection, Minded

LEMMA RememberedMinds ==
  ASSUME NEW r, NEW w, Fields(r), Minded(r, w)
  PROVE  Minded(Remembering(r), w)
<1> DEFINE n == Remembering(r)
<1>1. n.model = r.model /\ n.effort = r.effort /\ n.memory = With(r.memory, r.model, r.effort)
  BY RememberedIs
<1>2. ASSUME NEW m \in DOMAIN w, m # r.model
      PROVE  m \in DOMAIN n.memory /\ n.memory[m] = w[m]
  BY <1>1, <1>2 DEF Minded, With
<1> QED
  BY <1>1, <1>2 DEF Minded

(* A model brings back what was set for it.                                    *)
LEMMA ModelIs ==
  ASSUME NEW r, NEW w, NEW m, Fields(r), Minded(r, w)
  PROVE  LET n == WithModel(r, m) IN
         /\ Fields(n) /\ n.title = r.title /\ n.auto = r.auto /\ n.quiz = r.quiz /\ n.model = m
         /\ Minded(n, w)
<1> DEFINE left == Remembering(r)
           e == IF m \in DOMAIN left.memory THEN left.memory[m] ELSE Middle(m)
           n == WithModel(r, m)
<1>1. /\ Fields(left) /\ left.title = r.title /\ left.auto = r.auto /\ left.quiz = r.quiz
      /\ left.model = r.model /\ left.effort = r.effort
      /\ left.memory = With(r.memory, r.model, r.effort)
  BY RememberedIs
<1>2. n = [left EXCEPT !.model = m, !.effort = e]
  BY DEF WithModel
<1>3. DOMAIN left.memory = DOMAIN r.memory \cup {r.model} /\ left.memory[r.model] = r.effort
      /\ \A x \in DOMAIN r.memory : x # r.model => left.memory[x] = r.memory[x]
  BY <1>1 DEF With
<1> HIDE DEF left
<1>4. \A x \in DOMAIN w : x \in DOMAIN left.memory /\ left.memory[x] = w[x]
  BY <1>3 DEF Minded
<1>5. m \in DOMAIN w => e = w[m]
  BY <1>4
<1> HIDE DEF e
<1>6. n = [title |-> left.title, auto |-> left.auto, model |-> m, effort |-> e,
           memory |-> left.memory, quiz |-> left.quiz]
  BY <1>1, <1>2 DEF Fields
<1> HIDE DEF n
<1>7. Minded(n, w)
  BY <1>4, <1>5, <1>6 DEF Minded
<1> QED
  BY <1>1, <1>6, <1>7 DEF Fields, n

LEMMA EffortIs ==
  ASSUME NEW r, NEW w, NEW e, Fields(r), Minded(r, w)
  PROVE  LET n == WithEffort(r, e) IN
         /\ Fields(n) /\ n.title = r.title /\ n.auto = r.auto /\ n.quiz = r.quiz
         /\ n.model = r.model /\ n.effort = e
         /\ Minded(n, With(w, r.model, e))
<1> DEFINE none == [r EXCEPT !.effort = e]
           n == Remembering(none)
           v == With(w, r.model, e)
<1>1. /\ Fields(none) /\ none.title = r.title /\ none.auto = r.auto /\ none.quiz = r.quiz
      /\ none.model = r.model /\ none.effort = e /\ none.memory = r.memory
  BY ReasonedIs
<1>2. n = WithEffort(r, e)
  BY DEF WithEffort
<1> HIDE DEF none
<1>3. DOMAIN v = DOMAIN w \cup {r.model} /\ v[r.model] = e
      /\ \A x \in DOMAIN w : x # r.model => v[x] = w[x]
  BY DEF With
<1> HIDE DEF v
<1>4. Minded(none, v)
  BY <1>1, <1>3 DEF Minded
<1>5. Minded(n, v)
  BY <1>1, <1>4, RememberedMinds
<1>6. /\ Fields(n) /\ n.title = none.title /\ n.auto = none.auto /\ n.quiz = none.quiz
      /\ n.model = none.model /\ n.effort = none.effort
  BY <1>1, RememberedIs
<1> QED
  BY <1>1, <1>2, <1>5, <1>6 DEF v

LEMMA FittedIs ==
  ASSUME NEW r, NEW w, Fields(r), Minded(r, w)
  PROVE  LET n == Fitted(r) IN
         /\ Fields(n) /\ n.title = r.title /\ n.auto = r.auto /\ n.quiz = r.quiz
         /\ n.model = r.model
         /\ IsOffered(r) => n.effort = r.effort /\ Minded(n, w)
         /\ Minded(n, [m \in DOMAIN w \ {r.model} |-> w[m]])
<1> DEFINE none == [r EXCEPT !.effort = NoEffort]
           n == Fitted(r)
           v == [m \in DOMAIN w \ {r.model} |-> w[m]]
<1>1. /\ Fields(none) /\ none.title = r.title /\ none.auto = r.auto /\ none.quiz = r.quiz
      /\ none.model = r.model /\ none.memory = r.memory
  BY ReasonedIs
<1>2. Minded(none, v) /\ Minded(r, v)
  BY <1>1 DEF Minded
<1>3. n \in {Remembering(r), none, Remembering(none)} /\ (IsOffered(r) => n = Remembering(r))
  BY DEF Fitted
<1> HIDE DEF none, n, v
<1>4. CASE n = Remembering(r)
  BY <1>2, <1>4, RememberedIs, RememberedMinds DEF n, v
<1>5. CASE n = none /\ ~IsOffered(r)
  BY <1>1, <1>2, <1>5 DEF n, v
<1>6. CASE n = Remembering(none) /\ ~IsOffered(r)
  <2>1. /\ Fields(n) /\ n.title = none.title /\ n.auto = none.auto /\ n.quiz = none.quiz
        /\ n.model = none.model
    BY <1>1, <1>6, RememberedIs
  <2>2. Minded(n, v)
    BY <1>1, <1>2, <1>6, RememberedMinds
  <2> QED
    BY <1>1, <1>6, <2>1, <2>2 DEF n, v
<1> QED
  BY <1>3, <1>4, <1>5, <1>6

LEMMA UpdateIs ==
  ASSUME NEW u \in Updates
  PROVE  /\ u.title = {} \/ \E t \in Typed : u.title = {t} /\ Given(u.title) = t
         /\ u.title # {} => u.model = {} /\ u.effort = {}
         /\ u.model = {} \/ \E m \in Models : u.model = {m} /\ Given(u.model) = m
         /\ u.effort = {} \/ \E e : u.effort = {e} /\ Given(u.effort) = e
  BY DEF Updates, Given

LEMMA SetIs ==
  ASSUME NEW u \in Updates, Fields(memo), WishKept, Accepts(u, Updated(u))
  PROVE  LET r == Fitted(Updated(u)) IN
         /\ Fields(r) /\ r.quiz = memo.quiz
         /\ r.title = (IF u.title = {} THEN memo.title ELSE Given(u.title))
         /\ u.title # {} => Named(r)
         /\ u.title = {} => r.auto = memo.auto
         /\ Minded(r, Wished(u, r))
         /\ u.model = {} /\ u.effort = {} => r.model = memo.model /\ r.effort = memo.effort
<1> DEFINE w == trail.wish
           r1 == IF u.model = {} THEN memo ELSE WithModel(memo, Given(u.model))
           r2 == IF u.effort = {} THEN r1 ELSE WithEffort(r1, Given(u.effort))
           r3 == IF u.title = {} THEN r2 ELSE WithTitle(r2, Given(u.title))
           v == IF u.effort = {} THEN w ELSE With(w, r1.model, Given(u.effort))
           n == Fitted(r3)
<1>1. r3 = Updated(u)
  BY DEF Updated
<1>2. /\ Fields(r1) /\ r1.title = memo.title /\ r1.auto = memo.auto /\ r1.quiz = memo.quiz
      /\ Minded(r1, w) /\ (u.model = {} => r1 = memo)
  BY ModelIs DEF WishKept
<1> HIDE DEF r1
<1>3. /\ Fields(r2) /\ r2.title = r1.title /\ r2.auto = r1.auto /\ r2.quiz = r1.quiz
      /\ r2.model = r1.model /\ Minded(r2, v) /\ (u.effort = {} => r2 = r1)
      /\ (u.effort # {} => r2.effort = Given(u.effort))
  BY <1>2, EffortIs
<1> HIDE DEF r2
<1>4. /\ Fields(r3) /\ r3.quiz = r2.quiz /\ SameSelection(r2, r3)
      /\ r3.title = (IF u.title = {} THEN memo.title ELSE Given(u.title))
      /\ (u.title # {} => Named(r3)) /\ (u.title = {} => r3.auto = memo.auto)
  <2>1. CASE u.title = {}
    BY <1>2, <1>3, <2>1 DEF SameSelection
  <2>2. CASE u.title # {}
    <3>1. r3 = WithTitle(r2, Given(u.title))
      BY <2>2
    <3> HIDE DEF r3
    <3> QED
      BY <1>3, <2>2, <3>1, TitledIs DEF SameSelection
  <2> QED
    BY <2>1, <2>2
<1>5. Minded(r3, v)
  BY <1>3, <1>4, MindedSame
<1> HIDE DEF r3
<1>6. /\ Fields(n) /\ n.title = r3.title /\ n.auto = r3.auto /\ n.quiz = r3.quiz
      /\ n.model = r3.model /\ (IsOffered(r3) => n.effort = r3.effort /\ Minded(n, v))
      /\ Minded(n, [m \in DOMAIN v \ {r3.model} |-> v[m]])
  BY <1>4, <1>5, FittedIs
<1>7. Minded(n, Wished(u, n))
  <2>1. CASE u.effort # {}
    <3>1. IsOffered(r3)
      BY <1>1, <2>1 DEF Accepts
    <3>2. Wished(u, n) = With(w, n.model, n.effort) /\ v = With(w, r1.model, Given(u.effort))
      BY <2>1 DEF Wished
    <3>3. n.model = r1.model /\ n.effort = Given(u.effort)
      BY <1>3, <1>4, <1>6, <2>1, <3>1 DEF SameSelection
    <3> QED
      BY <1>6, <3>1, <3>2, <3>3
  <2>2. CASE u.effort = {} /\ IsOffered(r3)
    BY <1>1, <1>6, <2>2 DEF Wished
  <2>3. CASE u.effort = {} /\ ~IsOffered(r3)
    BY <1>1, <1>6, <2>3 DEF Wished
  <2> QED
    BY <2>1, <2>2, <2>3
<1>8. u.model = {} /\ u.effort = {} => n.model = memo.model /\ n.effort = memo.effort
  BY <1>1, <1>2, <1>3, <1>4, <1>6 DEF Accepts, SameSelection
<1> HIDE DEF n
<1> QED
  BY <1>1, <1>2, <1>3, <1>4, <1>6, <1>7, <1>8, NamedToo DEF n

(* A message that begins a turn: its record keeps the selection and the        *)
(* questionnaire; its title changes only if there was none.                    *)
Ends == {"ok", "unrecorded", "unsaved"}
BegunAs(b, r, end) ==
  /\ Fields(b.memo) /\ SameSelection(b.memo, r) /\ b.memo.quiz = r.quiz
  /\ b.memo.title = (IF r.title = "" THEN "m" ELSE r.title)
  /\ r.title # "" => b.memo.auto = r.auto
  /\ b.stored = IF end = "unsaved" THEN stored ELSE b.memo
  /\ b.told = IF end = "ok" /\ r.title = "" THEN "m" ELSE heard.title
  /\ SeatFields(b.seat)
  /\ b.seat.config = seat.config /\ (end # "ok" => b.seat = seat)
  /\ (end = "ok" => b.seat.phase = "running")
  /\ b.titling = titling \/ (r.title # "" /\ r.auto /\ b.titling = Spawned(r.title))
LEMMA BegunIs ==
  ASSUME NEW r, NEW end \in Ends, Fields(r), SettingsFit
  PROVE  BegunAs(Begun(r)[end], r, end)
<1> DEFINE named == IF r.title = "" THEN WithTitle(r, "m") ELSE r
           asks == r.title # "" /\ r.auto /\ titling.token = 0
           next == IF asks THEN Spawned(r.title) ELSE titling
           yes == TRUE
           seated == [seat EXCEPT !.phase = "running", !.prompted = TRUE]
           told == IF r.title = "" THEN "m" ELSE heard.title
           saved == [memo |-> named, stored |-> named, told |-> heard.title, seat |-> seat,
                     titling |-> next, spawns |-> asks]
           ok == [saved EXCEPT !.told = IF r.title = "" THEN "m" ELSE @,
                               !.seat = [seat EXCEPT !.phase = "running", !.prompted = TRUE]]
           unsaved == [saved EXCEPT !.stored = stored, !.titling = titling]
<1>1. Begun(r) = [ok |-> ok, unrecorded |-> saved, unsaved |-> unsaved]
  BY DEF Begun
<1>2. /\ Fields(named) /\ SameSelection(named, r) /\ named.quiz = r.quiz
      /\ named.title = (IF r.title = "" THEN "m" ELSE r.title)
      /\ (r.title # "" => named.auto = r.auto)
  BY TitledIs, ZenonT(40) DEF SameSelection
<1>3. seated = [phase |-> "running", config |-> seat.config, prompted |-> TRUE]
  <2>1. seated = [seat EXCEPT !.phase = "running", !.prompted = yes]
    OBVIOUS
  <2> HIDE DEF yes, seated
  <2>2. seated = [phase |-> "running", config |-> seat.config, prompted |-> yes]
    BY <2>1 DEF SettingsFit, SeatFields
  <2> QED
    BY <2>2 DEF yes
<1>4. next = titling \/ (r.title # "" /\ r.auto /\ next = Spawned(r.title))
  OBVIOUS
<1> HIDE DEF named, asks, next
<1>5. /\ saved = [memo |-> named, stored |-> named, told |-> heard.title, seat |-> seat,
                  titling |-> next, spawns |-> asks]
      /\ ok = [saved EXCEPT !.told = told, !.seat = seated]
      /\ unsaved = [saved EXCEPT !.stored = stored, !.titling = titling]
  OBVIOUS
<1> HIDE DEF seated, ok, saved, unsaved, told
<1>6. /\ ok = [memo |-> named, stored |-> named, told |-> told, seat |-> seated,
               titling |-> next, spawns |-> asks]
      /\ unsaved = [memo |-> named, stored |-> stored, told |-> heard.title, seat |-> seat,
                    titling |-> titling, spawns |-> asks]
  BY <1>5
<1>7. SeatFields(seat) /\ SeatFields(seated)
  BY <1>3 DEF SettingsFit, SeatFields
<1>8. CASE end = "ok"
  <2>1. Begun(r)[end] = ok
    BY <1>1, <1>8
  <2>2. /\ ok.memo = named /\ ok.stored = named /\ ok.told = told /\ ok.seat = seated
        /\ ok.titling = next
    BY <1>6
  <2>3. /\ seated.config = seat.config /\ seated.phase = "running"
        /\ told = IF r.title = "" THEN "m" ELSE heard.title
    BY <1>3 DEF told
  <2> QED
    BY <1>2, <1>4, <1>7, <1>8, <2>1, <2>2, <2>3 DEF BegunAs
<1>9. CASE end = "unrecorded"
  <2>1. Begun(r)[end] = saved
    BY <1>1, <1>9
  <2>2. /\ saved.memo = named /\ saved.stored = named /\ saved.told = heard.title /\ saved.seat = seat
        /\ saved.titling = next
    BY <1>5
  <2> QED
    BY <1>2, <1>4, <1>7, <1>9, <2>1, <2>2 DEF BegunAs
<1>a. CASE end = "unsaved"
  <2>1. Begun(r)[end] = unsaved
    BY <1>1, <1>a
  <2>2. /\ unsaved.memo = named /\ unsaved.stored = stored /\ unsaved.told = heard.title
        /\ unsaved.seat = seat /\ unsaved.titling = titling
    BY <1>6
  <2> QED
    BY <1>2, <1>7, <1>a, <2>1, <2>2 DEF BegunAs
<1> QED
  BY <1>8, <1>9, <1>a DEF Ends

-------------------------------------------------------------------------------
(* The steps.                                                                  *)
Alike(r1, r2) == SameSelection(r1, r2) /\ r1.title = r2.title /\ r1.auto = r2.auto

(* What a message leaves behind: the selection, every chosen title, and no     *)
(* generation for its words.                                                   *)
Began(p) ==
  /\ Fields(p.memo) /\ Fields(p.stored)
  /\ SameSelection(p.memo, memo) /\ SameSelection(p.stored, memo)
  /\ \A t \in trail.choice : p.memo.title = t /\ p.stored.title = t
  /\ trail.choice # {} => Named(p.memo) /\ Named(p.stored)
  /\ TitlingFields(p.titling)
  /\ \A t \in trail.choice, g \in p.titling.asking : g.from # t
  /\ SeatFields(p.seat)
  /\ p.seat.config = seat.config

LEMMA BegunKeeps ==
  ASSUME SettingsInv, NEW r, NEW end \in Ends, Fields(r), Alike(r, memo)
  PROVE  Began(Begun(r)[end])
<1> DEFINE b == Begun(r)[end]
<1>0. BegunAs(b, r, end)
  BY BegunIs DEF SettingsInv
<1> HIDE DEF b
<1>1. /\ Fields(b.memo) /\ SameSelection(b.memo, r) /\ b.memo.quiz = r.quiz
      /\ b.memo.title = (IF r.title = "" THEN "m" ELSE r.title)
      /\ (r.title # "" => b.memo.auto = r.auto)
      /\ b.stored = (IF end = "unsaved" THEN stored ELSE b.memo)
      /\ SeatFields(b.seat)
      /\ b.seat.config = seat.config
      /\ (b.titling = titling \/ (r.title # "" /\ r.auto /\ b.titling = Spawned(r.title)))
  BY <1>0 DEF BegunAs
<1>2. SettingsFit /\ SelectionKept /\ ChoiceKept
  BY DEF SettingsInv
<1>3. SameSelection(b.memo, memo) /\ SameSelection(b.stored, memo) /\ Fields(b.stored)
  BY <1>1, <1>2 DEF Alike, SameSelection, SelectionKept, SettingsFit
<1>4. \A t \in trail.choice : r.title = t /\ t # ""
  BY <1>2 DEF ChoiceKept, Alike
<1>5. /\ \A t \in trail.choice : b.memo.title = t /\ b.stored.title = t
      /\ trail.choice # {} => Named(b.memo) /\ Named(b.stored)
  BY <1>1, <1>2, <1>4, NamedToo DEF ChoiceKept, Alike
<1>6. /\ TitlingFields(b.titling)
      /\ \A t \in trail.choice, g \in b.titling.asking : g.from # t
  <2>1. CASE b.titling = titling
    BY <1>2, <2>1 DEF SettingsFit, ChoiceKept
  <2>2. CASE r.auto /\ b.titling = Spawned(r.title)
    <3>1. trail.choice = {}
      BY <1>2, <2>2 DEF ChoiceKept, Alike, Named
    <3> QED
      BY <2>2, <3>1 DEF Spawned, TitlingFields
  <2> QED
    BY <1>1, <2>1, <2>2
<1> QED
  BY <1>1, <1>3, <1>5, <1>6 DEF Began, b

LEMMA BeganHolds ==
  ASSUME SettingsInv, NEW p, Began(p), seat.phase # "down",
         Fields(memo'), Alike(memo', p.memo),
         Fields(stored'), Alike(stored', p.stored) \/ Alike(stored', p.memo),
         titling'.asking \subseteq p.titling.asking,
         seat'.config = p.seat.config, heard'.config = heard.config, heard'.title = p.told,
         trail'.choice = trail.choice, trail'.wish = trail.wish,
         p.told = p.memo.title \/ trail'.untold
  PROVE  SelectionKept' /\ ChoiceKept' /\ WishKept' /\ OneSelection'
<1>1. SelectionKept'
  BY DEF Began, Alike, SameSelection, SelectionKept
<1>2. ChoiceKept'
  BY NamedToo DEF Began, Alike, ChoiceKept, SettingsInv
<1>3. WishKept'
  <2>1. SameSelection(memo, memo')
    BY DEF Began, Alike, SameSelection
  <2>2. Minded(memo', trail.wish)
    BY <2>1, MindedSame DEF SettingsInv, WishKept
  <2> QED
    BY <2>2 DEF WishKept
<1>4. OneSelection'
  <2>1. Config(memo') = Config(memo) /\ Config(stored') = Config(memo)
    BY DEF Began, Alike, SameSelection, Config
  <2>2. {seat.config, heard.config, Config(stored)} = {Config(memo)}
    BY DEF SettingsInv, OneSelection
  <2>3. seat'.config = Config(memo) /\ heard'.config = Config(memo)
    BY <2>2 DEF Began
  <2>4. {seat'.config, heard'.config, Config(stored')} = {Config(memo')}
    BY <2>1, <2>3
  <2>5. heard'.title = memo'.title \/ trail'.untold
    BY DEF Alike
  <2> QED
    BY <2>4, <2>5 DEF OneSelection, Config
<1> QED
  BY <1>1, <1>2, <1>3, <1>4

(* Questionnaires are left alone.                                              *)
LEMMA QuizStays ==
  ASSUME QuizKept, memo'.quiz = memo.quiz, stored'.quiz \in {memo.quiz, stored.quiz},
         trail'.quizzes = trail.quizzes, trail'.replies = trail.replies,
         trail'.failed = trail.failed,
         seat'.phase # "down" => /\ seat.phase # "down" /\ heard'.quiz = heard.quiz
                                 /\ trail'.unshown = trail.unshown
  PROVE  QuizKept'
  BY DEF QuizKept, Waits

(* What a failure adds to the trail.                                           *)
LEMMA TroubledIs ==
  ASSUME NEW t, TrailFields(t)
  PROVE  LET n == Troubled(t) IN
         /\ TrailFields(n) /\ n.updates = t.updates /\ n.quizzes = t.quizzes /\ n.choice = t.choice
         /\ n.wish = t.wish /\ n.replies = t.replies /\ n.failed = t.failed
         /\ n.untold = t.untold /\ n.unshown = t.unshown
<1> DEFINE n == t.trouble + 1
           x == Troubled(t)
<1>1. x = [t EXCEPT !.trouble = n]
  BY DEF Troubled
<1> HIDE DEF n, x
<1>2. x = [updates |-> t.updates, quizzes |-> t.quizzes, trouble |-> n, choice |-> t.choice,
           wish |-> t.wish, replies |-> t.replies, failed |-> t.failed, untold |-> t.untold,
           unshown |-> t.unshown]
  BY <1>1 DEF TrailFields
<1> QED
  BY <1>2 DEF TrailFields, x

LEMMA SetSessionHolds ==
  ASSUME SettingsInv, NEW u \in Updates, SetSession(u)
  PROVE  SettingsInv'
<1> DEFINE n == Fitted(Updated(u))
           configured == u.model # {} \/ u.effort # {}
           regenerates == u.again /\ seat.prompted
           config == IF configured THEN Config(n) ELSE heard.config
           title == IF n.title # memo.title THEN n.title ELSE heard.title
           choice == Chosen(u, regenerates)
           wish == Wished(u, n)
           count == trail.updates + 1
           told == trail.untold /\ n.title = memo.title
<1>1. SettingsFit /\ SelectionKept /\ ChoiceKept /\ WishKept /\ OneSelection /\ QuizKept
  BY DEF SettingsInv
<1>2. /\ Fields(n) /\ n.quiz = memo.quiz
      /\ n.title = (IF u.title = {} THEN memo.title ELSE Given(u.title))
      /\ (u.title # {} => Named(n)) /\ (u.title = {} => n.auto = memo.auto)
      /\ Minded(n, wish)
      /\ (u.model = {} /\ u.effort = {} => n.model = memo.model /\ n.effort = memo.effort)
  BY <1>1, SetIs DEF SetSession, SettingsFit
<1>3. /\ seat.phase \in {"idle", "running"} /\ memo' = n /\ stored' = n
      /\ seat' = (IF configured THEN [seat EXCEPT !.config = Config(n)] ELSE seat)
      /\ heard' = [heard EXCEPT !.config = config, !.title = title]
      /\ titling' = (IF regenerates THEN Spawned(n.title) ELSE titling)
      /\ trail' = [trail EXCEPT !.updates = count, !.choice = choice, !.wish = wish, !.untold = told]
  BY <1>1 DEF SetSession, SettingsFit, HeardFields, TrailFields
<1> HIDE DEF n, config, title, choice, wish, count, told
<1>4. heard' = [title |-> title, config |-> config, quiz |-> heard.quiz]
  BY <1>1, <1>3 DEF SettingsFit, HeardFields
<1>5. trail' = [updates |-> count, quizzes |-> trail.quizzes, trouble |-> trail.trouble,
                choice |-> choice, wish |-> wish, replies |-> trail.replies,
                failed |-> trail.failed, untold |-> told, unshown |-> trail.unshown]
  BY <1>1, <1>3 DEF SettingsFit, TrailFields
<1>6. SeatFields(seat') /\ seat'.phase = seat.phase
      /\ seat'.config = (IF configured THEN Config(n) ELSE seat.config)
  BY <1>1, <1>3 DEF SettingsFit, SeatFields
<1>7. SettingsFit'
  <2>1. TitlingFields(titling')
    BY <1>1, <1>3 DEF SettingsFit, Spawned, TitlingFields
  <2> QED
    BY <1>1, <1>2, <1>3, <1>4, <1>5, <1>6, <2>1 DEF SettingsFit, HeardFields, TrailFields
<1>8. SelectionKept' /\ WishKept'
  BY <1>2, <1>3, <1>5 DEF SelectionKept, SameSelection, WishKept
<1>9. ChoiceKept'
  <2>1. CASE regenerates
    BY <1>5, <2>1 DEF choice, Chosen, ChoiceKept
  <2>2. CASE ~regenerates /\ u.title = {}
    <3>1. choice = trail.choice /\ titling' = titling /\ n.title = memo.title /\ n.auto = memo.auto
      BY <1>2, <1>3, <2>2 DEF choice, Chosen
    <3> QED
      BY <1>1, <1>3, <1>5, <3>1, NamedToo DEF ChoiceKept
  <2>3. CASE ~regenerates /\ u.title # {}
    <3>1. choice = {t \in u.title : \A g \in titling.asking : g.from # t} /\ titling' = titling
      BY <1>3, <2>3 DEF choice, Chosen
    <3>2. PICK t \in Typed : u.title = {t} /\ Given(u.title) = t
      BY <2>3, UpdateIs
    <3>3. n.title = t /\ Named(n) /\ t # ""
      BY <1>2, <2>3, <3>2, TypedAssumption
    <3> QED
      <4>1. \A x \in choice : x = t /\ \A g \in titling.asking : g.from # x
        BY <3>1, <3>2
      <4>2. memo' = n /\ stored' = n /\ trail'.choice = choice
        BY <1>3, <1>5
      <4> QED
        BY <3>1, <3>3, <4>1, <4>2 DEF ChoiceKept
  <2> QED
    BY <2>1, <2>2, <2>3
<1>a. OneSelection'
  <2>1. Config(n) = Config(memo) \/ configured
    BY <1>2 DEF Config
  <2>2. {seat.config, heard.config, Config(stored)} = {Config(memo)}
    BY <1>1, <1>3 DEF OneSelection
  <2>3. seat'.config = Config(n) /\ heard'.config = Config(n)
    BY <1>4, <1>6, <2>1, <2>2 DEF config
  <2>4. heard'.title = n.title \/ trail'.untold
    <3>1. heard.title = memo.title \/ trail.untold
      BY <1>1, <1>3 DEF OneSelection
    <3> QED
      BY <1>4, <1>5, <3>1 DEF title, told
  <2> QED
    BY <1>3, <2>3, <2>4 DEF OneSelection, Config
<1>b. QuizKept'
  <2>1. seat.phase # "down" /\ heard'.quiz = heard.quiz /\ trail'.unshown = trail.unshown
    BY <1>3, <1>4, <1>5
  <2> QED
    BY <1>1, <1>2, <1>3, <1>5, <2>1, QuizStays
<1> QED
  BY <1>7, <1>8, <1>9, <1>a, <1>b DEF SettingsInv

LEMMA TitleComesHolds ==
  ASSUME SettingsInv, NEW g \in titling.asking, TitleComes(g)
  PROVE  SettingsInv'
<1> DEFINE left == titling.asking \ {g}
           no == FALSE
<1>1. SettingsFit /\ SelectionKept /\ ChoiceKept /\ WishKept /\ OneSelection /\ QuizKept
  BY DEF SettingsInv
<1>2. titling' = [titling EXCEPT !.asking = left, !.token = 0] /\ seat' = seat
  BY <1>1 DEF TitleComes, SettingsFit, TitlingFields
<1> HIDE DEF left
<1>3. TitlingFields(titling') /\ titling'.asking = left /\ left \subseteq titling.asking
  BY <1>1, <1>2 DEF SettingsFit, TitlingFields, left
<1>4. CASE UNCHANGED <<memo, stored, heard, trail>>
  <2>1. SettingsFit' /\ SelectionKept' /\ WishKept' /\ OneSelection' /\ QuizKept'
    BY <1>1, <1>2, <1>3, <1>4 DEF SettingsFit, SelectionKept, WishKept, OneSelection, QuizKept, Waits
  <2>2. ChoiceKept'
    BY <1>1, <1>3, <1>4 DEF ChoiceKept
  <2> QED
    BY <2>1, <2>2 DEF SettingsInv
<1>5. CASE /\ memo.title = g.from /\ memo' = WithTitle(memo, "g") /\ stored' = memo'
           /\ heard' = [heard EXCEPT !.title = "g"]
           /\ trail' = [trail EXCEPT !.untold = FALSE]
  <2>1. /\ Fields(memo') /\ SameSelection(memo', memo) /\ memo'.title = "g" /\ memo'.quiz = memo.quiz
    BY <1>1, <1>5, TitledIs DEF SettingsFit
  <2>2. HeardFields(heard') /\ heard'.title = "g" /\ heard'.config = heard.config /\ heard'.quiz = heard.quiz
    BY <1>1, <1>5 DEF SettingsFit, HeardFields
  <2>3. trail' = [trail EXCEPT !.untold = no]
    BY <1>5
  <2> HIDE DEF no
  <2>4. /\ TrailFields(trail') /\ trail'.quizzes = trail.quizzes /\ trail'.choice = trail.choice
        /\ trail'.wish = trail.wish /\ trail'.replies = trail.replies /\ trail'.failed = trail.failed
        /\ trail'.unshown = trail.unshown
    BY <1>1, <2>3 DEF SettingsFit, TrailFields
  <2>5. SettingsFit'
    BY <1>1, <1>2, <1>3, <1>5, <2>1, <2>2, <2>4 DEF SettingsFit
  <2>6. SelectionKept'
    BY <1>5 DEF SelectionKept, SameSelection
  <2>7. WishKept'
    <3>1. SameSelection(memo, memo')
      BY <2>1 DEF SameSelection
    <3>2. Minded(memo', trail.wish)
      BY <1>1, <3>1, MindedSame DEF WishKept
    <3> QED
      BY <2>4, <3>2 DEF WishKept
  <2>8. ChoiceKept'
    <3>1. trail.choice = {}
      BY <1>1, <1>5 DEF ChoiceKept
    <3> QED
      BY <2>4, <3>1 DEF ChoiceKept
  <2>9. OneSelection'
    BY <1>1, <1>2, <1>5, <2>1, <2>2 DEF OneSelection, Config, SameSelection
  <2>a. QuizKept'
    BY <1>1, <1>2, <1>5, <2>1, <2>2, <2>4, QuizStays
  <2> QED
    BY <2>5, <2>6, <2>7, <2>8, <2>9, <2>a DEF SettingsInv
<1> QED
  BY <1>4, <1>5 DEF TitleComes

LEMMA PromptUserHolds ==
  ASSUME SettingsInv, NEW end \in Ends, PromptUser(end)
  PROVE  SettingsInv'
<1> DEFINE p == Begun(memo)[end]
           told == trail.untold \/ memo.title = ""
<1>1. SettingsFit /\ SelectionKept /\ ChoiceKept /\ WishKept /\ OneSelection /\ QuizKept
  BY DEF SettingsInv
<1>2. BegunAs(p, memo, end) /\ Began(p)
  BY <1>1, BegunIs, BegunKeeps DEF SettingsFit, Alike, SameSelection
<1>3. /\ seat.phase = "idle" /\ memo' = p.memo /\ stored' = p.stored /\ titling' = p.titling
      /\ seat' = p.seat /\ heard' = [heard EXCEPT !.title = p.told]
  BY DEF PromptUser
<1>4. /\ trail' = IF end = "ok" THEN trail ELSE Troubled([trail EXCEPT !.untold = told])
  BY <1>1 DEF PromptUser, SettingsFit, TrailFields
<1> HIDE DEF p
<1>5. /\ TrailFields(trail') /\ trail'.quizzes = trail.quizzes /\ trail'.choice = trail.choice
      /\ trail'.wish = trail.wish /\ trail'.replies = trail.replies /\ trail'.failed = trail.failed
      /\ trail'.unshown = trail.unshown
      /\ trail'.untold = (IF end = "ok" THEN trail.untold ELSE told)
  <2> HIDE DEF told
  <2> DEFINE t == [trail EXCEPT !.untold = told]
  <2>1. t = [updates |-> trail.updates, quizzes |-> trail.quizzes, trouble |-> trail.trouble,
             choice |-> trail.choice, wish |-> trail.wish, replies |-> trail.replies,
             failed |-> trail.failed, untold |-> told, unshown |-> trail.unshown]
    BY <1>1 DEF SettingsFit, TrailFields
  <2>2. trail' = IF end = "ok" THEN trail ELSE Troubled(t)
    BY <1>4
  <2> HIDE DEF t
  <2>3. TrailFields(t)
    BY <2>1 DEF TrailFields
  <2> QED
    BY <1>1, <2>1, <2>2, <2>3, TroubledIs DEF SettingsFit
<1>6. HeardFields(heard') /\ heard'.title = p.told /\ heard'.config = heard.config /\ heard'.quiz = heard.quiz
  BY <1>1, <1>3 DEF SettingsFit, HeardFields
<1>7. p.told = p.memo.title \/ trail'.untold
  <2>1. heard.title = memo.title \/ trail.untold
    BY <1>1, <1>3 DEF OneSelection
  <2> QED
    BY <1>2, <1>5, <2>1 DEF BegunAs
<1>8. SelectionKept' /\ ChoiceKept' /\ WishKept' /\ OneSelection'
  <2>1. /\ Fields(memo') /\ Alike(memo', p.memo) /\ Fields(stored') /\ Alike(stored', p.stored)
    BY <1>2, <1>3 DEF Began, Alike, SameSelection
  <2>2. seat.phase # "down" /\ titling'.asking \subseteq p.titling.asking /\ seat'.config = p.seat.config
    BY <1>3
  <2> QED
    BY <1>2, <1>5, <1>6, <1>7, <2>1, <2>2, BeganHolds
<1>9. SettingsFit'
  BY <1>1, <1>2, <1>3, <1>5, <1>6 DEF SettingsFit, Began
<1>a. QuizKept'
  <2>1. memo'.quiz = memo.quiz /\ stored'.quiz \in {memo.quiz, stored.quiz}
    BY <1>2, <1>3 DEF BegunAs
  <2> QED
    BY <1>1, <1>3, <1>5, <1>6, <2>1, QuizStays
<1> QED
  BY <1>8, <1>9, <1>a DEF SettingsInv

LEMMA TurnIsEndedHolds ==
  ASSUME SettingsInv, TurnIsEnded
  PROVE  SettingsInv'
<1>1. SettingsFit /\ SelectionKept /\ ChoiceKept /\ WishKept /\ OneSelection /\ QuizKept
  BY DEF SettingsInv
<1>2. /\ memo' = memo /\ heard' = heard /\ stored' \in {memo, stored} /\ seat.phase # "down"
      /\ trail' \in {trail, Troubled(trail)}
  BY DEF TurnIsEnded
<1>3. /\ TrailFields(trail') /\ trail'.quizzes = trail.quizzes /\ trail'.choice = trail.choice
      /\ trail'.wish = trail.wish /\ trail'.replies = trail.replies /\ trail'.failed = trail.failed
      /\ trail'.unshown = trail.unshown /\ trail'.untold = trail.untold
  BY <1>1, <1>2, TroubledIs DEF SettingsFit
<1>4. SeatFields(seat') /\ seat'.config = seat.config
  BY <1>1 DEF SettingsFit, SeatFields, TurnIsEnded
<1>5. TitlingFields(titling') /\ titling'.asking \subseteq titling.asking
  BY <1>1 DEF SettingsFit, TitlingFields, TurnIsEnded
<1>6. SettingsFit'
  BY <1>1, <1>2, <1>3, <1>4, <1>5 DEF SettingsFit
<1>7. SelectionKept' /\ WishKept'
  BY <1>1, <1>2, <1>3 DEF SelectionKept, SameSelection, WishKept
<1>8. ChoiceKept'
  BY <1>1, <1>2, <1>3, <1>5 DEF ChoiceKept
<1>9. OneSelection'
  BY <1>1, <1>2, <1>3, <1>4 DEF OneSelection, Config, SelectionKept, SameSelection
<1>a. QuizKept'
  BY <1>1, <1>2, <1>3, QuizStays
<1> QED
  BY <1>6, <1>7, <1>8, <1>9, <1>a DEF SettingsInv

LEMMA QuizAskedHolds ==
  ASSUME SettingsInv, QuizAsked
  PROVE  SettingsInv'
<1> DEFINE q == trail.quizzes + 1
           yes == TRUE
           no == FALSE
<1>1. SettingsFit /\ SelectionKept /\ ChoiceKept /\ WishKept /\ OneSelection /\ QuizKept
  BY DEF SettingsInv
<1>2. /\ seat.phase # "down" /\ memo.quiz = 0 /\ trail.quizzes < MaxQuizzes
      /\ memo' = [memo EXCEPT !.quiz = q] /\ stored' = memo' /\ titling' = titling /\ seat' = seat
  BY DEF QuizAsked
<1>3. \/ /\ heard' = [heard EXCEPT !.quiz = q]
         /\ trail' = [trail EXCEPT !.quizzes = q, !.unshown = no]
      \/ /\ heard' = heard
         /\ trail' = Troubled([trail EXCEPT !.quizzes = q, !.unshown = yes])
  BY DEF QuizAsked
<1>4. q \in 1 .. MaxQuizzes /\ q # 0 /\ q = trail.quizzes + 1 /\ trail.quizzes \in 0 .. MaxQuizzes
  BY <1>1, <1>2, QuizzesAssumption DEF SettingsFit
<1>5. yes = TRUE /\ no = FALSE
  OBVIOUS
<1> HIDE DEF q, yes, no
<1>6. /\ Fields(memo') /\ Alike(memo', memo) /\ memo'.quiz = q
  BY <1>1, <1>2, QuizIs DEF SettingsFit, Alike
<1>7. /\ TrailFields(trail') /\ trail'.quizzes = q /\ trail'.choice = trail.choice
      /\ trail'.wish = trail.wish /\ trail'.replies = trail.replies /\ trail'.failed = trail.failed
      /\ trail'.untold = trail.untold
      /\ HeardFields(heard') /\ heard'.config = heard.config /\ heard'.title = heard.title
      /\ heard'.quiz = q \/ trail'.unshown
  <2>1. CASE /\ heard' = [heard EXCEPT !.quiz = q]
             /\ trail' = [trail EXCEPT !.quizzes = q, !.unshown = no]
    <3>1. HeardFields(heard') /\ heard'.config = heard.config /\ heard'.title = heard.title /\ heard'.quiz = q
      BY <1>1, <2>1 DEF SettingsFit, HeardFields
    <3>2. trail' = [updates |-> trail.updates, quizzes |-> q, trouble |-> trail.trouble,
             choice |-> trail.choice, wish |-> trail.wish, replies |-> trail.replies,
             failed |-> trail.failed, untold |-> trail.untold, unshown |-> no]
      BY <1>1, <2>1 DEF SettingsFit, TrailFields
    <3> QED
      BY <3>1, <3>2 DEF TrailFields
  <2>2. CASE /\ heard' = heard
             /\ trail' = Troubled([trail EXCEPT !.quizzes = q, !.unshown = yes])
    <3>0. PICK t : t = [trail EXCEPT !.quizzes = q, !.unshown = yes]
      OBVIOUS
    <3>1. t = [updates |-> trail.updates, quizzes |-> q, trouble |-> trail.trouble,
             choice |-> trail.choice, wish |-> trail.wish, replies |-> trail.replies,
             failed |-> trail.failed, untold |-> trail.untold, unshown |-> yes]
      BY <1>1, <3>0 DEF SettingsFit, TrailFields
    <3>2. trail' = Troubled(t)
      BY <2>2, <3>0
    <3>3. TrailFields(t)
      BY <3>1 DEF TrailFields
    <3> QED
      BY <1>1, <1>5, <2>2, <3>1, <3>2, <3>3, TroubledIs DEF SettingsFit
  <2> QED
    BY <1>3, <2>1, <2>2
<1>8. SettingsFit'
  BY <1>1, <1>2, <1>4, <1>6, <1>7 DEF SettingsFit
<1>9. SelectionKept' /\ WishKept'
  <2>1. SameSelection(memo, memo')
    BY <1>6 DEF Alike, SameSelection
  <2>2. Minded(memo', trail.wish)
    BY <1>1, <2>1, MindedSame DEF WishKept
  <2> QED
    BY <1>2, <1>7, <2>2 DEF SelectionKept, SameSelection, WishKept
<1>a. ChoiceKept'
  BY <1>1, <1>2, <1>6, <1>7, NamedToo DEF ChoiceKept, Alike
<1>b. OneSelection'
  BY <1>1, <1>2, <1>6, <1>7 DEF OneSelection, Config, Alike, SameSelection
<1>c. QuizKept'
  <2>1. trail.replies[q] = 0
    BY <1>1, <1>4 DEF QuizKept
  <2>2. \A x \in 1 .. trail.quizzes : trail.replies[x] # 0
    BY <1>1, <1>2, <1>4 DEF QuizKept
  <2>3. ASSUME NEW x \in 1 .. q
        PROVE  /\ trail.replies[x] = 0 => q = x
               /\ trail.replies[x] <= 1 \/ x \in trail.failed
    <3>1. CASE x = q
      BY <2>1, <3>1
    <3>2. CASE x # q
      BY <1>1, <1>4, <2>2, <3>2 DEF QuizKept
    <3> QED
      BY <3>1, <3>2
  <2>4. \A x \in 1 .. MaxQuizzes : x > q => trail.replies[x] = 0
    BY <1>1, <1>4 DEF QuizKept
  <2> QED
    BY <1>2, <1>4, <1>6, <1>7, <2>1, <2>3, <2>4 DEF QuizKept, Waits
<1> QED
  BY <1>8, <1>9, <1>a, <1>b, <1>c DEF SettingsInv

(* What an answer leaves of the questionnaire's record.                        *)
LEMMA AnsweredIs ==
  ASSUME SettingsInv, seat.phase \in {"idle", "running"}
  PROVE  /\ Began(Passed) /\ Passed.memo.quiz = 0 /\ Passed.stored.quiz \in {0, stored.quiz}
         /\ Passed.told = Passed.memo.title \/ trail.untold
<1> DEFINE without == [memo EXCEPT !.quiz = 0]
<1>1. SettingsFit /\ SelectionKept /\ ChoiceKept /\ OneSelection
  BY DEF SettingsInv
<1>2. Fields(without) /\ Alike(without, memo) /\ without.quiz = 0
  BY <1>1, QuizIs DEF SettingsFit, Alike
<1>3. heard.title = memo.title \/ trail.untold
  BY <1>1 DEF OneSelection
<1>4. CASE seat.phase = "running"
  <2>1. Passed = [memo |-> without, stored |-> stored, told |-> heard.title, seat |-> seat,
                  titling |-> titling, spawns |-> FALSE]
    BY <1>4 DEF Passed
  <2> HIDE DEF without
  <2>2. /\ Passed.memo = without /\ Passed.stored = stored /\ Passed.told = heard.title
        /\ Passed.seat = seat /\ Passed.titling = titling
    BY <2>1
  <2>3. Began(Passed)
    BY <1>1, <1>2, <2>2, NamedToo
       DEF Began, SettingsFit, ChoiceKept, SelectionKept, Alike, SameSelection
  <2> QED
    BY <1>2, <1>3, <2>2, <2>3 DEF Alike
<1>5. CASE seat.phase # "running"
  <2> DEFINE p == Begun(without)["ok"]
  <2>1. Passed = p
    BY <1>5 DEF Passed
  <2> HIDE DEF without
  <2>2. BegunAs(p, without, "ok") /\ Began(p)
    BY <1>1, <1>2, BegunIs, BegunKeeps DEF Ends
  <2> HIDE DEF p
  <2>3. p.memo.quiz = 0 /\ p.stored.quiz = 0 /\ (p.told = p.memo.title \/ trail.untold)
    BY <1>2, <1>3, <2>2 DEF BegunAs, Alike
  <2> QED
    BY <2>1, <2>2, <2>3
<1> QED
  BY <1>4, <1>5

(* The questionnaire that was answered; a bad answer is marked.                *)
LEMMA RepliedIs ==
  ASSUME NEW t, NEW q \in 1 .. MaxQuizzes, TrailFields(t), t.replies \in [1 .. MaxQuizzes -> Nat]
  PROVE  LET n == Replied(t, q) IN
         /\ TrailFields(n) /\ n.quizzes = t.quizzes /\ n.choice = t.choice
         /\ n.wish = t.wish /\ n.failed = t.failed /\ n.untold = t.untold /\ n.unshown = t.unshown
         /\ n.replies \in [1 .. MaxQuizzes -> Nat] /\ n.replies[q] = t.replies[q] + 1
         /\ \A x \in 1 .. MaxQuizzes \ {q} : n.replies[x] = t.replies[x]
<1> DEFINE k == t.replies[q] + 1
           f == [t.replies EXCEPT ![q] = k]
           n == Replied(t, q)
<1>0. t.replies[q] \in Nat
  OBVIOUS
<1>1. k \in Nat /\ k = t.replies[q] + 1
  BY <1>0
<1>2. n = [t EXCEPT !.replies = f]
  BY DEF Replied
<1> HIDE DEF k
<1>3. f \in [1 .. MaxQuizzes -> Nat] /\ f[q] = k /\ \A x \in 1 .. MaxQuizzes \ {q} : f[x] = t.replies[x]
  BY <1>1
<1> HIDE DEF f, n
<1>4. n = [updates |-> t.updates, quizzes |-> t.quizzes, trouble |-> t.trouble, choice |-> t.choice,
           wish |-> t.wish, replies |-> f, failed |-> t.failed, untold |-> t.untold,
           unshown |-> t.unshown]
  BY <1>2 DEF TrailFields
<1> QED
  BY <1>1, <1>3, <1>4 DEF TrailFields, n

LEMMA BadlyIs ==
  ASSUME NEW t, NEW q \in 1 .. MaxQuizzes, TrailFields(t), t.replies \in [1 .. MaxQuizzes -> Nat]
  PROVE  LET n == RepliedBadly(t, q) IN
         /\ TrailFields(n) /\ n.quizzes = t.quizzes /\ n.choice = t.choice
         /\ n.wish = t.wish /\ n.failed = t.failed \cup {q} /\ n.untold = t.untold /\ n.unshown = t.unshown
         /\ n.replies \in [1 .. MaxQuizzes -> Nat] /\ n.replies[q] = t.replies[q] + 1
         /\ \A x \in 1 .. MaxQuizzes \ {q} : n.replies[x] = t.replies[x]
<1> DEFINE m == Replied(t, q)
           g == m.failed \cup {q}
           k == [m EXCEPT !.failed = g]
           n == RepliedBadly(t, q)
<1>1. /\ TrailFields(m) /\ m.quizzes = t.quizzes /\ m.choice = t.choice
      /\ m.wish = t.wish /\ m.failed = t.failed /\ m.untold = t.untold /\ m.unshown = t.unshown
      /\ m.replies \in [1 .. MaxQuizzes -> Nat] /\ m.replies[q] = t.replies[q] + 1
      /\ \A x \in 1 .. MaxQuizzes \ {q} : m.replies[x] = t.replies[x]
  BY RepliedIs
<1>2. n = Troubled(k)
  BY DEF RepliedBadly
<1>3. g = m.failed \cup {q}
  OBVIOUS
<1> HIDE DEF m, g
<1>4. k = [updates |-> m.updates, quizzes |-> m.quizzes, trouble |-> m.trouble, choice |-> m.choice,
           wish |-> m.wish, replies |-> m.replies, failed |-> g, untold |-> m.untold,
           unshown |-> m.unshown]
  BY <1>1 DEF TrailFields
<1> HIDE DEF k, n
<1>5. TrailFields(k)
  BY <1>4 DEF TrailFields
<1>6. /\ TrailFields(n) /\ n.quizzes = k.quizzes /\ n.choice = k.choice
      /\ n.wish = k.wish /\ n.replies = k.replies /\ n.failed = k.failed
      /\ n.untold = k.untold /\ n.unshown = k.unshown
  BY <1>2, <1>5, TroubledIs
<1> QED
  BY <1>1, <1>3, <1>4, <1>6 DEF n

(* An answer that was taken is counted, and the questionnaire is gone or the   *)
(* answer is marked as one that failed.                                        *)
LEMMA QuizCounted ==
  ASSUME SettingsFit, QuizKept, NEW q, q = memo.quiz, q # 0,
         trail'.quizzes = trail.quizzes, trail'.replies[q] = trail.replies[q] + 1,
         \A x \in 1 .. MaxQuizzes \ {q} : trail'.replies[x] = trail.replies[x],
         \/ trail'.failed = trail.failed /\ memo'.quiz = 0 /\ stored'.quiz = 0
         \/ /\ trail'.failed = trail.failed \cup {q} /\ memo'.quiz = q
            /\ stored'.quiz \in {0, stored.quiz},
         seat'.phase # "down" => heard'.quiz = memo'.quiz \/ trail'.unshown
  PROVE  QuizKept'
<1>1. q \in 1 .. trail.quizzes /\ (trail.replies[q] = 0 \/ q \in trail.failed)
  BY DEF QuizKept, Waits
<1>2. trail.quizzes \in 0 .. MaxQuizzes /\ trail.replies \in [1 .. MaxQuizzes -> Nat] /\ MaxQuizzes \in Nat
  BY QuizzesAssumption DEF SettingsFit
<1>3. q \in 1 .. MaxQuizzes /\ trail.replies[q] \in Nat /\ trail'.replies[q] # 0
  BY <1>1, <1>2
<1>4. ASSUME NEW x \in 1 .. trail.quizzes
      PROVE  /\ trail'.replies[x] = 0 => memo'.quiz = x /\ stored'.quiz = x
             /\ trail'.replies[x] <= 1 \/ x \in trail'.failed
  <2>1. CASE x = q
    BY <1>1, <1>3, <2>1
  <2>2. CASE x # q
    <3>1. x \in 1 .. MaxQuizzes \ {q} /\ trail.replies[x] # 0
      BY <1>2, <2>2 DEF QuizKept
    <3> QED
      BY <3>1 DEF QuizKept
  <2> QED
    BY <2>1, <2>2
<1>5. memo'.quiz # 0 =>
        memo'.quiz \in 1 .. trail'.quizzes /\ (trail'.replies[memo'.quiz] = 0 \/ memo'.quiz \in trail'.failed)
  BY <1>1
<1>6. stored'.quiz # 0 =>
        /\ stored'.quiz \in 1 .. trail'.quizzes
        /\ trail'.replies[stored'.quiz] = 0 \/ stored'.quiz \in trail'.failed
  <2> SUFFICES ASSUME stored'.quiz # 0
               PROVE  /\ stored'.quiz \in 1 .. trail'.quizzes
                      /\ trail'.replies[stored'.quiz] = 0 \/ stored'.quiz \in trail'.failed
    OBVIOUS
  <2>1. trail'.failed = trail.failed \cup {q} /\ stored'.quiz = stored.quiz
    OBVIOUS
  <2>2. stored.quiz \in 1 .. trail.quizzes /\ (trail.replies[stored.quiz] = 0 \/ stored.quiz \in trail.failed)
    BY <2>1 DEF QuizKept, Waits
  <2>3. CASE stored.quiz = q
    BY <1>1, <2>1, <2>3
  <2>4. CASE stored.quiz # q
    <3>1. stored.quiz \in 1 .. MaxQuizzes \ {q}
      BY <1>2, <2>2, <2>4
    <3> QED
      BY <2>1, <2>2, <3>1
  <2> QED
    BY <2>3, <2>4
<1>7. \A x \in 1 .. MaxQuizzes : x > trail.quizzes => trail'.replies[x] = 0
  BY <1>1, <1>2 DEF QuizKept
<1> QED
  BY <1>4, <1>5, <1>6, <1>7 DEF QuizKept, Waits

LEMMA QuizAnsweredHolds ==
  ASSUME SettingsInv, QuizAnswered
  PROVE  SettingsInv'
<1> DEFINE p == Passed
           q == memo.quiz
           yes == TRUE
           no == FALSE
<1>1. SettingsFit /\ SelectionKept /\ ChoiceKept /\ WishKept /\ OneSelection /\ QuizKept
  BY DEF SettingsInv
<1>2. /\ seat.phase # "down" /\ q # 0 /\ memo' = p.memo /\ stored' = p.memo
      /\ titling' = p.titling /\ seat' = p.seat
  BY DEF QuizAnswered
<1>3. Began(p) /\ p.memo.quiz = 0 /\ (p.told = p.memo.title \/ trail.untold)
  BY AnsweredIs DEF QuizAnswered
<1>4. \/ /\ heard' = [heard EXCEPT !.title = p.told, !.quiz = 0]
         /\ trail' = Replied([trail EXCEPT !.unshown = no], q)
      \/ /\ heard' = [heard EXCEPT !.title = p.told]
         /\ trail' = Troubled(Replied([trail EXCEPT !.unshown = yes], q))
  BY DEF QuizAnswered
<1>5. /\ q \in 1 .. MaxQuizzes /\ yes = TRUE /\ no = FALSE /\ q = memo.quiz
      /\ trail.replies \in [1 .. MaxQuizzes -> Nat] /\ TrailFields(trail)
  BY <1>1, <1>2, QuizzesAssumption DEF QuizKept, Waits, SettingsFit
<1> HIDE DEF p, q, yes, no
<1>6. /\ TrailFields(trail') /\ trail'.quizzes = trail.quizzes /\ trail'.choice = trail.choice
      /\ trail'.wish = trail.wish /\ trail'.failed = trail.failed /\ trail'.untold = trail.untold
      /\ trail'.replies \in [1 .. MaxQuizzes -> Nat]
      /\ trail'.replies[q] = trail.replies[q] + 1
      /\ \A x \in 1 .. MaxQuizzes \ {q} : trail'.replies[x] = trail.replies[x]
      /\ HeardFields(heard') /\ heard'.config = heard.config /\ heard'.title = p.told
      /\ heard'.quiz = 0 \/ trail'.unshown
  <2>1. ASSUME NEW b, NEW t, t = [trail EXCEPT !.unshown = b]
        PROVE  /\ TrailFields(t) /\ t.quizzes = trail.quizzes /\ t.choice = trail.choice
               /\ t.wish = trail.wish /\ t.failed = trail.failed /\ t.untold = trail.untold
               /\ t.replies = trail.replies /\ t.unshown = b
    <3>1. t = [updates |-> trail.updates, quizzes |-> trail.quizzes, trouble |-> trail.trouble,
               choice |-> trail.choice, wish |-> trail.wish, replies |-> trail.replies,
               failed |-> trail.failed, untold |-> trail.untold, unshown |-> b]
      BY <1>5, <2>1 DEF TrailFields
    <3> QED
      BY <3>1 DEF TrailFields
  <2>2. CASE /\ heard' = [heard EXCEPT !.title = p.told, !.quiz = 0]
             /\ trail' = Replied([trail EXCEPT !.unshown = no], q)
    <3>1. HeardFields(heard') /\ heard'.config = heard.config /\ heard'.title = p.told /\ heard'.quiz = 0
      BY <1>1, <2>2 DEF SettingsFit, HeardFields
    <3>2. PICK t : t = [trail EXCEPT !.unshown = no]
      OBVIOUS
    <3>3. /\ TrailFields(t) /\ t.quizzes = trail.quizzes /\ t.choice = trail.choice
          /\ t.wish = trail.wish /\ t.failed = trail.failed /\ t.untold = trail.untold
          /\ t.replies = trail.replies
      BY <2>1, <3>2
    <3>4. trail' = Replied(t, q) /\ t.replies \in [1 .. MaxQuizzes -> Nat]
      BY <1>5, <2>2, <3>2, <3>3
    <3> QED
      BY <1>5, <3>1, <3>3, <3>4, RepliedIs
  <2>3. CASE /\ heard' = [heard EXCEPT !.title = p.told]
             /\ trail' = Troubled(Replied([trail EXCEPT !.unshown = yes], q))
    <3>1. HeardFields(heard') /\ heard'.config = heard.config /\ heard'.title = p.told
      BY <1>1, <2>3 DEF SettingsFit, HeardFields
    <3>2. PICK t : t = [trail EXCEPT !.unshown = yes]
      OBVIOUS
    <3>3. /\ TrailFields(t) /\ t.quizzes = trail.quizzes /\ t.choice = trail.choice
          /\ t.wish = trail.wish /\ t.failed = trail.failed /\ t.untold = trail.untold
          /\ t.replies = trail.replies /\ t.unshown = yes
      BY <2>1, <3>2
    <3>0. t.replies \in [1 .. MaxQuizzes -> Nat] /\ q \in 1 .. MaxQuizzes
      BY <1>5, <3>3
    <3>4. PICK n : n = Replied(t, q)
      OBVIOUS
    <3>5. /\ TrailFields(n) /\ n.quizzes = t.quizzes /\ n.choice = t.choice
          /\ n.wish = t.wish /\ n.failed = t.failed /\ n.untold = t.untold /\ n.unshown = t.unshown
          /\ n.replies \in [1 .. MaxQuizzes -> Nat] /\ n.replies[q] = t.replies[q] + 1
          /\ \A x \in 1 .. MaxQuizzes \ {q} : n.replies[x] = t.replies[x]
      <4>1. LET m == Replied(t, q) IN
            /\ TrailFields(m) /\ m.quizzes = t.quizzes /\ m.choice = t.choice
            /\ m.wish = t.wish /\ m.failed = t.failed /\ m.untold = t.untold /\ m.unshown = t.unshown
            /\ m.replies \in [1 .. MaxQuizzes -> Nat] /\ m.replies[q] = t.replies[q] + 1
            /\ \A x \in 1 .. MaxQuizzes \ {q} : m.replies[x] = t.replies[x]
        BY <3>0, <3>3, RepliedIs
      <4> QED
        BY <3>4, <4>1
    <3>6. trail' = Troubled(n)
      BY <2>3, <3>2, <3>4
    <3>7. /\ TrailFields(trail') /\ trail'.quizzes = n.quizzes /\ trail'.choice = n.choice
          /\ trail'.wish = n.wish /\ trail'.replies = n.replies /\ trail'.failed = n.failed
          /\ trail'.untold = n.untold /\ trail'.unshown = n.unshown
      BY <3>5, <3>6, TroubledIs
    <3> QED
      BY <1>5, <3>1, <3>3, <3>5, <3>7
  <2> QED
    BY <1>4, <2>2, <2>3
<1>7. Fields(memo') /\ Alike(memo', p.memo) /\ Fields(stored') /\ Alike(stored', p.memo)
  BY <1>2, <1>3 DEF Began, Alike, SameSelection
<1>8. SelectionKept' /\ ChoiceKept' /\ WishKept' /\ OneSelection'
  <2>1. titling'.asking \subseteq p.titling.asking /\ seat'.config = p.seat.config
    BY <1>2
  <2>2. p.told = p.memo.title \/ trail'.untold
    BY <1>3, <1>6
  <2> QED
    BY <1>2, <1>3, <1>6, <1>7, <2>1, <2>2, BeganHolds
<1>9. SettingsFit'
  BY <1>1, <1>2, <1>3, <1>6, <1>7 DEF SettingsFit, Began
<1>a. QuizKept'
  <2>1. memo'.quiz = 0 /\ stored'.quiz = 0
    BY <1>2, <1>3
  <2>2. heard'.quiz = memo'.quiz \/ trail'.unshown
    BY <1>6, <2>1
  <2> QED
    BY <1>1, <1>2, <1>5, <1>6, <2>1, <2>2, QuizCounted
<1> QED
  BY <1>8, <1>9, <1>a DEF SettingsInv

LEMMA AnswerUnsavedHolds ==
  ASSUME SettingsInv, AnswerUnsaved
  PROVE  SettingsInv'
<1> DEFINE p == Passed
           q == memo.quiz
<1>1. SettingsFit /\ SelectionKept /\ ChoiceKept /\ WishKept /\ OneSelection /\ QuizKept
  BY DEF SettingsInv
<1>2. /\ seat.phase # "down" /\ q # 0 /\ memo' = [p.memo EXCEPT !.quiz = q] /\ stored' = p.stored
      /\ heard' = [heard EXCEPT !.title = p.told] /\ trail' = RepliedBadly(trail, q)
      /\ \/ titling' = p.titling /\ seat' = p.seat
         \/ /\ seat' = [p.seat EXCEPT !.phase = "down"]
            /\ titling' = [p.titling EXCEPT !.asking = {}]
  BY DEF AnswerUnsaved
<1>3. Began(p) /\ p.stored.quiz \in {0, stored.quiz} /\ (p.told = p.memo.title \/ trail.untold)
  BY AnsweredIs DEF AnswerUnsaved
<1>4. /\ q \in 1 .. MaxQuizzes /\ q = memo.quiz
      /\ trail.replies \in [1 .. MaxQuizzes -> Nat] /\ TrailFields(trail)
  BY <1>1, <1>2, QuizzesAssumption DEF QuizKept, Waits, SettingsFit
<1> HIDE DEF p, q
<1>5. /\ TrailFields(trail') /\ trail'.quizzes = trail.quizzes /\ trail'.choice = trail.choice
      /\ trail'.wish = trail.wish /\ trail'.failed = trail.failed \cup {q}
      /\ trail'.untold = trail.untold /\ trail'.unshown = trail.unshown
      /\ trail'.replies \in [1 .. MaxQuizzes -> Nat] /\ trail'.replies[q] = trail.replies[q] + 1
      /\ \A x \in 1 .. MaxQuizzes \ {q} : trail'.replies[x] = trail.replies[x]
  BY <1>2, <1>4, BadlyIs
<1>6. Fields(p.memo) /\ Fields(p.stored) /\ SeatFields(p.seat) /\ TitlingFields(p.titling)
  BY <1>3 DEF Began
<1>7. Fields(memo') /\ Alike(memo', p.memo) /\ memo'.quiz = q
  BY <1>2, <1>6, QuizIs DEF Alike
<1>8. Fields(stored') /\ Alike(stored', p.stored) /\ stored'.quiz \in {0, stored.quiz}
  BY <1>2, <1>3, <1>6 DEF Alike, SameSelection
<1>9. HeardFields(heard') /\ heard'.title = p.told /\ heard'.config = heard.config /\ heard'.quiz = heard.quiz
  BY <1>1, <1>2 DEF SettingsFit, HeardFields
<1>a. /\ SeatFields(seat') /\ seat'.config = p.seat.config
      /\ TitlingFields(titling') /\ titling'.asking \subseteq p.titling.asking
  <2>1. CASE titling' = p.titling /\ seat' = p.seat
    BY <1>6, <2>1
  <2>2. CASE /\ seat' = [p.seat EXCEPT !.phase = "down"]
             /\ titling' = [p.titling EXCEPT !.asking = {}]
    <3>1. SeatFields(seat') /\ seat'.config = p.seat.config
      BY <1>6, <2>2 DEF SeatFields
    <3>2. TitlingFields(titling') /\ titling'.asking = {}
      BY <1>6, <2>2 DEF TitlingFields
    <3> QED
      BY <3>1, <3>2
  <2> QED
    BY <1>2, <2>1, <2>2
<1>b. p.told = p.memo.title \/ trail'.untold
  BY <1>3, <1>5
<1>c. SelectionKept' /\ ChoiceKept' /\ WishKept' /\ OneSelection'
  BY <1>2, <1>3, <1>5, <1>7, <1>8, <1>9, <1>a, <1>b, BeganHolds
<1>d. SettingsFit'
  BY <1>1, <1>5, <1>7, <1>8, <1>9, <1>a DEF SettingsFit
<1>e. QuizKept'
  <2>1. heard'.quiz = memo'.quiz \/ trail'.unshown
    BY <1>1, <1>2, <1>4, <1>5, <1>7, <1>9 DEF QuizKept
  <2> QED
    BY <1>1, <1>2, <1>4, <1>5, <1>7, <1>8, <2>1, QuizCounted
<1> QED
  BY <1>c, <1>d, <1>e DEF SettingsInv

LEMMA AnswerStuckHolds ==
  ASSUME SettingsInv, NEW end \in {"unrecorded", "unsaved"}, AnswerStuck(end)
  PROVE  SettingsInv'
<1> DEFINE r == [memo EXCEPT !.quiz = 0]
           b == Begun(r)[end]
           q == memo.quiz
           told == trail.untold \/ memo.title = ""
           u == [trail EXCEPT !.untold = told]
<1>1. SettingsFit /\ SelectionKept /\ ChoiceKept /\ WishKept /\ OneSelection /\ QuizKept
  BY DEF SettingsInv
<1>2. Fields(r) /\ Alike(r, memo) /\ r.quiz = 0
  BY <1>1, QuizIs DEF SettingsFit, Alike
<1>3. /\ seat.phase # "down" /\ q # 0 /\ memo' = [b.memo EXCEPT !.quiz = q] /\ stored' = b.stored
      /\ titling' = b.titling /\ heard' = heard /\ seat' = seat
  BY DEF AnswerStuck
<1>4. trail' = RepliedBadly(u, q)
  BY <1>1 DEF AnswerStuck, SettingsFit, TrailFields
<1>5. /\ q \in 1 .. MaxQuizzes /\ q = memo.quiz
      /\ trail.replies \in [1 .. MaxQuizzes -> Nat] /\ TrailFields(trail)
  BY <1>1, <1>3, QuizzesAssumption DEF QuizKept, Waits, SettingsFit
<1> HIDE DEF r
<1>6. BegunAs(b, r, end) /\ Began(b)
  BY <1>1, <1>2, BegunIs, BegunKeeps DEF Ends
<1>7. told = (trail.untold \/ memo.title = "")
  OBVIOUS
<1> HIDE DEF b, q, told
<1>8. /\ TrailFields(u) /\ u.quizzes = trail.quizzes /\ u.choice = trail.choice
      /\ u.wish = trail.wish /\ u.failed = trail.failed /\ u.untold = told /\ u.unshown = trail.unshown
      /\ u.replies = trail.replies
  <2>1. u = [updates |-> trail.updates, quizzes |-> trail.quizzes, trouble |-> trail.trouble,
             choice |-> trail.choice, wish |-> trail.wish, replies |-> trail.replies,
             failed |-> trail.failed, untold |-> told, unshown |-> trail.unshown]
    BY <1>5 DEF TrailFields
  <2> QED
    BY <2>1 DEF TrailFields
<1> HIDE DEF u
<1>9. /\ TrailFields(trail') /\ trail'.quizzes = trail.quizzes /\ trail'.choice = trail.choice
      /\ trail'.wish = trail.wish /\ trail'.failed = trail.failed \cup {q}
      /\ trail'.untold = told /\ trail'.unshown = trail.unshown
      /\ trail'.replies \in [1 .. MaxQuizzes -> Nat] /\ trail'.replies[q] = trail.replies[q] + 1
      /\ \A x \in 1 .. MaxQuizzes \ {q} : trail'.replies[x] = trail.replies[x]
  BY <1>4, <1>5, <1>8, BadlyIs
<1>a. Fields(b.memo) /\ Fields(b.stored) /\ TitlingFields(b.titling) /\ b.seat.config = seat.config
  BY <1>6 DEF Began
<1>b. Fields(memo') /\ Alike(memo', b.memo) /\ memo'.quiz = q
  BY <1>3, <1>a, QuizIs DEF Alike
<1>c. Fields(stored') /\ Alike(stored', b.stored) /\ stored'.quiz \in {0, stored.quiz}
  <2>1. b.stored.quiz \in {0, stored.quiz}
    BY <1>2, <1>6 DEF BegunAs
  <2> QED
    BY <1>3, <1>a, <2>1 DEF Alike, SameSelection
<1>d. heard'.title = b.told /\ (b.told = b.memo.title \/ trail'.untold)
  <2>1. heard.title = memo.title \/ trail.untold
    BY <1>1, <1>3 DEF OneSelection
  <2>2. b.told = heard.title /\ (memo.title = "" \/ b.memo.title = memo.title)
    BY <1>2, <1>6 DEF BegunAs, Alike
  <2> QED
    BY <1>3, <1>7, <1>9, <2>1, <2>2
<1>e. SelectionKept' /\ ChoiceKept' /\ WishKept' /\ OneSelection'
  <2>1. titling'.asking \subseteq b.titling.asking /\ seat'.config = b.seat.config /\ heard'.config = heard.config
    BY <1>3, <1>a
  <2> QED
    BY <1>3, <1>6, <1>9, <1>b, <1>c, <1>d, <2>1, BeganHolds
<1>f. SettingsFit'
  BY <1>1, <1>3, <1>9, <1>a, <1>b, <1>c DEF SettingsFit
<1>g. QuizKept'
  <2>1. heard'.quiz = memo'.quiz \/ trail'.unshown
    BY <1>1, <1>3, <1>5, <1>9, <1>b DEF QuizKept
  <2> QED
    BY <1>1, <1>3, <1>5, <1>9, <1>b, <1>c, <2>1, QuizCounted
<1> QED
  BY <1>e, <1>f, <1>g DEF SettingsInv

LEMMA UnloadSeatHolds ==
  ASSUME SettingsInv, UnloadSeat
  PROVE  SettingsInv'
<1>1. SettingsFit /\ SelectionKept /\ ChoiceKept /\ WishKept /\ OneSelection /\ QuizKept
  BY DEF SettingsInv
<1>2. /\ memo' = memo /\ heard' = heard /\ stored' \in {memo, stored} /\ seat.phase # "down"
      /\ trail' \in {trail, Troubled(trail)}
  BY DEF UnloadSeat
<1>3. /\ TrailFields(trail') /\ trail'.quizzes = trail.quizzes /\ trail'.choice = trail.choice
      /\ trail'.wish = trail.wish /\ trail'.replies = trail.replies /\ trail'.failed = trail.failed
      /\ trail'.unshown = trail.unshown /\ trail'.untold = trail.untold
  BY <1>1, <1>2, TroubledIs DEF SettingsFit
<1>4. SeatFields(seat') /\ seat'.config = seat.config
  BY <1>1 DEF SettingsFit, SeatFields, UnloadSeat
<1>5. TitlingFields(titling') /\ titling'.asking \subseteq titling.asking
  BY <1>1 DEF SettingsFit, TitlingFields, UnloadSeat
<1>6. SettingsFit'
  BY <1>1, <1>2, <1>3, <1>4, <1>5 DEF SettingsFit
<1>7. SelectionKept' /\ WishKept'
  BY <1>1, <1>2, <1>3 DEF SelectionKept, SameSelection, WishKept
<1>8. ChoiceKept'
  BY <1>1, <1>2, <1>3, <1>5 DEF ChoiceKept
<1>9. OneSelection'
  BY <1>1, <1>2, <1>3, <1>4 DEF OneSelection, Config, SelectionKept, SameSelection
<1>a. QuizKept'
  BY <1>1, <1>2, <1>3, QuizStays
<1> QED
  BY <1>6, <1>7, <1>8, <1>9, <1>a DEF SettingsInv

LEMMA SeatDiesHolds ==
  ASSUME SettingsInv, SeatDies
  PROVE  SettingsInv'
<1>1. SettingsFit /\ SelectionKept /\ ChoiceKept /\ WishKept /\ OneSelection /\ QuizKept
  BY DEF SettingsInv
<1>2. /\ memo' = memo /\ heard' = heard /\ stored' = stored /\ seat.phase # "down"
      /\ trail' = Troubled(trail)
  BY DEF SeatDies
<1>3. /\ TrailFields(trail') /\ trail'.quizzes = trail.quizzes /\ trail'.choice = trail.choice
      /\ trail'.wish = trail.wish /\ trail'.replies = trail.replies /\ trail'.failed = trail.failed
  BY <1>1, <1>2, TroubledIs DEF SettingsFit
<1>4. SeatFields(seat') /\ seat'.phase = "down"
  BY <1>1 DEF SettingsFit, SeatFields, SeatDies
<1>5. TitlingFields(titling') /\ titling'.asking = {}
  BY <1>1 DEF SettingsFit, TitlingFields, SeatDies
<1>6. SettingsFit'
  BY <1>1, <1>2, <1>3, <1>4, <1>5 DEF SettingsFit
<1>7. SelectionKept' /\ WishKept' /\ OneSelection'
  BY <1>1, <1>2, <1>3, <1>4 DEF SelectionKept, SameSelection, WishKept, OneSelection
<1>8. ChoiceKept'
  BY <1>1, <1>2, <1>3, <1>5 DEF ChoiceKept
<1>9. QuizKept'
  BY <1>1, <1>2, <1>3, <1>4, QuizStays
<1> QED
  BY <1>6, <1>7, <1>8, <1>9 DEF SettingsInv

(* What a stored record comes back as: its selection and every chosen title.   *)
LEMMA LoadSeatHolds ==
  ASSUME SettingsInv, LoadSeat
  PROVE  SettingsInv'
<1> DEFINE no == FALSE
           lit == Config(memo')
<1>1. SettingsFit /\ SelectionKept /\ ChoiceKept /\ WishKept /\ OneSelection /\ QuizKept
  BY DEF SettingsInv
<1>2. /\ memo' = (IF stored.title = "" /\ seat.prompted THEN WithTitle(stored, "m") ELSE stored)
      /\ stored' = memo' /\ heard' = Shown(memo') /\ titling' = [titling EXCEPT !.token = 0]
  BY DEF LoadSeat
<1>3. seat' = [seat EXCEPT !.phase = "idle", !.config = lit] /\ lit = Config(memo')
  BY DEF LoadSeat
<1>4. trail' = [trail EXCEPT !.untold = no, !.unshown = no]
  BY DEF LoadSeat
<1> HIDE DEF no, lit
<1>5. /\ Fields(memo') /\ SameSelection(memo', memo) /\ memo'.quiz = stored.quiz
      /\ memo' = stored \/ (stored.title = "" /\ memo'.title = "m")
  BY <1>1, <1>2, TitledIs, ZenonT(40) DEF SettingsFit, SelectionKept, SameSelection
<1>6. /\ TrailFields(trail') /\ trail'.quizzes = trail.quizzes /\ trail'.choice = trail.choice
      /\ trail'.wish = trail.wish /\ trail'.replies = trail.replies /\ trail'.failed = trail.failed
  BY <1>1, <1>4 DEF SettingsFit, TrailFields
<1>7. SeatFields(seat') /\ seat'.phase = "idle" /\ seat'.config = lit
  BY <1>1, <1>3 DEF SettingsFit, SeatFields
<1>8. /\ HeardFields(heard') /\ heard'.title = memo'.title /\ heard'.config = Config(memo')
      /\ heard'.quiz = memo'.quiz
  BY <1>2 DEF Shown, HeardFields
<1>9. TitlingFields(titling') /\ titling'.asking = titling.asking
  BY <1>1, <1>2 DEF SettingsFit, TitlingFields
<1>a. SettingsFit'
  BY <1>1, <1>2, <1>5, <1>6, <1>7, <1>8, <1>9 DEF SettingsFit
<1>b. SelectionKept' /\ WishKept'
  <2>1. SameSelection(memo, memo')
    BY <1>5 DEF SameSelection
  <2>2. Minded(memo', trail.wish)
    BY <1>1, <2>1, MindedSame DEF WishKept
  <2> QED
    BY <1>2, <1>6, <2>2 DEF SelectionKept, SameSelection, WishKept
<1>c. ChoiceKept'
  <2>1. CASE trail.choice = {}
    BY <1>6, <2>1 DEF ChoiceKept
  <2>2. CASE memo' = stored
    BY <1>1, <1>2, <1>6, <1>9, <2>2, NamedToo DEF ChoiceKept
  <2>3. CASE trail.choice # {} /\ stored.title = ""
    BY <1>1, <2>3 DEF ChoiceKept
  <2> QED
    BY <1>5, <2>1, <2>2, <2>3
<1>d. OneSelection'
  BY <1>2, <1>3, <1>7, <1>8 DEF OneSelection, Config
<1>e. QuizKept'
  BY <1>1, <1>2, <1>5, <1>6, <1>8, ZenonT(40) DEF QuizKept, Waits
<1> QED
  BY <1>a, <1>b, <1>c, <1>d, <1>e DEF SettingsInv

LEMMA OffersChangeHolds ==
  ASSUME SettingsInv, NEW m, NEW e, OffersChange(m, e)
  PROVE  SettingsInv'
<1>1. SettingsFit /\ SelectionKept /\ ChoiceKept /\ WishKept /\ OneSelection /\ QuizKept
  BY DEF SettingsInv
<1>2. /\ memo' = memo /\ heard' = heard /\ stored' = stored /\ seat' = seat /\ titling' = titling
      /\ trail' = Troubled(trail)
  BY DEF OffersChange
<1>3. /\ TrailFields(trail') /\ trail'.quizzes = trail.quizzes /\ trail'.choice = trail.choice
      /\ trail'.wish = trail.wish /\ trail'.replies = trail.replies /\ trail'.failed = trail.failed
      /\ trail'.unshown = trail.unshown /\ trail'.untold = trail.untold
  BY <1>1, <1>2, TroubledIs DEF SettingsFit
<1>4. SettingsFit'
  BY <1>1, <1>2, <1>3 DEF SettingsFit
<1>5. SelectionKept' /\ WishKept' /\ OneSelection' /\ ChoiceKept'
  BY <1>1, <1>2, <1>3 DEF SelectionKept, SameSelection, WishKept, OneSelection, ChoiceKept, Config
<1>6. QuizKept'
  BY <1>1, <1>2, <1>3, QuizStays
<1> QED
  BY <1>4, <1>5, <1>6 DEF SettingsInv

LEMMA SettingsStarts == SettingsInit => SettingsInv
<1> SUFFICES ASSUME SettingsInit
             PROVE  SettingsInv
  OBVIOUS
<1>1. PICK title : memo = NewRecord(title)
  BY DEF SettingsInit
<1> DEFINE auto == title = "new"
           mind == [m \in {FirstModel} |-> NoEffort]
           none == [q \in 1 .. MaxQuizzes |-> 0]
           no == FALSE
           config == Config(memo)
<1>2. memo = [title |-> title, auto |-> auto, model |-> FirstModel, effort |-> NoEffort,
              memory |-> mind, quiz |-> 0]
  BY <1>1 DEF NewRecord
<1>3. stored = memo /\ heard = Shown(memo) /\ titling = [asking |-> {}, token |-> 0, made |-> 0]
  BY DEF SettingsInit
<1>4. seat = [phase |-> "idle", config |-> config, prompted |-> no]
  BY DEF SettingsInit
<1>5. trail = [updates |-> 0, quizzes |-> 0, trouble |-> 0, choice |-> {}, wish |-> <<>>,
               replies |-> none, failed |-> {}, untold |-> no, unshown |-> no]
  BY DEF SettingsInit
<1>6. none \in [1 .. MaxQuizzes -> Nat] /\ \A q \in 1 .. MaxQuizzes : none[q] = 0
  OBVIOUS
<1>7. config = Config(memo)
  OBVIOUS
<1> HIDE DEF auto, mind, none, no, config
<1>8. Fields(memo) /\ memo.quiz = 0 /\ memo.title = title
  BY <1>2 DEF Fields
<1>9. HeardFields(heard) /\ heard.title = memo.title /\ heard.quiz = memo.quiz /\ heard.config = Config(memo)
  BY <1>3 DEF Shown, HeardFields
<1>a. TitlingFields(titling) /\ titling.asking = {}
  BY <1>3 DEF TitlingFields
<1>b. SeatFields(seat) /\ seat.config = config
  BY <1>4 DEF SeatFields
<1>c. TrailFields(trail) /\ trail.quizzes = 0 /\ trail.choice = {} /\ trail.replies = none
  BY <1>5 DEF TrailFields
<1>i. trail.wish = <<>>
  BY <1>5
<1>d. SettingsFit
  <2>0. trail.quizzes = 0
    BY <1>c
  <2>1. trail.quizzes \in 0 .. MaxQuizzes
    BY <2>0, QuizzesAssumption
  <2>2. trail.replies \in [1 .. MaxQuizzes -> Nat]
    BY <1>6, <1>c
  <2>3. Fields(stored)
    BY <1>3, <1>8
  <2> QED
    BY <1>8, <1>9, <1>a, <1>b, <1>c, <2>1, <2>2, <2>3 DEF SettingsFit
<1>e. SelectionKept /\ ChoiceKept
  BY <1>3, <1>c DEF SelectionKept, SameSelection, ChoiceKept
<1>f. WishKept
  <2>1. ASSUME NEW w, w = <<>>, NEW r
        PROVE  Minded(r, w)
    BY <2>1 DEF Minded
  <2> QED
    BY <1>i, <2>1 DEF WishKept
<1>g. OneSelection
  BY <1>3, <1>7, <1>9, <1>b DEF OneSelection
<1>h. QuizKept
  <2>0. trail.quizzes = 0
    BY <1>c
  <2>1. 1 .. trail.quizzes = {}
    BY <2>0
  <2>2. memo.quiz = 0 /\ stored.quiz = 0 /\ heard.quiz = memo.quiz
    BY <1>3, <1>8, <1>9
  <2>3. \A q \in 1 .. MaxQuizzes : trail.replies[q] = 0
    BY <1>6, <1>c
  <2> QED
    BY <2>1, <2>2, <2>3 DEF QuizKept
<1> QED
  BY <1>d, <1>e, <1>f, <1>g, <1>h DEF SettingsInv

LEMMA SettingsSteps == SettingsInv /\ [SettingsNext]_settingsVars => SettingsInv'
<1> SUFFICES ASSUME SettingsInv, [SettingsNext]_settingsVars
             PROVE  SettingsInv'
  OBVIOUS
<1>1. CASE UNCHANGED settingsVars
  <2>1. UNCHANGED <<memo, stored, heard, titling, seat, trail>>
    BY <1>1 DEF settingsVars
  <2> QED
    BY <2>1 DEF SettingsInv, SettingsFit, SelectionKept, ChoiceKept, WishKept, OneSelection,
                QuizKept, Waits
<1>2. ASSUME NEW u \in Updates, SetSession(u) PROVE SettingsInv'
  BY <1>2, SetSessionHolds
<1>3. ASSUME NEW g \in titling.asking, TitleComes(g) PROVE SettingsInv'
  BY <1>3, TitleComesHolds
<1>4. ASSUME NEW end \in Ends, PromptUser(end) PROVE SettingsInv'
  BY <1>4, PromptUserHolds
<1>5. ASSUME NEW end \in {"unrecorded", "unsaved"}, AnswerStuck(end) PROVE SettingsInv'
  BY <1>5, AnswerStuckHolds
<1>6. CASE TurnIsEnded
  BY <1>6, TurnIsEndedHolds
<1>7. CASE QuizAsked
  BY <1>7, QuizAskedHolds
<1>8. CASE QuizAnswered
  BY <1>8, QuizAnsweredHolds
<1>9. CASE AnswerUnsaved
  BY <1>9, AnswerUnsavedHolds
<1>a. CASE UnloadSeat
  BY <1>a, UnloadSeatHolds
<1>b. CASE SeatDies
  BY <1>b, SeatDiesHolds
<1>c. CASE LoadSeat
  BY <1>c, LoadSeatHolds
<1>d. ASSUME NEW m, NEW e, OffersChange(m, e) PROVE SettingsInv'
  BY <1>d, OffersChangeHolds
<1> QED
  BY <1>1, <1>2, <1>3, <1>4, <1>5, <1>6, <1>7, <1>8, <1>9, <1>a, <1>b, <1>c, <1>d
     DEF SettingsNext, Ends

(* Whatever is set, generated, asked, answered, lost or reloaded, in any order: *)
(* a chosen title stays, a model brings back the reasoning that was set for it,  *)
(* turns, clients, memory and disk agree on the selection, and a questionnaire   *)
(* waits until it was answered, once.                                            *)
THEOREM SettingsCorrect == SettingsSpec => []SettingsHold
<1>1. SettingsInv => SettingsHold
  <2> SUFFICES ASSUME SettingsInv
               PROVE  SettingsHold
    OBVIOUS
  <2>1. ChoiceStays /\ OneSelection
    BY DEF SettingsInv, ChoiceKept, ChoiceStays
  <2>2. EffortComesBack
    BY DEF SettingsInv, WishKept, Minded, EffortComesBack
  <2>3. QuizIsAnsweredOnce
    BY DEF SettingsInv, QuizKept, QuizIsAnsweredOnce
  <2> QED
    BY <2>1, <2>2, <2>3 DEF SettingsHold
<1> QED
  BY <1>1, SettingsStarts, SettingsSteps, PTL DEF SettingsSpec
=============================================================================
