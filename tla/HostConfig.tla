----------------------------- MODULE HostConfig -----------------------------
(* The host's configuration: profile.yaml and its single writer, the reload  *)
(* that swaps what depends on it, the gateway of a messaging channel with    *)
(* its bind wizard and secret, and the loop that follows with the listener   *)
(* of the websocket.                                                         *)
EXTENDS Integers, FiniteSets

CONSTANTS
  Callers,    (* management calls served at once                              *)
  Watcher,    (* the task that looks at the files every second                *)
  Nobody,     (* holder of a free lock                                        *)
  Kinds,      (* kinds the channel may be of                                  *)
  MaxCalls,   (* management calls and edits by hand in a run                  *)
  MaxGates,   (* gateways built in a run                                      *)
  MaxFaults   (* steps that fail in a run                                     *)

ASSUME KindsAssumption == Kinds \subseteq {"telegram", "feishu", "qq", "weixin"}
ASSUME TasksAssumption == Watcher \notin Callers /\ Nobody \notin Callers \cup {Watcher}
ASSUME ConfigBoundsAssumption ==
  MaxCalls \in Nat /\ MaxGates \in Nat \ {0} /\ MaxFaults \in Nat

VARIABLES
  kind,      (* the channel                                                   *)
  profile,   (* the content of profile.yaml and of the resources              *)
  secret,    (* the channel's secret.yaml                                     *)
  live,      (* Host.profile: content, and the content it was fingerprinted as *)
  agent,     (* the content the session service was given                     *)
  tasks,     (* where each call is                                            *)
  reloading, (* holder of profile_reload                                      *)
  gates,     (* the gateways built so far                                     *)
  now,       (* the one the host points at                                    *)
  wizard,    (* pending bindings                                              *)
  tokens,    (* the websocket's secret, by how often it was renewed           *)
  socket,    (* the websocket loop                                            *)
  tally      (* bounds, and what the properties remember                      *)

configVars == <<kind, profile, secret, live, agent, tasks, reloading, gates,
                now, wizard, tokens, socket, tally>>

(* The listener of the websocket, the tokens it was opened with, whether its  *)
(* task is over and what the host says of it; and what serve has before it:  *)
(* the runtime it read and the news it has not taken.                        *)
NoSocket == [on |-> FALSE, uses |-> 0, over |-> FALSE, running |-> FALSE, pc |-> "idle",
             seen |-> FALSE, read |-> 0, news |-> FALSE, failed |-> FALSE]

Tasks == Callers \cup {Watcher}
(* enabled and turns are the channel's, ws is the websocket's, rest is all   *)
(* the profile and the resources say besides.                                *)
Contents == [enabled : BOOLEAN, turns : BOOLEAN, ws : BOOLEAN, rest : BOOLEAN]
Plain == [enabled |-> FALSE, turns |-> FALSE, ws |-> FALSE, rest |-> FALSE]
(* What a channel's configuration says; its gateway is built again when any  *)
(* of it changes.                                                            *)
ChannelFields == {"enabled", "turns"}
(* Access alone is a token or credentials without an identity, and an        *)
(* identity alone one whose credentials were removed meanwhile.              *)
Secrets == {"none", "access", "identity", "bound"}
(* The places of a call, of what it does to a channel and of the reload that *)
(* follows; asking for a status and sending a message pass through none.     *)
Steps == {"idle", "edit", "check", "load", "lock", "build", "apply", "record", "publish",
          "announce", "stop", "stopbind", "stopunbind", "swap", "start", "prepare", "remove",
          "write", "begin", "poll", "save"}
AtRest == [pc |-> "idle", gate |-> 0, edit |-> <<>>, loaded |-> Plain,
           source |-> Plain, copy |-> 0]
(* The channel of a gateway: built, told to be enabled, held by an operation *)
(* of its own, and at work.                                                  *)
NoGate == [made |-> FALSE, enabled |-> FALSE, busy |-> Nobody, active |-> FALSE]

ConfigInit ==
  /\ kind \in Kinds
  /\ secret \in {"none", "bound"}
  /\ \E on \in BOOLEAN :
       /\ on => secret = "bound"
       /\ profile = [Plain EXCEPT !.enabled = on]
       /\ gates = [g \in 1..MaxGates |->
            IF g = 1 THEN [NoGate EXCEPT !.made = TRUE, !.enabled = on, !.active = on]
            ELSE NoGate]
  /\ live = [content |-> profile, source |-> profile]
  /\ agent = profile
  /\ tasks = [t \in Tasks |-> AtRest]
  /\ reloading = Nobody
  /\ now = 1
  /\ wizard = {}
  /\ tokens = 0
  /\ socket = NoSocket
  /\ tally = [calls |-> 0, faults |-> 0, partial |-> FALSE, overtaken |-> FALSE,
              started |-> FALSE]

At(t, pc) == tasks[t].pc = pc
To(t, pc) == tasks' = [tasks EXCEPT ![t].pc = pc]
Done(t) == tasks' = [tasks EXCEPT ![t] = AtRest]
Fault == tally.faults < MaxFaults /\ tally' = [tally EXCEPT !.faults = @ + 1]
Call(t) ==
  /\ t \in Callers /\ At(t, "idle")
  /\ tally.calls < MaxCalls
  /\ tally' = [tally EXCEPT !.calls = @ + 1]

onlyTasks == <<kind, profile, secret, live, agent, reloading, gates, now, wizard, tokens, socket>>

-----------------------------------------------------------------------------
(* The calls that edit the profile; enabling asks for a binding first.       *)
Bound == secret \in {"bound", "identity"}
WillEdit(t, edit) == tasks' = [tasks EXCEPT ![t].pc = "edit", ![t].edit = edit]

SetEnabled(t, on) ==
  /\ Call(t) /\ (on => Bound)
  /\ WillEdit(t, [enabled |-> on])
  /\ UNCHANGED onlyTasks

ConfigureChannel(t, on) ==
  /\ Call(t) /\ (on => Bound)
  /\ WillEdit(t, [enabled |-> on, turns |-> ~profile.turns])
  /\ UNCHANGED onlyTasks

SetSocket(t, on) ==
  /\ Call(t)
  /\ WillEdit(t, [ws |-> on])
  /\ UNCHANGED onlyTasks

UpdateConfig(t) ==
  /\ Call(t)
  /\ WillEdit(t, [rest |-> ~profile.rest])
  /\ UNCHANGED onlyTasks

(* ConfigManager.update, one at a time; an edit that is refused changes      *)
(* nothing.                                                                  *)
Edit(t) ==
  /\ At(t, "edit")
  /\ profile' = [f \in DOMAIN profile |->
       IF f \in DOMAIN tasks[t].edit THEN tasks[t].edit[f] ELSE profile[f]]
  /\ tasks' = [tasks EXCEPT ![t] = [AtRest EXCEPT !.pc = "check"]]
  /\ UNCHANGED <<kind, secret, live, agent, reloading, gates, now, wizard, tokens, socket, tally>>

EditRefused(t) ==
  /\ At(t, "edit") /\ Fault
  /\ Done(t)
  /\ UNCHANGED onlyTasks

(* A model family is a resource: written under the same lock, then applied   *)
(* without a look at the fingerprint.                                        *)
WriteResource(t) ==
  /\ Call(t)
  /\ profile' = [profile EXCEPT !.rest = ~@]
  /\ To(t, "load")
  /\ UNCHANGED <<kind, secret, live, agent, reloading, gates, now, wizard, tokens, socket>>

(* Somebody edits a file by hand, and leaves the channel alone.              *)
HandEdit ==
  /\ tally.calls < MaxCalls
  /\ tally' = [tally EXCEPT !.calls = @ + 1]
  /\ profile' = [profile EXCEPT !.ws = ~@]
  /\ UNCHANGED <<kind, secret, live, agent, tasks, reloading, gates, now, wizard, tokens, socket>>

-----------------------------------------------------------------------------
(* reload_profile_if_changed, by the watcher and after an edit               *)
Watch ==
  /\ At(Watcher, "idle")
  /\ live.source # profile
  /\ To(Watcher, "load")
  /\ UNCHANGED <<onlyTasks, tally>>

Check(t) ==
  /\ At(t, "check")
  /\ IF live.source = profile THEN Done(t) ELSE To(t, "load")
  /\ UNCHANGED <<onlyTasks, tally>>

Load(t) ==
  /\ At(t, "load")
  /\ tasks' = [tasks EXCEPT ![t].pc = "lock", ![t].loaded = profile]
  /\ UNCHANGED <<onlyTasks, tally>>

(* apply_profile fingerprints the files again, under the lock.               *)
TakeReload(t) ==
  /\ At(t, "lock") /\ reloading = Nobody
  /\ reloading' = t
  /\ tasks' = [tasks EXCEPT ![t].pc = "build", ![t].source = profile]
  /\ tally' = [tally EXCEPT !.overtaken = @ \/ profile # tasks[t].loaded]
  /\ UNCHANGED <<kind, profile, secret, live, agent, gates, now, wizard, tokens, socket>>

ChannelChanged(t) ==
  \E f \in ChannelFields : tasks[t].loaded[f] # live.content[f]
Made == Cardinality({g \in 1..MaxGates : gates[g].made})
Release(t) == reloading' = Nobody /\ Done(t)

(* The factory refuses an enabled channel whose binding is not complete.     *)
Build(t) ==
  /\ At(t, "build")
  /\ tasks[t].loaded.enabled /\ ChannelChanged(t) => secret = "bound"
  /\ IF ChannelChanged(t)
       THEN /\ Made < MaxGates
            /\ gates' = [gates EXCEPT ![Made + 1] =
                 [NoGate EXCEPT !.made = TRUE, !.enabled = tasks[t].loaded.enabled]]
            /\ tasks' = [tasks EXCEPT ![t].pc = "apply", ![t].gate = Made + 1]
       ELSE To(t, "apply") /\ UNCHANGED gates
  /\ UNCHANGED <<kind, profile, secret, live, agent, reloading, now, wizard, tokens, socket, tally>>

BuildFails(t) ==
  /\ At(t, "build")
  /\ \/ /\ tasks[t].loaded.enabled /\ ChannelChanged(t) /\ secret # "bound"
        /\ UNCHANGED tally
     \/ Fault
  /\ Release(t)
  /\ UNCHANGED <<kind, profile, secret, live, agent, gates, now, wizard, tokens, socket>>

(* The session service comes first; the logging that cannot be set up leaves *)
(* it ahead of the rest until the next reload.                               *)
Apply(t) ==
  /\ At(t, "apply")
  /\ agent' = tasks[t].loaded
  /\ To(t, IF tasks[t].gate # 0 THEN "stop" ELSE "record")
  /\ UNCHANGED <<kind, profile, secret, live, reloading, gates, now, wizard, tokens, socket, tally>>

ApplyHalf(t) ==
  /\ At(t, "apply")
  /\ tally.faults < MaxFaults
  /\ tally' = [tally EXCEPT !.faults = @ + 1, !.partial = TRUE]
  /\ agent' = tasks[t].loaded
  /\ Release(t)
  /\ UNCHANGED <<kind, profile, secret, live, gates, now, wizard, tokens, socket>>

\* mutant: the files are fingerprinted when the configuration has been applied.
RecordLate(t) ==
  /\ At(t, "record")
  /\ live' = [content |-> tasks[t].loaded, source |-> profile]
  /\ tasks' = [tasks EXCEPT ![t].pc = "publish"]
  /\ tally' = [tally EXCEPT !.partial = FALSE]
  /\ UNCHANGED <<kind, profile, secret, agent, reloading, gates, now, wizard, tokens, socket>>

Record(t) ==
  /\ At(t, "record")
  /\ live' = [content |-> tasks[t].loaded, source |-> tasks[t].source]
  /\ tasks' = [tasks EXCEPT ![t].pc = "publish"]
  /\ tally' = [tally EXCEPT !.partial = FALSE]
  /\ UNCHANGED <<kind, profile, secret, agent, reloading, gates, now, wizard, tokens, socket>>

Publish(t) ==
  /\ At(t, "publish")
  /\ socket' = [socket EXCEPT !.news = TRUE]
  /\ Release(t)
  /\ UNCHANGED <<kind, profile, secret, live, agent, gates, now, wizard, tokens, tally>>

-----------------------------------------------------------------------------
(* ChannelGateway: stop and start of the channel are one at a time.          *)
Stopping == [stop |-> "swap", stopbind |-> "begin", stopunbind |-> "remove"]
GateOf(t) == IF At(t, "stop") THEN now ELSE tasks[t].gate

StopGate(t) ==
  /\ tasks[t].pc \in DOMAIN Stopping
  /\ gates[GateOf(t)].busy = Nobody
  /\ gates' = [gates EXCEPT ![GateOf(t)].active = FALSE]
  /\ To(t, Stopping[tasks[t].pc])
  /\ UNCHANGED <<kind, profile, secret, live, agent, reloading, now, wizard, tokens, socket, tally>>

(* The pointers move when all channels of the old gateway have stopped.      *)
Swap(t) ==
  /\ At(t, "swap")
  /\ now' = tasks[t].gate
  /\ To(t, IF gates[tasks[t].gate].enabled /\ Bound THEN "start" ELSE "record")
  /\ UNCHANGED <<kind, profile, secret, live, agent, reloading, gates, wizard, tokens, socket, tally>>

AfterStart(t) == IF reloading = t THEN To(t, "record") ELSE Done(t)

StartGate(t) ==
  /\ At(t, "start")
  /\ gates[tasks[t].gate].busy = Nobody
  /\ IF gates[tasks[t].gate].active
       THEN AfterStart(t) /\ UNCHANGED gates
       ELSE /\ gates' = [gates EXCEPT ![tasks[t].gate].busy = t]
            /\ To(t, "prepare")
  /\ UNCHANGED <<kind, profile, secret, live, agent, reloading, now, wizard, tokens, socket, tally>>

(* prepare reads the configuration and the secret again.                     *)
Started(t) ==
  /\ At(t, "prepare") /\ secret = "bound"
  /\ gates' = [gates EXCEPT ![tasks[t].gate].busy = Nobody, ![tasks[t].gate].active = TRUE]
  /\ AfterStart(t)
  /\ UNCHANGED <<kind, profile, secret, live, agent, reloading, now, wizard, tokens, socket, tally>>

StartFailed(t) ==
  /\ At(t, "prepare")
  /\ (secret # "bound" /\ UNCHANGED tally) \/ Fault
  /\ gates' = [gates EXCEPT ![tasks[t].gate].busy = Nobody]
  /\ AfterStart(t)
  /\ UNCHANGED <<kind, profile, secret, live, agent, reloading, now, wizard, tokens, socket>>

-----------------------------------------------------------------------------
(* Unbinding stops the channel, removes its files and then disables it.      *)
Unbind(t) ==
  /\ Call(t)
  /\ tasks' = [tasks EXCEPT ![t].pc = "stopunbind", ![t].gate = now]
  /\ UNCHANGED onlyTasks

RemoveSecret(t) ==
  /\ At(t, "remove")
  /\ secret' = "none"
  /\ tasks' = [tasks EXCEPT ![t] = [AtRest EXCEPT !.pc = "edit", !.edit = [enabled |-> FALSE]]]
  /\ UNCHANGED <<kind, profile, live, agent, reloading, gates, now, wizard, tokens, socket, tally>>

(* The token of telegram and the credentials of feishu are read, completed   *)
(* and written back, with no lock between.                                   *)
ReadSecret(t) ==
  /\ kind \in {"telegram", "feishu"}
  /\ Call(t)
  /\ tasks' = [tasks EXCEPT ![t].pc = "write", ![t].edit = [secret |-> secret]]
  /\ UNCHANGED onlyTasks

WriteSecret(t) ==
  /\ At(t, "write")
  /\ secret' = IF tasks[t].edit.secret \in {"none", "access"} THEN "access" ELSE "bound"
  /\ Done(t)
  /\ UNCHANGED <<kind, profile, live, agent, reloading, gates, now, wizard, tokens, socket, tally>>

(* Beginning to bind stops the channel; a new wizard replaces the others,    *)
(* but for weixin, which keeps the young ones.                               *)
BeginBind(t) ==
  /\ Call(t)
  /\ tasks' = [tasks EXCEPT ![t].pc = "stopbind", ![t].gate = now]
  /\ UNCHANGED onlyTasks

Fresh == tally.calls
OpenWizard(t, kept) ==
  /\ At(t, "begin")
  /\ wizard' = kept \cup {Fresh}
  /\ Done(t)
  /\ UNCHANGED <<kind, profile, secret, live, agent, reloading, gates, now, tokens, socket, tally>>

BeginTelegram(t) == kind = "telegram" /\ secret # "none" /\ OpenWizard(t, {})
BeginFeishu(t) == kind = "feishu" /\ secret \in {"access", "bound"} /\ OpenWizard(t, {})
BeginQq(t) == kind = "qq" /\ OpenWizard(t, {})
BeginWeixin(t) == kind = "weixin" /\ \E young \in SUBSET wizard : OpenWizard(t, young)

BeginFails(t) ==
  /\ At(t, "begin")
  /\ Fault \/ (kind \in {"telegram", "feishu"} /\ secret = "none" /\ UNCHANGED tally)
  /\ Done(t)
  /\ UNCHANGED onlyTasks

(* A poll looks a wizard up, asks the platform and may bind.                 *)
Poll(t, b) ==
  /\ b \in wizard
  /\ Call(t)
  /\ tasks' = [tasks EXCEPT ![t].pc = "poll", ![t].gate = now, ![t].copy = b]
  /\ UNCHANGED onlyTasks

PollEnds(t, kept) ==
  /\ At(t, "poll")
  /\ wizard' = kept
  /\ Done(t)
  /\ UNCHANGED <<kind, profile, secret, live, agent, reloading, gates, now, tokens, socket, tally>>

PollWaits(t) == PollEnds(t, wizard)
PollExpires(t) == PollEnds(t, wizard \ {tasks[t].copy})

(* The binding is saved; the gateway the call began with starts the channel  *)
(* if its configuration says so.                                             *)
Confirm(t, from, saved, gone) ==
  /\ At(t, from)
  /\ secret' = saved
  /\ wizard' = IF gone THEN wizard \ {tasks[t].copy} ELSE wizard
  /\ IF gates[tasks[t].gate].enabled
       THEN /\ tasks' = [tasks EXCEPT ![t].pc = "start"]
            /\ tally' = [tally EXCEPT !.started = TRUE]
       ELSE Done(t) /\ UNCHANGED tally
  /\ UNCHANGED <<kind, profile, live, agent, reloading, gates, now, tokens, socket>>

(* Telegram needs its wizard still there and its token, and forgets the      *)
(* wizard after the save.                                                    *)
ConfirmTelegram(t) ==
  /\ kind = "telegram" /\ tasks[t].copy \in wizard /\ secret # "none"
  /\ Confirm(t, "poll", "bound", TRUE)

(* Feishu and QQ forget the wizard first and save later; Feishu adds the     *)
(* identity to whatever credentials are there by then.                       *)
LeaveWizard(t) ==
  /\ kind \in {"feishu", "qq"}
  /\ At(t, "poll") /\ tasks[t].copy \in wizard
  /\ wizard' = wizard \ {tasks[t].copy}
  /\ To(t, "save")
  /\ UNCHANGED <<kind, profile, secret, live, agent, reloading, gates, now, tokens, socket, tally>>

ConfirmFeishu(t) ==
  /\ kind = "feishu"
  /\ Confirm(t, "save", IF secret \in {"access", "bound"} THEN "bound" ELSE "identity", FALSE)

ConfirmQq(t) == kind = "qq" /\ Confirm(t, "save", "bound", FALSE)

ConfirmWeixin(t) == kind = "weixin" /\ Confirm(t, "poll", "bound", TRUE)

-----------------------------------------------------------------------------
(* New tokens are written first and announced to the websocket afterwards.   *)
ResetTokens(t) ==
  /\ Call(t)
  /\ tokens' = tokens + 1
  /\ To(t, "announce")
  /\ UNCHANGED <<kind, profile, secret, live, agent, reloading, gates, now, wizard, socket>>

Announce(t) ==
  /\ At(t, "announce")
  /\ socket' = [socket EXCEPT !.news = TRUE]
  /\ Done(t)
  /\ UNCHANGED <<kind, profile, secret, live, agent, reloading, gates, now, wizard, tokens, tally>>

onlySocket == <<kind, profile, secret, live, agent, tasks, reloading, gates, now, wizard, tokens>>

(* serve of the websocket: an event makes it read the tokens and the         *)
(* profile, and so does a tick that finds its listener over or missing.      *)
Runtime == [enabled |-> live.content.ws, tokens |-> tokens]
Missed == IF socket.on THEN socket.over ELSE live.content.ws
SocketWakes ==
  /\ socket.pc = "idle"
  /\ socket.news \/ Missed
  /\ socket' = [socket EXCEPT !.pc = "reconcile", !.seen = Runtime.enabled,
                              !.read = Runtime.tokens, !.news = FALSE]
  /\ UNCHANGED <<onlySocket, tally>>

(* Tokens that cannot be read leave the listener as it is, and reported down. *)
TokensUnread ==
  /\ socket.pc = "reconcile" /\ Fault
  /\ socket' = [socket EXCEPT !.pc = "idle", !.running = FALSE, !.failed = TRUE]
  /\ UNCHANGED onlySocket

Matches == socket.on /\ socket.seen /\ ~socket.over /\ socket.uses = socket.read
KeepListener ==
  /\ socket.pc = "reconcile" /\ Matches
  /\ socket' = [socket EXCEPT !.pc = "idle", !.failed = FALSE]
  /\ UNCHANGED <<onlySocket, tally>>

(* A listener that no longer fits is stopped, and its task waited for.       *)
StopListener ==
  /\ socket.pc = "reconcile" /\ ~Matches
  /\ socket' = [socket EXCEPT !.on = FALSE, !.over = FALSE, !.uses = 0, !.running = FALSE,
                              !.pc = IF socket.seen THEN "open" ELSE "idle",
                              !.failed = FALSE]
  /\ UNCHANGED <<onlySocket, tally>>

StartListener ==
  /\ socket.pc = "open"
  /\ socket' = [socket EXCEPT !.pc = "idle", !.on = TRUE, !.uses = socket.read,
                              !.running = TRUE]
  /\ UNCHANGED <<onlySocket, tally>>

ListenFails ==
  /\ socket.pc = "open" /\ Fault
  /\ socket' = [socket EXCEPT !.pc = "idle", !.failed = TRUE]
  /\ UNCHANGED onlySocket

(* A listener that cannot accept ends and says so itself.                    *)
ListenerEnds ==
  /\ socket.on /\ ~socket.over /\ Fault
  /\ socket' = [socket EXCEPT !.over = TRUE, !.running = FALSE]
  /\ UNCHANGED onlySocket

ConfigNext ==
  \/ HandEdit \/ Watch \/ SocketWakes \/ TokensUnread \/ KeepListener
  \/ StopListener \/ StartListener \/ ListenFails \/ ListenerEnds
  \/ \E t \in Tasks :
       \/ \E on \in BOOLEAN : SetEnabled(t, on) \/ ConfigureChannel(t, on) \/ SetSocket(t, on)
       \/ ResetTokens(t) \/ Announce(t)
       \/ UpdateConfig(t) \/ Edit(t) \/ EditRefused(t) \/ WriteResource(t)
       \/ Check(t) \/ Load(t) \/ TakeReload(t) \/ Build(t) \/ BuildFails(t)
       \/ Apply(t) \/ ApplyHalf(t) \/ Record(t) \/ Publish(t)
       \/ StopGate(t) \/ Swap(t) \/ StartGate(t) \/ Started(t) \/ StartFailed(t)
       \/ Unbind(t) \/ RemoveSecret(t) \/ ReadSecret(t) \/ WriteSecret(t)
       \/ BeginBind(t) \/ BeginTelegram(t) \/ BeginFeishu(t) \/ BeginQq(t)
       \/ BeginWeixin(t) \/ BeginFails(t)
       \/ \E b \in wizard : Poll(t, b)
       \/ PollWaits(t) \/ PollExpires(t) \/ ConfirmTelegram(t) \/ LeaveWizard(t)
       \/ ConfirmFeishu(t) \/ ConfirmQq(t) \/ ConfirmWeixin(t)

ConfigSpec == ConfigInit /\ [][ConfigNext]_configVars

-----------------------------------------------------------------------------
(* Outside a reload the session service, the host's profile and the gateway  *)
(* speak of the same configuration, unless a reload broke off half-way.      *)
CopiesAgree ==
  reloading = Nobody /\ ~tally.partial =>
    /\ agent = live.content
    /\ gates[now].enabled = live.content.enabled

(* A configuration that was fingerprinted is the one that runs, unless a     *)
(* file changed between the reading and the fingerprint.                     *)
FingerprintIsTrue == ~tally.overtaken => live.content = live.source

(* The reloads never leave two gateways at work for the channel; only a      *)
(* binding that was confirmed during a reload may.                           *)
OneRuntime ==
  ~tally.started => Cardinality({g \in 1..MaxGates : gates[g].active}) <= 1

(* When the websocket loop rests with nothing announced and no call about to  *)
(* announce, the listener is open as the profile asks for it and knows the   *)
(* tokens of the secret, or the last attempt failed or will be made again.   *)
ListenerFollows ==
  /\ socket.pc = "idle" /\ ~socket.news
     /\ (\A t \in Tasks : tasks[t].pc \notin {"publish", "announce"})
       => \/ socket.failed \/ Missed
          \/ socket.on = live.content.ws /\ (socket.on => socket.uses = tokens)
  /\ socket.running => socket.on /\ ~socket.over

(* What each part of the host keeps; an enabled channel's secret may be gone. *)
ConfigTypeOK ==
  /\ secret \in Secrets
  /\ {profile, live.content, live.source, agent} \subseteq Contents
  /\ \A t \in Tasks : tasks[t].pc \in Steps /\ tasks[t].gate \in 0..MaxGates
  /\ reloading \in Tasks \cup {Nobody}
  /\ \A g \in 1..MaxGates : gates[g].active => gates[g].made
  /\ tokens \in 0..MaxCalls /\ {socket.uses, socket.read} \subseteq 0..tokens

(* What a reload of the profile leaves behind whatever overlaps it: one      *)
(* configuration everywhere, known by its fingerprint, one gateway, and the  *)
(* listener the profile asks for with the tokens of the secret.              *)
ConfigHolds ==
  ConfigTypeOK /\ CopiesAgree /\ FingerprintIsTrue /\ OneRuntime /\ ListenerFollows
=============================================================================
