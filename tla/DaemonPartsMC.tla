---------------------------- MODULE DaemonPartsMC ----------------------------
(* Thirteen components of the daemon and of its front ends in one instance.     *)
(* They share no variable and no step: part names the one a behaviour is      *)
(* about, the others rest in their initial states, so that what is reached    *)
(* is what thirteen runs would reach, each with the bounds of the .cfg.         *)
EXTENDS HostEvents, HostRequests, SessionFeed, Automation, HostConfig, AcpScreen,
        ModelRequest, ContextCompaction, SessionStore, DaemonLifecycle, FileGuard,
        StdioBridge, SessionSettings

VARIABLE part

Parts == {"events", "requests", "feed", "automation", "config", "screen", "model",
          "compaction", "store", "daemon", "guard", "stdio", "settings"}

(* Where a component has several initial states, one is enough to rest in;    *)
(* one kind of channel is enough to begin bound and enabled.                  *)
RestsInOne ==
  /\ part # "config" => kind = "weixin" /\ secret = "none"
  /\ kind # "weixin" => secret = "none"
  /\ part # "screen" => adapter.version = "v1"
  /\ part # "guard" => present = {}
  /\ part # "settings" => memo.title = "new"

PartsInit ==
  /\ part \in Parts
  /\ HubInit /\ RequestsInit /\ FeedInit /\ AutoInit /\ ConfigInit /\ ScreenInit
  /\ RequestInit /\ ContextInit /\ StoreInit /\ DaemonInit /\ GuardInit /\ StdioInit
  /\ SettingsInit
  /\ RestsInOne

PartsNext ==
  \/ /\ part = "events" /\ HubNext
     /\ UNCHANGED <<part, requestVars, feedVars, autoVars, configVars,
                    screenVars, stepVars, contextVars, storeVars, daemonVars,
                    guardVars, stdioVars, settingsVars>>
  \/ /\ part = "requests" /\ RequestsNext
     /\ UNCHANGED <<part, hubVars, feedVars, autoVars, configVars,
                    screenVars, stepVars, contextVars, storeVars, daemonVars,
                    guardVars, stdioVars, settingsVars>>
  \/ /\ part = "feed" /\ FeedNext
     /\ UNCHANGED <<part, hubVars, requestVars, autoVars, configVars,
                    screenVars, stepVars, contextVars, storeVars, daemonVars,
                    guardVars, stdioVars, settingsVars>>
  \/ /\ part = "automation" /\ AutoNext
     /\ UNCHANGED <<part, hubVars, requestVars, feedVars, configVars,
                    screenVars, stepVars, contextVars, storeVars, daemonVars,
                    guardVars, stdioVars, settingsVars>>
  \/ /\ part = "config" /\ ConfigNext
     /\ UNCHANGED <<part, hubVars, requestVars, feedVars, autoVars,
                    screenVars, stepVars, contextVars, storeVars, daemonVars,
                    guardVars, stdioVars, settingsVars>>
  \/ /\ part = "screen" /\ ScreenNext
     /\ UNCHANGED <<part, hubVars, requestVars, feedVars, autoVars,
                    configVars, stepVars, contextVars, storeVars, daemonVars,
                    guardVars, stdioVars, settingsVars>>
  \/ /\ part = "model" /\ RequestNext
     /\ UNCHANGED <<part, hubVars, requestVars, feedVars, autoVars,
                    configVars, screenVars, contextVars, storeVars,
                    daemonVars, guardVars, stdioVars, settingsVars>>
  \/ /\ part = "compaction" /\ ContextNext
     /\ UNCHANGED <<part, hubVars, requestVars, feedVars, autoVars,
                    configVars, screenVars, stepVars, storeVars, daemonVars,
                    guardVars, stdioVars, settingsVars>>
  \/ /\ part = "store" /\ StoreNext
     /\ UNCHANGED <<part, hubVars, requestVars, feedVars, autoVars,
                    configVars, screenVars, stepVars, contextVars,
                    daemonVars, guardVars, stdioVars, settingsVars>>
  \/ /\ part = "daemon" /\ DaemonNext
     /\ UNCHANGED <<part, hubVars, requestVars, feedVars, autoVars,
                    configVars, screenVars, stepVars, contextVars, storeVars,
                    guardVars, stdioVars, settingsVars>>
  \/ /\ part = "guard" /\ GuardNext
     /\ UNCHANGED <<part, hubVars, requestVars, feedVars, autoVars,
                    configVars, screenVars, stepVars, contextVars, storeVars,
                    daemonVars, stdioVars, settingsVars>>
  \/ /\ part = "stdio" /\ StdioNext
     /\ UNCHANGED <<part, hubVars, requestVars, feedVars, autoVars,
                    configVars, screenVars, stepVars, contextVars, storeVars,
                    daemonVars, guardVars, settingsVars>>
  \/ /\ part = "settings" /\ SettingsNext
     /\ UNCHANGED <<part, hubVars, requestVars, feedVars, autoVars,
                    configVars, screenVars, stepVars, contextVars, storeVars,
                    daemonVars, guardVars, stdioVars>>

PartsSpec == PartsInit /\ [][PartsNext]_<<part, hubVars, requestVars, feedVars,
  autoVars, configVars, screenVars, stepVars, contextVars, storeVars, daemonVars,
  guardVars, stdioVars, settingsVars>>
=============================================================================
