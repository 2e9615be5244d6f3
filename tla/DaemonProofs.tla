----------------------------- MODULE DaemonProofs -----------------------------
(* The daemon on the machine it shares: DaemonHolds for any number of         *)
(* commands, daemon processes and faults, GuardHolds for any files, tasks     *)
(* that write at once and programs beside the daemon, and HostHolds for any   *)
(* sessions, projects, directories and calls of its host at once.             *)
EXTENDS DaemonLifecycle, FileGuard, HostSessions, FiniteSetTheorems, TLAPS

-------------------------------------------------------------------------------
(* The life cycle of the daemon.                                              *)

Places == {"none", "spawned", "building", "built", "serving", "deaf", "closing"}
CommandSteps == {"done", "status", "shutdown", "probe", "probed", "spawn", "wait", "copy", "remove"}

Said == {"none", "already running", "no daemon", "nothing there", "held", "did not stop", "stopped",
         "installed", "removed", "started", "not healthy"}
CommandRecord == [cmd : {"none", "start", "stop", "install", "purge"}, pc : CommandSteps,
                  said : Said, seen : Nat, restart : BOOLEAN]
DaemonRecord == [at : Places, stop : BOOLEAN, number : Nat]
Counts == [locks : Nat, commands : Nat, faults : Nat]

DaemonTypes ==
  /\ daemons \in [Processes -> DaemonRecord]
  /\ instance \in Processes \cup Consoles \cup {Unlocked}
  /\ endpoint \in Processes \cup {Unlocked}
  /\ commands \in [Consoles -> CommandRecord]
  /\ profileThere \in BOOLEAN
  /\ counts \in Counts

(* A daemon beyond its first step has the lock of the instance.               *)
HoldersHold == \A d \in Holding : instance = d

(* A command that took the lock to look at it still has it.                   *)
ProbersHold == \A c \in Consoles : commands[c].pc = "probed" => instance = c

(* The locks are numbered as they are taken, and nobody saw a later one.      *)
LocksCounted ==
  /\ \A d \in Processes : daemons[d].number <= counts.locks
  /\ \A c \in Consoles : commands[c].seen <= counts.locks

DaemonInv ==
  DaemonTypes /\ HoldersHold /\ ProbersHold /\ LocksCounted /\ ServingIsReachable /\ StoppedIsGone

-----------------------------------------------------------------------------
LEMMA DaemonInitInv == DaemonInit => DaemonInv
<1> SUFFICES ASSUME DaemonInit PROVE DaemonInv
  OBVIOUS
<1>1. NoProcess \in DaemonRecord /\ NoCommand \in CommandRecord
  BY DEF NoProcess, NoCommand, Places, DaemonRecord, CommandSteps, CommandRecord, Said
<1>2. DaemonTypes
  BY <1>1 DEF DaemonInit, DaemonTypes, Counts
<1>3. Holding = {} /\ \A c \in Consoles : commands[c] = NoCommand
  BY DEF DaemonInit, Holding, NoProcess
<1> QED
  BY <1>2, <1>3 DEF DaemonInit, DaemonInv, HoldersHold, ProbersHold, LocksCounted,
       ServingIsReachable, StoppedIsGone, NoProcess, NoCommand

(* While nobody or a command has the lock, no daemon is beyond its first step. *)
LEMMA FreeOfDaemons ==
  ASSUME DaemonInv, instance \notin Processes
  PROVE  Holding = {}
BY DEF DaemonInv, HoldersHold, Holding

(* A daemon that ends gives the lock back, and the socket only if it is its.  *)
LEMMA ExitInv ==
  ASSUME DaemonInv, NEW d \in Processes, Exits(d),
         counts' \in Counts, counts'.locks = counts.locks,
         UNCHANGED <<commands, profileThere>>,
         endpoint' = endpoint \/ (endpoint = d /\ endpoint' = Unlocked)
  PROVE  DaemonInv'
<1>1. DaemonTypes'
  <2>1. NoProcess \in DaemonRecord
    BY DEF NoProcess, DaemonRecord, Places
  <2> QED BY <2>1 DEF DaemonInv, DaemonTypes, Exits
<1>2. /\ daemons'[d].at = "none" /\ daemons'[d].number = 0
      /\ \A e \in Processes \ {d} : daemons'[e] = daemons[e]
  BY DEF DaemonInv, DaemonTypes, Exits, NoProcess
<1>4. Holding' = Holding \ {d}
  BY <1>2 DEF Holding
<1>5. HoldersHold' /\ StoppedIsGone'
  BY <1>2, <1>4 DEF DaemonInv, HoldersHold, StoppedIsGone, Exits, Holding
<1>6. ServingIsReachable'
  BY <1>2 DEF DaemonInv, ServingIsReachable
<1>7. LocksCounted'
  BY <1>2 DEF DaemonInv, DaemonTypes, Counts, LocksCounted
<1>3. ProbersHold'
  BY HoldersAssumption DEF DaemonInv, DaemonTypes, ProbersHold, Exits
<1> QED BY <1>1, <1>3, <1>5, <1>6, <1>7 DEF DaemonInv

(* A daemon that has the lock moves on: it is the only one that could be      *)
(* serving, before and after.                                                 *)
LEMMA MoveInv ==
  ASSUME DaemonInv, NEW d \in Processes,
         NEW from \in Places \ {"none", "spawned"}, NEW to \in Places \ {"none", "spawned"},
         Moves(d, from, to),
         counts' \in Counts, counts'.locks = counts.locks,
         UNCHANGED <<instance, commands, profileThere>>,
         endpoint' \in {endpoint, d, Unlocked}, to = "serving" => endpoint' = d
  PROVE  DaemonInv'
<1>1. DaemonTypes'
  BY DEF DaemonInv, DaemonTypes, DaemonRecord, Moves
<1>2. Holding' = Holding /\ \A e \in Holding : e = d
  BY DEF DaemonInv, DaemonTypes, HoldersHold, Holding, Moves
<1>3. \A e \in Processes : daemons'[e].number = daemons[e].number
  BY DEF DaemonInv, DaemonTypes, Moves
<1>4. HoldersHold' /\ ProbersHold' /\ LocksCounted' /\ StoppedIsGone'
  BY <1>2, <1>3 DEF DaemonInv, HoldersHold, ProbersHold, LocksCounted, StoppedIsGone
<1>5. ServingIsReachable'
  BY <1>2 DEF DaemonInv, DaemonTypes, ServingIsReachable, Moves, Holding
<1> QED BY <1>1, <1>4, <1>5 DEF DaemonInv

(* A command changes of a daemon at most that it is told to stop, or it       *)
(* creates its process.                                                       *)
DaemonsSpared ==
  /\ daemons' \in [Processes -> DaemonRecord]
  /\ \A d \in Processes :
       /\ daemons'[d].number = daemons[d].number
       /\ \/ daemons'[d].at = daemons[d].at
          \/ daemons[d].at = "none" /\ daemons'[d].at = "spawned"

(* A command that otherwise only changes itself keeps all of it, if what it says and    *)
(* where it goes rests on what it saw before, or on no daemon being there.    *)
Trusting(c) ==
  commands[c].said = "stopped" \/ commands[c].pc = "remove" \/ (commands[c].pc = "copy" /\ commands[c].restart)

LEMMA CommandInv ==
  ASSUME DaemonInv, NEW c \in Consoles, NEW r \in CommandRecord,
         commands' = [commands EXCEPT ![c] = r],
         r.seen <= counts.locks, r.pc # "probed",
         Trusting(c)' => Holding = {} \/ (Trusting(c) /\ r.seen = commands[c].seen),
         counts' \in Counts, counts'.locks = counts.locks,
         profileThere' \in BOOLEAN,
         DaemonsSpared, UNCHANGED <<instance, endpoint>>
  PROVE  DaemonInv'
<1>1. DaemonTypes'
  BY DEF DaemonInv, DaemonTypes, DaemonsSpared
<1>2. Holding' = Holding
  BY DEF Holding, DaemonsSpared
<1>6. HoldersHold' /\ ServingIsReachable'
  BY <1>2 DEF DaemonInv, HoldersHold, ServingIsReachable, DaemonsSpared
<1>3. ProbersHold' /\ LocksCounted'
  BY DEF DaemonInv, DaemonTypes, ProbersHold, LocksCounted, DaemonsSpared
<1>4. commands'[c] = r /\ \A e \in Consoles \ {c} : commands'[e] = commands[e]
  BY DEF DaemonInv, DaemonTypes
<1>5. StoppedIsGone'
  <2> SUFFICES ASSUME NEW e \in Consoles, Trusting(e)', NEW d \in Holding
               PROVE  daemons[d].number > commands'[e].seen
    BY <1>2, Holding \subseteq Processes DEF StoppedIsGone, Trusting, DaemonsSpared, Holding
  <2> QED BY <1>4 DEF DaemonInv, StoppedIsGone, Trusting
<1> QED BY <1>1, <1>3, <1>5, <1>6 DEF DaemonInv

-----------------------------------------------------------------------------
LEMMA DaemonStep ==
  ASSUME DaemonInv, [DaemonNext]_daemonVars
  PROVE  DaemonInv'
<1>a. DaemonTypes /\ counts.locks \in Nat
  BY DEF DaemonInv, DaemonTypes, Counts
<1>s. UNCHANGED daemons => DaemonsSpared
  BY <1>a DEF DaemonTypes, DaemonsSpared
<1>f. DaemonFault => /\ counts' \in Counts
                     /\ counts'.locks = counts.locks
  BY <1>a DEF DaemonTypes, DaemonFault, Counts
<1>u. UNCHANGED counts => /\ counts' \in Counts
                          /\ counts'.locks = counts.locks
  BY <1>a DEF DaemonTypes
<1>p. {"building", "built", "serving", "deaf", "closing"} \subseteq Places \ {"none", "spawned"}
  BY DEF Places
<1>1. ASSUME NEW d \in Processes, Acquire(d)
      PROVE  DaemonInv'
  <2>1. CASE instance = Unlocked
    <3>1. instance \notin Processes /\ instance \notin Consoles /\ Holding = {}
      BY <2>1, HoldersAssumption, FreeOfDaemons
    <3>2. /\ daemons' = [daemons EXCEPT ![d].at = "building", ![d].number = counts.locks + 1]
          /\ counts' = [counts EXCEPT !.locks = @ + 1] /\ instance' = d
          /\ UNCHANGED <<endpoint, commands, profileThere>>
      BY <1>1, <2>1 DEF Acquire
    <3>3. DaemonTypes'
      <4>1. [daemons[d] EXCEPT !.at = "building", !.number = counts.locks + 1]
              \in DaemonRecord
        <5>1. daemons[d] \in DaemonRecord /\ counts.locks + 1 \in Nat
          BY <1>a DEF DaemonTypes
        <5> QED BY <5>1 DEF DaemonRecord, Places
      <4>2. daemons' \in [Processes -> DaemonRecord]
        BY <1>a, <3>2, <4>1 DEF DaemonTypes
      <4>3. counts' \in Counts
        BY <1>a, <3>2 DEF DaemonTypes, Counts
      <4> QED BY <1>a, <3>2, <4>2, <4>3 DEF DaemonTypes
    <3>4. \A e \in Processes : e # d => daemons'[e] = daemons[e]
      BY <1>a, <3>2 DEF DaemonTypes
    <3>5. daemons'[d].number = counts.locks + 1 /\ daemons'[d].at = "building"
      BY <1>a, <3>2 DEF DaemonTypes, DaemonRecord
    <3>6. Holding' = {d}
      BY <3>1, <3>4, <3>5 DEF Holding
    <3>7. LocksCounted'
      <4>1. counts'.locks = counts.locks + 1
        BY <1>a, <3>2 DEF DaemonTypes, Counts
      <4> QED BY <1>a, <3>2, <3>4, <3>5, <4>1
              DEF DaemonInv, DaemonTypes, DaemonRecord, CommandRecord, LocksCounted
    <3>8. StoppedIsGone'
      BY <1>a, <3>2, <3>5, <3>6
         DEF DaemonInv, DaemonTypes, CommandRecord, LocksCounted, StoppedIsGone
    <3>9. HoldersHold' /\ ProbersHold' /\ ServingIsReachable'
      BY <3>1, <3>2, <3>4, <3>5, <3>6
         DEF DaemonInv, HoldersHold, ProbersHold, ServingIsReachable
    <3> QED BY <3>3, <3>7, <3>8, <3>9 DEF DaemonInv
  <2>2. CASE instance # Unlocked
    BY <1>1, <1>u, <2>2, ExitInv DEF Acquire
  <2> QED BY <2>1, <2>2
<1>2. ASSUME NEW d \in Processes, BuildHost(d) \/ Listen(d) \/ ListenerFails(d) \/ CloseListener(d)
      PROVE  DaemonInv'
  <2>1. CASE BuildHost(d)
    BY <1>p, <1>u, <2>1, MoveInv DEF BuildHost
  <2>2. CASE Listen(d)
    BY <1>p, <1>u, <2>2, MoveInv DEF Listen
  <2>3. CASE ListenerFails(d)
    BY <1>p, <1>f, <2>3, MoveInv DEF ListenerFails
  <2>4. CASE CloseListener(d)
    BY <1>p, <1>u, <2>4, MoveInv DEF CloseListener
  <2> QED BY <1>2, <2>1, <2>2, <2>3, <2>4
<1>3. ASSUME NEW d \in Processes, BuildRefused(d) \/ ProcessEnds(d) \/ DaemonKilled(d)
      PROVE  DaemonInv'
  BY <1>3, <1>f, <1>u, ExitInv DEF BuildRefused, ProcessEnds, DaemonKilled
<1>4. ASSUME NEW c \in Consoles, NEW cmd \in {"start", "stop", "install", "purge"}, Command(c, cmd)
      PROVE  DaemonInv'
  <2> DEFINE r == [NoCommand EXCEPT !.cmd = cmd,
                     !.pc = IF cmd \in {"start", "install"} THEN "status" ELSE "shutdown"]
  <2>1. /\ r \in CommandRecord
        /\ r.seen = 0 /\ r.said = "none" /\ r.pc \in {"status", "shutdown"}
    BY DEF NoCommand, CommandSteps, CommandRecord, Said
  <2>2. /\ commands' = [commands EXCEPT ![c] = r] /\ counts' = [counts EXCEPT !.commands = @ + 1]
        /\ UNCHANGED <<daemons, instance, endpoint, profileThere>>
    BY <1>4 DEF Command
  <2>3. commands'[c] = r
    BY <1>a, <2>2 DEF DaemonTypes
  <2>4. /\ counts' \in Counts /\ counts'.locks = counts.locks
        /\ profileThere' \in BOOLEAN
    BY <1>a, <2>2 DEF DaemonTypes, Counts
  <2> HIDE DEF r
  <2>5. ~Trusting(c)'
    BY <2>1, <2>3 DEF Trusting
  <2>6. r.seen <= counts.locks /\ r.pc # "probed" /\ DaemonsSpared
    BY <1>a, <1>s, <2>1, <2>2
  <2> QED BY <2>1, <2>2, <2>4, <2>5, <2>6, CommandInv
<1>5. ASSUME NEW c \in Consoles, NEW r \in CommandRecord, commands' = [commands EXCEPT ![c] = r],
             r.seen = commands[c].seen, r.pc # "probed",
             r.said = "stopped" => commands[c].said = "stopped",
             r.pc # "remove" /\ (r.pc = "copy" => ~r.restart),
             profileThere' \in BOOLEAN, DaemonsSpared, UNCHANGED <<instance, endpoint, counts>>
      PROVE  DaemonInv'
  <2>1. commands'[c] = r
    BY <1>a, <1>5 DEF DaemonTypes
  <2>2. Trusting(c)' => Trusting(c)
    BY <1>5, <2>1 DEF Trusting
  <2>3. r.seen <= counts.locks
    BY <1>5 DEF DaemonInv, LocksCounted
  <2> QED BY <1>5, <1>u, <2>2, <2>3, CommandInv
<1>c. \A c \in Consoles : /\ commands[c] \in CommandRecord
                          /\ commands[c].pc = "copy" \/ ~commands[c].pc = "copy"
  BY <1>a DEF DaemonTypes
<1>6. ASSUME NEW c \in Consoles, Goes(c, "probe") \/ Goes(c, "wait")
               \/ (Goes(c, "shutdown") /\ ~commands[c].restart)
               \/ (Goes(c, "copy") /\ ~commands[c].restart)
               \/ (\E what \in Said \ {"stopped"} : Says(c, what)),
             profileThere' \in BOOLEAN, DaemonsSpared, UNCHANGED <<instance, endpoint, counts>>
      PROVE  DaemonInv'
  <2>1. ASSUME NEW pc \in {"probe", "wait", "shutdown", "copy"}, Goes(c, pc),
               pc = "copy" => ~commands[c].restart
        PROVE  DaemonInv'
    <3> DEFINE r == [commands[c] EXCEPT !.pc = pc]
    <3>1. /\ r \in CommandRecord /\ r.seen = commands[c].seen /\ r.said = commands[c].said
          /\ r.pc = pc /\ r.restart = commands[c].restart
      BY <1>c DEF CommandRecord, CommandSteps
    <3>2. commands' = [commands EXCEPT ![c] = r]
      BY <2>1 DEF Goes
    <3> HIDE DEF r
    <3> QED BY <1>6, <2>1, <3>1, <3>2, <1>5
  <2>2. ASSUME NEW what \in Said \ {"stopped"}, Says(c, what)
        PROVE  DaemonInv'
    <3> DEFINE r == [commands[c] EXCEPT !.pc = "done", !.said = what]
    <3>1. /\ r \in CommandRecord /\ r.seen = commands[c].seen /\ r.said = what
          /\ r.pc = "done"
      BY <1>c DEF CommandRecord, CommandSteps
    <3>2. commands' = [commands EXCEPT ![c] = r]
      BY <2>2 DEF Says
    <3> HIDE DEF r
    <3> QED BY <1>6, <2>2, <3>1, <3>2, <1>5
  <2> QED BY <1>6, <2>1, <2>2
<1>7. ASSUME NEW c \in Consoles, Status(c)
      PROVE  DaemonInv'
  <2>1. "already running" \in Said \ {"stopped"} /\ profileThere' \in BOOLEAN
    BY <1>7, <1>a DEF Said, Status, DaemonTypes
  <2> QED BY <1>7, <1>s, <2>1, <1>6 DEF Status
<1>8. ASSUME NEW c \in Consoles, ProbeHeld(c)
      PROVE  DaemonInv'
  <2>1. {"held", "did not stop"} \subseteq Said \ {"stopped"} /\ profileThere' \in BOOLEAN
    BY <1>8, <1>a DEF Said, ProbeHeld, DaemonTypes
  <2> QED BY <1>8, <1>s, <2>1, <1>6 DEF ProbeHeld
<1>9. ASSUME NEW c \in Consoles, RemoveProfile(c) \/ Healthy(c)
      PROVE  DaemonInv'
  <2>1. {"removed", "started", "not healthy"} \subseteq Said \ {"stopped"} /\ profileThere' \in BOOLEAN
    BY <1>9, <1>a DEF Said, RemoveProfile, Healthy, DaemonTypes
  <2> QED BY <1>9, <1>s, <2>1, <1>6 DEF RemoveProfile, Healthy
<1>10. ASSUME NEW c \in Consoles, Copy(c)
       PROVE  DaemonInv'
  <2>1. "installed" \in Said \ {"stopped"} /\ profileThere' \in BOOLEAN
    BY <1>10 DEF Said, Copy
  <2>2. CASE Says(c, "installed")
    BY <1>10, <1>s, <2>1, <2>2, <1>6 DEF Copy
  <2>3. CASE commands' = [commands EXCEPT ![c].pc = "status", ![c].restart = TRUE]
    <3> DEFINE r == [commands[c] EXCEPT !.pc = "status", !.restart = TRUE]
    <3>1. /\ r \in CommandRecord /\ r.seen = commands[c].seen /\ r.said = commands[c].said
          /\ r.pc = "status"
      BY <1>c DEF CommandRecord, CommandSteps
    <3>2. commands' = [commands EXCEPT ![c] = r]
      BY <2>3
    <3> HIDE DEF r
    <3> QED BY <1>10, <1>s, <2>1, <3>1, <3>2, <1>5 DEF Copy
  <2> QED BY <1>10, <2>2, <2>3 DEF Copy
<1>11. ASSUME NEW c \in Consoles, AskShutdown(c)
       PROVE  DaemonInv'
  <2>1. {"no daemon", "nothing there"} \subseteq Said \ {"stopped"} /\ profileThere' \in BOOLEAN
    BY <1>11, <1>a DEF Said, AskShutdown, DaemonTypes
  <2>2. DaemonsSpared
    <3>1. CASE Answering
      <4>1. endpoint \in Processes
        BY <1>a, <3>1 DEF Answering, DaemonTypes
      <4> QED BY <1>a, <1>11, <3>1, <4>1 DEF AskShutdown, DaemonsSpared, DaemonTypes, DaemonRecord
    <3>2. CASE ~Answering
      BY <1>11, <1>s, <3>2 DEF AskShutdown
    <3> QED BY <3>1, <3>2
  <2> QED BY <1>11, <2>1, <2>2, <1>6 DEF AskShutdown
<1>12. ASSUME NEW c \in Consoles, Probe(c)
       PROVE  DaemonInv'
  <2>1. instance = Unlocked /\ instance' = c /\ UNCHANGED <<daemons, endpoint, profileThere, counts>>
    BY <1>12 DEF Probe
  <2>2. instance \notin Processes \cup Consoles /\ Holding = {}
    BY <2>1, HoldersAssumption, FreeOfDaemons
  <2>3. commands' = [commands EXCEPT ![c] = [commands[c] EXCEPT !.pc = "probed", !.seen = counts.locks]]
    BY <1>12 DEF Probe
  <2>4. [commands[c] EXCEPT !.pc = "probed", !.seen = counts.locks] \in CommandRecord
    BY <1>a, <1>c DEF CommandRecord, CommandSteps
  <2>5. /\ commands'[c].pc = "probed" /\ commands'[c].seen = counts.locks
        /\ \A e \in Consoles \ {c} : commands'[e] = commands[e]
    BY <1>a, <1>c, <2>3 DEF DaemonTypes, CommandRecord
  <2>6. DaemonTypes'
    BY <1>a, <2>1, <2>3, <2>4 DEF DaemonTypes
  <2>7. HoldersHold' /\ StoppedIsGone' /\ ServingIsReachable'
    BY <2>1, <2>2 DEF DaemonInv, HoldersHold, StoppedIsGone, ServingIsReachable, Holding
  <2>8. ProbersHold' /\ LocksCounted'
    BY <1>a, <2>1, <2>2, <2>5 DEF DaemonInv, ProbersHold, LocksCounted
  <2> QED BY <2>6, <2>7, <2>8 DEF DaemonInv
<1>13. ASSUME NEW c \in Consoles, ProbeFree(c)
       PROVE  DaemonInv'
  <2>1. /\ commands[c].pc = "probed" /\ instance' = Unlocked
        /\ UNCHANGED <<daemons, endpoint, profileThere, counts>>
    BY <1>13 DEF ProbeFree
  <2>2. instance = c /\ Holding = {}
    BY <2>1, HoldersAssumption, FreeOfDaemons DEF DaemonInv, ProbersHold
  <2>3. PICK pc \in {"spawn", "done", "remove", "copy"}, said \in {"stopped", commands[c].said},
            restart \in BOOLEAN :
          commands' = [commands EXCEPT ![c] = [commands[c] EXCEPT !.pc = pc, !.said = said, !.restart = restart]]
    <3>0. ASSUME NEW p, NEW s, NEW r,
                 commands' = [commands EXCEPT ![c].pc = p, ![c].said = s, ![c].restart = r]
          PROVE  commands' = [commands EXCEPT ![c] = [commands[c] EXCEPT !.pc = p, !.said = s, !.restart = r]]
      BY <3>0
    <3> DEFINE pc == CASE commands[c].cmd = "start" \/ commands[c].restart -> "spawn"
                       [] commands[c].cmd = "stop"    -> "done"
                       [] commands[c].cmd = "purge"   -> "remove"
                       [] OTHER                       -> "copy"
               said == IF commands[c].cmd = "stop" THEN "stopped" ELSE commands[c].said
               restart == commands[c].restart \/ commands[c].cmd = "install"
    <3>1. commands' = [commands EXCEPT ![c].pc = pc, ![c].said = said, ![c].restart = restart]
      BY <1>13, Zenon DEF ProbeFree
    <3>2. pc \in {"spawn", "done", "remove", "copy"} /\ said \in {"stopped", commands[c].said} /\ restart \in BOOLEAN
      BY <1>c DEF CommandRecord
    <3> HIDE DEF pc, said, restart
    <3>3. commands' = [commands EXCEPT ![c] = [commands[c] EXCEPT !.pc = pc, !.said = said, !.restart = restart]]
      BY <3>0, <3>1
    <3> QED BY <3>2, <3>3
  <2>4. [commands[c] EXCEPT !.pc = pc, !.said = said, !.restart = restart] \in CommandRecord
    BY <1>c, <2>3 DEF CommandRecord, CommandSteps, Said
  <2>5. /\ commands'[c].pc # "probed" /\ commands'[c].seen = commands[c].seen
        /\ \A e \in Consoles \ {c} : commands'[e] = commands[e]
    BY <1>a, <1>c, <2>3 DEF DaemonTypes, CommandRecord
  <2>6. DaemonTypes'
    BY <1>a, <2>1, <2>3, <2>4 DEF DaemonTypes
  <2>7. HoldersHold' /\ StoppedIsGone' /\ ServingIsReachable'
    BY <2>1, <2>2 DEF DaemonInv, HoldersHold, StoppedIsGone, ServingIsReachable, Holding
  <2>8. ProbersHold' /\ LocksCounted'
    BY <2>1, <2>2, <2>5, HoldersAssumption DEF DaemonInv, ProbersHold, LocksCounted
  <2> QED BY <2>6, <2>7, <2>8 DEF DaemonInv
<1>14. ASSUME NEW c \in Consoles, SpawnDaemon(c)
       PROVE  DaemonInv'
  <2>1. PICK d \in Processes : Moves(d, "none", "spawned")
    BY <1>14 DEF SpawnDaemon
  <2>2. DaemonsSpared
    BY <1>a, <2>1 DEF Moves, DaemonsSpared, DaemonTypes, DaemonRecord, Places
  <2>3. profileThere' \in BOOLEAN
    BY <1>14, <1>a DEF SpawnDaemon, DaemonTypes
  <2> QED BY <1>14, <2>2, <2>3, <1>6 DEF SpawnDaemon
<1>15. CASE UNCHANGED daemonVars
  BY <1>15 DEF daemonVars, DaemonInv, DaemonTypes, HoldersHold, ProbersHold, LocksCounted,
       ServingIsReachable, StoppedIsGone, Holding
<1> QED
  BY <1>1, <1>2, <1>3, <1>4, <1>7, <1>8, <1>9, <1>10, <1>11, <1>12, <1>13, <1>14, <1>15
     DEF DaemonNext

(* All daemons beyond their first step are the one that has the lock.         *)
LEMMA DaemonInvHolds == DaemonInv => DaemonHolds
<1> SUFFICES ASSUME DaemonInv PROVE OneDaemon
  BY DEF DaemonInv, DaemonHolds
<1>1. Holding \subseteq {instance}
  BY DEF DaemonInv, HoldersHold
<1>2. IsFiniteSet({instance}) /\ Cardinality({instance}) = 1
  BY FS_Singleton
<1>3. IsFiniteSet(Holding) /\ Cardinality(Holding) <= Cardinality({instance})
  BY <1>1, <1>2, FS_Subset
<1> QED BY <1>2, <1>3 DEF OneDaemon

(* However many commands start, stop, upgrade and remove the daemon at once,  *)
(* there is one daemon on the profile, it is the one reached, and whoever     *)
(* takes it for gone is right.                                                *)
THEOREM DaemonCorrect == DaemonSpec => []DaemonHolds
<1>1. DaemonInit => DaemonInv
  BY DaemonInitInv
<1>2. DaemonInv /\ [DaemonNext]_daemonVars => DaemonInv'
  BY DaemonStep
<1>3. DaemonInv => DaemonHolds
  BY DaemonInvHolds
<1> QED BY <1>1, <1>2, <1>3, PTL DEF DaemonSpec

-------------------------------------------------------------------------------
(* The guard of the files it keeps.                                           *)

Writing == [pc : {"idle", "permitted", "written", "released"}, file : AllFiles \cup {NoPath}, crossed : BOOLEAN]
Witness == [denied : BOOLEAN, excused : SUBSET AllFiles, writings : Nat, opened : Nat]

GuardTypes ==
  /\ present \subseteq AllFiles
  /\ writing \in [Writers -> Writing]
  /\ guarding \in BOOLEAN
  /\ witness \in Witness

(* A permit is for a file, and who has none is at no file.                    *)
PermitsAreFor == \A w \in Writers :
  writing[w].file = NoPath <=> writing[w].pc \in {"idle", "released"}

(* Only a running protection gives permits.                                   *)
NoPermitUnguarded == ~guarding => \A w \in Writers : writing[w].pc = "idle"

(* Under a permit nobody crossed, the handle is closed: of the one file, or   *)
(* of the whole folder.                                                       *)
PermitsOpen == \A w \in Writers : ~writing[w].crossed =>
  /\ writing[w].pc = "permitted" => writing[w].file \notin held
  /\ writing[w].pc = "released" => held \cap Folder = {}

OnlyStateHeld == held \subseteq StateFiles

GuardInv ==
  /\ GuardTypes /\ PermitsAreFor /\ NoPermitUnguarded /\ PermitsOpen /\ OnlyStateHeld
  /\ OwnWritesPass /\ RestIsGuarded

-----------------------------------------------------------------------------
LEMMA GuardInitInv == GuardInit => GuardInv
<1> SUFFICES ASSUME GuardInit PROVE GuardInv
  OBVIOUS
<1>1. NotWriting \in Writing
  BY DEF NotWriting, Writing
<1>2. GuardTypes
  BY <1>1 DEF GuardInit, GuardTypes, Witness
<1>3. \A w \in Writers : writing[w] = NotWriting
  BY DEF GuardInit
<1> QED
  BY <1>2, <1>3 DEF GuardInit, GuardInv, PermitsAreFor, NoPermitUnguarded, PermitsOpen, OnlyStateHeld,
       OwnWritesPass, RestIsGuarded, NotWriting

(* A task that begins to write: it closes what it is about to change.         *)
LEMMA BeginInv ==
  ASSUME GuardInv, guarding, NEW w \in Writers, NEW p \in Writing, NEW closed, NEW excused,
         writing[w].pc = "idle", ~p.crossed,
         \/ p.pc = "permitted" /\ p.file # NoPath /\ closed = {p.file} /\ excused = {}
         \/ p.pc = "released" /\ p.file = NoPath /\ closed = Folder /\ excused = Folder,
         held' = held \ closed,
         writing' = [writing EXCEPT ![w] = p],
         witness' \in Witness, witness'.denied = witness.denied,
         witness'.excused = witness.excused \cup excused,
         UNCHANGED <<present, guarding>>
  PROVE  GuardInv'
<1>1. /\ writing'[w] = p /\ \A v \in Writers \ {w} : writing'[v] = writing[v]
      /\ writing' \in [Writers -> Writing]
  BY DEF GuardInv, GuardTypes
<1>3. GuardTypes' /\ PermitsAreFor' /\ NoPermitUnguarded' /\ OnlyStateHeld' /\ OwnWritesPass'
  BY <1>1 DEF GuardInv, GuardTypes, PermitsAreFor, NoPermitUnguarded, OnlyStateHeld, OwnWritesPass
<1>4. PermitsOpen'
  BY <1>1 DEF GuardInv, PermitsOpen
<1>5. RestIsGuarded'
  <2> SUFFICES ASSUME NEW f \in StateFiles \cap present,
                      \A v \in Writers : writing'[v].file # f
               PROVE  f \in held' \cup witness'.excused
    BY DEF RestIsGuarded
  <2>1. writing[w].file # f
    BY FilesAssumption DEF GuardInv, GuardTypes, PermitsAreFor
  <2>2. f \in held \cup witness.excused
    BY <1>1, <2>1 DEF GuardInv, RestIsGuarded
  <2> QED BY <1>1, <2>2
<1> QED BY <1>3, <1>4, <1>5 DEF GuardInv

(* A task that ends gives its permit back and leaves the handles alone.       *)
LEMMA EndInv ==
  ASSUME GuardInv, NEW w \in Writers, writing[w].pc = "released",
         writing' = [writing EXCEPT ![w] = NotWriting],
         witness' \in Witness, ~witness'.denied, witness'.excused = witness.excused,
         UNCHANGED <<present, held, guarding>>
  PROVE  GuardInv'
<1>0. NotWriting \in Writing
  BY DEF NotWriting, Writing
<1>1. /\ writing'[w] = NotWriting /\ \A v \in Writers \ {w} : writing'[v] = writing[v]
      /\ writing' \in [Writers -> Writing]
  BY <1>0 DEF GuardInv, GuardTypes
<1>2. GuardTypes' /\ PermitsAreFor' /\ NoPermitUnguarded' /\ OnlyStateHeld' /\ OwnWritesPass' /\ PermitsOpen'
  BY <1>1 DEF GuardInv, GuardTypes, PermitsAreFor, NoPermitUnguarded, OnlyStateHeld, OwnWritesPass,
       PermitsOpen, NotWriting
<1>3. writing[w].file = writing'[w].file
  BY <1>1 DEF GuardInv, PermitsAreFor, NotWriting
<1>4. RestIsGuarded'
  BY <1>1, <1>3 DEF GuardInv, RestIsGuarded
<1> QED BY <1>2, <1>4 DEF GuardInv

-----------------------------------------------------------------------------
LEMMA GuardStep ==
  ASSUME GuardInv, [GuardNext]_guardVars
  PROVE  GuardInv'
<1>a. GuardTypes /\ ~witness.denied
  BY DEF GuardInv, OwnWritesPass
<1>n. NotWriting \in Writing
  BY DEF NotWriting, Writing
<1>1. CASE InstallGuards
  <2>1. /\ witness'.excused = witness.excused \cup (present \ held') /\ witness'.denied = witness.denied
        /\ witness' \in Witness
    BY <1>1, <1>a DEF InstallGuards, GuardTypes, Witness
  <2>2. \A w \in Writers : writing'[w].pc = "idle"
    BY <1>1 DEF InstallGuards, GuardInv, NoPermitUnguarded
  <2>3. GuardTypes' /\ PermitsAreFor' /\ NoPermitUnguarded' /\ OwnWritesPass'
    BY <1>1, <1>a, <2>1, <2>2
       DEF InstallGuards, GuardInv, GuardTypes, PermitsAreFor, NoPermitUnguarded, OwnWritesPass
  <2>4. OnlyStateHeld' /\ PermitsOpen' /\ RestIsGuarded'
    BY <1>1, <2>1, <2>2
       DEF InstallGuards, GuardTree, Protected, OnlyStateHeld, PermitsOpen, RestIsGuarded
  <2> QED BY <2>3, <2>4 DEF GuardInv
<1>2. CASE ReleaseGuards
  <2>1. /\ witness'.denied = witness.denied /\ witness' \in Witness
        /\ \A w \in Writers : writing'[w] = NotWriting
        /\ writing' \in [Writers -> Writing]
    BY <1>2, <1>a, <1>n DEF ReleaseGuards, GuardTypes, Witness
  <2> QED BY <1>2, <1>a, <2>1
       DEF ReleaseGuards, DropTree, GuardInv, GuardTypes, PermitsAreFor, NoPermitUnguarded, PermitsOpen,
           OnlyStateHeld, OwnWritesPass, RestIsGuarded, NotWriting
<1>3. ASSUME NEW f \in AllFiles, WriteAttachment(f)
      PROVE  GuardInv'
  <2>1. /\ witness'.denied = witness.denied /\ witness' \in Witness
        /\ witness'.excused = witness.excused \cup {f}
    BY <1>3, <1>a DEF WriteAttachment, GuardTypes, Witness
  <2> QED BY <1>3, <1>a, <2>1
       DEF WriteAttachment, GuardInv, GuardTypes, PermitsAreFor, NoPermitUnguarded, PermitsOpen,
           OnlyStateHeld, OwnWritesPass, RestIsGuarded
<1>4. ASSUME NEW f \in AllFiles, ForeignOpens(f) \/ ForeignCloses(f)
      PROVE  GuardInv'
  <2>1. /\ witness'.denied = witness.denied /\ witness' \in Witness
        /\ witness'.excused = witness.excused
        /\ UNCHANGED <<present, held, writing, guarding>>
    BY <1>4, <1>a DEF ForeignOpens, ForeignCloses, GuardTypes, Witness
  <2> QED BY <1>a, <2>1
       DEF GuardInv, GuardTypes, PermitsAreFor, NoPermitUnguarded, PermitsOpen,
           OnlyStateHeld, OwnWritesPass, RestIsGuarded
<1>5. ASSUME NEW w \in Writers, NEW f \in AllFiles, PermitFile(w, f)
      PROVE  GuardInv'
  <2>1. /\ Permit(f) \in Writing /\ Permit(f).pc = "permitted" /\ ~Permit(f).crossed
        /\ Permit(f).file = f /\ f # NoPath
    BY FilesAssumption DEF Permit, Writing, AllFiles
  <2>2. /\ witness' \in Witness /\ witness'.denied = witness.denied
        /\ witness'.excused = witness.excused \cup {}
    BY <1>5, <1>a DEF PermitFile, GuardTypes, Witness
  <2> QED BY <1>5, <2>1, <2>2, BeginInv DEF PermitFile
<1>6. ASSUME NEW w \in Writers, ReleaseTree(w)
      PROVE  GuardInv'
  <2> DEFINE p == [NotWriting EXCEPT !.pc = "released"]
  <2>1. p \in Writing /\ p.pc = "released" /\ p.file = NoPath /\ ~p.crossed
    BY DEF NotWriting, Writing
  <2>2. /\ witness' \in Witness /\ witness'.denied = witness.denied
        /\ witness'.excused = witness.excused \cup Folder
    <3>1. witness' = [witness EXCEPT !.writings = @ + 1, !.excused = @ \cup Folder]
      BY <1>6 DEF ReleaseTree
    <3>2. witness \in Witness
      BY <1>a DEF GuardTypes
    <3>3. witness.excused \cup Folder \in SUBSET AllFiles
      BY <3>2, FilesAssumption DEF Witness, AllFiles
    <3> DEFINE more == [witness EXCEPT !.writings = @ + 1]
    <3>4. more \in Witness /\ more.denied = witness.denied /\ more.excused = witness.excused
      BY <3>2 DEF Witness
    <3>5. witness' = [more EXCEPT !.excused = @ \cup Folder]
      BY <3>1
    <3> HIDE DEF more
    <3> QED BY <3>3, <3>4, <3>5 DEF Witness
  <2>3. writing' = [writing EXCEPT ![w] = p] /\ held' = held \ Folder
    BY <1>6 DEF ReleaseTree, DropTree
  <2> HIDE DEF p
  <2> QED BY <1>6, <2>1, <2>2, <2>3, BeginInv DEF ReleaseTree
<1>7. ASSUME NEW w \in Writers, ReplaceFile(w)
      PROVE  GuardInv'
  <2>1. /\ writing' = [writing EXCEPT ![w].pc = "written"]
        /\ writing[w].pc = "permitted" /\ UNCHANGED <<held, guarding>>
        /\ present' \in {present, present \cup {writing[w].file}}
    BY <1>7 DEF ReplaceFile
  <2>2. /\ writing'[w].file = writing[w].file /\ writing'[w].pc = "written"
        /\ \A v \in Writers \ {w} : writing'[v] = writing[v]
        /\ writing' \in [Writers -> Writing]
    BY <1>a, <2>1 DEF GuardTypes, Writing
  <2>3. ~(writing[w].file \in held /\ ~writing[w].crossed)
    BY <2>1 DEF GuardInv, PermitsOpen
  <2>6. witness' = [witness EXCEPT !.denied = @ \/ (writing[w].file \in held /\ ~writing[w].crossed)]
    BY <1>7 DEF ReplaceFile
  <2>4. /\ witness' \in Witness /\ ~witness'.denied /\ witness'.excused = witness.excused
    BY <1>a, <2>3, <2>6 DEF GuardTypes, Witness
  <2>5. writing[w].file \in AllFiles \cup {NoPath}
    BY <1>a DEF GuardTypes, Writing
  <2> QED BY <1>a, <2>1, <2>2, <2>4, <2>5
       DEF GuardInv, GuardTypes, PermitsAreFor, NoPermitUnguarded, PermitsOpen,
           OnlyStateHeld, OwnWritesPass, RestIsGuarded
<1>8. ASSUME NEW w \in Writers, DropPermit(w)
      PROVE  GuardInv'
  <2> DEFINE f == writing[w].file
             Crosses(v) == writing[v].file = f \/ (InFolder(v) /\ f \in Folder)
  <2>1. /\ f \in AllFiles /\ UNCHANGED <<present, foreign, guarding>>
        /\ witness' = [witness EXCEPT !.excused = IF f \in held' THEN @ \ {f} ELSE @ \cup {f}]
    BY <1>8, <1>a DEF DropPermit, GuardInv, GuardTypes, PermitsAreFor, Writing
  <2>2. held' \in {held, held \cup {f}} /\ (held' # held => f \in StateFiles)
    BY <1>8 DEF DropPermit, Rearmed, Protected
  <2> DEFINE After(v) == IF v = w THEN NotWriting ELSE [writing[v] EXCEPT !.crossed = @ \/ Crosses(v)]
  <2>3. writing' = [v \in Writers |-> After(v)]
    BY <1>8 DEF DropPermit
  <2>4. After(w) = NotWriting
    OBVIOUS
  <2>5. \A v \in Writers \ {w} :
          /\ After(v) \in Writing
          /\ After(v).pc = writing[v].pc /\ After(v).file = writing[v].file
          /\ ~After(v).crossed => ~writing[v].crossed /\ ~Crosses(v)
    <3> SUFFICES ASSUME NEW v \in Writers \ {w}
                 PROVE  /\ After(v) \in Writing
                        /\ After(v).pc = writing[v].pc /\ After(v).file = writing[v].file
                        /\ ~After(v).crossed => ~writing[v].crossed /\ ~Crosses(v)
      OBVIOUS
    <3>1. writing[v] \in Writing
      BY <1>a DEF GuardTypes
    <3>2. Crosses(v) \in BOOLEAN
      OBVIOUS
    <3>3. After(v) = [writing[v] EXCEPT !.crossed = @ \/ Crosses(v)]
      OBVIOUS
    <3> HIDE DEF Crosses, After
    <3> QED BY <3>1, <3>2, <3>3 DEF Writing
  <2> HIDE DEF After
  <2>6. \A v \in Writers : writing'[v] = After(v)
    BY <2>3
  <2>7. writing' \in [Writers -> Writing]
    BY <1>n, <2>3, <2>4, <2>5
  <2>8. /\ witness' \in Witness /\ witness'.denied = witness.denied
        /\ witness'.excused = IF f \in held' THEN witness.excused \ {f} ELSE witness.excused \cup {f}
    <3>1. witness \in Witness
      BY <1>a DEF GuardTypes
    <3> DEFINE left == IF f \in held' THEN witness.excused \ {f} ELSE witness.excused \cup {f}
    <3>2. left \in SUBSET AllFiles
      BY <2>1, <3>1 DEF Witness
    <3>3. witness' = [witness EXCEPT !.excused = left]
      BY <2>1
    <3> HIDE DEF left
    <3>4. /\ witness' \in Witness /\ witness'.denied = witness.denied /\ witness'.excused = left
      BY <3>1, <3>2, <3>3 DEF Witness
    <3> QED BY <3>4 DEF left
  <2>9. GuardTypes' /\ PermitsAreFor' /\ OnlyStateHeld' /\ OwnWritesPass'
    BY <1>a, <2>1, <2>2, <2>4, <2>5, <2>6, <2>7, <2>8
       DEF GuardInv, GuardTypes, PermitsAreFor, OnlyStateHeld, OwnWritesPass, NotWriting
  <2>10. NoPermitUnguarded'
    BY <2>1, <2>4, <2>5, <2>6 DEF GuardInv, NoPermitUnguarded, NotWriting
  <2>11. PermitsOpen'
    <3> SUFFICES ASSUME NEW v \in Writers \ {w}, ~writing'[v].crossed
                 PROVE  /\ writing'[v].pc = "permitted" => writing'[v].file \notin held'
                        /\ writing'[v].pc = "released" => held' \cap Folder = {}
      BY <2>4, <2>6 DEF PermitsOpen, NotWriting
    <3>1. ~writing[v].crossed /\ ~Crosses(v)
      BY <2>5, <2>6
    <3> QED BY <2>2, <2>5, <2>6, <3>1 DEF GuardInv, PermitsOpen, InFolder
  <2>12. RestIsGuarded'
    <3> SUFFICES ASSUME guarding, NEW g \in StateFiles \cap present,
                        \A v \in Writers : writing'[v].file # g
                 PROVE  g \in held' \cup witness'.excused
      BY <2>1 DEF RestIsGuarded
    <3>1. CASE g = f
      BY <2>8, <3>1
    <3>2. CASE g # f
      <4>1. g \in held \cup witness.excused
        BY <2>5, <2>6, <3>2, FilesAssumption DEF GuardInv, RestIsGuarded
      <4> QED BY <2>2, <2>8, <3>2, <4>1
    <3> QED BY <3>1, <3>2
  <2> QED BY <2>9, <2>10, <2>11, <2>12 DEF GuardInv
<1>9. ASSUME NEW w \in Writers, NEW f \in AllFiles, RemoveFile(w, f)
      PROVE  GuardInv'
  <2>1. writing[w].pc = "released" /\ f \in Folder /\ UNCHANGED <<held, foreign, guarding>>
    BY <1>9 DEF RemoveFile
  <2>2. ~(f \in held /\ ~writing[w].crossed)
    BY <2>1 DEF GuardInv, PermitsOpen
  <2>3. CASE f \in held \cup foreign
    <3>1. /\ witness' = [witness EXCEPT !.denied = @ \/ (f \in held /\ ~writing[w].crossed)]
          /\ writing' = [writing EXCEPT ![w] = NotWriting] /\ UNCHANGED present
      BY <1>9, <2>3 DEF RemoveFile
    <3>2. /\ witness' \in Witness /\ ~witness'.denied /\ witness'.excused = witness.excused
      BY <1>a, <2>2, <3>1 DEF GuardTypes, Witness
    <3> QED BY <2>1, <3>1, <3>2, EndInv
  <2>4. CASE f \notin held \cup foreign
    BY <1>9, <1>a, <2>4
       DEF RemoveFile, GuardInv, GuardTypes, PermitsAreFor, NoPermitUnguarded, PermitsOpen,
           OnlyStateHeld, OwnWritesPass, RestIsGuarded
  <2> QED BY <2>3, <2>4
<1>10. ASSUME NEW w \in Writers, TreeRemoved(w)
       PROVE  GuardInv'
  BY <1>10, <1>a, EndInv DEF TreeRemoved, GuardTypes
<1>11. CASE UNCHANGED guardVars
  BY <1>11 DEF guardVars, GuardInv, GuardTypes, PermitsAreFor, NoPermitUnguarded, PermitsOpen,
       OnlyStateHeld, OwnWritesPass, RestIsGuarded
<1> QED
  BY <1>1, <1>2, <1>3, <1>4, <1>5, <1>6, <1>7, <1>8, <1>9, <1>10, <1>11 DEF GuardNext

(* Whatever the daemon writes at once and whoever else opens its files, its   *)
(* own guard only denies it a write that overlaps another of the same file,   *)
(* what it does not write is guarded, and what it leaves to others is not.    *)
THEOREM GuardCorrect == GuardSpec => []GuardHolds
<1>1. GuardInit => GuardInv
  BY GuardInitInv
<1>2. GuardInv /\ [GuardNext]_guardVars => GuardInv'
  BY GuardStep
<1>3. GuardInv => GuardHolds
  BY FilesAssumption DEF GuardInv, GuardHolds, OnlyStateHeld, RestIsOpen
<1> QED BY <1>1, <1>2, <1>3, PTL DEF GuardSpec

-----------------------------------------------------------------------------
(* HostSessions: the sessions, their projects and the directories on disk.    *)

Spots == Roots \cup Trees \cup {Own(s) : s \in Rooms} \cup {Refuge(p) : p \in Projects} \cup {None}
HostProject == [made : {"no", "yes", "gone"}, pwd : Spots, primary : Roots \cup {None},
                trees : SUBSET (Roots \cup Trees), assigned : SUBSET Assignments]
HostRoom == [state : {"absent", "active", "archived", "gone"}, cwd : Spots, loaded : BOOLEAN]
HostMoves == UNION {[S -> Spots] : S \in SUBSET Rooms}
Locked == {"place", "assign", "undo", "make", "unmake", "unassign", "active", "archived", "prune", "forget"}
ErrandSteps == Locked \cup {"idle", "register", "move", "list", "rehang", "add", "load", "refuge", "others"}
HostErrand == [pc : ErrandSteps, s : Rooms \cup {None}, p : Projects \cup {None}, dir : Spots, was : Spots,
               tree : Roots \cup Trees \cup {None}, todo : HostMoves, fresh : BOOLEAN]
HostMemo == [begun : Nat, mishaps : Nat, torn : SUBSET (Rooms \cup {None}), misled : SUBSET Rooms,
             moved : BOOLEAN, rehung : SUBSET Rooms, pruned : SUBSET Trees]

HostTypes ==
  /\ projects \in [Projects -> HostProject] /\ sessions \in [Rooms -> HostRoom]
  /\ dirs \subseteq Spots /\ lifecycle \in Clerks \cup {Unheld}
  /\ guards \in [Rooms -> Clerks \cup {Unheld}] /\ errands \in [Clerks -> HostErrand]
  /\ memo \in HostMemo

(* What an errand carries at each of its steps.                               *)
ErrandFits(e) ==
  /\ e.pc \in {"register", "move", "list", "rehang", "place", "assign", "add", "active", "archived",
               "prune", "forget", "refuge", "others"} => e.p \in Projects
  /\ e.pc \in {"place", "assign", "undo", "make", "unmake", "unassign", "load", "refuge", "others"}
       => e.s \in Rooms
  /\ e.pc = "register" => e.dir \in Repos
  /\ e.pc = "move" => e.dir \in Roots
  /\ e.pc \in {"add", "active", "archived", "prune", "forget"} => e.tree \in Trees
  /\ e.pc \in {"place", "undo"} => ~e.fresh
  /\ e.pc \in {"make", "unmake"} => e.fresh
  /\ e.pc \in {"move", "list"} => e.s = None
ErrandsFit == \A c \in Clerks : ErrandFits(errands[c])

(* The lock is held by the one errand that is at a step it needs it for.      *)
HasLock(c) == errands[c].pc \in Locked
LockKept == \A c \in Clerks : HasLock(c) <=> lifecycle = c

(* A load holds the lock of its session, which stays active.                  *)
Loading(e) == e.pc \in {"load", "refuge", "others"} \/ (e.pc = "rehang" /\ e.s # None)
LoadsGuard == \A c \in Clerks : Loading(errands[c]) => guards[errands[c].s] = c /\ Active(errands[c].s)

(* A project is valid, has nothing unless it is made, and once it has a tree  *)
(* it keeps the one of its repository; a session is in one project.           *)
ProjectFits(p) ==
  /\ ValidProject(projects[p])
  /\ Made(p) => projects[p].pwd \in Roots \cup {Refuge(p)}
  /\ ~Made(p) => projects[p].trees = {} /\ projects[p].assigned = {}
  /\ projects[p].trees # {} => projects[p].trees \cap Roots # {}
OneProject ==
  \A p, q \in Projects : \A a \in projects[p].assigned, b \in projects[q].assigned :
    a.session = b.session => p = q
ProjectsFit == OneProject /\ \A p \in Projects : ProjectFits(p)

(* A repository is registered for a project without worktrees, once; further  *)
(* worktrees come later.                                                      *)
Registers(c, p) == errands[c].pc = "register" /\ errands[c].p = p
ReposFit ==
  \A c \in Clerks, p \in Projects :
    /\ Registers(c, p) =>
         /\ projects[p].made # "no" /\ projects[p].trees = {}
         /\ \A d \in Clerks : Registers(d, p) => d = c
    /\ errands[c].pc = "add" /\ errands[c].p = p =>
         (Made(p) /\ projects[p].trees # {}) \/ projects[p].made = "gone"

(* An assigned session is active, or just being archived; the session of a    *)
(* call is there as long as the call needs it.                                *)
Held(c, steps, s) == errands[c].pc \in steps /\ errands[c].s = s
AssignedActive ==
  \A p \in Projects : \A a \in projects[p].assigned : a.session \in Untorn =>
    Active(a.session) \/ \E c \in Clerks : Held(c, {"unassign"}, a.session)
InHand(c) ==
  LET e == errands[c] IN
  /\ e.pc \in {"place", "assign", "undo"} /\ e.s \in Untorn => Active(e.s)
  /\ e.pc = "make" => sessions[e.s].state = "absent"
  /\ e.pc \in {"make", "assign", "unmake"} /\ e.fresh /\ e.s \in Untorn => Owners(e.s) = {}
  /\ e.pc \in {"place", "assign", "make"} /\ e.p # None => Made(e.p)
HandsHold == \A c \in Clerks : InHand(c)

(* Until a directory is moved or lost, none is missing and nothing is rehung. *)
Lives(s) == sessions[s].state \in {"active", "archived"}
Still ==
  ~memo.moved =>
    /\ memo.rehung = {}
    /\ \A c \in Clerks : errands[c].pc \notin {"list", "rehang", "refuge", "others"}
    /\ \A s \in Rooms : Lives(s) => There(sessions[s].cwd)

(* What the scan of remove has seen stays so until git removes the worktree.  *)
Seen(c) ==
  \A s \in Rooms \ memo.rehung :
    /\ errands[c].pc \in {"archived", "prune"} /\ Active(s) => sessions[s].cwd # errands[c].tree
    /\ errands[c].pc = "prune" /\ Lives(s) => sessions[s].cwd # errands[c].tree
ScansHold == \A c \in Clerks : Seen(c)
PrunedAreGone == memo.pruned \cap dirs = {} /\ PrunedIsEmpty

(* An assigned session works where its assignment says, or the call that      *)
(* moved it is about to assign it there or to move it back.                   *)
Sound == Untorn \ memo.misled
Agrees(p, a) == {sessions[a.session].cwd} = Directory(p, a.tree)
AssignedAgree ==
  ~memo.moved =>
    \A p \in Projects : \A a \in projects[p].assigned : a.session \in Sound =>
      Agrees(p, a) \/ \E c \in Clerks : Held(c, {"assign", "undo"}, a.session)
WayBack(c) ==
  LET e == errands[c] IN
  ~memo.moved /\ e.pc \in {"place", "assign", "undo"} /\ ~e.fresh =>
    /\ There(e.was)
    /\ e.s \in Sound =>
         \A p \in Projects : \A a \in projects[p].assigned :
           a.session = e.s => Directory(p, a.tree) = {e.was}
    /\ e.pc = "place" /\ e.s \in Untorn => sessions[e.s].cwd = e.was
Target(c) ==
  LET e == errands[c] IN
  ~memo.moved /\ e.s \in Sound =>
    /\ e.pc \in {"place", "assign", "make"} /\ e.p # None => Directory(e.p, e.tree) = {e.dir}
    /\ e.pc = "assign" => sessions[e.s].cwd = e.dir
PlacesHold == AssignedAgree /\ \A c \in Clerks : WayBack(c) /\ Target(c)

HostInv ==
  /\ HostTypes /\ ErrandsFit /\ LockKept /\ LoadsGuard /\ ProjectsFit /\ ReposFit
  /\ AssignedActive /\ HandsHold /\ Still /\ ScansHold /\ PrunedAreGone /\ PlacesHold

-----------------------------------------------------------------------------
LEMMA HostParts ==
  ASSUME HostInv
  PROVE  /\ projects \in [Projects -> HostProject]
         /\ \A p \in Projects : projects[p] \in HostProject
         /\ sessions \in [Rooms -> HostRoom]
         /\ \A s \in Rooms : sessions[s] \in HostRoom
         /\ dirs \subseteq Spots /\ lifecycle \in Clerks \cup {Unheld}
         /\ guards \in [Rooms -> Clerks \cup {Unheld}]
         /\ errands \in [Clerks -> HostErrand]
         /\ \A c \in Clerks : errands[c] \in HostErrand
         /\ memo \in HostMemo /\ Unheld \notin Clerks
         /\ ErrandsFit /\ LockKept /\ LoadsGuard /\ ProjectsFit /\ ReposFit
         /\ AssignedActive /\ HandsHold /\ Still /\ ScansHold /\ PrunedAreGone /\ PlacesHold
BY ClerksAssumption DEF HostInv, HostTypes

LEMMA HostJoins ==
  ASSUME HostTypes, ErrandsFit, LockKept, LoadsGuard, ProjectsFit, ReposFit,
         AssignedActive, HandsHold, Still, ScansHold, PrunedAreGone, PlacesHold
  PROVE  HostInv
BY DEF HostInv

(* The parts of the records.                                                  *)
LEMMA ProjectIs ==
  ASSUME NEW q \in HostProject
  PROVE  /\ q.made \in {"no", "yes", "gone"} /\ q.pwd \in Spots /\ q.primary \in Roots \cup {None}
         /\ q.trees \subseteq Roots \cup Trees /\ q.assigned \subseteq Assignments
BY DEF HostProject

LEMMA RoomIs ==
  ASSUME NEW r \in HostRoom
  PROVE  r.state \in {"absent", "active", "archived", "gone"} /\ r.cwd \in Spots /\ r.loaded \in BOOLEAN
BY DEF HostRoom

LEMMA ErrandIs ==
  ASSUME NEW e \in HostErrand
  PROVE  /\ e.pc \in ErrandSteps /\ e.s \in Rooms \cup {None} /\ e.p \in Projects \cup {None}
         /\ e.dir \in Spots /\ e.was \in Spots /\ e.tree \in Roots \cup Trees \cup {None}
         /\ e.todo \in HostMoves /\ e.fresh \in BOOLEAN
BY DEF HostErrand

LEMMA MemoIs ==
  ASSUME NEW m \in HostMemo
  PROVE  /\ m.begun \in Nat /\ m.mishaps \in Nat /\ m.torn \subseteq Rooms \cup {None}
         /\ m.misled \subseteq Rooms /\ m.moved \in BOOLEAN /\ m.rehung \subseteq Rooms
         /\ m.pruned \subseteq Trees
BY DEF HostMemo

LEMMA NothingToMove == <<>> \in HostMoves /\ DOMAIN <<>> = {}
<1>1. <<>> \in [{} -> Spots]
  OBVIOUS
<1>2. <<>> \in HostMoves
  BY <1>1 DEF HostMoves
<1> QED BY <1>1, <1>2

LEMMA NoErrandIs ==
  /\ NoErrand \in HostErrand /\ NoErrand.pc = "idle" /\ NoErrand.s = None /\ NoErrand.p = None
  /\ NoErrand.tree = None /\ NoErrand.dir = None /\ NoErrand.was = None /\ NoErrand.fresh = FALSE
<1> DEFINE todo == <<>>
<1>1. todo \in HostMoves
  BY NothingToMove
<1> HIDE DEF todo
<1>2. NoErrand = [pc |-> "idle", s |-> None, p |-> None, dir |-> None, was |-> None,
                  tree |-> None, todo |-> todo, fresh |-> FALSE]
  BY DEF NoErrand, todo
<1> QED BY <1>1, <1>2 DEF HostErrand, ErrandSteps, Spots

(* What the steps do to one errand.                                           *)
LEMMA FinishDoes ==
  ASSUME HostInv, NEW c \in Clerks, Finish(c)
  PROVE  /\ errands' \in [Clerks -> HostErrand] /\ errands'[c] = NoErrand
         /\ \A d \in Clerks \ {c} : errands'[d] = errands[d]
BY HostParts, NoErrandIs DEF Finish

LEMMA TurnDoes ==
  ASSUME HostInv, NEW c \in Clerks, NEW pc \in ErrandSteps, Turn(c, pc)
  PROVE  /\ errands' \in [Clerks -> HostErrand]
         /\ errands'[c].pc = pc /\ errands'[c].s = errands[c].s /\ errands'[c].p = errands[c].p
         /\ errands'[c].dir = errands[c].dir /\ errands'[c].was = errands[c].was
         /\ errands'[c].tree = errands[c].tree /\ errands'[c].fresh = errands[c].fresh
         /\ errands'[c].todo = errands[c].todo
         /\ \A d \in Clerks \ {c} : errands'[d] = errands[d]
<1>1. errands \in [Clerks -> HostErrand] /\ errands[c] \in HostErrand
  BY HostParts
<1> DEFINE e == [errands[c] EXCEPT !.pc = pc]
<1>2. /\ e \in HostErrand /\ e.pc = pc /\ e.s = errands[c].s /\ e.p = errands[c].p
      /\ e.dir = errands[c].dir /\ e.was = errands[c].was /\ e.tree = errands[c].tree
      /\ e.fresh = errands[c].fresh /\ e.todo = errands[c].todo
  BY <1>1 DEF HostErrand
<1>3. errands' = [errands EXCEPT ![c] = e]
  BY <1>1 DEF Turn
<1> HIDE DEF e
<1> QED BY <1>1, <1>2, <1>3

-----------------------------------------------------------------------------
(* What a step may change without hurting a part, C being the calls it moves. *)
OthersStay(C) ==
  /\ errands' \in [Clerks -> HostErrand]
  /\ \A d \in Clerks \ C : errands'[d] = errands[d]
GuardsStay(C) ==
  \A s \in Rooms : guards[s] \in Clerks \ C =>
    guards'[s] = guards[s] /\ (Active(s) => sessions'[s].state = "active")
ReposStay(C) ==
  \A p \in Projects :
    /\ projects[p].made # "no" => projects'[p].made # "no"
    /\ projects[p].made = "gone" => projects'[p].made = "gone"
    /\ projects[p].trees = {} /\ (\E d \in Clerks \ C : Registers(d, p)) => projects'[p].trees = {}
    /\ Made(p) /\ projects[p].trees # {} =>
         (projects'[p].made = "yes" /\ projects'[p].trees # {}) \/ projects'[p].made = "gone"
RoomStays(s) ==
  /\ Active(s) => sessions'[s].state = "active" \/ s \in memo'.torn
  /\ sessions'[s].state \in {"active", "archived"} =>
       Lives(s) /\ (sessions'[s].cwd = sessions[s].cwd \/ s \in memo'.rehung)
  /\ \/ sessions'[s].cwd = sessions[s].cwd \/ s \in memo'.rehung \cup memo'.torn
     \/ lifecycle = Unheld /\ \A p \in Projects : \A a \in projects'[p].assigned : a.session # s
  /\ lifecycle # Unheld =>
       /\ sessions'[s].state \in {sessions[s].state, "gone"}
       /\ sessions[s].state = "absent" => sessions'[s].state = "absent"
DirectoryStays(p, tree) ==
  /\ ~memo'.moved /\ Made(p) /\ Directory(p, tree) # {}
  /\ lifecycle # Unheld \/ \E a \in projects'[p].assigned : a.tree = tree
  => Directory(p, tree)' = Directory(p, tree)
MemoGrows ==
  /\ memo' \in HostMemo /\ memo.torn \subseteq memo'.torn /\ memo'.misled = memo.misled
  /\ memo.rehung \subseteq memo'.rehung /\ (memo.moved => memo'.moved)
HostCalm(C) ==
  /\ OthersStay(C) /\ lifecycle' = lifecycle
  /\ \A c \in C : errands[c].pc \notin Locked /\ errands'[c].pc \notin Locked
  /\ MemoGrows
  /\ \A s \in Rooms : RoomStays(s)
  /\ \A p \in Projects :
       /\ projects'[p].assigned \subseteq projects[p].assigned
       /\ lifecycle # Unheld /\ Made(p) => projects'[p].made = "yes"
  /\ \A p \in Projects, tree \in Roots \cup Trees \cup {None} : DirectoryStays(p, tree)
  /\ ~memo'.moved => dirs \subseteq dirs' /\ memo'.rehung = {}

LEMMA FitStays ==
  ASSUME HostInv, NEW C \in SUBSET Clerks, OthersStay(C),
         \A c \in C : ErrandFits(errands'[c])
  PROVE  ErrandsFit'
BY HostParts DEF ErrandsFit, OthersStay

LEMMA LockStays ==
  ASSUME HostInv, NEW C \in SUBSET Clerks, OthersStay(C), lifecycle' = lifecycle,
         \A c \in C : errands[c].pc \notin Locked /\ errands'[c].pc \notin Locked
  PROVE  LockKept'
BY HostParts DEF LockKept, HasLock, OthersStay

LEMMA LockHeldOn ==
  ASSUME HostInv, NEW c \in Clerks, OthersStay({c}), lifecycle' = lifecycle,
         errands[c].pc \in Locked /\ errands'[c].pc \in Locked
  PROVE  LockKept'
BY HostParts DEF LockKept, HasLock, OthersStay

LEMMA LockTaken ==
  ASSUME HostInv, NEW c \in Clerks, OthersStay({c}), lifecycle = Unheld, lifecycle' = c,
         errands'[c].pc \in Locked
  PROVE  LockKept'
BY HostParts DEF LockKept, HasLock, OthersStay

LEMMA LockLeft ==
  ASSUME HostInv, NEW c \in Clerks, OthersStay({c}), lifecycle' = Unheld,
         errands[c].pc \in Locked, errands'[c].pc \notin Locked
  PROVE  LockKept'
BY HostParts DEF LockKept, HasLock, OthersStay

LEMMA LoadingIs ==
  ASSUME HostInv, NEW c \in Clerks, Loading(errands[c])
  PROVE  errands[c].s \in Rooms /\ guards[errands[c].s] = c /\ Active(errands[c].s)
<1>1. errands[c].s \in Rooms \cup {None} /\ ErrandFits(errands[c]) /\ guards[errands[c].s] = c
      /\ Active(errands[c].s)
  BY HostParts, ErrandIs DEF LoadsGuard, ErrandsFit
<1> QED BY <1>1 DEF Loading, ErrandFits

LEMMA LoadsStay ==
  ASSUME HostInv, NEW C \in SUBSET Clerks, OthersStay(C), GuardsStay(C),
         \A c \in C : Loading(errands'[c]) =>
           guards'[errands'[c].s] = c /\ sessions'[errands'[c].s].state = "active"
  PROVE  LoadsGuard'
<1> SUFFICES ASSUME NEW d \in Clerks, Loading(errands'[d])
             PROVE  guards'[errands'[d].s] = d /\ sessions'[errands'[d].s].state = "active"
  BY DEF LoadsGuard, Active
<1>1. CASE d \in C
  BY <1>1
<1>2. CASE d \notin C
  <2>1. errands'[d] = errands[d]
    BY <1>2 DEF OthersStay
  <2> QED
    BY <1>2, <2>1, LoadingIs DEF GuardsStay
<1> QED BY <1>1, <1>2

LEMMA RegistersStay ==
  ASSUME HostInv, NEW C \in SUBSET Clerks, OthersStay(C), ReposStay(C),
         \A c \in C : errands'[c].pc \notin {"register", "add"}
  PROVE  ReposFit'
<1> SUFFICES ASSUME NEW d \in Clerks, NEW p \in Projects
             PROVE  /\ errands'[d].pc = "register" /\ errands'[d].p = p =>
                         /\ projects'[p].made # "no" /\ projects'[p].trees = {}
                         /\ \A c \in Clerks : errands'[c].pc = "register" /\ errands'[c].p = p => c = d
                    /\ errands'[d].pc = "add" /\ errands'[d].p = p =>
                         (projects'[p].made = "yes" /\ projects'[p].trees # {}) \/ projects'[p].made = "gone"
  BY DEF ReposFit, Registers, Made
<1>1. CASE d \in C
  BY <1>1
<1>2. CASE d \notin C
  <2>1. errands'[d] = errands[d] /\ \A c \in Clerks : errands'[c].pc = "register" => errands'[c] = errands[c]
    BY <1>2 DEF OthersStay
  <2>2. ReposFit
    BY HostParts
  <2>3. Registers(d, p) => projects'[p].trees = {}
    BY <1>2, <2>2 DEF ReposStay, ReposFit
  <2> QED
    BY <2>1, <2>2, <2>3 DEF ReposStay, ReposFit, Registers, Made
<1> QED BY <1>1, <1>2

LEMMA AssignedIs ==
  ASSUME HostInv, NEW p \in Projects, NEW a \in projects[p].assigned
  PROVE  /\ a \in Assignments /\ a.session \in Rooms /\ a.tree \in Roots \cup Trees \cup {None}
         /\ a.tree \in projects[p].trees \cup {None} /\ Made(p)
BY HostParts DEF ProjectsFit, ProjectFits, ValidProject, Assignments

LEMMA HandIs ==
  ASSUME HostInv, NEW c \in Clerks, errands[c].pc \in Locked
  PROVE  lifecycle = c /\ lifecycle # Unheld
BY HostParts DEF LockKept, HasLock

(* A step beside the lock that is calm keeps what the lock protects.          *)
LEMMA SoundShrinks ==
  ASSUME HostInv, MemoGrows
  PROVE  /\ Untorn' \subseteq Untorn /\ Sound' \subseteq Sound /\ Sound \subseteq Untorn
         /\ Untorn \subseteq Rooms /\ (~memo'.moved => ~memo.moved)
         /\ \A s \in Untorn' : s \notin memo'.torn
         /\ \A s \in Sound' : s \in Untorn'
BY HostParts, MemoIs DEF MemoGrows, Untorn, Sound

LEMMA OuterIs ==
  ASSUME HostInv, NEW C \in SUBSET Clerks, HostCalm(C)
  PROVE  /\ MemoGrows
         /\ \A c \in Clerks : errands'[c].pc \in Locked =>
              errands[c].pc \in Locked /\ errands'[c] = errands[c] /\ lifecycle # Unheld
         /\ \A c \in Clerks : errands[c].pc \in Locked => errands'[c] = errands[c]
<1>1. ASSUME NEW c \in Clerks, errands'[c].pc \in Locked
      PROVE  errands[c].pc \in Locked /\ errands'[c] = errands[c] /\ lifecycle # Unheld
  <2>1. errands'[c] = errands[c]
    BY <1>1 DEF HostCalm, OthersStay
  <2> QED
    BY <1>1, <2>1, HandIs
<1>2. ASSUME NEW c \in Clerks, errands[c].pc \in Locked
      PROVE  errands'[c] = errands[c]
  BY <1>2 DEF HostCalm, OthersStay
<1> QED BY <1>1, <1>2 DEF HostCalm

LEMMA ActiveStays ==
  ASSUME HostInv, NEW C \in SUBSET Clerks, HostCalm(C)
  PROVE  AssignedActive'
<1> SUFFICES ASSUME NEW p \in Projects, NEW a \in projects'[p].assigned, a.session \in Untorn'
             PROVE  \/ sessions'[a.session].state = "active"
                    \/ \E c \in Clerks : errands'[c].pc = "unassign" /\ errands'[c].s = a.session
  BY DEF AssignedActive, Active, Held
<1>1. a \in projects[p].assigned /\ RoomStays(a.session) /\ a.session \in Untorn /\ a.session \notin memo'.torn
  BY SoundShrinks, OuterIs, AssignedIs DEF HostCalm
<1>2. CASE Active(a.session)
  BY <1>1, <1>2 DEF RoomStays
<1>3. ASSUME NEW c \in Clerks, Held(c, {"unassign"}, a.session)
      PROVE  errands'[c].pc = "unassign" /\ errands'[c].s = a.session
  BY <1>3, OuterIs DEF Held, Locked
<1> QED BY <1>1, <1>2, <1>3, HostParts DEF AssignedActive

LEMMA HandsStay ==
  ASSUME HostInv, NEW C \in SUBSET Clerks, HostCalm(C)
  PROVE  HandsHold'
<1> SUFFICES ASSUME NEW c \in Clerks PROVE InHand(c)'
  BY DEF HandsHold
<1>1. CASE errands'[c].pc \notin Locked
  BY <1>1 DEF InHand, Locked
<1>2. CASE errands'[c].pc \in Locked
  <2>1. errands[c].pc \in Locked /\ errands'[c] = errands[c] /\ lifecycle # Unheld /\ InHand(c)
    BY <1>2, OuterIs, HostParts DEF HandsHold
  <2>2. CASE errands[c].s \in Rooms
    <3>1. RoomStays(errands[c].s)
      BY <2>2 DEF HostCalm
    <3>2. (errands'[c].pc \in {"place", "assign", "undo"} /\ errands'[c].s \in Untorn' => Active(errands[c].s)')
      BY <2>1, <3>1, SoundShrinks, OuterIs DEF InHand, RoomStays, Active
    <3>3. (errands'[c].pc = "make" => sessions'[errands'[c].s].state = "absent")
      BY <2>1, <3>1 DEF InHand, RoomStays
    <3>4. Owners(errands[c].s) = {} => Owners(errands[c].s)' = {}
      BY <2>1 DEF Owners, HostCalm
    <3>5. errands[c].s \in Untorn' => errands[c].s \in Untorn
      BY SoundShrinks, OuterIs
    <3>6. errands[c].pc \in {"place", "assign", "make"} /\ errands[c].p # None => Made(errands[c].p)'
      <4> SUFFICES ASSUME errands[c].pc \in {"place", "assign", "make"}, errands[c].p # None
                   PROVE  projects'[errands[c].p].made = "yes"
        BY <2>1 DEF Made
      <4>1. errands[c].p \in Projects /\ Made(errands[c].p)
        BY <2>1, HostParts, ErrandIs DEF InHand
      <4> QED
        BY <2>1, <4>1 DEF HostCalm
    <3> QED
      BY <2>1, <3>2, <3>3, <3>4, <3>5, <3>6 DEF InHand
  <2>3. CASE errands[c].s \notin Rooms
    <3>1. errands[c].pc \notin {"place", "assign", "undo", "make", "unmake"}
      BY <2>3, HostParts DEF ErrandsFit, ErrandFits
    <3> QED
      BY <2>1, <3>1 DEF InHand
  <2> QED
    BY <2>2, <2>3
<1> QED BY <1>1, <1>2

LEMMA ScansStay ==
  ASSUME HostInv, NEW C \in SUBSET Clerks, HostCalm(C)
  PROVE  ScansHold'
<1> SUFFICES ASSUME NEW c \in Clerks, NEW s \in Rooms \ memo'.rehung
             PROVE  /\ errands'[c].pc \in {"archived", "prune"} /\ sessions'[s].state = "active"
                         => sessions'[s].cwd # errands'[c].tree
                    /\ errands'[c].pc = "prune" /\ sessions'[s].state \in {"active", "archived"}
                         => sessions'[s].cwd # errands'[c].tree
  BY DEF ScansHold, Seen, Active, Lives
<1>1. CASE errands'[c].pc \notin Locked
  BY <1>1 DEF Locked
<1>2. CASE errands'[c].pc \in Locked
  <2>1. errands[c].pc \in Locked /\ errands'[c] = errands[c] /\ lifecycle # Unheld /\ Seen(c)
    BY <1>2, OuterIs, HostParts DEF ScansHold
  <2>2. s \in Rooms \ memo.rehung /\ RoomStays(s)
    BY DEF HostCalm, MemoGrows
  <2> QED
    BY <2>1, <2>2 DEF Seen, RoomStays, Active, Lives
<1> QED BY <1>1, <1>2

LEMMA PlacesStay ==
  ASSUME HostInv, NEW C \in SUBSET Clerks, HostCalm(C)
  PROVE  PlacesHold'
<1> SUFFICES ASSUME ~memo'.moved PROVE PlacesHold'
  BY DEF PlacesHold, AssignedAgree, WayBack, Target
<1>1. ~memo.moved /\ dirs \subseteq dirs' /\ memo'.rehung = {}
  BY SoundShrinks, OuterIs DEF HostCalm
<1>2. ASSUME NEW p \in Projects, NEW a \in projects'[p].assigned
      PROVE  a \in projects[p].assigned /\ a.session \in Rooms /\ a.tree \in Roots \cup Trees \cup {None}
             /\ (Directory(p, a.tree) # {} => Directory(p, a.tree)' = Directory(p, a.tree))
  <2>1. a \in projects[p].assigned
    BY DEF HostCalm
  <2>2. a.session \in Rooms /\ a.tree \in Roots \cup Trees \cup {None} /\ Made(p)
    BY <2>1, AssignedIs
  <2> QED
    BY <2>1, <2>2 DEF HostCalm, DirectoryStays
<1>3. AssignedAgree'
  <2> SUFFICES ASSUME NEW p \in Projects, NEW a \in projects'[p].assigned, a.session \in Sound'
               PROVE  \/ {sessions'[a.session].cwd} = Directory(p, a.tree)'
                      \/ \E c \in Clerks : errands'[c].pc \in {"assign", "undo"} /\ errands'[c].s = a.session
    BY DEF AssignedAgree, Agrees, Held
  <2>1. a \in projects[p].assigned /\ a.session \in Sound /\ a.session \in Rooms /\ a.session \notin memo'.torn
    BY <1>2, SoundShrinks, OuterIs
  <2>2. CASE Agrees(p, a)
    <3>1. Directory(p, a.tree)' = Directory(p, a.tree)
      BY <1>2, <2>2 DEF Agrees
    <3>2. sessions'[a.session].cwd = sessions[a.session].cwd
      BY <1>1, <2>1 DEF HostCalm, RoomStays
    <3> QED
      BY <2>2, <3>1, <3>2 DEF Agrees
  <2>3. ASSUME NEW c \in Clerks, Held(c, {"assign", "undo"}, a.session)
        PROVE  errands'[c].pc \in {"assign", "undo"} /\ errands'[c].s = a.session
    BY <2>3, OuterIs DEF Held, Locked
  <2> QED
    BY <1>1, <2>1, <2>2, <2>3, HostParts DEF PlacesHold, AssignedAgree
<1>4. ASSUME NEW c \in Clerks, errands'[c].pc \in {"place", "assign", "undo", "make"}
      PROVE  WayBack(c)' /\ Target(c)'
  <2>1. /\ errands[c].pc \in {"place", "assign", "undo", "make"} /\ errands'[c] = errands[c]
        /\ lifecycle # Unheld /\ WayBack(c) /\ Target(c) /\ errands[c].s \in Rooms
        /\ errands[c].tree \in Roots \cup Trees \cup {None} /\ errands[c].p \in Projects \cup {None}
        /\ InHand(c)
    <3>1. errands[c].pc \in Locked /\ errands'[c] = errands[c] /\ lifecycle # Unheld
      BY <1>4, OuterIs DEF Locked
    <3> QED
      BY <1>4, <3>1, HostParts, ErrandIs DEF PlacesHold, HandsHold, ErrandsFit, ErrandFits
  <2>2. errands[c].s \in Untorn' => sessions'[errands[c].s].cwd = sessions[errands[c].s].cwd
    BY <1>1, <2>1, SoundShrinks, OuterIs DEF HostCalm, RoomStays
  <2>3. There(errands[c].was) => There(errands[c].was)'
    BY <1>1, <2>1 DEF There
  <2>4. /\ (errands[c].s \in Untorn' => errands[c].s \in Untorn)
        /\ (errands[c].s \in Sound' => errands[c].s \in Sound /\ errands[c].s \in Untorn')
    BY SoundShrinks, OuterIs
  <2>5. WayBack(c)'
    <3> SUFFICES ASSUME errands[c].pc \in {"place", "assign", "undo"}, ~errands[c].fresh
                 PROVE  /\ There(errands[c].was)'
                        /\ errands[c].s \in Sound' => \A p \in Projects : \A a \in projects'[p].assigned :
                             a.session = errands[c].s => Directory(p, a.tree)' = {errands[c].was}
                        /\ errands[c].pc = "place" /\ errands[c].s \in Untorn' => sessions'[errands[c].s].cwd = errands[c].was
      BY <2>1 DEF WayBack
    <3>1. /\ There(errands[c].was)
          /\ errands[c].s \in Sound => \A p \in Projects : \A a \in projects[p].assigned :
                             a.session = errands[c].s => Directory(p, a.tree) = {errands[c].was}
          /\ errands[c].pc = "place" /\ errands[c].s \in Untorn => sessions[errands[c].s].cwd = errands[c].was
      BY <1>1, <2>1 DEF WayBack
    <3>2. ASSUME errands[c].s \in Sound', NEW p \in Projects, NEW a \in projects'[p].assigned, a.session = errands[c].s
          PROVE  Directory(p, a.tree)' = {errands[c].was}
      BY <1>2, <2>4, <3>1, <3>2, SMTT(30)
    <3> QED
      BY <2>2, <2>3, <2>4, <3>1, <3>2
  <2>6. Target(c)'
    <3> SUFFICES ASSUME errands[c].s \in Sound'
                 PROVE  /\ errands[c].pc \in {"place", "assign", "make"} /\ errands[c].p # None
                             => Directory(errands[c].p, errands[c].tree)' = {errands[c].dir}
                        /\ errands[c].pc = "assign" => sessions'[errands[c].s].cwd = errands[c].dir
      BY <2>1 DEF Target
    <3>1. /\ errands[c].pc \in {"place", "assign", "make"} /\ errands[c].p # None
                             => Directory(errands[c].p, errands[c].tree) = {errands[c].dir}
          /\ errands[c].pc = "assign" => sessions[errands[c].s].cwd = errands[c].dir
      BY <1>1, <2>1, <2>4 DEF Target
    <3>2. ASSUME errands[c].p \in Projects, Made(errands[c].p), Directory(errands[c].p, errands[c].tree) = {errands[c].dir}
          PROVE  Directory(errands[c].p, errands[c].tree)' = {errands[c].dir}
      <4> DEFINE p == errands[c].p
                 t == errands[c].tree
      <4>1. DirectoryStays(p, t) /\ Directory(p, t) # {} /\ Made(p)
        BY <2>1, <3>2 DEF HostCalm
      <4>2. Directory(p, t)' = Directory(p, t)
        BY <4>1, <2>1 DEF DirectoryStays
      <4> QED
        BY <3>2, <4>2, <2>1
    <3> QED
      BY <2>1, <2>2, <2>4, <3>1, <3>2 DEF InHand
  <2> QED
    BY <2>5, <2>6
<1>5. ASSUME NEW c \in Clerks, errands'[c].pc \notin {"place", "assign", "undo", "make"}
      PROVE  WayBack(c)' /\ Target(c)'
  BY <1>5 DEF WayBack, Target
<1> QED BY <1>3, <1>4, <1>5 DEF PlacesHold

-----------------------------------------------------------------------------
LEMMA StillStays ==
  ASSUME HostInv, NEW C \in SUBSET Clerks, HostCalm(C),
         \A c \in C : memo'.moved \/ errands'[c].pc \notin {"list", "rehang", "refuge", "others"}
  PROVE  Still'
<1> SUFFICES ASSUME ~memo'.moved
             PROVE  /\ memo'.rehung = {}
                    /\ \A c \in Clerks : errands'[c].pc \notin {"list", "rehang", "refuge", "others"}
                    /\ \A s \in Rooms : Lives(s)' => There(sessions[s].cwd)'
  BY DEF Still
<1>1. ~memo.moved /\ dirs \subseteq dirs' /\ memo'.rehung = {} /\ Still
  BY SoundShrinks, OuterIs, HostParts DEF HostCalm
<1>2. \A c \in Clerks : errands'[c].pc \notin {"list", "rehang", "refuge", "others"}
  BY <1>1 DEF Still, HostCalm, OthersStay
<1>3. ASSUME NEW s \in Rooms, Lives(s)' PROVE There(sessions[s].cwd)'
  <2>1. Lives(s) /\ sessions'[s].cwd = sessions[s].cwd
    BY <1>1, <1>3 DEF HostCalm, RoomStays, Lives
  <2> QED
    BY <1>1, <2>1 DEF Still, There
<1> QED BY <1>1, <1>2, <1>3

LEMMA PrunedStay ==
  ASSUME HostInv, NEW C \in SUBSET Clerks, HostCalm(C),
         memo'.pruned \subseteq memo.pruned, memo'.pruned \cap dirs' = {}
  PROVE  PrunedAreGone'
<1> SUFFICES ASSUME NEW s \in Rooms \ memo'.rehung, NEW t \in memo'.pruned,
                    sessions'[s].state \in {"active", "archived"}
             PROVE  sessions'[s].cwd # t
  BY DEF PrunedAreGone, PrunedIsEmpty
<1>1. Lives(s) /\ sessions'[s].cwd = sessions[s].cwd /\ s \notin memo.rehung
  BY DEF HostCalm, RoomStays, MemoGrows
<1> QED BY <1>1, HostParts DEF PrunedAreGone, PrunedIsEmpty, Lives

LEMMA OuterHolds ==
  ASSUME HostInv, NEW C \in SUBSET Clerks, HostCalm(C), HostTypes',
         \A c \in C : ErrandFits(errands'[c]),
         \A c \in C : memo'.moved \/ errands'[c].pc \notin {"list", "rehang", "refuge", "others"},
         memo'.pruned \subseteq memo.pruned, memo'.pruned \cap dirs' = {},
         LoadsGuard', ProjectsFit', ReposFit'
  PROVE  HostInv'
<1>1. OthersStay(C) /\ lifecycle' = lifecycle
      /\ \A c \in C : errands[c].pc \notin Locked /\ errands'[c].pc \notin Locked
  BY DEF HostCalm
<1>2. ErrandsFit' /\ LockKept'
  BY <1>1, FitStays, LockStays
<1>3. AssignedActive' /\ HandsHold' /\ ScansHold' /\ PlacesHold'
  BY ActiveStays, HandsStay, ScansStay, PlacesStay
<1>4. Still' /\ PrunedAreGone'
  BY StillStays, PrunedStay
<1> QED BY <1>2, <1>3, <1>4 DEF HostInv

(* Parts that stay as they are.                                               *)
LEMMA ProjectsSame ==
  ASSUME HostInv, projects' = projects
  PROVE  /\ ProjectsFit'
         /\ \A C \in SUBSET Clerks : ReposStay(C)
         /\ \A p \in Projects : projects'[p].assigned \subseteq projects[p].assigned
                                /\ (Made(p) => projects'[p].made = "yes")
         /\ \A p \in Projects, tree \in Roots \cup Trees \cup {None} : DirectoryStays(p, tree)
<1>1. \A p \in Projects, tree \in Roots \cup Trees \cup {None} : Directory(p, tree)' = Directory(p, tree)
  BY DEF Directory, Chosen
<1>2. ProjectsFit'
  BY HostParts DEF ProjectsFit, OneProject, ProjectFits, Made
<1>3. \A C \in SUBSET Clerks : ReposStay(C)
  BY DEF ReposStay, Made
<1> QED BY <1>1, <1>2, <1>3 DEF DirectoryStays, Made

LEMMA SessionsSame ==
  ASSUME HostInv, sessions' = sessions
  PROVE  \A s \in Rooms : RoomStays(s)
BY DEF RoomStays, Active, Lives

LEMMA GuardsSame ==
  ASSUME HostInv, sessions' = sessions, guards' = guards, NEW C \in SUBSET Clerks
  PROVE  GuardsStay(C)
BY DEF GuardsStay, Active

LEMMA MemoSame ==
  ASSUME HostInv, memo' = memo
  PROVE  MemoGrows /\ memo'.moved = memo.moved /\ memo'.rehung = memo.rehung
         /\ memo'.pruned = memo.pruned /\ memo'.torn = memo.torn
BY HostParts DEF MemoGrows

LEMMA MemoBegins ==
  ASSUME HostInv, memo' = [memo EXCEPT !.begun = @ + 1]
  PROVE  MemoGrows /\ memo'.moved = memo.moved /\ memo'.rehung = memo.rehung
         /\ memo'.pruned = memo.pruned /\ memo'.torn = memo.torn
BY HostParts DEF MemoGrows, HostMemo

LEMMA MemoTears ==
  ASSUME HostInv, NEW torn \in SUBSET (Rooms \cup {None}), Mishap(torn)
  PROVE  MemoGrows /\ memo'.moved = memo.moved /\ memo'.rehung = memo.rehung
         /\ memo'.pruned = memo.pruned /\ memo'.torn = memo.torn \cup torn
<1> DEFINE all == memo.torn \cup torn
           n == memo.mishaps + 1
<1>1. all \subseteq Rooms \cup {None} /\ n \in Nat /\ memo \in HostMemo
  BY HostParts, MemoIs
<1>2. memo' = [memo EXCEPT !.mishaps = n, !.torn = all]
  BY DEF Mishap
<1> HIDE DEF all, n
<1>3. memo' \in HostMemo /\ memo'.torn = all /\ memo'.misled = memo.misled /\ memo'.moved = memo.moved
      /\ memo'.rehung = memo.rehung /\ memo'.pruned = memo.pruned
  BY <1>1, <1>2 DEF HostMemo
<1> QED BY <1>3 DEF MemoGrows, all

LEMMA MemoRehangs ==
  ASSUME HostInv, NEW s \in Rooms, memo' = [memo EXCEPT !.rehung = @ \cup {s}]
  PROVE  MemoGrows /\ memo'.moved = memo.moved /\ memo'.rehung = memo.rehung \cup {s}
         /\ memo'.pruned = memo.pruned /\ memo'.torn = memo.torn
BY HostParts DEF MemoGrows, HostMemo

LEMMA MemoMoves ==
  ASSUME HostInv, memo' = [memo EXCEPT !.moved = TRUE]
  PROVE  MemoGrows /\ memo'.moved /\ memo'.rehung = memo.rehung
         /\ memo'.pruned = memo.pruned /\ memo'.torn = memo.torn
BY HostParts DEF MemoGrows, HostMemo

LEMMA StillIs ==
  ASSUME HostInv
  PROVE  /\ ~memo.moved => memo.rehung = {}
         /\ memo.pruned \cap dirs = {}
BY HostParts DEF Still, PrunedAreGone

-----------------------------------------------------------------------------
(* Steps beside the lock.                                                     *)
LEMMA QuietHolds ==
  ASSUME HostInv, NEW C \in SUBSET Clerks, OthersStay(C), ReposFit',
         UNCHANGED <<projects, sessions, lifecycle, guards>>, MemoGrows,
         \A c \in C : errands[c].pc \notin Locked /\ errands'[c].pc \notin Locked,
         \A c \in C : ErrandFits(errands'[c]) /\ ~Loading(errands'[c]),
         \A c \in C : memo'.moved \/ errands'[c].pc \notin {"list", "rehang", "refuge", "others"},
         dirs' \subseteq Spots, ~memo'.moved => dirs \subseteq dirs' /\ memo'.rehung = {},
         memo'.pruned \subseteq memo.pruned, memo'.pruned \cap dirs' = {}
  PROVE  HostInv'
<1>1. HostCalm(C)
  BY ProjectsSame, SessionsSame DEF HostCalm
<1>2. HostTypes'
  BY HostParts DEF HostTypes, MemoGrows, OthersStay
<1>3. GuardsStay(C) /\ ProjectsFit'
  BY GuardsSame, ProjectsSame
<1>4. LoadsGuard'
  BY <1>3, LoadsStay
<1> QED BY <1>1, <1>2, <1>3, <1>4, OuterHolds

(* The step of one call that leaves the rest alone.                           *)
LEMMA CallHolds ==
  ASSUME HostInv, NEW c \in Clerks, OthersStay({c}),
         UNCHANGED <<projects, sessions, lifecycle, guards, dirs>>, MemoGrows,
         errands[c].pc \notin Locked, errands'[c].pc \notin Locked \cup {"register"},
         ErrandFits(errands'[c]), ~Loading(errands'[c]),
         errands'[c].pc = "add" => Made(errands'[c].p) /\ projects[errands'[c].p].trees # {},
         memo'.moved \/ errands'[c].pc \notin {"list", "rehang"},
         ~memo'.moved => memo'.rehung = {}, memo'.pruned = memo.pruned
  PROVE  HostInv'
<1>1. ReposFit'
  <2> SUFFICES ASSUME NEW d \in Clerks, NEW p \in Projects
               PROVE  /\ Registers(d, p)' =>
                         /\ projects'[p].made # "no" /\ projects'[p].trees = {}
                         /\ \A x \in Clerks : Registers(x, p)' => x = d
                      /\ errands'[d].pc = "add" /\ errands'[d].p = p =>
                           (Made(p) /\ projects[p].trees # {}) \/ projects[p].made = "gone"
    BY DEF ReposFit, Made
  <2>1. \A x \in Clerks : Registers(x, p)' => Registers(x, p)
    BY DEF Registers, OthersStay
  <2> QED
    BY <2>1, HostParts DEF ReposFit, OthersStay
<1>2. ~Loading(errands'[c]) /\ errands'[c].pc \notin {"refuge", "others"}
  BY DEF Loading
<1> QED BY <1>1, <1>2, QuietHolds, HostParts, StillIs

LEMMA UpdateProjectHolds ==
  ASSUME HostInv, NEW c \in Clerks, NEW p \in Projects, NEW d \in Roots, UpdateProject(c, p, d)
  PROVE  HostInv'
<1> DEFINE e == [NoErrand EXCEPT !.pc = "move", !.p = p, !.dir = d, !.was = projects[p].pwd]
<1>1. e \in HostErrand /\ e.pc = "move" /\ e.p = p /\ e.dir = d /\ e.s = None
  BY NoErrandIs, HostParts, ProjectIs DEF HostErrand, ErrandSteps, Spots
<1>2. errands' = [errands EXCEPT ![c] = e] /\ errands[c].pc = "idle" /\ memo' = [memo EXCEPT !.begun = @ + 1]
      /\ UNCHANGED <<projects, sessions, dirs, lifecycle, guards>>
  BY DEF UpdateProject, TakeLock, OnErrand
<1> HIDE DEF e
<1>3. OthersStay({c}) /\ errands'[c] = e
  BY <1>1, <1>2, HostParts DEF OthersStay
<1>4. MemoGrows /\ (~memo'.moved => memo'.rehung = {}) /\ memo'.pruned = memo.pruned
  BY <1>2, MemoBegins, StillIs
<1>5. ErrandFits(e) /\ ~Loading(e) /\ "idle" \notin Locked /\ e.pc \notin Locked \cup {"register"}
  BY <1>1 DEF ErrandFits, Loading, Locked
<1> QED BY <1>1, <1>2, <1>3, <1>4, <1>5, CallHolds

LEMMA AttachTreeHolds ==
  ASSUME HostInv, NEW c \in Clerks, NEW p \in Projects, NEW t \in Trees, AttachTree(c, p, t)
  PROVE  HostInv'
<1> DEFINE e == [NoErrand EXCEPT !.pc = "add", !.p = p, !.tree = t]
<1>1. e \in HostErrand /\ e.pc = "add" /\ e.p = p /\ e.tree = t
  BY NoErrandIs DEF HostErrand, ErrandSteps
<1>2. errands' = [errands EXCEPT ![c] = e] /\ errands[c].pc = "idle" /\ memo' = [memo EXCEPT !.begun = @ + 1]
      /\ UNCHANGED <<projects, sessions, dirs, lifecycle, guards>> /\ Made(p) /\ projects[p].trees # {}
  BY DEF AttachTree, TakeLock, OnErrand
<1> HIDE DEF e
<1>3. OthersStay({c}) /\ errands'[c] = e
  BY <1>1, <1>2, HostParts DEF OthersStay
<1>4. MemoGrows /\ (~memo'.moved => memo'.rehung = {}) /\ memo'.pruned = memo.pruned
  BY <1>2, MemoBegins, StillIs
<1>5. ErrandFits(e) /\ ~Loading(e) /\ "idle" \notin Locked /\ e.pc \notin Locked \cup {"register"}
  BY <1>1 DEF ErrandFits, Loading, Locked
<1> QED BY <1>1, <1>2, <1>3, <1>4, <1>5, CallHolds

LEMMA RehungHolds ==
  ASSUME HostInv, NEW c \in Clerks, Rehung(c) PROVE HostInv'
<1>1. OthersStay({c}) /\ errands'[c] = NoErrand
  BY FinishDoes DEF Rehung, OthersStay
<1>2. MemoGrows /\ (~memo'.moved => memo'.rehung = {}) /\ memo'.pruned = memo.pruned
  BY MemoSame, StillIs DEF Rehung
<1>3. ErrandFits(NoErrand) /\ ~Loading(NoErrand) /\ NoErrand.pc \notin Locked \cup {"register", "add", "list", "rehang"}
      /\ errands[c].pc \notin Locked
  BY NoErrandIs DEF ErrandFits, Loading, Locked, Rehung, OnErrand
<1> QED BY <1>1, <1>2, <1>3, CallHolds DEF Rehung

(* Where the sessions of a project are to move: each has one assignment.      *)
LEMMA DirectoryIs ==
  ASSUME HostInv, NEW p \in Projects, NEW tree
  PROVE  Directory(p, tree) \subseteq Spots
BY HostParts, ProjectIs DEF Directory, Spots

LEMMA RehangIs ==
  ASSUME HostInv, NEW c \in Clerks, NEW p \in Projects, NEW skip
  PROVE  RehangList(c, p, skip) \in HostMoves
<1> DEFINE mine == {a \in projects[p].assigned : a.session # skip}
           its(s) == CHOOSE a \in mine : a.session = s
           dirOf(s) == CHOOSE d \in Directory(p, its(s).tree) : TRUE
           S == {a.session : a \in {b \in mine : Directory(p, b.tree) # {}}}
<1>1. S \in SUBSET Rooms
  BY AssignedIs
<1>2. ASSUME NEW s \in S PROVE dirOf(s) \in Spots
  <2>1. PICK b \in mine : b.session = s /\ Directory(p, b.tree) # {}
    OBVIOUS
  <2>2. its(s) \in mine /\ its(s).session = s
    BY <2>1
  <2>3. its(s) = b
    BY <2>1, <2>2, HostParts DEF ProjectsFit, ProjectFits, ValidProject
  <2>4. dirOf(s) \in Directory(p, its(s).tree)
    BY <2>1, <2>3
  <2> HIDE DEF its, dirOf
  <2> QED
    BY <2>4, DirectoryIs
<1>3. RehangList(c, p, skip) = [s \in S |-> dirOf(s)]
  BY DEF RehangList
<1> HIDE DEF S, dirOf
<1>4. [s \in S |-> dirOf(s)] \in [S -> Spots]
  BY <1>2
<1> QED BY <1>1, <1>3, <1>4 DEF HostMoves

LEMMA ListSessionsHolds ==
  ASSUME HostInv, NEW c \in Clerks, ListSessions(c) PROVE HostInv'
<1>1. MemoGrows /\ (~memo'.moved => memo'.rehung = {}) /\ memo'.pruned = memo.pruned /\ memo' = memo
      /\ UNCHANGED <<projects, sessions, dirs, lifecycle, guards>>
  BY MemoSame, StillIs DEF ListSessions
<1>2. errands[c].pc = "list" /\ errands[c].p \in Projects /\ errands[c].s = None /\ errands[c] \in HostErrand
  BY HostParts DEF ListSessions, OnErrand, ErrandsFit, ErrandFits
<1>3. memo.moved /\ errands[c].pc \notin Locked
  BY <1>2, HostParts DEF Still, Locked
<1>4. CASE Finish(c)
  <2>1. OthersStay({c}) /\ errands'[c] = NoErrand
    BY <1>4, FinishDoes DEF OthersStay
  <2>2. ErrandFits(NoErrand) /\ ~Loading(NoErrand) /\ NoErrand.pc \notin Locked \cup {"register", "add"}
    BY NoErrandIs DEF ErrandFits, Loading, Locked
  <2> QED
    BY <1>1, <1>3, <2>1, <2>2, CallHolds
<1>5. CASE errands' = [errands EXCEPT ![c].pc = "rehang", ![c].todo = RehangList(c, errands[c].p, None)]
  <2> DEFINE list == RehangList(c, errands[c].p, None)
  <2>1. list \in HostMoves
    BY <1>2, RehangIs
  <2>2. errands' = [errands EXCEPT ![c].pc = "rehang", ![c].todo = list]
    BY <1>5
  <2> HIDE DEF list
  <2> DEFINE e == [errands[c] EXCEPT !.pc = "rehang", !.todo = list]
  <2>3. e \in HostErrand /\ e.pc = "rehang" /\ e.s = None /\ e.p = errands[c].p
    BY <1>2, <2>1 DEF HostErrand, ErrandSteps
  <2>4. errands' = [errands EXCEPT ![c] = e]
    BY <2>2, HostParts
  <2> HIDE DEF e
  <2>5. OthersStay({c}) /\ errands'[c] = e
    BY <2>3, <2>4, HostParts DEF OthersStay
  <2>6. ErrandFits(e) /\ ~Loading(e) /\ e.pc \notin Locked \cup {"register", "add"}
    BY <1>2, <2>3 DEF ErrandFits, Loading, Locked
  <2> QED
    BY <1>1, <1>3, <2>5, <2>6, CallHolds
<1> QED BY <1>4, <1>5 DEF ListSessions

-----------------------------------------------------------------------------
(* Steps that change one project.                                             *)
ProjectBecomes(p, q) ==
  /\ q \in HostProject /\ ValidProject(q)
  /\ q.made = "yes" => q.pwd \in Roots \cup {Refuge(p)}
  /\ q.made # "yes" => q.trees = {} /\ q.assigned = {}
  /\ q.trees # {} => q.trees \cap Roots # {}
  /\ projects' = [projects EXCEPT ![p] = q]

LEMMA ProjectChanges ==
  ASSUME HostInv, NEW p \in Projects, NEW q, ProjectBecomes(p, q),
         q.assigned \subseteq projects[p].assigned
  PROVE  /\ ProjectsFit' /\ projects' \in [Projects -> HostProject] /\ projects'[p] = q
         /\ \A r \in Projects : projects'[r].assigned \subseteq projects[r].assigned
         /\ \A r \in Projects \ {p} : projects'[r] = projects[r]
<1>1. projects' \in [Projects -> HostProject] /\ projects'[p] = q
      /\ \A r \in Projects \ {p} : projects'[r] = projects[r]
  BY HostParts DEF ProjectBecomes
<1>2. \A r \in Projects : projects'[r].assigned \subseteq projects[r].assigned
  BY <1>1
<1>3. OneProject'
  BY <1>2, HostParts DEF ProjectsFit, OneProject
<1>4. ASSUME NEW r \in Projects PROVE ProjectFits(r)'
  <2>1. CASE r = p
    BY <1>1, <2>1 DEF ProjectBecomes, ProjectFits, Made
  <2>2. CASE r # p
    BY <1>1, <2>2, HostParts DEF ProjectsFit, ProjectFits, Made
  <2> QED
    BY <2>1, <2>2
<1> QED BY <1>1, <1>2, <1>3, <1>4 DEF ProjectsFit

LEMMA ProjectStepHolds ==
  ASSUME HostInv, NEW C \in SUBSET Clerks, OthersStay(C), ReposFit',
         NEW p \in Projects, NEW q, ProjectBecomes(p, q), q.assigned \subseteq projects[p].assigned,
         lifecycle # Unheld /\ Made(p) => q.made = "yes",
         \A tree \in Roots \cup Trees \cup {None} : DirectoryStays(p, tree),
         UNCHANGED <<sessions, lifecycle, guards, dirs>>, MemoGrows,
         \A c \in C : errands[c].pc \notin Locked /\ errands'[c].pc \notin Locked,
         \A c \in C : ErrandFits(errands'[c]),
         \A c \in C : Loading(errands'[c]) => guards[errands'[c].s] = c /\ Active(errands'[c].s),
         \A c \in C : memo'.moved \/ errands'[c].pc \notin {"list", "rehang", "refuge", "others"},
         ~memo'.moved => memo'.rehung = {}, memo'.pruned = memo.pruned
  PROVE  HostInv'
<1>1. /\ ProjectsFit' /\ projects' \in [Projects -> HostProject] /\ projects'[p] = q
      /\ \A r \in Projects : projects'[r].assigned \subseteq projects[r].assigned
      /\ \A r \in Projects \ {p} : projects'[r] = projects[r]
  BY ProjectChanges
<1>2. ASSUME NEW r \in Projects, NEW tree \in Roots \cup Trees \cup {None} PROVE DirectoryStays(r, tree)
  <2>1. CASE r # p
    <3>1. Directory(r, tree)' = Directory(r, tree)
      BY <1>1, <2>1 DEF Directory, Chosen
    <3> QED
      BY <3>1 DEF DirectoryStays
  <2> QED
    BY <2>1
<1>3. \A r \in Projects : lifecycle # Unheld /\ Made(r) => projects'[r].made = "yes"
  BY <1>1 DEF Made
<1>4. HostCalm(C)
  BY <1>1, <1>2, <1>3, SessionsSame DEF HostCalm
<1>5. HostTypes'
  BY <1>1, HostParts DEF HostTypes, MemoGrows, OthersStay
<1>6. GuardsStay(C)
  BY GuardsSame
<1>7. LoadsGuard'
  BY <1>6, LoadsStay DEF Active
<1>8. memo'.pruned \cap dirs' = {} /\ memo'.pruned \subseteq memo.pruned
  BY StillIs
<1> QED BY <1>1, <1>4, <1>5, <1>7, <1>8, OuterHolds

LEMMA ProjectOf ==
  ASSUME HostInv, NEW p \in Projects
  PROVE  /\ projects[p] \in HostProject /\ ValidProject(projects[p]) /\ ProjectFits(p)
         /\ projects[p].trees \subseteq Roots \cup Trees /\ projects[p].primary \in Roots \cup {None}
<1>1. projects[p] \in HostProject /\ ProjectFits(p)
  BY HostParts DEF ProjectsFit
<1>2. projects[p].trees \subseteq Roots \cup Trees /\ projects[p].primary \in Roots \cup {None}
  BY <1>1, ProjectIs
<1> QED BY <1>1, <1>2 DEF ProjectFits

(* A call that goes on or ends, and neither registers nor adds a worktree.    *)
LEMMA ReposKept ==
  ASSUME HostInv, NEW C \in SUBSET Clerks, OthersStay(C), NEW p \in Projects, NEW q,
         projects' = [projects EXCEPT ![p] = q], q \in HostProject,
         projects[p].made # "no" => q.made # "no",
         projects[p].made = "gone" => q.made = "gone",
         projects[p].trees = {} /\ (\E d \in Clerks \ C : Registers(d, p)) => q.trees = {},
         Made(p) /\ projects[p].trees # {} => (q.made = "yes" /\ q.trees # {}) \/ q.made = "gone",
         \A c \in C : errands'[c].pc \notin {"register", "add"}
  PROVE  ReposFit'
<1>1. projects'[p] = q /\ \A r \in Projects \ {p} : projects'[r] = projects[r]
  BY HostParts
<1>2. ReposStay(C)
  BY <1>1 DEF ReposStay, Made
<1> QED BY <1>2, RegistersStay

LEMMA ProjectCreateHolds ==
  ASSUME HostInv, NEW c \in Clerks, NEW p \in Projects, NEW d \in Roots, ProjectCreate(c, p, d)
  PROVE  HostInv'
<1> DEFINE q == [NoProject EXCEPT !.made = "yes", !.pwd = d]
           e == [NoErrand EXCEPT !.pc = IF d \in Repos THEN "register" ELSE "idle",
                   !.p = IF d \in Repos THEN p ELSE None, !.dir = IF d \in Repos THEN d ELSE None]
<1>1. q \in HostProject /\ q.made = "yes" /\ q.pwd = d /\ q.trees = {} /\ q.assigned = {} /\ q.primary = None
  BY DEF NoProject, HostProject, Spots
<1>2. /\ e \in HostErrand /\ e.pc \in {"register", "idle"} /\ e.s = None
      /\ e.pc = "register" => e.p = p /\ e.dir \in Repos
  <2>1. d \in Spots /\ None \in Spots /\ NoErrand \in HostErrand /\ NoErrand.s = None
    BY NoErrandIs DEF Spots
  <2>2. CASE d \in Repos
    <3>1. e = [NoErrand EXCEPT !.pc = "register", !.p = p, !.dir = d]
      BY <2>2
    <3> QED
      BY <2>1, <2>2, <3>1 DEF HostErrand, ErrandSteps
  <2>3. CASE d \notin Repos
    <3>1. e = [NoErrand EXCEPT !.pc = "idle", !.p = None, !.dir = None]
      BY <2>3
    <3> QED
      BY <2>1, <3>1, ZenonT(40) DEF HostErrand, ErrandSteps
  <2> QED
    BY <2>2, <2>3
<1>3. /\ errands' = [errands EXCEPT ![c] = e] /\ errands[c].pc = "idle" /\ projects' = [projects EXCEPT ![p] = q]
      /\ memo' = [memo EXCEPT !.begun = @ + 1] /\ projects[p].made = "no"
      /\ UNCHANGED <<sessions, dirs, lifecycle, guards>>
  BY DEF ProjectCreate, TakeLock, OnErrand
<1> HIDE DEF q, e
<1>4. OthersStay({c}) /\ errands'[c] = e
  BY <1>2, <1>3, HostParts DEF OthersStay
<1>5. MemoGrows /\ (~memo'.moved => memo'.rehung = {}) /\ memo'.pruned = memo.pruned
  BY <1>3, MemoBegins, StillIs
<1>6. ErrandFits(e) /\ ~Loading(e) /\ "idle" \notin Locked /\ e.pc \notin Locked
  BY <1>2 DEF ErrandFits, Loading, Locked
<1>7. ProjectBecomes(p, q)
  BY <1>1, <1>3 DEF ProjectBecomes, ValidProject
<1>8. ReposFit'
  <2> SUFFICES ASSUME NEW x \in Clerks, NEW r \in Projects
               PROVE  /\ Registers(x, r)' =>
                         /\ projects'[r].made # "no" /\ projects'[r].trees = {}
                         /\ \A y \in Clerks : Registers(y, r)' => y = x
                      /\ errands'[x].pc = "add" /\ errands'[x].p = r =>
                           (projects'[r].made = "yes" /\ projects'[r].trees # {}) \/ projects'[r].made = "gone"
    BY DEF ReposFit, Made
  <2>1. projects'[p] = q /\ \A s \in Projects \ {p} : projects'[s] = projects[s]
    BY <1>3, HostParts
  <2>2. \A y \in Clerks \ {c} : errands'[y] = errands[y] /\ ~Registers(y, p)
        /\ (errands[y].pc = "add" => errands[y].p # p)
    BY <1>3, <1>4, HostParts DEF ReposFit, OthersStay, Registers, Made
  <2>3. CASE r = p
    BY <1>1, <1>2, <1>4, <2>1, <2>2, <2>3 DEF Registers
  <2>4. CASE r # p
    BY <1>2, <1>4, <2>1, <2>2, <2>4, HostParts DEF Registers, ReposFit, Made
  <2> QED
    BY <2>3, <2>4
<1>9. ~Made(p) /\ \A tree \in Roots \cup Trees \cup {None} : DirectoryStays(p, tree)
  BY <1>3 DEF DirectoryStays, Made
<1>10. q.assigned \subseteq projects[p].assigned
  BY <1>1
<1> QED BY <1>1, <1>2, <1>3, <1>4, <1>5, <1>6, <1>7, <1>8, <1>9, <1>10, ProjectStepHolds

LEMMA RegisterHolds ==
  ASSUME HostInv, NEW c \in Clerks, RegisterRepository(c), NEW p \in Projects, NEW d \in Repos,
         errands[c].p = p, errands[c].dir = d, Made(p)
  PROVE  HostInv'
<1> DEFINE q == [projects[p] EXCEPT !.trees = {d}, !.primary = IF projects[p].pwd = d THEN d ELSE None]
<1>1. errands[c].pc = "register" /\ d \in Roots /\ errands[c].pc \notin Locked
  BY HostParts, DirectoriesAssumption DEF RegisterRepository, OnErrand, Locked
<1>2. /\ OthersStay({c}) /\ errands'[c] = NoErrand /\ MemoGrows
      /\ (~memo'.moved => memo'.rehung = {}) /\ memo'.pruned = memo.pruned
      /\ UNCHANGED <<sessions, dirs, lifecycle, guards>>
  BY FinishDoes, MemoSame, StillIs DEF RegisterRepository, OthersStay
<1>3. ErrandFits(NoErrand) /\ ~Loading(NoErrand)
      /\ NoErrand.pc \notin Locked \cup {"register", "add", "list", "rehang", "refuge", "others"}
  BY NoErrandIs DEF ErrandFits, Loading, Locked
<1>4. projects' = [projects EXCEPT ![p] = q]
  <2>1. projects' = [projects EXCEPT ![p].trees = {d}, ![p].primary = IF projects[p].pwd = d THEN d ELSE None]
    BY DEF RegisterRepository
  <2> QED
    BY <1>1, <2>1, HostParts
<1>5. /\ projects[p] \in HostProject /\ ValidProject(projects[p]) /\ ProjectFits(p) /\ projects[p].trees = {}
      /\ \A x \in Clerks \ {c} : ~Registers(x, p)
  BY <1>1, ProjectOf, HostParts DEF ReposFit, Registers
<1>6. /\ q \in HostProject /\ q.made = "yes" /\ q.trees = {d} /\ q.primary \in {d, None}
      /\ q.assigned = projects[p].assigned /\ q.pwd = projects[p].pwd
      /\ (q.primary = d <=> q.pwd = d \/ d = None) /\ d # None
  BY <1>1, <1>5, PlacesAssumption DEF HostProject, Made
<1> HIDE DEF q
<1>7. ValidProject(q)
  BY <1>5, <1>6 DEF ValidProject
<1>8. ProjectBecomes(p, q)
  BY <1>1, <1>4, <1>5, <1>6, <1>7 DEF ProjectBecomes, ProjectFits
<1>9. ReposFit'
  <2>1. projects[p].made = "yes" /\ errands'[c].pc \notin {"register", "add"}
    BY <1>2, <1>3 DEF Made
  <2>2. /\ projects[p].made # "no" => q.made # "no"
        /\ projects[p].made = "gone" => q.made = "gone"
        /\ projects[p].trees = {} /\ (\E x \in Clerks \ {c} : Registers(x, p)) => q.trees = {}
        /\ Made(p) /\ projects[p].trees # {} => (q.made = "yes" /\ q.trees # {}) \/ q.made = "gone"
        /\ \A x \in {c} : errands'[x].pc \notin {"register", "add"}
    BY <1>5, <1>6, <2>1
  <2>3. {c} \in SUBSET Clerks
    OBVIOUS
  <2> QED
    BY <1>2, <1>4, <1>6, <2>2, <2>3, ReposKept
<1>10. ASSUME NEW tree \in Roots \cup Trees \cup {None} PROVE DirectoryStays(p, tree)
  <2>1. projects'[p] = q
    BY <1>4, HostParts
  <2>2. CASE tree # None
    BY <1>5, <2>2 DEF DirectoryStays, Directory, Chosen
  <2>3. CASE tree = None
    <3>1. projects[p].primary = None
      BY <1>5 DEF ValidProject
    <3>2. Directory(p, tree) = {projects[p].pwd}
      BY <2>3, <3>1 DEF Directory, Chosen
    <3>3. CASE q.pwd = d
      <4>1. q.primary = d /\ projects'[p].primary # None
        BY <1>6, <2>1, <3>3
      <4>2. Directory(p, tree)' = {d}
        BY <1>6, <2>1, <2>3, <4>1 DEF Directory, Chosen
      <4> QED
        BY <1>6, <3>2, <3>3, <4>2 DEF DirectoryStays
    <3>4. CASE q.pwd # d
      <4>1. projects'[p].primary = None
        BY <1>6, <2>1, <3>4
      <4>2. Directory(p, tree)' = {q.pwd}
        BY <2>1, <2>3, <4>1 DEF Directory, Chosen
      <4> QED
        BY <1>6, <3>2, <4>2 DEF DirectoryStays
    <3> QED
      BY <3>3, <3>4
  <2> QED
    BY <2>2, <2>3
<1> QED BY <1>1, <1>2, <1>3, <1>6, <1>8, <1>9, <1>10, ProjectStepHolds

LEMMA RegisterRepositoryHolds ==
  ASSUME HostInv, NEW c \in Clerks, RegisterRepository(c) PROVE HostInv'
<1>1. errands[c].pc = "register" /\ errands[c].p \in Projects /\ errands[c].dir \in Repos /\ errands[c].pc \notin Locked
  BY HostParts DEF RegisterRepository, OnErrand, ErrandsFit, ErrandFits, Locked
<1>2. CASE ~Made(errands[c].p)
  <2>1. UNCHANGED <<projects, sessions, dirs, lifecycle, guards, memo>> /\ Finish(c)
    BY <1>2 DEF RegisterRepository
  <2>2. OthersStay({c}) /\ errands'[c] = NoErrand /\ MemoGrows
        /\ (~memo'.moved => memo'.rehung = {}) /\ memo'.pruned = memo.pruned
    BY <2>1, FinishDoes, MemoSame, StillIs DEF OthersStay
  <2>3. ErrandFits(NoErrand) /\ ~Loading(NoErrand)
        /\ NoErrand.pc \notin Locked \cup {"register", "add", "list", "rehang", "refuge", "others"}
    BY NoErrandIs DEF ErrandFits, Loading, Locked
  <2> QED
    BY <1>1, <2>1, <2>2, <2>3, CallHolds
<1> QED BY <1>1, <1>2, RegisterHolds

(* A call that ends, or goes on to its next step.                             *)
LEMMA Finished ==
  ASSUME HostInv, NEW c \in Clerks, Finish(c)
  PROVE  /\ OthersStay({c}) /\ errands'[c] = NoErrand /\ {c} \in SUBSET Clerks
         /\ ErrandFits(errands'[c]) /\ ~Loading(errands'[c])
         /\ errands'[c].pc \notin Locked \cup {"register", "add", "list", "rehang", "refuge", "others"}
<1>1. OthersStay({c}) /\ errands'[c] = NoErrand
  BY FinishDoes DEF OthersStay
<1>2. ErrandFits(NoErrand) /\ ~Loading(NoErrand)
      /\ NoErrand.pc \notin Locked \cup {"register", "add", "list", "rehang", "refuge", "others"}
  BY NoErrandIs DEF ErrandFits, Loading, Locked
<1> QED BY <1>1, <1>2

LEMMA ReposOfCall ==
  ASSUME HostInv, NEW c \in Clerks, OthersStay({c}), projects' = projects,
         errands'[c].pc # "register",
         errands'[c].pc = "add" => Made(errands'[c].p) /\ projects[errands'[c].p].trees # {}
  PROVE  ReposFit'
<1> SUFFICES ASSUME NEW d \in Clerks, NEW p \in Projects
             PROVE  /\ Registers(d, p)' =>
                       /\ projects'[p].made # "no" /\ projects'[p].trees = {}
                       /\ \A x \in Clerks : Registers(x, p)' => x = d
                    /\ errands'[d].pc = "add" /\ errands'[d].p = p =>
                         (Made(p) /\ projects[p].trees # {}) \/ projects[p].made = "gone"
  BY DEF ReposFit, Made
<1>1. \A x \in Clerks : Registers(x, p)' => Registers(x, p)
  BY DEF Registers, OthersStay
<1> QED BY <1>1, HostParts DEF ReposFit, OthersStay

LEMMA MoveProjectHolds ==
  ASSUME HostInv, NEW c \in Clerks, MoveProject(c), NEW p \in Projects, NEW d \in Roots,
         errands[c].p = p, errands[c].dir = d
  PROVE  HostInv'
<1> DEFINE q == [projects[p] EXCEPT !.pwd = d]
<1>1. errands[c].pc = "move" /\ errands[c].pc \notin Locked /\ errands[c] \in HostErrand /\ errands[c].s = None
  BY HostParts DEF MoveProject, OnErrand, Locked, ErrandsFit, ErrandFits
<1>2. MemoGrows /\ memo'.moved /\ memo'.pruned = memo.pruned /\ UNCHANGED <<sessions, dirs, lifecycle, guards>>
  BY MemoMoves DEF MoveProject
<1>3. CASE ~Made(p)
  BY <1>1, <1>2, <1>3, Finished, CallHolds DEF MoveProject
<1>4. CASE Made(p)
  <2>1. /\ OthersStay({c}) /\ {c} \in SUBSET Clerks /\ ErrandFits(errands'[c]) /\ ~Loading(errands'[c])
        /\ errands'[c].pc \notin Locked \cup {"register", "add"}
    <3>1. CASE Finish(c)
      BY <3>1, Finished
    <3>2. CASE Turn(c, "list")
      <4>1. /\ OthersStay({c}) /\ errands'[c].pc = "list" /\ errands'[c].p = p /\ errands'[c].s = None
        BY <1>1, <3>2, TurnDoes DEF OthersStay, ErrandSteps
      <4> QED
        BY <4>1 DEF ErrandFits, Loading, Locked
    <3> QED
      BY <1>4, <3>1, <3>2 DEF MoveProject
  <2>2. projects[p] \in HostProject /\ ValidProject(projects[p]) /\ ProjectFits(p) /\ projects[p].made = "yes"
    BY <1>4, ProjectOf DEF Made
  <2>3. /\ q \in HostProject /\ q.made = "yes" /\ q.trees = projects[p].trees /\ q.primary = projects[p].primary
        /\ q.assigned = projects[p].assigned /\ q.pwd = d
    BY <2>2 DEF HostProject, Spots
  <2>4. projects' = [projects EXCEPT ![p] = q]
    BY <1>4, HostParts DEF MoveProject
  <2> HIDE DEF q
  <2>5. ProjectBecomes(p, q)
    BY <1>4, <2>2, <2>3, <2>4 DEF ProjectBecomes, ProjectFits, ValidProject
  <2>6. ReposFit'
    <3>1. \A x \in {c} : errands'[x].pc \notin {"register", "add"}
      BY <2>1
    <3>2. /\ projects[p].made # "no" => q.made # "no"
          /\ projects[p].made = "gone" => q.made = "gone"
          /\ projects[p].trees = {} /\ (\E x \in Clerks \ {c} : Registers(x, p)) => q.trees = {}
          /\ Made(p) /\ projects[p].trees # {} => (q.made = "yes" /\ q.trees # {}) \/ q.made = "gone"
      BY <2>2, <2>3
    <3> QED
      BY <2>1, <2>3, <2>4, <3>1, <3>2, ReposKept
  <2>7. \A tree \in Roots \cup Trees \cup {None} : DirectoryStays(p, tree)
    BY <1>2 DEF DirectoryStays
  <2>8. q.assigned \subseteq projects[p].assigned
    BY <2>3
  <2> QED
    BY <1>1, <1>2, <2>1, <2>3, <2>5, <2>6, <2>7, <2>8, ProjectStepHolds
<1> QED BY <1>3, <1>4

LEMMA AddTreeHolds ==
  ASSUME HostInv, NEW c \in Clerks, AddTree(c), NEW p \in Projects, NEW t \in Trees,
         errands[c].p = p, errands[c].tree = t
  PROVE  HostInv'
<1> DEFINE q == [projects[p] EXCEPT !.trees = @ \cup {t}]
<1>1. errands[c].pc = "add" /\ errands[c].pc \notin Locked /\ Finish(c)
      /\ UNCHANGED <<sessions, dirs, lifecycle, guards, memo>>
  BY DEF AddTree, OnErrand, Locked
<1>2. MemoGrows /\ (~memo'.moved => memo'.rehung = {}) /\ memo'.pruned = memo.pruned
  BY <1>1, MemoSame, StillIs
<1>3. CASE ~Made(p)
  <2>1. projects' = projects
    BY <1>3 DEF AddTree
  <2> QED
    BY <1>1, <1>2, <2>1, Finished, CallHolds
<1>4. CASE Made(p)
  <2>1. /\ projects[p] \in HostProject /\ ValidProject(projects[p]) /\ ProjectFits(p) /\ projects[p].made = "yes"
        /\ projects[p].trees # {} /\ projects[p].trees \subseteq Roots \cup Trees
    BY <1>1, <1>4, ProjectOf, HostParts DEF Made, ReposFit
  <2>2. /\ q \in HostProject /\ q.made = "yes" /\ q.trees = projects[p].trees \cup {t} /\ q.primary = projects[p].primary
        /\ q.assigned = projects[p].assigned /\ q.pwd = projects[p].pwd
    <3> DEFINE trees == projects[p].trees \cup {t}
    <3>1. trees \in SUBSET (Roots \cup Trees) /\ q = [projects[p] EXCEPT !.trees = trees]
      BY <2>1
    <3> HIDE DEF trees
    <3>2. /\ [projects[p] EXCEPT !.trees = trees] \in HostProject /\ [projects[p] EXCEPT !.trees = trees].trees = trees
      BY <2>1, <3>1 DEF HostProject
    <3>3. /\ q.made = projects[p].made /\ q.primary = projects[p].primary
          /\ q.assigned = projects[p].assigned /\ q.pwd = projects[p].pwd
      BY <2>1, <3>1 DEF HostProject
    <3> QED
      BY <2>1, <3>1, <3>2, <3>3 DEF trees
  <2>3. projects' = [projects EXCEPT ![p] = q]
    <3>1. projects' = [projects EXCEPT ![p].trees = @ \cup {t}]
      BY <1>4 DEF AddTree
    <3> QED
      BY <3>1, HostParts
  <2> HIDE DEF q
  <2>4. ProjectBecomes(p, q)
    BY <1>4, <2>1, <2>2, <2>3 DEF ProjectBecomes, ProjectFits, ValidProject
  <2>5. ReposFit'
    <3>1. OthersStay({c}) /\ {c} \in SUBSET Clerks /\ \A x \in {c} : errands'[x].pc \notin {"register", "add"}
      BY <1>1, Finished
    <3>2. /\ projects[p].made # "no" => q.made # "no"
          /\ projects[p].made = "gone" => q.made = "gone"
          /\ projects[p].trees = {} /\ (\E x \in Clerks \ {c} : Registers(x, p)) => q.trees = {}
          /\ Made(p) /\ projects[p].trees # {} => (q.made = "yes" /\ q.trees # {}) \/ q.made = "gone"
      BY <2>1, <2>2
    <3> QED
      BY <2>2, <2>3, <3>1, <3>2, ReposKept
  <2>6. ASSUME NEW tree \in Roots \cup Trees \cup {None} PROVE DirectoryStays(p, tree)
    <3>1. projects'[p].trees = projects[p].trees \cup {t} /\ projects'[p].primary = projects[p].primary
          /\ projects'[p].pwd = projects[p].pwd
      BY <2>2, <2>3, HostParts
    <3> QED
      BY <3>1 DEF DirectoryStays, Directory, Chosen
  <2>7. q.assigned \subseteq projects[p].assigned
    BY <2>2
  <2>8. /\ OthersStay({c}) /\ {c} \in SUBSET Clerks /\ ErrandFits(errands'[c]) /\ ~Loading(errands'[c])
        /\ errands'[c].pc \notin Locked \cup {"list", "rehang", "refuge", "others"}
    BY <1>1, Finished
  <2> QED
    BY <1>1, <1>2, <2>2, <2>4, <2>5, <2>6, <2>7, <2>8, ProjectStepHolds
<1> QED BY <1>3, <1>4

LEMMA CreateTreeHolds ==
  ASSUME HostInv, NEW c \in Clerks, NEW p \in Projects, NEW t \in Trees, CreateTree(c, p, t)
  PROVE  HostInv'
<1> DEFINE e == [NoErrand EXCEPT !.pc = "add", !.p = p, !.tree = t]
           left == memo.pruned \ {t}
           n == memo.begun + 1
<1>1. e \in HostErrand /\ e.pc = "add" /\ e.p = p /\ e.tree = t
  BY NoErrandIs DEF HostErrand, ErrandSteps
<1>2. /\ errands' = [errands EXCEPT ![c] = e] /\ errands[c].pc = "idle" /\ dirs' = dirs \cup {t}
      /\ memo' = [memo EXCEPT !.begun = n, !.pruned = left]
      /\ UNCHANGED <<projects, sessions, lifecycle, guards>> /\ Made(p) /\ projects[p].trees # {}
  BY DEF CreateTree, OnErrand
<1>3. left \in SUBSET Trees /\ n \in Nat /\ memo \in HostMemo /\ left \subseteq memo.pruned
      /\ left \cap (dirs \cup {t}) = {}
  BY HostParts, MemoIs, StillIs
<1> HIDE DEF e, left, n
<1>4. OthersStay({c}) /\ errands'[c] = e /\ {c} \in SUBSET Clerks
  BY <1>1, <1>2, HostParts DEF OthersStay
<1>5. MemoGrows /\ memo'.moved = memo.moved /\ memo'.rehung = memo.rehung /\ memo'.pruned = left
  BY <1>2, <1>3 DEF MemoGrows, HostMemo
<1>6. ErrandFits(e) /\ ~Loading(e) /\ "idle" \notin Locked /\ e.pc \notin Locked \cup {"list", "rehang", "refuge", "others"}
  BY <1>1 DEF ErrandFits, Loading, Locked
<1>7. ReposFit'
  BY <1>1, <1>2, <1>4, ReposOfCall
<1>8. dirs' \subseteq Spots /\ memo'.pruned \subseteq memo.pruned /\ memo'.pruned \cap dirs' = {}
  BY <1>2, <1>3, <1>5, HostParts DEF Spots
<1>9. ~memo'.moved => dirs \subseteq dirs' /\ memo'.rehung = {}
  BY <1>2, <1>5, StillIs
<1> QED BY <1>2, <1>4, <1>5, <1>6, <1>7, <1>8, <1>9, QuietHolds

LEMMA LoseDirectoryHolds ==
  ASSUME HostInv, NEW d \in dirs, LoseDirectory(d) PROVE HostInv'
<1> DEFINE n == memo.mishaps + 1
<1>1. memo' = [memo EXCEPT !.mishaps = n, !.moved = TRUE] /\ n \in Nat /\ memo \in HostMemo
  BY HostParts, MemoIs DEF LoseDirectory
<1> HIDE DEF n
<1>2. MemoGrows /\ memo'.moved /\ memo'.pruned = memo.pruned
  BY <1>1 DEF MemoGrows, HostMemo
<1>3. OthersStay({}) /\ {} \in SUBSET Clerks
  BY HostParts DEF OthersStay, LoseDirectory
<1>4. ReposFit'
  BY HostParts DEF ReposFit, Registers, Made, LoseDirectory
<1>5. dirs' \subseteq Spots /\ memo'.pruned \cap dirs' = {} /\ UNCHANGED <<projects, sessions, lifecycle, guards>>
  BY <1>2, HostParts, StillIs DEF LoseDirectory
<1> QED BY <1>2, <1>3, <1>4, <1>5, QuietHolds

-----------------------------------------------------------------------------
(* Steps that change a session, or the lock of one.                           *)
LEMMA RoomsHold ==
  ASSUME HostInv, NEW C \in SUBSET Clerks, OthersStay(C), projects' = projects, lifecycle' = lifecycle,
         sessions' \in [Rooms -> HostRoom], guards' \in [Rooms -> Clerks \cup {Unheld}], dirs' \subseteq Spots,
         \A s \in Rooms : RoomStays(s), GuardsStay(C), MemoGrows,
         \A c \in C : errands[c].pc \notin Locked /\ errands'[c].pc \notin Locked,
         \A c \in C : ErrandFits(errands'[c]) /\ errands'[c].pc \notin {"register", "add"},
         \A c \in C : Loading(errands'[c]) =>
           guards'[errands'[c].s] = c /\ sessions'[errands'[c].s].state = "active",
         \A c \in C : memo'.moved \/ errands'[c].pc \notin {"list", "rehang", "refuge", "others"},
         ~memo'.moved => dirs \subseteq dirs' /\ memo'.rehung = {},
         memo'.pruned = memo.pruned, memo.pruned \cap dirs' = {}
  PROVE  HostInv'
<1>1. HostCalm(C)
  BY ProjectsSame DEF HostCalm
<1>2. HostTypes'
  BY HostParts DEF HostTypes, MemoGrows, OthersStay
<1>3. ProjectsFit' /\ ReposStay(C)
  BY ProjectsSame
<1>4. LoadsGuard' /\ ReposFit'
  BY <1>3, LoadsStay, RegistersStay
<1> QED BY <1>1, <1>2, <1>3, <1>4, OuterHolds

LEMMA RoomChanges ==
  ASSUME HostInv, NEW s \in Rooms, NEW r \in HostRoom, sessions' = [sessions EXCEPT ![s] = r]
  PROVE  /\ sessions' \in [Rooms -> HostRoom] /\ sessions'[s] = r
         /\ \A x \in Rooms \ {s} : sessions'[x] = sessions[x] /\ RoomStays(x)
<1>1. sessions' \in [Rooms -> HostRoom] /\ sessions'[s] = r /\ \A x \in Rooms \ {s} : sessions'[x] = sessions[x]
  BY HostParts
<1> QED BY <1>1 DEF RoomStays, Active, Lives

LEMMA RebindHolds ==
  ASSUME HostInv, NEW c \in Clerks, NEW s \in Rooms, Rebind(c, s) PROVE HostInv'
<1> DEFINE rest == Rest(c, s)
           e == [errands[c] EXCEPT !.todo = rest]
           d == errands[c].todo[s]
<1>1. /\ errands[c].pc = "rehang" /\ errands[c] \in HostErrand /\ s \in DOMAIN errands[c].todo
      /\ errands[c].pc \notin Locked /\ memo.moved /\ memo.pruned \cap dirs = {}
      /\ UNCHANGED <<projects, dirs, lifecycle, guards>> /\ errands[c].todo \in HostMoves /\ ErrandFits(errands[c])
  BY HostParts, ErrandIs, StillIs DEF Rebind, OnErrand, Locked, Still, ErrandsFit
<1>2. rest \in HostMoves
  <2>1. PICK S \in SUBSET Rooms : errands[c].todo \in [S -> Spots]
    BY <1>1 DEF HostMoves
  <2>2. rest \in [S \ {s} -> Spots]
    BY <2>1 DEF Rest
  <2> QED
    BY <2>1, <2>2 DEF HostMoves
<1>3. d \in Spots
  BY <1>1 DEF HostMoves
<1>4. errands' = [errands EXCEPT ![c].todo = rest]
  BY DEF Rebind
<1> HIDE DEF rest
<1>5. e \in HostErrand /\ e.pc = "rehang" /\ e.s = errands[c].s /\ e.p = errands[c].p
  BY <1>1, <1>2 DEF HostErrand
<1>6. errands' = [errands EXCEPT ![c] = e]
  BY <1>4, HostParts
<1> HIDE DEF e, d
<1>7. /\ OthersStay({c}) /\ errands'[c] = e /\ {c} \in SUBSET Clerks
  BY <1>5, <1>6, HostParts DEF OthersStay
<1>8. ErrandFits(e) /\ e.pc \notin Locked \cup {"register", "add"}
  BY <1>1, <1>5 DEF ErrandFits, Locked
<1>9. Loading(e) => guards[e.s] = c /\ Active(e.s) /\ e.s \in Rooms
  BY <1>1, <1>5, LoadingIs DEF Loading
<1>10. sessions' = sessions \/ sessions' = [sessions EXCEPT ![s].cwd = d]
  BY DEF Rebind, d
<1>11. (memo' = memo \/ memo' = [memo EXCEPT !.rehung = @ \cup {s}] \/ Mishap({s}))
       /\ (sessions' # sessions => memo' = [memo EXCEPT !.rehung = @ \cup {s}])
  BY DEF Rebind
<1>12. MemoGrows /\ memo'.moved /\ memo'.pruned = memo.pruned /\ (sessions' # sessions => s \in memo'.rehung)
  BY <1>1, <1>11, MemoSame, MemoRehangs, MemoTears
<1>13. /\ sessions' \in [Rooms -> HostRoom] /\ \A x \in Rooms : RoomStays(x)
       /\ \A x \in Rooms : sessions'[x].state = sessions[x].state
  <2>1. CASE sessions' = sessions
    BY <2>1, SessionsSame, HostParts
  <2>2. CASE sessions' # sessions
    <3> DEFINE r == [sessions[s] EXCEPT !.cwd = d]
    <3>1. r \in HostRoom /\ r.state = sessions[s].state /\ r.cwd = d
      BY <1>3, HostParts DEF HostRoom
    <3>2. sessions' = [sessions EXCEPT ![s] = r]
      BY <1>10, <2>2, HostParts
    <3> HIDE DEF r
    <3>3. sessions' \in [Rooms -> HostRoom] /\ sessions'[s] = r
          /\ \A x \in Rooms \ {s} : sessions'[x] = sessions[x] /\ RoomStays(x)
      BY <3>1, <3>2, RoomChanges
    <3>4. RoomStays(s)
      BY <1>12, <2>2, <3>1, <3>3, HostParts DEF RoomStays, Active, Lives
    <3> QED
      BY <3>1, <3>3, <3>4
  <2> QED
    BY <2>1, <2>2
<1>14. GuardsStay({c})
  BY <1>1, <1>13 DEF GuardsStay, Active
<1>15. Loading(e) => guards'[e.s] = c /\ sessions'[e.s].state = "active"
  BY <1>1, <1>9, <1>13 DEF Active
<1>16. guards' \in [Rooms -> Clerks \cup {Unheld}] /\ dirs' \subseteq Spots /\ memo.pruned \cap dirs' = {}
  BY <1>1, HostParts
<1> QED BY <1>1, <1>7, <1>8, <1>12, <1>13, <1>14, <1>15, <1>16, RoomsHold

LEMMA UseSessionHolds ==
  ASSUME HostInv, NEW c \in Clerks, NEW s \in Rooms, UseSession(c, s) PROVE HostInv'
<1> DEFINE e == [NoErrand EXCEPT !.pc = "load", !.s = s]
<1>1. e \in HostErrand /\ e.pc = "load" /\ e.s = s
  BY NoErrandIs DEF HostErrand, ErrandSteps
<1>2. /\ errands' = [errands EXCEPT ![c] = e] /\ errands[c].pc = "idle" /\ memo' = [memo EXCEPT !.begun = @ + 1]
      /\ guards' = [guards EXCEPT ![s] = c] /\ guards[s] = Unheld /\ Active(s)
      /\ UNCHANGED <<projects, sessions, dirs, lifecycle>>
  BY DEF UseSession, TakeLock, OnErrand
<1> HIDE DEF e
<1>3. OthersStay({c}) /\ errands'[c] = e /\ {c} \in SUBSET Clerks
  BY <1>1, <1>2, HostParts DEF OthersStay
<1>4. MemoGrows /\ (~memo'.moved => memo'.rehung = {}) /\ memo'.pruned = memo.pruned
  BY <1>2, MemoBegins, StillIs
<1>5. ErrandFits(e) /\ "idle" \notin Locked
      /\ e.pc \notin Locked \cup {"register", "add", "list", "rehang", "refuge", "others"}
  BY <1>1 DEF ErrandFits, Locked
<1>6. guards' \in [Rooms -> Clerks \cup {Unheld}] /\ guards'[s] = c /\ \A x \in Rooms \ {s} : guards'[x] = guards[x]
  BY <1>2, HostParts
<1>7. GuardsStay({c}) /\ sessions' \in [Rooms -> HostRoom] /\ dirs' \subseteq Spots /\ memo.pruned \cap dirs' = {}
  BY <1>2, <1>6, HostParts, StillIs DEF GuardsStay, Active
<1>8. guards'[e.s] = c /\ sessions'[e.s].state = "active"
  BY <1>1, <1>2, <1>6 DEF Active
<1>9. \A x \in Rooms : RoomStays(x)
  BY <1>2, SessionsSame
<1> QED BY <1>2, <1>3, <1>4, <1>5, <1>6, <1>7, <1>8, <1>9, RoomsHold

(* What a load ends in: the session is open where it was found or moved to.   *)
LEMMA OpenedHolds ==
  ASSUME HostInv, NEW c \in Clerks, NEW d \in Spots, Opened(c, d), Loading(errands[c]),
         d = sessions[errands[c].s].cwd \/ memo.moved, UNCHANGED <<projects, dirs, lifecycle>>
  PROVE  HostInv'
<1> SUFFICES ASSUME NEW s \in Rooms, errands[c].s = s, guards[s] = c, Active(s)
             PROVE  HostInv'
  BY LoadingIs
<1>1. /\ sessions' = [sessions EXCEPT ![s].cwd = d, ![s].loaded = TRUE] /\ guards' = [guards EXCEPT ![s] = Unheld]
      /\ (IF d = sessions[s].cwd THEN memo' = memo ELSE memo' = [memo EXCEPT !.rehung = @ \cup {s}])
      /\ Finish(c) /\ errands[c].pc \notin Locked
  BY DEF Opened, Loading, Locked
<1>2. /\ MemoGrows /\ (~memo'.moved => memo'.rehung = {}) /\ memo'.pruned = memo.pruned
      /\ (d # sessions[s].cwd => s \in memo'.rehung)
  BY <1>1, MemoSame, MemoRehangs, StillIs
<1> DEFINE r == [sessions[s] EXCEPT !.cwd = d, !.loaded = TRUE]
<1>3. r \in HostRoom /\ r.state = sessions[s].state /\ r.cwd = d
  BY HostParts, ZenonT(40) DEF HostRoom
<1>4. sessions' = [sessions EXCEPT ![s] = r]
  BY <1>1, HostParts
<1> HIDE DEF r
<1>5. sessions' \in [Rooms -> HostRoom] /\ sessions'[s] = r
      /\ \A x \in Rooms \ {s} : sessions'[x] = sessions[x] /\ RoomStays(x)
  BY <1>3, <1>4, RoomChanges
<1>6. RoomStays(s)
  BY <1>2, <1>3, <1>5, HostParts DEF RoomStays, Active, Lives
<1>7. guards' \in [Rooms -> Clerks \cup {Unheld}] /\ \A x \in Rooms \ {s} : guards'[x] = guards[x]
  BY <1>1, HostParts
<1>8. GuardsStay({c})
  BY <1>5, <1>7 DEF GuardsStay, Active
<1>9. /\ OthersStay({c}) /\ {c} \in SUBSET Clerks /\ ErrandFits(errands'[c]) /\ ~Loading(errands'[c])
      /\ errands'[c].pc \notin Locked \cup {"register", "add", "list", "rehang", "refuge", "others"}
  BY <1>1, Finished
<1>10. dirs' \subseteq Spots /\ memo.pruned \cap dirs' = {} /\ \A x \in Rooms : RoomStays(x)
  BY <1>5, <1>6, HostParts, StillIs
<1> QED BY <1>1, <1>2, <1>5, <1>7, <1>8, <1>9, <1>10, RoomsHold

LEMMA LoadThereHolds ==
  ASSUME HostInv, NEW c \in Clerks, LoadThere(c) PROVE HostInv'
<1>1. Loading(errands[c]) /\ errands[c].s \in Rooms
  BY LoadingIs DEF LoadThere, OnErrand, Loading
<1>2. sessions[errands[c].s].cwd \in Spots
  BY <1>1, HostParts, RoomIs
<1> QED BY <1>1, <1>2, OpenedHolds DEF LoadThere

LEMMA OwnIsASpot == \A s \in Rooms : Own(s) \in Spots
BY DEF Spots

LEMMA Lost ==
  ASSUME HostInv, NEW c \in Clerks, Loading(errands[c]), ~There(sessions[errands[c].s].cwd)
  PROVE  memo.moved
BY LoadingIs, HostParts DEF Still, Active, Lives

LEMMA LoadRepairsHolds ==
  ASSUME HostInv, NEW c \in Clerks, LoadRepairs(c) PROVE HostInv'
<1>1. Loading(errands[c]) /\ errands[c].s \in Rooms /\ memo.moved
  BY LoadingIs, Lost DEF LoadRepairs, OnErrand, Loading
<1>2. CASE Opened(c, Own(errands[c].s))
  BY <1>1, <1>2, OwnIsASpot, OpenedHolds DEF LoadRepairs
<1>3. ASSUME NEW p \in Projects, NEW d \in Refitted(p, errands[c].s), Opened(c, d)
      PROVE  HostInv'
  <2>1. \A tree : Directory(p, tree) \subseteq Spots
    BY DirectoryIs
  <2>2. d \in Spots
    BY <1>1, <2>1, OwnIsASpot, HostParts DEF Refitted
  <2> QED
    BY <1>1, <1>3, <2>2, OpenedHolds DEF LoadRepairs
<1>4. Owners(errands[c].s) \subseteq Projects
  BY DEF Owners
<1> QED BY <1>2, <1>3, <1>4 DEF LoadRepairs

LEMMA LoadRehungHolds ==
  ASSUME HostInv, NEW c \in Clerks, LoadRehung(c) PROVE HostInv'
<1>1. Loading(errands[c]) /\ errands[c].p \in Projects /\ memo.moved
  BY HostParts DEF LoadRehung, OnErrand, Loading, ErrandsFit, ErrandFits, Still
<1>2. Refuge(errands[c].p) \in Spots
  BY <1>1 DEF Spots
<1> QED BY <1>1, <1>2, OpenedHolds DEF LoadRehung

LEMMA LoadRefugeHolds ==
  ASSUME HostInv, NEW c \in Clerks, LoadRefuge(c) PROVE HostInv'
<1>1. PICK p \in Owners(errands[c].s) : /\ dirs' = dirs \cup {Refuge(p)}
                                        /\ errands' = [errands EXCEPT ![c].pc = "refuge", ![c].p = p]
  BY DEF LoadRefuge
<1>2. /\ p \in Projects /\ errands[c].pc = "load" /\ errands[c].pc \notin Locked /\ Loading(errands[c])
      /\ errands[c] \in HostErrand /\ UNCHANGED <<projects, sessions, lifecycle, guards, memo>>
  BY HostParts DEF Owners, LoadRefuge, OnErrand, Locked, Loading
<1>3. memo.moved
  BY <1>2, Lost DEF LoadRefuge
<1> DEFINE e == [errands[c] EXCEPT !.pc = "refuge", !.p = p]
<1>4. e \in HostErrand /\ e.pc = "refuge" /\ e.s = errands[c].s /\ e.p = p
  BY <1>2 DEF HostErrand, ErrandSteps
<1>5. errands' = [errands EXCEPT ![c] = e]
  BY <1>1, HostParts
<1> HIDE DEF e
<1>6. OthersStay({c}) /\ errands'[c] = e /\ {c} \in SUBSET Clerks
  BY <1>4, <1>5, HostParts DEF OthersStay
<1>7. errands[c].s \in Rooms /\ guards[e.s] = c /\ Active(e.s)
  BY <1>2, <1>4, LoadingIs
<1>8. ErrandFits(e) /\ e.pc \notin Locked \cup {"register", "add"}
  BY <1>2, <1>4, <1>7 DEF ErrandFits, Locked
<1>9. MemoGrows /\ memo'.moved /\ memo'.pruned = memo.pruned
  BY <1>2, <1>3, MemoSame
<1>10. dirs' \subseteq Spots /\ memo.pruned \cap dirs' = {}
  <2>1. Refuge(p) \notin memo.pruned /\ Refuge(p) \in Spots
    BY <1>2, HostParts, MemoIs, PlacesAssumption DEF Spots
  <2> QED
    BY <1>1, <2>1, HostParts, StillIs
<1>11. /\ sessions' \in [Rooms -> HostRoom] /\ guards' \in [Rooms -> Clerks \cup {Unheld}]
       /\ GuardsStay({c}) /\ \A x \in Rooms : RoomStays(x)
  BY <1>2, HostParts, SessionsSame, GuardsSame
<1>12. guards'[e.s] = c /\ sessions'[e.s].state = "active"
  BY <1>2, <1>7 DEF Active
<1> QED BY <1>2, <1>6, <1>8, <1>9, <1>10, <1>11, <1>12, RoomsHold

LEMMA MoveToRefugeHolds ==
  ASSUME HostInv, NEW c \in Clerks, MoveToRefuge(c), NEW p \in Projects, errands[c].p = p
  PROVE  HostInv'
<1> DEFINE q == [projects[p] EXCEPT !.pwd = Refuge(p)]
<1>1. /\ errands[c].pc = "refuge" /\ errands[c].pc \notin Locked /\ Loading(errands[c]) /\ memo.moved
      /\ UNCHANGED <<dirs, lifecycle>>
  BY HostParts DEF MoveToRefuge, OnErrand, Locked, Loading, Still
<1>2. errands[c].s \in Rooms /\ guards[errands[c].s] = c /\ Active(errands[c].s)
  BY <1>1, LoadingIs
<1>3. CASE ~Made(p)
  BY <1>1, <1>2, <1>3, OwnIsASpot, OpenedHolds DEF MoveToRefuge
<1>4. CASE Made(p)
  <2>1. Turn(c, "others") /\ UNCHANGED <<sessions, guards, memo>> /\ projects' = [projects EXCEPT ![p].pwd = Refuge(p)]
    BY <1>4 DEF MoveToRefuge
  <2>2. /\ OthersStay({c}) /\ {c} \in SUBSET Clerks /\ errands'[c].pc = "others" /\ errands'[c].p = p
        /\ errands'[c].s = errands[c].s
    BY <2>1, TurnDoes DEF OthersStay, ErrandSteps
  <2>3. ErrandFits(errands'[c]) /\ errands'[c].pc \notin Locked \cup {"register", "add"}
    BY <1>2, <2>2 DEF ErrandFits, Locked
  <2>4. projects[p] \in HostProject /\ ValidProject(projects[p]) /\ ProjectFits(p) /\ projects[p].made = "yes"
    BY <1>4, ProjectOf DEF Made
  <2>5. /\ q \in HostProject /\ q.made = "yes" /\ q.trees = projects[p].trees /\ q.primary = projects[p].primary
        /\ q.assigned = projects[p].assigned /\ q.pwd = Refuge(p)
    BY <2>4 DEF HostProject, Spots
  <2>6. projects' = [projects EXCEPT ![p] = q]
    BY <2>1, HostParts
  <2> HIDE DEF q
  <2>7. ProjectBecomes(p, q)
    BY <1>4, <2>4, <2>5, <2>6 DEF ProjectBecomes, ProjectFits, ValidProject
  <2>8. ReposFit'
    <3>1. \A x \in {c} : errands'[x].pc \notin {"register", "add"}
      BY <2>3
    <3>2. /\ projects[p].made # "no" => q.made # "no"
          /\ projects[p].made = "gone" => q.made = "gone"
          /\ projects[p].trees = {} /\ (\E x \in Clerks \ {c} : Registers(x, p)) => q.trees = {}
          /\ Made(p) /\ projects[p].trees # {} => (q.made = "yes" /\ q.trees # {}) \/ q.made = "gone"
      BY <2>4, <2>5
    <3> QED
      BY <2>2, <2>5, <2>6, <3>1, <3>2, ReposKept
  <2>9. MemoGrows /\ memo'.moved /\ memo'.pruned = memo.pruned
    BY <1>1, <2>1, MemoSame
  <2>10. \A tree \in Roots \cup Trees \cup {None} : DirectoryStays(p, tree)
    BY <2>9 DEF DirectoryStays
  <2>11. q.assigned \subseteq projects[p].assigned
    BY <2>5
  <2> QED
    BY <1>1, <1>2, <2>1, <2>2, <2>3, <2>5, <2>7, <2>8, <2>9, <2>10, <2>11, ProjectStepHolds
<1> QED BY <1>3, <1>4

LEMMA ListOthersHolds ==
  ASSUME HostInv, NEW c \in Clerks, ListOthers(c) PROVE HostInv'
<1>1. /\ errands[c].pc = "others" /\ errands[c].pc \notin Locked /\ Loading(errands[c]) /\ memo.moved
      /\ errands[c].p \in Projects /\ errands[c] \in HostErrand /\ UNCHANGED <<projects, dirs, lifecycle>>
  BY HostParts DEF ListOthers, OnErrand, Locked, Loading, Still, ErrandsFit, ErrandFits
<1>2. errands[c].s \in Rooms /\ guards[errands[c].s] = c /\ Active(errands[c].s)
  BY <1>1, LoadingIs
<1>3. CASE ~Made(errands[c].p)
  BY <1>1, <1>2, <1>3, OwnIsASpot, OpenedHolds DEF ListOthers
<1>4. CASE Made(errands[c].p)
  <2> DEFINE list == RehangList(c, errands[c].p, errands[c].s)
  <2>1. list \in HostMoves
    BY <1>1, RehangIs
  <2>2. errands' = [errands EXCEPT ![c].pc = "rehang", ![c].todo = list] /\ UNCHANGED <<sessions, guards, memo>>
    BY <1>4 DEF ListOthers
  <2> HIDE DEF list
  <2> DEFINE e == [errands[c] EXCEPT !.pc = "rehang", !.todo = list]
  <2>3. e \in HostErrand /\ e.pc = "rehang" /\ e.s = errands[c].s /\ e.p = errands[c].p
    BY <1>1, <2>1 DEF HostErrand, ErrandSteps
  <2>4. errands' = [errands EXCEPT ![c] = e]
    BY <2>2, HostParts
  <2> HIDE DEF e
  <2>5. OthersStay({c}) /\ errands'[c] = e /\ {c} \in SUBSET Clerks
    BY <2>3, <2>4, HostParts DEF OthersStay
  <2>6. ErrandFits(e) /\ e.pc \notin Locked \cup {"register", "add"}
    BY <1>1, <2>3 DEF ErrandFits, Locked
  <2>7. MemoGrows /\ memo'.moved /\ memo'.pruned = memo.pruned
    BY <1>1, <2>2, MemoSame
  <2>8. /\ sessions' \in [Rooms -> HostRoom] /\ guards' \in [Rooms -> Clerks \cup {Unheld}]
        /\ GuardsStay({c}) /\ \A x \in Rooms : RoomStays(x)
    BY <2>2, HostParts, SessionsSame, GuardsSame
  <2>9. dirs' \subseteq Spots /\ memo.pruned \cap dirs' = {}
    BY <1>1, HostParts, StillIs
  <2>10. guards'[e.s] = c /\ sessions'[e.s].state = "active"
    BY <1>2, <2>2, <2>3 DEF Active
  <2> QED
    BY <1>1, <2>2, <2>5, <2>6, <2>7, <2>8, <2>9, <2>10, RoomsHold
<1> QED BY <1>3, <1>4

-----------------------------------------------------------------------------
(* Steps that are over at once.                                               *)
LEMMA AsideHolds ==
  ASSUME HostInv, UNCHANGED <<errands, guards, dirs, lifecycle>>,
         projects' \in [Projects -> HostProject], sessions' \in [Rooms -> HostRoom],
         ProjectsFit', ReposStay({}),
         \A p \in Projects :
           /\ projects'[p].assigned \subseteq projects[p].assigned
           /\ lifecycle # Unheld /\ Made(p) => projects'[p].made = "yes",
         \A p \in Projects, tree \in Roots \cup Trees \cup {None} : DirectoryStays(p, tree),
         \A s \in Rooms : RoomStays(s), GuardsStay({}), MemoGrows, memo'.moved = memo.moved,
         memo'.rehung = memo.rehung, memo'.pruned = memo.pruned
  PROVE  HostInv'
<1>1. OthersStay({}) /\ {} \in SUBSET Clerks
  BY HostParts DEF OthersStay
<1>2. HostCalm({})
  BY <1>1, StillIs DEF HostCalm
<1>3. HostTypes'
  BY HostParts DEF HostTypes, MemoGrows
<1>4. LoadsGuard' /\ ReposFit'
  BY <1>1, LoadsStay, RegistersStay
<1>5. memo'.pruned \subseteq memo.pruned /\ memo'.pruned \cap dirs' = {}
  BY StillIs
<1> QED BY <1>1, <1>2, <1>3, <1>4, <1>5, OuterHolds

(* The projects without a session.                                            *)
LEMMA WithoutIs ==
  ASSUME HostInv, NEW s, projects' = Without(projects, s)
  PROVE  /\ projects' \in [Projects -> HostProject] /\ ProjectsFit'
         /\ \A p \in Projects :
              /\ projects'[p].assigned = {a \in projects[p].assigned : a.session # s}
              /\ projects'[p].made = projects[p].made /\ projects'[p].pwd = projects[p].pwd
              /\ projects'[p].primary = projects[p].primary /\ projects'[p].trees = projects[p].trees
         /\ \A p \in Projects : \A tree : Directory(p, tree)' = Directory(p, tree)
         /\ \A p \in Projects, tree \in Roots \cup Trees \cup {None} : DirectoryStays(p, tree)
         /\ \A C \in SUBSET Clerks : ReposStay(C)
<1>1. ASSUME NEW p \in Projects
      PROVE  /\ projects'[p] \in HostProject
             /\ projects'[p].assigned = {a \in projects[p].assigned : a.session # s}
             /\ projects'[p].made = projects[p].made /\ projects'[p].pwd = projects[p].pwd
             /\ projects'[p].primary = projects[p].primary /\ projects'[p].trees = projects[p].trees
  <2> DEFINE left == {a \in projects[p].assigned : a.session # s}
  <2>1. left \in SUBSET Assignments /\ projects[p] \in HostProject
    BY HostParts, ProjectIs
  <2>2. projects'[p] = [projects[p] EXCEPT !.assigned = left]
    BY DEF Without
  <2> HIDE DEF left
  <2>3. /\ projects'[p] \in HostProject /\ projects'[p].assigned = left
        /\ projects'[p].made = projects[p].made /\ projects'[p].pwd = projects[p].pwd
        /\ projects'[p].primary = projects[p].primary /\ projects'[p].trees = projects[p].trees
    BY <2>1, <2>2 DEF HostProject
  <2> QED
    BY <2>3 DEF left
<1>2. projects' \in [Projects -> HostProject]
  BY <1>1 DEF Without
<1>3. ProjectsFit'
  <2>1. OneProject'
    BY <1>1, HostParts DEF ProjectsFit, OneProject
  <2>2. ASSUME NEW p \in Projects PROVE ProjectFits(p)'
    BY <1>1, HostParts DEF ProjectsFit, ProjectFits, ValidProject, Made
  <2> QED
    BY <2>1, <2>2 DEF ProjectsFit
<1>4. \A p \in Projects : \A tree : Directory(p, tree)' = Directory(p, tree)
  BY <1>1 DEF Directory, Chosen
<1>5. \A p \in Projects, tree \in Roots \cup Trees \cup {None} : DirectoryStays(p, tree)
  BY <1>4 DEF DirectoryStays
<1>6. \A C \in SUBSET Clerks : ReposStay(C)
  BY <1>1 DEF ReposStay, Made
<1> QED BY <1>1, <1>2, <1>3, <1>4, <1>5, <1>6

LEMMA GoneIs ==
  [NoSession EXCEPT !.state = "gone"] \in HostRoom /\ [NoSession EXCEPT !.state = "gone"].state = "gone"
BY DEF NoSession, HostRoom, Spots

LEMMA ExpireHolds ==
  ASSUME HostInv, NEW s \in Rooms, Expire(s) PROVE HostInv'
<1> DEFINE r == [NoSession EXCEPT !.state = "gone"]
<1>1. r \in HostRoom /\ r.state = "gone"
  BY GoneIs
<1>2. sessions' = [sessions EXCEPT ![s] = r] /\ projects' = Without(projects, s) /\ Mishap({s})
      /\ guards[s] = Unheld /\ Active(s) /\ UNCHANGED <<dirs, lifecycle, guards, errands>>
  BY DEF Expire, Removed
<1> HIDE DEF r
<1>3. MemoGrows /\ memo'.moved = memo.moved /\ memo'.rehung = memo.rehung /\ memo'.pruned = memo.pruned
      /\ s \in memo'.torn
  BY <1>2, MemoTears
<1>4. sessions' \in [Rooms -> HostRoom] /\ sessions'[s] = r
      /\ \A x \in Rooms \ {s} : sessions'[x] = sessions[x] /\ RoomStays(x)
  BY <1>1, <1>2, RoomChanges
<1>5. RoomStays(s)
  BY <1>1, <1>2, <1>3, <1>4 DEF RoomStays, Active, Lives
<1>6. GuardsStay({})
  BY <1>2, <1>4, HostParts DEF GuardsStay, Active
<1>7. /\ projects' \in [Projects -> HostProject] /\ ProjectsFit' /\ ReposStay({})
      /\ \A p \in Projects, tree \in Roots \cup Trees \cup {None} : DirectoryStays(p, tree)
      /\ \A p \in Projects : projects'[p].assigned \subseteq projects[p].assigned /\ projects'[p].made = projects[p].made
  BY <1>2, WithoutIs
<1> QED BY <1>2, <1>3, <1>4, <1>5, <1>6, <1>7, AsideHolds DEF Made

LEMMA DeleteSessionHolds ==
  ASSUME HostInv, NEW c \in Clerks, NEW s \in Rooms, DeleteSession(c, s) PROVE HostInv'
<1> DEFINE r == [NoSession EXCEPT !.state = "gone"]
<1>1. r \in HostRoom /\ r.state = "gone"
  BY GoneIs
<1>2. /\ sessions' = [sessions EXCEPT ![s] = r] /\ projects' = Without(projects, s)
      /\ memo' = [memo EXCEPT !.begun = @ + 1] /\ lifecycle = Unheld /\ sessions[s].state = "archived"
      /\ guards[s] = Unheld /\ UNCHANGED <<dirs, lifecycle, guards, errands>>
  BY DEF DeleteSession, Removed, Alone, TakeLock
<1> HIDE DEF r
<1>3. MemoGrows /\ memo'.moved = memo.moved /\ memo'.rehung = memo.rehung /\ memo'.pruned = memo.pruned
  BY <1>2, MemoBegins
<1>4. sessions' \in [Rooms -> HostRoom] /\ sessions'[s] = r
      /\ \A x \in Rooms \ {s} : sessions'[x] = sessions[x] /\ RoomStays(x)
  BY <1>1, <1>2, RoomChanges
<1>5. /\ projects' \in [Projects -> HostProject] /\ ProjectsFit' /\ ReposStay({})
      /\ \A p \in Projects, tree \in Roots \cup Trees \cup {None} : DirectoryStays(p, tree)
      /\ \A p \in Projects : projects'[p].assigned \subseteq projects[p].assigned /\ projects'[p].made = projects[p].made
      /\ \A p \in Projects : \A a \in projects'[p].assigned : a.session # s
  BY <1>2, WithoutIs
<1>6. RoomStays(s)
  BY <1>1, <1>2, <1>4, <1>5 DEF RoomStays, Active, Lives
<1>7. GuardsStay({})
  BY <1>2, <1>4, HostParts DEF GuardsStay, Active
<1> QED BY <1>2, <1>3, <1>4, <1>5, <1>6, <1>7, AsideHolds DEF Made

LEMMA UnassignHolds ==
  ASSUME HostInv, NEW c \in Clerks, NEW p \in Projects, NEW s \in Rooms, Unassign(c, p, s) PROVE HostInv'
<1>1. /\ projects' = Without(projects, s) /\ memo' = [memo EXCEPT !.begun = @ + 1]
      /\ UNCHANGED <<sessions, dirs, lifecycle, guards, errands>>
  BY DEF Unassign, Alone, TakeLock
<1>2. MemoGrows /\ memo'.moved = memo.moved /\ memo'.rehung = memo.rehung /\ memo'.pruned = memo.pruned
  BY <1>1, MemoBegins
<1>3. /\ projects' \in [Projects -> HostProject] /\ ProjectsFit' /\ ReposStay({})
      /\ \A q \in Projects, tree \in Roots \cup Trees \cup {None} : DirectoryStays(q, tree)
      /\ \A q \in Projects : projects'[q].assigned \subseteq projects[q].assigned /\ projects'[q].made = projects[q].made
  BY <1>1, WithoutIs
<1>4. sessions' \in [Rooms -> HostRoom] /\ GuardsStay({}) /\ \A x \in Rooms : RoomStays(x)
  BY <1>1, HostParts, SessionsSame, GuardsSame
<1> QED BY <1>1, <1>2, <1>3, <1>4, AsideHolds DEF Made

LEMMA UnarchiveHolds ==
  ASSUME HostInv, NEW c \in Clerks, NEW s \in Rooms, Unarchive(c, s) PROVE HostInv'
<1> DEFINE r == [sessions[s] EXCEPT !.state = "active"]
<1>1. /\ sessions' = [sessions EXCEPT ![s] = r] /\ memo' = [memo EXCEPT !.begun = @ + 1] /\ lifecycle = Unheld
      /\ sessions[s].state = "archived" /\ guards[s] = Unheld
      /\ UNCHANGED <<projects, dirs, lifecycle, guards, errands>>
  BY HostParts DEF Unarchive, Alone, TakeLock
<1>2. r \in HostRoom /\ r.state = "active" /\ r.cwd = sessions[s].cwd
  BY HostParts DEF HostRoom
<1> HIDE DEF r
<1>3. MemoGrows /\ memo'.moved = memo.moved /\ memo'.rehung = memo.rehung /\ memo'.pruned = memo.pruned
  BY <1>1, MemoBegins
<1>4. sessions' \in [Rooms -> HostRoom] /\ sessions'[s] = r
      /\ \A x \in Rooms \ {s} : sessions'[x] = sessions[x] /\ RoomStays(x)
  BY <1>1, <1>2, RoomChanges
<1>5. RoomStays(s)
  BY <1>1, <1>2, <1>4 DEF RoomStays, Active, Lives
<1>6. GuardsStay({})
  BY <1>1, <1>4, HostParts DEF GuardsStay, Active
<1>7. /\ projects' \in [Projects -> HostProject] /\ ProjectsFit' /\ ReposStay({})
      /\ \A q \in Projects, tree \in Roots \cup Trees \cup {None} : DirectoryStays(q, tree)
      /\ \A q \in Projects : projects'[q].assigned \subseteq projects[q].assigned /\ (Made(q) => projects'[q].made = "yes")
  BY <1>1, HostParts, ProjectsSame
<1> QED BY <1>1, <1>3, <1>4, <1>5, <1>6, <1>7, AsideHolds

LEMMA UnloadHolds ==
  ASSUME HostInv, NEW s \in Rooms, Unload(s) PROVE HostInv'
<1> DEFINE r == [sessions[s] EXCEPT !.loaded = FALSE]
<1>1. /\ sessions' = [sessions EXCEPT ![s] = r] /\ guards[s] = Unheld
      /\ UNCHANGED <<projects, dirs, lifecycle, guards, errands, memo>>
  BY HostParts DEF Unload
<1>2. r \in HostRoom /\ r.state = sessions[s].state /\ r.cwd = sessions[s].cwd
  BY HostParts DEF HostRoom
<1> HIDE DEF r
<1>3. MemoGrows /\ memo'.moved = memo.moved /\ memo'.rehung = memo.rehung /\ memo'.pruned = memo.pruned
  BY <1>1, MemoSame
<1>4. sessions' \in [Rooms -> HostRoom] /\ sessions'[s] = r
      /\ \A x \in Rooms \ {s} : sessions'[x] = sessions[x] /\ RoomStays(x)
  BY <1>1, <1>2, RoomChanges
<1>5. RoomStays(s)
  BY <1>1, <1>2, <1>4 DEF RoomStays, Active, Lives
<1>6. GuardsStay({})
  BY <1>1, <1>4, HostParts DEF GuardsStay, Active
<1>7. /\ projects' \in [Projects -> HostProject] /\ ProjectsFit' /\ ReposStay({})
      /\ \A q \in Projects, tree \in Roots \cup Trees \cup {None} : DirectoryStays(q, tree)
      /\ \A q \in Projects : projects'[q].assigned \subseteq projects[q].assigned /\ (Made(q) => projects'[q].made = "yes")
  BY <1>1, HostParts, ProjectsSame
<1> QED BY <1>1, <1>3, <1>4, <1>5, <1>6, <1>7, AsideHolds

LEMMA DeleteProjectHolds ==
  ASSUME HostInv, NEW c \in Clerks, NEW p \in Projects, DeleteProject(c, p) PROVE HostInv'
<1> DEFINE q == [NoProject EXCEPT !.made = "gone"]
<1>1. q \in HostProject /\ q.made = "gone" /\ q.trees = {} /\ q.assigned = {} /\ q.primary = None
  BY DEF NoProject, HostProject, Spots
<1>2. /\ projects' = [projects EXCEPT ![p] = q] /\ memo' = [memo EXCEPT !.begun = @ + 1] /\ lifecycle = Unheld
      /\ Made(p) /\ UNCHANGED <<sessions, dirs, lifecycle, guards, errands>>
  BY DEF DeleteProject, Alone, TakeLock
<1> HIDE DEF q
<1>3. MemoGrows /\ memo'.moved = memo.moved /\ memo'.rehung = memo.rehung /\ memo'.pruned = memo.pruned
  BY <1>2, MemoBegins
<1>4. ProjectBecomes(p, q) /\ q.assigned \subseteq projects[p].assigned
  BY <1>1, <1>2 DEF ProjectBecomes, ValidProject
<1>5. /\ ProjectsFit' /\ projects' \in [Projects -> HostProject] /\ projects'[p] = q
      /\ \A r \in Projects : projects'[r].assigned \subseteq projects[r].assigned
      /\ \A r \in Projects \ {p} : projects'[r] = projects[r]
  BY <1>4, ProjectChanges
<1>6. ReposStay({})
  BY <1>1, <1>2, <1>5 DEF ReposStay, Made
<1>7. ASSUME NEW r \in Projects, NEW tree \in Roots \cup Trees \cup {None} PROVE DirectoryStays(r, tree)
  <2>1. CASE r # p
    <3>1. Directory(r, tree)' = Directory(r, tree)
      BY <1>5, <2>1 DEF Directory, Chosen
    <3> QED
      BY <3>1 DEF DirectoryStays
  <2>2. CASE r = p
    BY <1>1, <1>2, <1>5, <2>2 DEF DirectoryStays
  <2> QED
    BY <2>1, <2>2
<1>8. sessions' \in [Rooms -> HostRoom] /\ GuardsStay({}) /\ \A x \in Rooms : RoomStays(x)
  BY <1>2, HostParts, SessionsSame, GuardsSame
<1> QED BY <1>2, <1>3, <1>5, <1>6, <1>7, <1>8, AsideHolds

LEMMA DetachTreeHolds ==
  ASSUME HostInv, NEW c \in Clerks, NEW p \in Projects, NEW t \in Trees, DetachTree(c, p, t) PROVE HostInv'
<1> DEFINE left == projects[p].trees \ {t}
           q == [projects[p] EXCEPT !.trees = left]
<1>1. /\ projects[p] \in HostProject /\ ValidProject(projects[p]) /\ ProjectFits(p)
      /\ projects[p].trees \subseteq Roots \cup Trees /\ projects[p].primary \in Roots \cup {None}
  BY ProjectOf
<1>2. t \notin Roots /\ t # None /\ t \in projects[p].trees /\ Made(p) /\ Unowned(p, t) /\ lifecycle = Unheld
      /\ memo' = [memo EXCEPT !.begun = @ + 1] /\ UNCHANGED <<sessions, dirs, lifecycle, guards, errands>>
      /\ projects' = [projects EXCEPT ![p].trees = left]
  BY DirectoriesAssumption, PlacesAssumption DEF DetachTree, Alone, TakeLock
<1>3. left \in SUBSET (Roots \cup Trees) /\ left \cap Roots = projects[p].trees \cap Roots /\ t \notin left
      /\ \A d \in projects[p].trees : d # t => d \in left
  BY <1>1, <1>2
<1> HIDE DEF left
<1>4. /\ q \in HostProject /\ q.made = projects[p].made /\ q.trees = left /\ q.primary = projects[p].primary
      /\ q.assigned = projects[p].assigned /\ q.pwd = projects[p].pwd
  BY <1>1, <1>3 DEF HostProject
<1>5. projects' = [projects EXCEPT ![p] = q]
  BY <1>2, HostParts
<1> HIDE DEF q
<1>6. ValidProject(q)
  BY <1>1, <1>2, <1>3, <1>4 DEF ValidProject, Unowned
<1>7. ProjectBecomes(p, q) /\ q.assigned \subseteq projects[p].assigned
  BY <1>1, <1>2, <1>3, <1>4, <1>5, <1>6 DEF ProjectBecomes, ProjectFits, Made
<1>8. /\ ProjectsFit' /\ projects' \in [Projects -> HostProject] /\ projects'[p] = q
      /\ \A r \in Projects : projects'[r].assigned \subseteq projects[r].assigned
      /\ \A r \in Projects \ {p} : projects'[r] = projects[r]
  BY <1>7, ProjectChanges
<1>9. ReposStay({})
  BY <1>1, <1>2, <1>3, <1>4, <1>8 DEF ReposStay, Made, ProjectFits
<1>10. ASSUME NEW r \in Projects, NEW tree \in Roots \cup Trees \cup {None} PROVE DirectoryStays(r, tree)
  <2>1. CASE r # p
    <3>1. Directory(r, tree)' = Directory(r, tree)
      BY <1>8, <2>1 DEF Directory, Chosen
    <3> QED
      BY <3>1 DEF DirectoryStays
  <2>2. CASE r = p
    <3> SUFFICES ASSUME NEW a \in projects[p].assigned, a.tree = tree
                 PROVE  Directory(p, tree)' = Directory(p, tree)
      BY <1>2, <1>4, <1>8, <2>2 DEF DirectoryStays
    <3>1. tree # t
      BY <1>2 DEF Unowned
    <3>2. Chosen(p, tree) # t
      BY <1>1, <1>2, <3>1 DEF Chosen
    <3>3. projects'[p].trees = left /\ projects'[p].primary = projects[p].primary /\ projects'[p].pwd = projects[p].pwd
      BY <1>4, <1>8
    <3>4. Chosen(p, tree)' = Chosen(p, tree)
      BY <3>3 DEF Chosen
    <3>5. left \cap {Chosen(p, tree)} = projects[p].trees \cap {Chosen(p, tree)}
      BY <3>2 DEF left
    <3> QED
      BY <3>3, <3>4, <3>5 DEF Directory
  <2> QED
    BY <2>1, <2>2
<1>11. sessions' \in [Rooms -> HostRoom] /\ GuardsStay({}) /\ \A x \in Rooms : RoomStays(x)
  BY <1>2, HostParts, SessionsSame, GuardsSame
<1>12. MemoGrows /\ memo'.moved = memo.moved /\ memo'.rehung = memo.rehung /\ memo'.pruned = memo.pruned
  BY <1>2, MemoBegins
<1> QED BY <1>2, <1>8, <1>9, <1>10, <1>11, <1>12, AsideHolds

-----------------------------------------------------------------------------
(* Steps of the call that takes or holds the lock.                            *)
MemoKeeps ==
  /\ memo' \in HostMemo /\ memo.torn \subseteq memo'.torn /\ memo.misled \subseteq memo'.misled
  /\ memo'.rehung = memo.rehung /\ memo'.moved = memo.moved
Alones(c) == errands[c].pc \in Locked \/ lifecycle = Unheld

LEMMA KeptMemo ==
  ASSUME HostInv, MemoGrows, memo'.rehung = memo.rehung, memo'.moved = memo.moved
  PROVE  MemoKeeps
BY HostParts DEF MemoGrows, MemoKeeps

LEMMA SoundKept ==
  ASSUME HostInv, MemoKeeps
  PROVE  /\ Untorn' \subseteq Untorn /\ Sound' \subseteq Sound /\ Sound \subseteq Untorn /\ Sound' \subseteq Untorn'
         /\ Untorn \subseteq Rooms /\ \A s \in Rooms : s \in Untorn' <=> s \notin memo'.torn
BY HostParts, MemoIs DEF MemoKeeps, Untorn, Sound

LEMMA OthersUnlocked ==
  ASSUME HostInv, NEW c \in Clerks, Alones(c), OthersStay({c})
  PROVE  /\ {c} \in SUBSET Clerks
         /\ \A d \in Clerks \ {c} : errands[d].pc \notin Locked /\ errands'[d].pc \notin Locked
BY HostParts, HandIs DEF Alones, OthersStay

LEMMA InnerHolds ==
  ASSUME HostInv, NEW c \in Clerks, OthersStay({c}), Alones(c),
         projects' \in [Projects -> HostProject], sessions' \in [Rooms -> HostRoom],
         guards' = guards, lifecycle' \in Clerks \cup {Unheld}, dirs' \subseteq Spots, MemoKeeps,
         LockKept', ErrandFits(errands'[c]), errands'[c].pc \in Locked \cup {"idle"},
         GuardsStay({c}), ReposStay({c}), ProjectsFit', PrunedAreGone',
         ~memo.moved => \A s \in Rooms : Lives(s)' => There(sessions[s].cwd)',
         AssignedActive', AssignedAgree', InHand(c)', Seen(c)', WayBack(c)', Target(c)'
  PROVE  HostInv'
<1>1. /\ {c} \in SUBSET Clerks
      /\ \A d \in Clerks \ {c} : errands[d].pc \notin Locked /\ errands'[d].pc \notin Locked
  BY OthersUnlocked
<1>2. errands'[c].pc \notin {"register", "add", "list", "rehang", "refuge", "others"} /\ ~Loading(errands'[c])
  BY DEF Locked, Loading
<1>3. HostTypes'
  BY HostParts DEF HostTypes, OthersStay, MemoKeeps
<1>4. ErrandsFit' /\ LoadsGuard' /\ ReposFit'
  BY <1>1, <1>2, FitStays, LoadsStay, RegistersStay
<1>5. \A d \in Clerks \ {c} : InHand(d)' /\ Seen(d)' /\ WayBack(d)' /\ Target(d)'
  BY <1>1 DEF InHand, Seen, WayBack, Target, Locked
<1>6. HandsHold' /\ ScansHold' /\ PlacesHold'
  BY <1>5 DEF HandsHold, ScansHold, PlacesHold
<1>7. Still'
  BY <1>2, HostParts DEF Still, MemoKeeps, OthersStay
<1> QED BY <1>3, <1>4, <1>6, <1>7 DEF HostInv

(* The call's own step, which leaves sessions and projects alone.             *)
LEMMA InnerSameHolds ==
  ASSUME HostInv, NEW c \in Clerks, OthersStay({c}), Alones(c), UNCHANGED <<projects, sessions, guards>>,
         lifecycle' \in Clerks \cup {Unheld}, dirs' \subseteq Spots, MemoKeeps,
         LockKept', ErrandFits(errands'[c]), errands'[c].pc \in Locked \cup {"idle"}, PrunedAreGone',
         ~memo.moved => \A s \in Rooms : Lives(s)' => There(sessions[s].cwd)',
         errands[c].pc # "unassign",
         InHand(c)', Seen(c)', WayBack(c)', Target(c)',
         ~memo.moved /\ errands[c].pc \in {"assign", "undo"} /\ errands[c].s \in Sound' =>
           \/ errands'[c].pc \in {"assign", "undo"} /\ errands'[c].s = errands[c].s
           \/ \A p \in Projects : \A a \in projects[p].assigned : a.session = errands[c].s => Agrees(p, a)
  PROVE  HostInv'
<1>1. ProjectsFit' /\ ReposStay({c}) /\ GuardsStay({c})
  BY ProjectsSame, GuardsSame
<1>2. \A p \in Projects : \A tree : Directory(p, tree)' = Directory(p, tree)
  BY DEF Directory, Chosen
<1>3. \A d \in Clerks \ {c} : errands[d].pc \notin Locked /\ errands'[d].pc \notin Locked
  BY OthersUnlocked
<1>4. AssignedActive'
  <2> SUFFICES ASSUME NEW p \in Projects, NEW a \in projects[p].assigned, a.session \in Untorn'
               PROVE  Active(a.session)
    BY DEF AssignedActive, Active
  <2>1. a.session \in Untorn /\ \A d \in Clerks : ~Held(d, {"unassign"}, a.session)
    BY <1>3, SoundKept DEF Held, Locked
  <2> QED
    BY <2>1, HostParts DEF AssignedActive
<1>5. AssignedAgree'
  <2> SUFFICES ASSUME ~memo.moved, NEW p \in Projects, NEW a \in projects[p].assigned, a.session \in Sound'
               PROVE  \/ {sessions[a.session].cwd} = Directory(p, a.tree)
                      \/ \E d \in Clerks : errands'[d].pc \in {"assign", "undo"} /\ errands'[d].s = a.session
    BY <1>2 DEF AssignedAgree, Agrees, Held, MemoKeeps
  <2>1. a.session \in Sound /\ \A d \in Clerks \ {c} : ~Held(d, {"assign", "undo"}, a.session)
    BY <1>3, SoundKept DEF Held, Locked
  <2>2. Agrees(p, a) \/ Held(c, {"assign", "undo"}, a.session)
    BY <2>1, HostParts DEF PlacesHold, AssignedAgree
  <2> QED
    BY <2>2 DEF Held, Agrees
<1> QED BY <1>1, <1>4, <1>5, InnerHolds, HostParts

LEMMA NobodyHolds ==
  ASSUME HostInv, lifecycle = Unheld, NEW p \in Projects, NEW a \in projects[p].assigned
  PROVE  /\ a.session \in Untorn => Active(a.session)
         /\ ~memo.moved /\ a.session \in Sound => Agrees(p, a)
<1>1. \A c \in Clerks : errands[c].pc \notin Locked
  BY HandIs
<1> QED BY <1>1, HostParts DEF AssignedActive, PlacesHold, AssignedAgree, Held, Locked

LEMMA ChosenIs ==
  ASSUME HostInv, NEW p \in Projects, NEW tree, NEW d \in Directory(p, tree)
  PROVE  Directory(p, Chosen(p, tree)) = {d}
<1>1. CASE Chosen(p, tree) = None
  <2>1. tree = None /\ projects[p].primary = None /\ d = projects[p].pwd
    BY <1>1 DEF Chosen, Directory
  <2> QED
    BY <1>1, <2>1 DEF Chosen, Directory
<1>2. CASE Chosen(p, tree) # None
  <2>1. d = Chosen(p, tree) /\ d \in projects[p].trees
    BY <1>2 DEF Directory
  <2>2. Chosen(p, d) = d
    BY <1>2, <2>1 DEF Chosen
  <2> QED
    BY <1>2, <2>1, <2>2 DEF Directory
<1> QED BY <1>1, <1>2

(* Nothing there, or a session's own directory, is a worktree git removed.    *)
LEMMA ThereIsNotPruned ==
  ASSUME HostInv, NEW d, There(d) PROVE d \notin memo.pruned
BY HostParts, MemoIs, StillIs, PlacesAssumption DEF There

LEMMA LockTakes ==
  ASSUME HostInv, NEW c \in Clerks, NEW e \in HostErrand, errands[c].pc = "idle",
         errands' = [errands EXCEPT ![c] = e], e.pc \in Locked, lifecycle = Unheld, lifecycle' = c
  PROVE  OthersStay({c}) /\ errands'[c] = e /\ Alones(c) /\ LockKept' /\ lifecycle' \in Clerks \cup {Unheld}
<1>1. OthersStay({c}) /\ errands'[c] = e
  BY HostParts DEF OthersStay
<1> QED BY <1>1, LockTaken DEF Alones

LEMMA LockLeaves ==
  ASSUME HostInv, NEW c \in Clerks, errands[c].pc \in Locked, Leave(c)
  PROVE  /\ OthersStay({c}) /\ errands'[c] = NoErrand /\ Alones(c) /\ LockKept'
         /\ lifecycle' \in Clerks \cup {Unheld} /\ ErrandFits(errands'[c]) /\ errands'[c].pc = "idle"
         /\ errands'[c].pc \in Locked \cup {"idle"}
         /\ InHand(c)' /\ Seen(c)' /\ WayBack(c)' /\ Target(c)'
<1>1. /\ OthersStay({c}) /\ errands'[c] = NoErrand /\ ErrandFits(errands'[c])
      /\ errands'[c].pc = "idle" /\ "idle" \notin Locked /\ lifecycle' = Unheld
  BY Finished, NoErrandIs DEF Leave, Locked
<1>2. LockKept'
  BY <1>1, LockLeft
<1>3. InHand(c)' /\ Seen(c)' /\ WayBack(c)' /\ Target(c)'
  BY <1>1 DEF InHand, Seen, WayBack, Target
<1> QED BY <1>1, <1>2, <1>3 DEF Alones

LEMMA LockGoesOn ==
  ASSUME HostInv, NEW c \in Clerks, NEW pc \in Locked, errands[c].pc \in Locked, Turn(c, pc), lifecycle' = lifecycle
  PROVE  /\ OthersStay({c}) /\ Alones(c) /\ LockKept' /\ lifecycle' \in Clerks \cup {Unheld}
         /\ errands'[c].pc = pc /\ errands'[c].s = errands[c].s /\ errands'[c].p = errands[c].p
         /\ errands'[c].dir = errands[c].dir /\ errands'[c].was = errands[c].was
         /\ errands'[c].tree = errands[c].tree /\ errands'[c].fresh = errands[c].fresh
<1>1. pc \in ErrandSteps
  BY DEF ErrandSteps
<1>2. /\ OthersStay({c})
      /\ errands'[c].pc = pc /\ errands'[c].s = errands[c].s /\ errands'[c].p = errands[c].p
      /\ errands'[c].dir = errands[c].dir /\ errands'[c].was = errands[c].was
      /\ errands'[c].tree = errands[c].tree /\ errands'[c].fresh = errands[c].fresh
  BY <1>1, TurnDoes DEF OthersStay
<1>3. LockKept'
  BY <1>2, LockHeldOn
<1> QED BY <1>2, <1>3, HostParts DEF Alones

(* Where nobody moves and nothing goes, what was said of places still holds.  *)
LEMMA PlacesAsTheyWere ==
  ASSUME HostInv, UNCHANGED <<sessions, dirs>>, MemoKeeps, memo'.pruned = memo.pruned
  PROVE  /\ dirs' \subseteq Spots /\ PrunedAreGone'
         /\ ~memo.moved => \A s \in Rooms : Lives(s)' => There(sessions[s].cwd)'
<1>1. PrunedAreGone'
  BY HostParts DEF PrunedAreGone, PrunedIsEmpty, MemoKeeps
<1>2. ~memo.moved => \A s \in Rooms : Lives(s)' => There(sessions[s].cwd)'
  BY HostParts DEF Still, Lives, There
<1> QED BY <1>1, <1>2, HostParts

-----------------------------------------------------------------------------
LEMMA BeginAssignHolds ==
  ASSUME HostInv, NEW c \in Clerks, NEW s \in Rooms, NEW p \in Projects,
         NEW tree \in Trees \cup Repos \cup {None}, BeginAssign(c, s, p, tree)
  PROVE  HostInv'
<1> DEFINE inherits == ~(tree # None \/ Owners(s) = {})
           kept == IF tree # None \/ Owners(s) = {} THEN tree ELSE (CHOOSE a \in AssignmentsOf(s) : TRUE).tree
<1>1. kept \in Roots \cup Trees \cup {None}
  <2>1. CASE tree # None \/ Owners(s) = {}
    BY <2>1, DirectoriesAssumption
  <2>2. CASE ~(tree # None \/ Owners(s) = {})
    <3>1. \E a \in AssignmentsOf(s) : TRUE
      BY <2>2 DEF AssignmentsOf, Owners
    <3>2. (CHOOSE a \in AssignmentsOf(s) : TRUE) \in AssignmentsOf(s)
      BY <3>1
    <3>3. \A a \in AssignmentsOf(s) : a.tree \in Roots \cup Trees \cup {None}
      BY AssignedIs, SMTT(30) DEF AssignmentsOf
    <3> QED
      BY <2>2, <3>2, <3>3
  <2> QED
    BY <2>1, <2>2
<1>2. PICK d \in Directory(p, kept) :
        errands' = [errands EXCEPT ![c] = [NoErrand EXCEPT !.pc = "place", !.s = s, !.p = p, !.dir = d,
                      !.was = sessions[s].cwd, !.tree = Chosen(p, kept)]]
  BY DEF BeginAssign
<1> HIDE DEF kept
<1>3. Chosen(p, kept) \in Roots \cup Trees \cup {None} /\ d \in Spots /\ Directory(p, Chosen(p, kept)) = {d}
  BY <1>1, ChosenIs, DirectoryIs, ProjectOf DEF Chosen
<1>4. PICK chosen \in Roots \cup Trees \cup {None} :
        /\ errands' = [errands EXCEPT ![c] = [NoErrand EXCEPT !.pc = "place", !.s = s, !.p = p, !.dir = d,
                        !.was = sessions[s].cwd, !.tree = chosen]]
        /\ Directory(p, chosen) = {d}
  BY <1>2, <1>3
<1> DEFINE e == [NoErrand EXCEPT !.pc = "place", !.s = s, !.p = p, !.dir = d, !.was = sessions[s].cwd, !.tree = chosen]
<1>5. /\ e \in HostErrand /\ e.pc = "place" /\ e.s = s /\ e.p = p /\ e.dir = d /\ e.was = sessions[s].cwd
      /\ e.tree = chosen /\ e.fresh = FALSE
  BY <1>3, <1>4, NoErrandIs, HostParts, RoomIs DEF HostErrand, ErrandSteps, Locked
<1>6. errands' = [errands EXCEPT ![c] = e]
  BY <1>4
<1> HIDE DEF e
<1>7. /\ errands[c].pc = "idle" /\ lifecycle = Unheld /\ lifecycle' = c /\ Active(s) /\ Made(p)
      /\ memo' = [memo EXCEPT !.begun = @ + 1] /\ UNCHANGED <<projects, sessions, dirs, guards>>
  BY DEF BeginAssign, Alone, TakeLock, OnErrand
<1>8. OthersStay({c}) /\ errands'[c] = e /\ Alones(c) /\ LockKept' /\ lifecycle' \in Clerks \cup {Unheld}
  BY <1>5, <1>6, <1>7, LockTakes DEF Locked
<1>9. MemoKeeps /\ memo'.pruned = memo.pruned /\ memo'.moved = memo.moved
  BY <1>7, MemoBegins, KeptMemo
<1>10. /\ dirs' \subseteq Spots /\ PrunedAreGone'
       /\ ~memo.moved => \A x \in Rooms : Lives(x)' => There(sessions[x].cwd)'
  BY <1>7, <1>9, PlacesAsTheyWere
<1>11. InHand(c)' /\ Seen(c)'
  BY <1>5, <1>7, <1>8 DEF InHand, Seen, Active, Made
<1>12. Directory(p, chosen)' = {d} /\ \A q \in Projects : \A x : Directory(q, x)' = Directory(q, x)
  BY <1>4, <1>7 DEF Directory, Chosen
<1>13. Target(c)'
  BY <1>5, <1>8, <1>12 DEF Target
<1>14. WayBack(c)'
  <2> SUFFICES ASSUME ~memo.moved
               PROVE  /\ There(sessions[s].cwd)
                      /\ s \in Sound' =>
                           \A q \in Projects : \A a \in projects[q].assigned :
                             a.session = s => Directory(q, a.tree) = {sessions[s].cwd}
    BY <1>5, <1>7, <1>8, <1>9, <1>12 DEF WayBack, There
  <2>1. There(sessions[s].cwd)
    BY <1>7, HostParts DEF Still, Lives, Active
  <2>2. Sound' \subseteq Sound
    BY <1>9, SoundKept
  <2> QED
    BY <1>7, <2>1, <2>2, NobodyHolds DEF Agrees
<1>15. ErrandFits(e) /\ e.pc \in Locked
  BY <1>5 DEF ErrandFits, Locked
<1> QED BY <1>7, <1>8, <1>9, <1>10, <1>11, <1>13, <1>14, <1>15, InnerSameHolds

LEMMA BeginCreateHolds ==
  ASSUME HostInv, NEW c \in Clerks, NEW s \in Rooms, NEW p \in Projects \cup {None}, NEW d \in Spots,
         NEW tree \in Roots \cup Trees \cup {None}, NEW misled \in SUBSET Rooms,
         BeginCreate(c, s, p, d, tree, misled), p # None => Made(p),
         ~memo.moved /\ p # None /\ s \notin misled => Directory(p, tree) = {d}
  PROVE  HostInv'
<1> DEFINE e == [NoErrand EXCEPT !.pc = "make", !.s = s, !.p = p, !.dir = d, !.tree = tree, !.fresh = TRUE]
           all == memo.misled \cup misled
           n == memo.begun + 1
<1>1. /\ e \in HostErrand /\ e.pc = "make" /\ e.s = s /\ e.p = p /\ e.dir = d /\ e.tree = tree /\ e.fresh = TRUE
  BY NoErrandIs DEF HostErrand, ErrandSteps, Locked
<1>2. /\ errands[c].pc = "idle" /\ lifecycle = Unheld /\ lifecycle' = c /\ sessions[s].state = "absent"
      /\ memo' = [memo EXCEPT !.begun = n, !.misled = all] /\ UNCHANGED <<projects, sessions, dirs, guards>>
      /\ errands' = [errands EXCEPT ![c] = e]
  BY DEF BeginCreate, OnErrand
<1>3. all \in SUBSET Rooms /\ n \in Nat /\ memo \in HostMemo
  BY HostParts, MemoIs
<1> HIDE DEF e, all, n
<1>4. /\ memo' \in HostMemo /\ memo'.torn = memo.torn /\ memo'.misled = all /\ memo'.rehung = memo.rehung
      /\ memo'.moved = memo.moved /\ memo'.pruned = memo.pruned
  BY <1>2, <1>3 DEF HostMemo
<1>5. MemoKeeps /\ misled \subseteq memo'.misled
  BY <1>4 DEF MemoKeeps, all
<1>6. OthersStay({c}) /\ errands'[c] = e /\ Alones(c) /\ LockKept' /\ lifecycle' \in Clerks \cup {Unheld}
  BY <1>1, <1>2, LockTakes DEF Locked
<1>7. /\ dirs' \subseteq Spots /\ PrunedAreGone'
      /\ ~memo.moved => \A x \in Rooms : Lives(x)' => There(sessions[x].cwd)'
  BY <1>2, <1>4, <1>5, PlacesAsTheyWere
<1>8. s \in Untorn' => Owners(s)' = {}
  <2>1. s \in Untorn' => s \in Untorn
    BY <1>5, SoundKept
  <2>2. s \in Untorn => Owners(s) = {}
    BY <1>2, NobodyHolds DEF Owners, Active
  <2> QED
    BY <1>2, <2>1, <2>2 DEF Owners
<1>9. InHand(c)' /\ Seen(c)' /\ WayBack(c)'
  BY <1>1, <1>2, <1>6, <1>8 DEF InHand, Seen, WayBack, Made
<1>10. Target(c)'
  <2> SUFFICES ASSUME ~memo.moved, s \in Sound', p # None
               PROVE  Directory(p, tree)' = {d}
    BY <1>1, <1>4, <1>6 DEF Target
  <2>1. s \notin misled
    BY <1>5 DEF Sound
  <2> QED
    BY <1>2, <2>1 DEF Directory, Chosen
<1>11. ErrandFits(e) /\ e.pc \in Locked
  BY <1>1 DEF ErrandFits, Locked
<1> QED BY <1>2, <1>5, <1>6, <1>7, <1>9, <1>10, <1>11, InnerSameHolds

LEMMA CreateInProjectHolds ==
  ASSUME HostInv, NEW c \in Clerks, NEW s \in Rooms, NEW p \in Projects,
         NEW tree \in Trees \cup Repos \cup {None}, CreateInProject(c, s, p, tree)
  PROVE  HostInv'
<1>1. PICK d \in Directory(p, tree) : BeginCreate(c, s, p, d, Chosen(p, tree), {})
  BY DEF CreateInProject
<1>2. /\ Chosen(p, tree) \in Roots \cup Trees \cup {None} /\ d \in Spots /\ Made(p)
      /\ Directory(p, Chosen(p, tree)) = {d} /\ {} \in SUBSET Rooms
  BY ChosenIs, DirectoryIs, ProjectOf, DirectoriesAssumption DEF Chosen, CreateInProject
<1> QED BY <1>1, <1>2, BeginCreateHolds

LEMMA CreateAloneHolds ==
  ASSUME HostInv, NEW c \in Clerks, NEW s \in Rooms, CreateAlone(c, s)
  PROVE  HostInv'
<1>1. PICK d \in dirs \cup {Own(s)} : BeginCreate(c, s, None, d, None, {})
  BY DEF CreateAlone
<1>2. d \in Spots /\ {} \in SUBSET Rooms
  BY HostParts, OwnIsASpot
<1> QED BY <1>1, <1>2, BeginCreateHolds

LEMMA CreateFromHolds ==
  ASSUME HostInv, NEW c \in Clerks, NEW s \in Rooms, NEW source \in Rooms, NEW forks \in BOOLEAN,
         CreateFrom(c, s, source, forks)
  PROVE  HostInv'
<1> DEFINE d == IF forks /\ sessions[source].cwd = Own(source) THEN Own(s) ELSE sessions[source].cwd
<1>1. d \in Spots /\ {} \in SUBSET Rooms /\ {s} \in SUBSET Rooms
  BY OwnIsASpot, HostParts, RoomIs
<1>2. CASE BeginCreate(c, s, None, d, None, {})
  BY <1>1, <1>2, BeginCreateHolds
<1>3. ASSUME NEW p \in Owners(source), NEW a \in AssignmentsOf(source),
             BeginCreate(c, s, p, d, a.tree, IF source \in Untorn \ memo.misled THEN {} ELSE {s})
      PROVE  HostInv'
  <2> DEFINE misled == IF source \in Untorn \ memo.misled THEN {} ELSE {s}
  <2>1. p \in Projects /\ a \in projects[p].assigned /\ a.session = source
    BY HostParts DEF Owners, AssignmentsOf, ProjectsFit, OneProject
  <2>2. Made(p) /\ a.tree \in Roots \cup Trees \cup {None} /\ misled \in SUBSET Rooms
    BY <2>1, AssignedIs
  <2>3. ASSUME ~memo.moved, s \notin misled PROVE Directory(p, a.tree) = {d}
    <3>1. source \in Sound /\ lifecycle = Unheld
      BY <1>3, <2>3 DEF Sound, BeginCreate
    <3>2. {sessions[source].cwd} = Directory(p, a.tree)
      BY <2>1, <2>3, <3>1, NobodyHolds DEF Agrees
    <3>3. sessions[source].cwd \in Roots \cup Trees \cup {Refuge(p)}
      BY <2>1, <2>2, <3>2, ProjectOf DEF Directory, ProjectFits
    <3>4. Own(source) \notin Roots \cup Trees /\ Own(source) # Refuge(p)
      BY PlacesAssumption DEF Own, Refuge
    <3> QED
      BY <3>2, <3>3, <3>4
  <2>4. BeginCreate(c, s, p, d, a.tree, misled)
    BY <1>3
  <2> HIDE DEF misled, d
  <2> QED
    BY <1>1, <2>1, <2>2, <2>3, <2>4, BeginCreateHolds
<1> QED BY <1>2, <1>3 DEF CreateFrom

LEMMA RemoveTreeHolds ==
  ASSUME HostInv, NEW c \in Clerks, NEW p \in Projects, NEW t \in Trees, RemoveTree(c, p, t)
  PROVE  HostInv'
<1> DEFINE e == [NoErrand EXCEPT !.pc = "active", !.p = p, !.tree = t]
<1>1. e \in HostErrand /\ e.pc = "active" /\ e.p = p /\ e.tree = t
  BY NoErrandIs DEF HostErrand, ErrandSteps, Locked
<1>2. /\ errands[c].pc = "idle" /\ lifecycle = Unheld /\ lifecycle' = c
      /\ memo' = [memo EXCEPT !.begun = @ + 1] /\ UNCHANGED <<projects, sessions, dirs, guards>>
      /\ errands' = [errands EXCEPT ![c] = e]
  BY DEF RemoveTree, Alone, TakeLock, OnErrand
<1> HIDE DEF e
<1>3. MemoKeeps /\ memo'.pruned = memo.pruned
  BY <1>2, MemoBegins, KeptMemo
<1>4. OthersStay({c}) /\ errands'[c] = e /\ Alones(c) /\ LockKept' /\ lifecycle' \in Clerks \cup {Unheld}
  BY <1>1, <1>2, LockTakes DEF Locked
<1>5. /\ dirs' \subseteq Spots /\ PrunedAreGone'
      /\ ~memo.moved => \A x \in Rooms : Lives(x)' => There(sessions[x].cwd)'
  BY <1>2, <1>3, PlacesAsTheyWere
<1>6. InHand(c)' /\ Seen(c)' /\ WayBack(c)' /\ Target(c)'
  BY <1>1, <1>4 DEF InHand, Seen, WayBack, Target
<1>7. ErrandFits(e) /\ e.pc \in Locked
  BY <1>1 DEF ErrandFits, Locked
<1> QED BY <1>2, <1>3, <1>4, <1>5, <1>6, <1>7, InnerSameHolds

LEMMA ScanTreeHolds ==
  ASSUME HostInv, NEW c \in Clerks,
         ScanTree(c, "active", "archived") \/ ScanTree(c, "archived", "prune")
  PROVE  HostInv'
<1>1. /\ UNCHANGED <<projects, sessions, dirs, guards, memo>> /\ errands[c].pc \in {"active", "archived"}
      /\ errands[c].pc \in Locked /\ errands[c].p \in Projects /\ errands[c].tree \in Trees
  BY HostParts DEF ScanTree, OnErrand, Locked, ErrandsFit, ErrandFits
<1>2. MemoKeeps /\ memo'.pruned = memo.pruned
  BY <1>1, MemoSame, KeptMemo
<1>3. /\ dirs' \subseteq Spots /\ PrunedAreGone'
      /\ ~memo.moved => \A x \in Rooms : Lives(x)' => There(sessions[x].cwd)'
  BY <1>1, <1>2, PlacesAsTheyWere
<1>4. CASE Leave(c)
  <2>1. /\ OthersStay({c}) /\ Alones(c) /\ LockKept'
        /\ lifecycle' \in Clerks \cup {Unheld} /\ ErrandFits(errands'[c]) /\ errands'[c].pc = "idle"
        /\ InHand(c)' /\ Seen(c)' /\ WayBack(c)' /\ Target(c)'
    BY <1>1, <1>4, LockLeaves
  <2> QED
    BY <1>1, <1>2, <1>3, <2>1, InnerSameHolds
<1>5. ASSUME NEW state \in {"active", "archived"}, NEW next \in {"archived", "prune"}, Turn(c, next), lifecycle' = lifecycle,
             errands[c].pc = state, state = "active" <=> next = "archived",
             \A s \in Rooms : ~(sessions[s].state = state /\ sessions[s].cwd = errands[c].tree)
      PROVE  HostInv'
  <2>1. /\ OthersStay({c}) /\ Alones(c) /\ LockKept' /\ lifecycle' \in Clerks \cup {Unheld}
        /\ errands'[c].pc = next /\ errands'[c].p = errands[c].p /\ errands'[c].tree = errands[c].tree
    BY <1>1, <1>5, LockGoesOn DEF Locked
  <2>2. ErrandFits(errands'[c]) /\ errands'[c].pc \in Locked
    BY <1>1, <2>1 DEF ErrandFits, Locked
  <2>3. InHand(c)' /\ WayBack(c)' /\ Target(c)'
    BY <2>1 DEF InHand, WayBack, Target
  <2>4. Seen(c)'
    BY <1>1, <1>5, <2>1, HostParts DEF ScansHold, Seen, Active, Lives
  <2> QED
    BY <1>1, <1>2, <1>3, <2>1, <2>2, <2>3, <2>4, InnerSameHolds
<1>6. CASE ScanTree(c, "active", "archived")
  BY <1>4, <1>5, <1>6 DEF ScanTree, OnErrand
<1>7. CASE ScanTree(c, "archived", "prune")
  BY <1>4, <1>5, <1>7 DEF ScanTree, OnErrand
<1> QED BY <1>6, <1>7

LEMMA PruneTreeHolds ==
  ASSUME HostInv, NEW c \in Clerks, PruneTree(c), NEW t \in Trees, errands[c].tree = t
  PROVE  HostInv'
<1>1. /\ UNCHANGED <<projects, sessions, guards>> /\ errands[c].pc = "prune" /\ errands[c].pc \in Locked
      /\ errands[c].p \in Projects
  BY HostParts DEF PruneTree, OnErrand, Locked, ErrandsFit, ErrandFits
<1>2. CASE Leave(c) /\ UNCHANGED <<dirs, memo>>
  <2>1. /\ OthersStay({c}) /\ Alones(c) /\ LockKept'
        /\ lifecycle' \in Clerks \cup {Unheld} /\ ErrandFits(errands'[c]) /\ errands'[c].pc = "idle"
        /\ InHand(c)' /\ Seen(c)' /\ WayBack(c)' /\ Target(c)'
    BY <1>1, <1>2, LockLeaves
  <2>2. MemoKeeps /\ memo'.pruned = memo.pruned
    BY <1>2, MemoSame, KeptMemo
  <2>3. /\ dirs' \subseteq Spots /\ PrunedAreGone'
        /\ ~memo.moved => \A x \in Rooms : Lives(x)' => There(sessions[x].cwd)'
    BY <1>1, <1>2, <2>2, PlacesAsTheyWere
  <2> QED
    BY <1>1, <2>1, <2>2, <2>3, InnerSameHolds
<1>3. CASE /\ dirs' = dirs \ {t} /\ memo' = [memo EXCEPT !.pruned = @ \cup {t}]
           /\ Turn(c, "forget") /\ lifecycle' = lifecycle
  <2>1. /\ OthersStay({c}) /\ Alones(c) /\ LockKept' /\ lifecycle' \in Clerks \cup {Unheld}
        /\ errands'[c].pc = "forget" /\ errands'[c].p = errands[c].p /\ errands'[c].tree = errands[c].tree
    BY <1>1, <1>3, LockGoesOn DEF Locked
  <2>2. ErrandFits(errands'[c]) /\ errands'[c].pc \in Locked
    BY <1>1, <2>1 DEF ErrandFits, Locked
  <2>3. InHand(c)' /\ WayBack(c)' /\ Target(c)' /\ Seen(c)'
    BY <2>1 DEF InHand, WayBack, Target, Seen
  <2> DEFINE all == memo.pruned \cup {t}
  <2>4. memo' = [memo EXCEPT !.pruned = all] /\ all \in SUBSET Trees /\ memo \in HostMemo
    BY <1>3, HostParts, MemoIs
  <2> HIDE DEF all
  <2>5. /\ memo' \in HostMemo /\ memo'.torn = memo.torn /\ memo'.misled = memo.misled /\ memo'.rehung = memo.rehung
        /\ memo'.moved = memo.moved /\ memo'.pruned = all
    BY <2>4 DEF HostMemo
  <2>6. MemoKeeps
    BY <2>5 DEF MemoKeeps
  <2>7. \A s \in Rooms \ memo.rehung : Lives(s) => sessions[s].cwd # t
    BY <1>1, HostParts DEF ScansHold, Seen
  <2>8. PrunedAreGone'
    <3>1. memo'.pruned \cap dirs' = {}
      BY <1>3, <2>5, StillIs DEF all
    <3>2. ASSUME NEW s \in Rooms \ memo.rehung, NEW d \in all, Lives(s) PROVE sessions[s].cwd # d
      BY <2>7, <3>2, HostParts DEF all, PrunedAreGone, PrunedIsEmpty, Lives
    <3> QED
      BY <1>1, <2>5, <3>1, <3>2 DEF PrunedAreGone, PrunedIsEmpty, Lives
  <2>9. ~memo.moved => \A x \in Rooms : Lives(x)' => There(sessions[x].cwd)'
    <3> SUFFICES ASSUME ~memo.moved, NEW x \in Rooms, Lives(x) PROVE There(sessions[x].cwd)'
      BY <1>1 DEF Lives
    <3>1. There(sessions[x].cwd) /\ sessions[x].cwd # t
      BY <2>7, HostParts DEF Still
    <3> QED
      BY <1>1, <1>3, <3>1 DEF There
  <2>10. dirs' \subseteq Spots
    BY <1>3, HostParts
  <2> QED
    BY <1>1, <2>1, <2>2, <2>3, <2>6, <2>8, <2>9, <2>10, InnerSameHolds
<1> QED BY <1>2, <1>3 DEF PruneTree

-----------------------------------------------------------------------------
(* The step of the lock's holder that changes its session, and may take it    *)
(* out of its project.                                                        *)
RoomStep(c, s, r) ==
  /\ r \in HostRoom /\ sessions' = [sessions EXCEPT ![s] = r]
  /\ projects' = projects \/ projects' = Without(projects, s)
  /\ guards[s] = Unheld \/ (Active(s) => r.state = "active")
  /\ r.state \in {"active", "archived"} => There(r.cwd) \/ (r.cwd = sessions[s].cwd /\ Lives(s))
  /\ \A p \in Projects : \A a \in projects'[p].assigned : a.session = s /\ s \in Untorn' =>
       r.state = "active" \/ (errands'[c].pc = "unassign" /\ errands'[c].s = s)
  /\ ~memo.moved => \A p \in Projects : \A a \in projects'[p].assigned : a.session = s /\ s \in Sound' =>
       {r.cwd} = Directory(p, a.tree) \/ (errands'[c].pc \in {"assign", "undo"} /\ errands'[c].s = s)

LEMMA InnerRoomHolds ==
  ASSUME HostInv, NEW c \in Clerks, OthersStay({c}), Alones(c), NEW s \in Rooms, NEW r, RoomStep(c, s, r),
         guards' = guards, dirs' = dirs, LockKept', lifecycle' \in Clerks \cup {Unheld},
         MemoKeeps, memo'.pruned = memo.pruned,
         ErrandFits(errands'[c]), errands'[c].pc \in Locked \cup {"idle"},
         errands[c].pc \in Locked => errands[c].s = s,
         InHand(c)', Seen(c)', WayBack(c)', Target(c)'
  PROVE  HostInv'
<1> USE DEF RoomStep
<1>1. sessions' \in [Rooms -> HostRoom] /\ sessions'[s] = r
      /\ \A x \in Rooms \ {s} : sessions'[x] = sessions[x]
  BY RoomChanges
<1>2. /\ projects' \in [Projects -> HostProject] /\ ProjectsFit' /\ ReposStay({c})
      /\ \A p \in Projects : projects'[p].assigned \subseteq projects[p].assigned
      /\ \A p \in Projects : \A tree : Directory(p, tree)' = Directory(p, tree)
  <2>1. CASE projects' = projects
    BY <2>1, HostParts, ProjectsSame DEF Directory, Chosen
  <2>2. CASE projects' = Without(projects, s)
    BY <2>2, WithoutIs
  <2> QED
    BY <2>1, <2>2
<1>3. GuardsStay({c})
  BY <1>1, HostParts DEF GuardsStay, Active
<1>4. \A d \in Clerks \ {c} : errands[d].pc \notin Locked /\ errands'[d].pc \notin Locked
  BY OthersUnlocked
<1>5. PrunedAreGone'
  <2>1. memo'.pruned \cap dirs' = {}
    BY StillIs
  <2>2. ASSUME NEW x \in Rooms \ memo.rehung, NEW t \in memo.pruned, sessions'[x].state \in {"active", "archived"}
        PROVE  sessions'[x].cwd # t
    <3>1. CASE There(sessions'[x].cwd)
      BY <3>1, ThereIsNotPruned
    <3>2. CASE ~There(sessions'[x].cwd)
      <4>1. sessions'[x].cwd = sessions[x].cwd /\ Lives(x)
        BY <1>1, <2>2, <3>2 DEF Lives
      <4> QED
        BY <4>1, HostParts DEF PrunedAreGone, PrunedIsEmpty, Lives
    <3> QED
      BY <3>1, <3>2
  <2> QED
    BY <2>1, <2>2 DEF PrunedAreGone, PrunedIsEmpty, MemoKeeps
<1>6. ~memo.moved => \A x \in Rooms : Lives(x)' => There(sessions[x].cwd)'
  <2> SUFFICES ASSUME ~memo.moved, NEW x \in Rooms, sessions'[x].state \in {"active", "archived"}
               PROVE  There(sessions'[x].cwd)
    BY DEF Lives, There
  <2> QED
    BY <1>1, HostParts DEF Still, Lives
<1>7. AssignedActive'
  <2> SUFFICES ASSUME NEW p \in Projects, NEW a \in projects'[p].assigned, a.session \in Untorn', a.session # s
               PROVE  sessions'[a.session].state = "active"
    BY <1>1 DEF AssignedActive, Active, Held
  <2>1. a \in projects[p].assigned /\ a.session \in Untorn
    BY <1>2, SoundKept
  <2>2. \A d \in Clerks : ~Held(d, {"unassign"}, a.session)
    BY <1>4 DEF Held, Locked
  <2> QED
    BY <1>1, <2>1, <2>2, HostParts, AssignedIs DEF AssignedActive, Active
<1>8. AssignedAgree'
  <2> SUFFICES ASSUME ~memo.moved, NEW p \in Projects, NEW a \in projects'[p].assigned, a.session \in Sound'
               PROVE  \/ {sessions'[a.session].cwd} = Directory(p, a.tree)
                      \/ errands'[c].pc \in {"assign", "undo"} /\ errands'[c].s = a.session
    BY <1>2 DEF AssignedAgree, Agrees, Held, MemoKeeps
  <2> SUFFICES ASSUME a.session # s
               PROVE  {sessions'[a.session].cwd} = Directory(p, a.tree)
    BY <1>1
  <2>1. a \in projects[p].assigned /\ a.session \in Sound
    BY <1>2, SoundKept
  <2>2. \A d \in Clerks : ~Held(d, {"assign", "undo"}, a.session)
    BY <1>4 DEF Held, Locked
  <2> QED
    BY <1>1, <2>1, <2>2, HostParts, AssignedIs DEF PlacesHold, AssignedAgree, Agrees
<1> QED BY <1>1, <1>2, <1>3, <1>5, <1>6, <1>7, <1>8, InnerHolds, HostParts

LEMMA MemoAsItIs ==
  ASSUME HostInv, memo' = memo
  PROVE  MemoKeeps /\ memo'.pruned = memo.pruned /\ memo'.torn = memo.torn
BY MemoSame, KeptMemo

LEMMA MemoTorn ==
  ASSUME HostInv, NEW torn \in SUBSET (Rooms \cup {None}), Mishap(torn)
  PROVE  MemoKeeps /\ memo'.pruned = memo.pruned /\ memo'.torn = memo.torn \cup torn
BY MemoTears, KeptMemo

LEMMA DirectorySame ==
  ASSUME projects' = projects
  PROVE  \A p : \A tree : Directory(p, tree)' = Directory(p, tree)
BY DEF Directory, Chosen

LEMMA ArchiveHolds ==
  ASSUME HostInv, NEW c \in Clerks, NEW s \in Rooms, Archive(c, s)
  PROVE  HostInv'
<1> DEFINE e == [NoErrand EXCEPT !.pc = "unassign", !.s = s]
           r == [sessions[s] EXCEPT !.state = "archived", !.loaded = FALSE]
<1>1. e \in HostErrand /\ e.pc = "unassign" /\ e.s = s
  BY NoErrandIs DEF HostErrand, ErrandSteps, Locked
<1>2. r \in HostRoom /\ r.state = "archived" /\ r.cwd = sessions[s].cwd
  BY HostParts DEF HostRoom
<1>3. /\ errands[c].pc = "idle" /\ lifecycle = Unheld /\ lifecycle' = c /\ guards[s] = Unheld /\ Active(s)
      /\ memo' = [memo EXCEPT !.begun = @ + 1] /\ UNCHANGED <<projects, dirs, guards>>
      /\ errands' = [errands EXCEPT ![c] = e]
  BY DEF Archive, Alone, TakeLock, OnErrand
<1>4. sessions' = [sessions EXCEPT ![s] = r]
  BY HostParts DEF Archive
<1> HIDE DEF e, r
<1>5. MemoKeeps /\ memo'.pruned = memo.pruned
  BY <1>3, MemoBegins, KeptMemo
<1>6. OthersStay({c}) /\ errands'[c] = e /\ Alones(c) /\ LockKept' /\ lifecycle' \in Clerks \cup {Unheld}
  BY <1>1, <1>3, LockTakes DEF Locked
<1>7. InHand(c)' /\ Seen(c)' /\ WayBack(c)' /\ Target(c)'
  BY <1>1, <1>6 DEF InHand, Seen, WayBack, Target
<1>8. ErrandFits(e) /\ e.pc \in Locked /\ "idle" \notin Locked
  BY <1>1 DEF ErrandFits, Locked
<1>9. ~memo.moved => \A p \in Projects : \A a \in projects[p].assigned : a.session = s /\ s \in Sound' =>
        {r.cwd} = Directory(p, a.tree) \/ (errands'[c].pc \in {"assign", "undo"} /\ errands'[c].s = s)
  BY <1>2, <1>3, <1>5, NobodyHolds, SoundKept DEF Agrees
<1>10. Lives(s)
  BY <1>3 DEF Lives, Active
<1>11. \A p \in Projects : \A a \in projects'[p].assigned : a.session = s /\ s \in Untorn' =>
         r.state = "active" \/ (errands'[c].pc = "unassign" /\ errands'[c].s = s)
  BY <1>1, <1>6
<1>12. RoomStep(c, s, r)
  BY <1>1, <1>2, <1>3, <1>4, <1>5, <1>6, <1>7, <1>8, <1>9, <1>10, <1>11 DEF RoomStep
<1> QED
  BY <1>1, <1>2, <1>3, <1>4, <1>5, <1>6, <1>7, <1>8, <1>9, <1>10, <1>11, <1>12, InnerRoomHolds

LEMMA UnassignArchivedHolds ==
  ASSUME HostInv, NEW c \in Clerks, UnassignArchived(c), NEW s \in Rooms, errands[c].s = s
  PROVE  HostInv'
<1>1. /\ errands[c].pc = "unassign" /\ errands[c].pc \in Locked /\ Leave(c) /\ UNCHANGED <<sessions, dirs, guards>>
  BY DEF UnassignArchived, OnErrand, Locked
<1>2. /\ OthersStay({c}) /\ Alones(c) /\ LockKept'
      /\ lifecycle' \in Clerks \cup {Unheld} /\ ErrandFits(errands'[c]) /\ errands'[c].pc = "idle"
      /\ InHand(c)' /\ Seen(c)' /\ WayBack(c)' /\ Target(c)'
  BY <1>1, LockLeaves
<1>3. /\ sessions[s] \in HostRoom /\ sessions' = [sessions EXCEPT ![s] = sessions[s]]
      /\ Active(s) => sessions[s].state = "active"
      /\ sessions[s].state \in {"active", "archived"} => Lives(s)
  BY <1>1, HostParts DEF Active, Lives
<1>4. CASE projects' = Without(projects, s) /\ UNCHANGED memo
  <2>1. MemoKeeps /\ memo'.pruned = memo.pruned
    BY <1>4, MemoAsItIs
  <2>2. \A p \in Projects : \A a \in projects'[p].assigned : a.session # s
    BY <1>4, WithoutIs
  <2>3. \A p \in Projects : \A a \in projects'[p].assigned : a.session = s /\ s \in Untorn' =>
         sessions[s].state = "active" \/ (errands'[c].pc = "unassign" /\ errands'[c].s = s)
    BY <2>2
  <2>4. ~memo.moved => \A p \in Projects : \A a \in projects'[p].assigned : a.session = s /\ s \in Sound' =>
         {sessions[s].cwd} = Directory(p, a.tree) \/ (errands'[c].pc \in {"assign", "undo"} /\ errands'[c].s = s)
    BY <2>2
  <2>5. RoomStep(c, s, sessions[s])
    BY <1>1, <1>2, <1>3, <1>4, <2>1, <2>2, <2>3, <2>4 DEF RoomStep
  <2> QED
    BY <1>1, <1>2, <1>3, <1>4, <2>1, <2>2, <2>3, <2>4, <2>5, InnerRoomHolds
<1>5. CASE Mishap({s}) /\ UNCHANGED projects
  <2>1. MemoKeeps /\ memo'.pruned = memo.pruned /\ s \in memo'.torn
    BY <1>5, MemoTorn
  <2>2. s \notin Untorn' /\ s \notin Sound'
    BY <2>1 DEF Untorn, Sound
  <2>3. RoomStep(c, s, sessions[s])
    BY <1>1, <1>2, <1>3, <1>5, <2>1, <2>2 DEF RoomStep
  <2> QED
    BY <1>1, <1>2, <1>3, <1>5, <2>1, <2>2, <2>3, InnerRoomHolds
<1> QED BY <1>4, <1>5 DEF UnassignArchived

LEMMA UnmakeHolds ==
  ASSUME HostInv, NEW c \in Clerks, Unmake(c), NEW s \in Rooms, errands[c].s = s
  PROVE  HostInv'
<1>1. /\ errands[c].pc = "unmake" /\ errands[c].pc \in Locked /\ Leave(c) /\ UNCHANGED <<dirs, guards>>
      /\ guards[s] = Unheld
  BY DEF Unmake, OnErrand, Locked
<1>2. /\ OthersStay({c}) /\ Alones(c) /\ LockKept'
      /\ lifecycle' \in Clerks \cup {Unheld} /\ ErrandFits(errands'[c]) /\ errands'[c].pc = "idle"
      /\ InHand(c)' /\ Seen(c)' /\ WayBack(c)' /\ Target(c)'
  BY <1>1, LockLeaves
<1>3. CASE Removed(s) /\ UNCHANGED memo
  <2>1. MemoKeeps /\ memo'.pruned = memo.pruned
    BY <1>3, MemoAsItIs
  <2>2. projects' = Without(projects, s) /\ \A p \in Projects : \A a \in projects'[p].assigned : a.session # s
    BY <1>3, WithoutIs DEF Removed
  <2> DEFINE r == [NoSession EXCEPT !.state = "gone"]
  <2>3. r \in HostRoom /\ r.state = "gone" /\ sessions' = [sessions EXCEPT ![s] = r]
    BY <1>3, GoneIs DEF Removed
  <2> HIDE DEF r
  <2>4. RoomStep(c, s, r)
    BY <1>1, <1>2, <2>1, <2>2, <2>3 DEF RoomStep
  <2> QED
    BY <1>1, <1>2, <2>1, <2>2, <2>3, <2>4, InnerRoomHolds
<1>4. CASE Mishap({s}) /\ UNCHANGED <<sessions, projects>>
  <2>1. MemoKeeps /\ memo'.pruned = memo.pruned
    BY <1>4, MemoTorn
  <2>2. /\ dirs' \subseteq Spots /\ PrunedAreGone'
        /\ ~memo.moved => \A x \in Rooms : Lives(x)' => There(sessions[x].cwd)'
    BY <1>1, <1>4, <2>1, PlacesAsTheyWere
  <2> QED
    BY <1>1, <1>2, <1>4, <2>1, <2>2, InnerSameHolds
<1> QED BY <1>3, <1>4 DEF Unmake

LEMMA UndoHolds ==
  ASSUME HostInv, NEW c \in Clerks, Undo(c), NEW s \in Rooms, errands[c].s = s
  PROVE  HostInv'
<1>1. /\ errands[c].pc = "undo" /\ errands[c].pc \in Locked /\ Leave(c) /\ UNCHANGED <<projects, dirs, guards>>
      /\ guards[s] = Unheld /\ ~errands[c].fresh /\ errands[c].was \in Spots /\ InHand(c) /\ WayBack(c)
  BY HostParts, ErrandIs DEF Undo, OnErrand, Locked, ErrandsFit, ErrandFits, HandsHold, PlacesHold
<1>2. /\ OthersStay({c}) /\ Alones(c) /\ LockKept'
      /\ lifecycle' \in Clerks \cup {Unheld} /\ ErrandFits(errands'[c]) /\ errands'[c].pc = "idle"
      /\ InHand(c)' /\ Seen(c)' /\ WayBack(c)' /\ Target(c)'
  BY <1>1, LockLeaves
<1>3. CASE /\ sessions' = IF Active(s) /\ There(errands[c].was)
                          THEN [sessions EXCEPT ![s].cwd = errands[c].was] ELSE sessions
           /\ memo' = memo
  <2>1. MemoKeeps /\ memo'.pruned = memo.pruned /\ Sound' \subseteq Sound /\ Untorn' \subseteq Untorn /\ Sound \subseteq Untorn
    BY <1>3, MemoAsItIs, SoundKept
  <2>2. /\ s \in Untorn => Active(s)
        /\ ~memo.moved => There(errands[c].was)
        /\ ~memo.moved /\ s \in Sound =>
             \A p \in Projects : \A a \in projects[p].assigned :
               a.session = s => Directory(p, a.tree) = {errands[c].was}
    BY <1>1 DEF InHand, WayBack
  <2>3. CASE Active(s) /\ There(errands[c].was)
    <3> DEFINE r == [sessions[s] EXCEPT !.cwd = errands[c].was]
    <3>1. r \in HostRoom /\ r.state = "active" /\ r.cwd = errands[c].was
      BY <1>1, <2>3, HostParts DEF HostRoom, Active
    <3>2. sessions' = [sessions EXCEPT ![s] = r]
      BY <1>3, <2>3, HostParts
    <3> HIDE DEF r
    <3>3. \A p \in Projects : \A a \in projects'[p].assigned : a.session = s /\ s \in Untorn' =>
           r.state = "active" \/ (errands'[c].pc = "unassign" /\ errands'[c].s = s)
      BY <3>1
    <3>4. ~memo.moved => \A p \in Projects : \A a \in projects'[p].assigned : a.session = s /\ s \in Sound' =>
           {r.cwd} = Directory(p, a.tree) \/ (errands'[c].pc \in {"assign", "undo"} /\ errands'[c].s = s)
      BY <1>1, <2>1, <2>2, <3>1
    <3>5. RoomStep(c, s, r)
      BY <1>1, <1>2, <2>1, <2>3, <3>1, <3>2, <3>3, <3>4 DEF RoomStep
    <3> QED
      BY <1>1, <1>2, <2>1, <2>3, <3>1, <3>2, <3>3, <3>4, <3>5, InnerRoomHolds
  <2>4. CASE ~(Active(s) /\ There(errands[c].was))
    <3>1. sessions' = [sessions EXCEPT ![s] = sessions[s]] /\ sessions[s] \in HostRoom
      BY <1>3, <2>4, HostParts
    <3>2. /\ sessions[s].state \in {"active", "archived"} => Lives(s)
          /\ s \in Untorn => sessions[s].state = "active"
          /\ ~memo.moved => s \notin Sound'
      BY <2>1, <2>2, <2>4 DEF Lives, Active
    <3>3. RoomStep(c, s, sessions[s])
      BY <1>1, <1>2, <2>1, <3>1, <3>2 DEF RoomStep
    <3> QED
      BY <1>1, <1>2, <2>1, <3>1, <3>2, <3>3, InnerRoomHolds
  <2> QED
    BY <2>3, <2>4
<1>4. CASE Mishap({s}) /\ UNCHANGED sessions
  <2>1. MemoKeeps /\ memo'.pruned = memo.pruned /\ s \in memo'.torn
    BY <1>4, MemoTorn
  <2>2. /\ dirs' \subseteq Spots /\ PrunedAreGone'
        /\ ~memo.moved => \A x \in Rooms : Lives(x)' => There(sessions[x].cwd)'
    BY <1>1, <1>4, <2>1, PlacesAsTheyWere
  <2>3. s \notin Sound'
    BY <2>1 DEF Untorn, Sound
  <2> QED
    BY <1>1, <1>2, <1>4, <2>1, <2>2, <2>3, InnerSameHolds
<1> QED BY <1>3, <1>4 DEF Undo

LEMMA MakeHolds ==
  ASSUME HostInv, NEW c \in Clerks, Make(c), NEW s \in Rooms, errands[c].s = s
  PROVE  HostInv'
<1>1. /\ errands[c].pc = "make" /\ errands[c].pc \in Locked /\ UNCHANGED <<projects, dirs, guards>>
      /\ errands[c].fresh /\ errands[c].dir \in Spots /\ InHand(c) /\ Target(c)
      /\ sessions[s].state = "absent" /\ (s \in Untorn => Owners(s) = {})
      /\ errands[c].p \in Projects \cup {None} /\ errands[c].s \in Rooms
  BY HostParts, ErrandIs DEF Make, OnErrand, Locked, ErrandsFit, ErrandFits, HandsHold, PlacesHold, InHand
<1>2. \A p \in Projects : \A a \in projects[p].assigned : a.session = s => s \notin Untorn
  BY <1>1 DEF Owners
<1>3. \A p \in Projects : \A tree : Directory(p, tree)' = Directory(p, tree)
  BY <1>1, DirectorySame
<1>4. CASE /\ There(errands[c].dir) /\ sessions' = [sessions EXCEPT ![s] =
                [state |-> "active", cwd |-> errands[c].dir, loaded |-> TRUE]]
           /\ IF errands[c].p = None THEN Leave(c) ELSE Turn(c, "assign") /\ UNCHANGED lifecycle
           /\ UNCHANGED memo
  <2> DEFINE r == [state |-> "active", cwd |-> errands[c].dir, loaded |-> TRUE]
  <2>1. r \in HostRoom /\ r.state = "active" /\ r.cwd = errands[c].dir
    BY <1>1 DEF HostRoom
  <2>2. sessions' = [sessions EXCEPT ![s] = r]
    BY <1>4
  <2> HIDE DEF r
  <2>3. /\ MemoKeeps /\ memo'.pruned = memo.pruned /\ Sound' \subseteq Sound /\ Untorn' \subseteq Untorn
        /\ Sound' \subseteq Untorn /\ memo' = memo
    BY <1>4, MemoAsItIs, SoundKept
  <2>4. CASE Leave(c)
    <3>1. /\ OthersStay({c}) /\ Alones(c) /\ LockKept'
          /\ lifecycle' \in Clerks \cup {Unheld} /\ ErrandFits(errands'[c]) /\ errands'[c].pc \in Locked \cup {"idle"}
          /\ InHand(c)' /\ Seen(c)' /\ WayBack(c)' /\ Target(c)'
      BY <1>1, <2>4, LockLeaves
    <3>2. \A p \in Projects : \A a \in projects'[p].assigned : a.session = s /\ s \in Untorn' =>
           r.state = "active" \/ (errands'[c].pc = "unassign" /\ errands'[c].s = s)
      BY <2>1
    <3>3. ~memo.moved => \A p \in Projects : \A a \in projects'[p].assigned : a.session = s /\ s \in Sound' =>
           {r.cwd} = Directory(p, a.tree) \/ (errands'[c].pc \in {"assign", "undo"} /\ errands'[c].s = s)
      BY <1>1, <1>2, <2>3
    <3>4. RoomStep(c, s, r)
      BY <1>1, <1>4, <2>1, <2>2, <2>3, <3>1, <3>2, <3>3 DEF RoomStep
    <3> QED
      BY <1>1, <1>4, <2>1, <2>2, <2>3, <3>1, <3>2, <3>3, <3>4, InnerRoomHolds
  <2>5. CASE Turn(c, "assign") /\ lifecycle' = lifecycle /\ errands[c].p # None
    <3>1. /\ OthersStay({c}) /\ Alones(c) /\ LockKept' /\ lifecycle' \in Clerks \cup {Unheld}
          /\ errands'[c].pc = "assign" /\ errands'[c].s = s /\ errands'[c].p = errands[c].p
          /\ errands'[c].dir = errands[c].dir /\ errands'[c].tree = errands[c].tree /\ errands'[c].fresh = errands[c].fresh
      BY <1>1, <2>5, LockGoesOn DEF Locked
    <3>2. ErrandFits(errands'[c]) /\ errands'[c].pc \in Locked
      BY <1>1, <2>5, <3>1 DEF ErrandFits, Locked
    <3>3. sessions'[s] = r
      BY <2>2, HostParts
    <3>4. InHand(c)'
      BY <1>1, <2>1, <2>3, <2>5, <3>1, <3>3 DEF InHand, Owners, Active, Made
    <3>5. Seen(c)' /\ WayBack(c)'
      BY <1>1, <3>1 DEF Seen, WayBack
    <3>6. Target(c)'
      <4> SUFFICES ASSUME NEW p \in Projects, p = errands[c].p, NEW t, t = errands[c].tree, ~memo.moved, s \in Sound
                   PROVE  Directory(p, t)' = {errands[c].dir}
        BY <1>1, <2>1, <2>3, <2>5, <3>1, <3>3 DEF Target
      <4> QED
        BY <1>1, <1>3, <2>5 DEF Target
    <3>7. \A p \in Projects : \A a \in projects'[p].assigned : a.session = s /\ s \in Untorn' =>
           r.state = "active" \/ (errands'[c].pc = "unassign" /\ errands'[c].s = s)
      BY <2>1
    <3>8. ~memo.moved => \A p \in Projects : \A a \in projects'[p].assigned : a.session = s /\ s \in Sound' =>
           {r.cwd} = Directory(p, a.tree) \/ (errands'[c].pc \in {"assign", "undo"} /\ errands'[c].s = s)
      BY <3>1
    <3>9. RoomStep(c, s, r)
      BY <1>1, <1>4, <2>1, <2>2, <2>3, <3>1, <3>2, <3>4, <3>5, <3>6, <3>7, <3>8 DEF RoomStep
    <3> QED
      BY <1>1, <1>4, <2>1, <2>2, <2>3, <3>1, <3>2, <3>4, <3>5, <3>6, <3>7, <3>8, <3>9, InnerRoomHolds
  <2> QED
    BY <1>4, <2>4, <2>5
<1>5. CASE (UNCHANGED memo \/ Mishap({})) /\ Turn(c, "unmake") /\ UNCHANGED <<sessions, lifecycle>>
  <2>1. MemoKeeps /\ memo'.pruned = memo.pruned /\ Untorn' \subseteq Untorn
    BY <1>5, MemoAsItIs, MemoTorn, SoundKept
  <2>2. /\ dirs' \subseteq Spots /\ PrunedAreGone'
        /\ ~memo.moved => \A x \in Rooms : Lives(x)' => There(sessions[x].cwd)'
    BY <1>1, <1>5, <2>1, PlacesAsTheyWere
  <2>3. /\ OthersStay({c}) /\ Alones(c) /\ LockKept' /\ lifecycle' \in Clerks \cup {Unheld}
        /\ errands'[c].pc = "unmake" /\ errands'[c].s = s /\ errands'[c].fresh = errands[c].fresh
    BY <1>1, <1>5, LockGoesOn DEF Locked
  <2>4. ErrandFits(errands'[c]) /\ errands'[c].pc \in Locked
    BY <1>1, <2>3 DEF ErrandFits, Locked
  <2>5. InHand(c)' /\ Seen(c)' /\ WayBack(c)' /\ Target(c)'
    BY <1>1, <2>1, <2>3 DEF InHand, Owners, Seen, WayBack, Target
  <2> QED
    BY <1>1, <1>5, <2>1, <2>2, <2>3, <2>4, <2>5, InnerSameHolds
<1> QED BY <1>4, <1>5 DEF Make

(* The way back and the target stay what they are while no project changes.   *)
LEMMA WaysStay ==
  ASSUME HostInv, NEW c \in Clerks, NEW s \in Rooms, errands[c].s = s, errands[c].pc \in {"place", "assign"},
         projects' = projects, dirs' = dirs, MemoKeeps,
         errands'[c].s = errands[c].s, errands'[c].p = errands[c].p, errands'[c].dir = errands[c].dir,
         errands'[c].was = errands[c].was, errands'[c].tree = errands[c].tree, errands'[c].fresh = errands[c].fresh,
         errands'[c].pc \in {"assign", "undo"}, s \in Sound' \/ s \in Untorn' => sessions'[s].cwd = errands[c].dir
  PROVE  WayBack(c)' /\ Target(c)'
<1>1. WayBack(c) /\ Target(c) /\ Sound' \subseteq Sound /\ memo'.moved = memo.moved
      /\ \A p : \A tree : Directory(p, tree)' = Directory(p, tree)
  BY HostParts, SoundKept, DirectorySame DEF PlacesHold, MemoKeeps
<1>2. WayBack(c)'
  <2> SUFFICES ASSUME ~memo.moved, ~errands[c].fresh
               PROVE  /\ There(errands[c].was)
                      /\ s \in Sound => \A p \in Projects : \A a \in projects[p].assigned :
                           a.session = s => Directory(p, a.tree) = {errands[c].was}
    BY <1>1 DEF WayBack, There
  <2> QED
    BY <1>1 DEF WayBack
<1>3. Target(c)'
  <2> SUFFICES ASSUME ~memo.moved, s \in Sound, s \in Sound', NEW p, p = errands[c].p, NEW t, t = errands[c].tree, p # None
               PROVE  Directory(p, t)' = {errands[c].dir}
    BY <1>1 DEF Target
  <2>1. Directory(p, t) = {errands[c].dir}
    BY <1>1 DEF Target
  <2> QED
    BY <1>1, <2>1
<1> QED BY <1>2, <1>3

LEMMA PlaceHolds ==
  ASSUME HostInv, NEW c \in Clerks, Place(c), NEW s \in Rooms, errands[c].s = s
  PROVE  HostInv'
<1>1. /\ errands[c].pc = "place" /\ errands[c].pc \in Locked /\ UNCHANGED <<projects, dirs, guards>>
      /\ guards[s] = Unheld /\ ~errands[c].fresh /\ errands[c].dir \in Spots /\ InHand(c)
      /\ errands[c].p \in Projects /\ Made(errands[c].p)
      /\ (~memo.moved /\ s \in Untorn => sessions[s].cwd = errands[c].was)
  <2>1. errands[c].pc = "place" /\ errands[c].pc \in Locked /\ UNCHANGED <<projects, dirs, guards>> /\ guards[s] = Unheld
    BY DEF Place, OnErrand, Locked
  <2>2. ~errands[c].fresh /\ errands[c].dir \in Spots /\ InHand(c) /\ errands[c].p \in Projects /\ WayBack(c)
    BY <2>1, HostParts, ErrandIs DEF ErrandsFit, ErrandFits, HandsHold, PlacesHold
  <2> QED
    BY <2>1, <2>2, PlacesAssumption DEF InHand, WayBack
<1>2. ASSUME Turn(c, "assign"), lifecycle' = lifecycle
      PROVE  /\ OthersStay({c}) /\ Alones(c) /\ LockKept' /\ lifecycle' \in Clerks \cup {Unheld}
             /\ errands'[c].pc = "assign" /\ errands'[c].s = s /\ errands'[c].p = errands[c].p
             /\ errands'[c].dir = errands[c].dir /\ errands'[c].was = errands[c].was
             /\ errands'[c].tree = errands[c].tree /\ errands'[c].fresh = errands[c].fresh
             /\ ErrandFits(errands'[c]) /\ errands'[c].pc \in Locked \cup {"idle"} /\ Seen(c)'
  <2>1. /\ OthersStay({c}) /\ Alones(c) /\ LockKept' /\ lifecycle' \in Clerks \cup {Unheld}
        /\ errands'[c].pc = "assign" /\ errands'[c].s = s /\ errands'[c].p = errands[c].p
        /\ errands'[c].dir = errands[c].dir /\ errands'[c].was = errands[c].was
        /\ errands'[c].tree = errands[c].tree /\ errands'[c].fresh = errands[c].fresh
    BY <1>1, <1>2, LockGoesOn DEF Locked
  <2> QED
    BY <1>1, <2>1 DEF ErrandFits, Locked, Seen
<1>3. ASSUME Leave(c), UNCHANGED sessions, UNCHANGED memo \/ Mishap({}) PROVE HostInv'
  <2>1. /\ OthersStay({c}) /\ Alones(c) /\ LockKept'
        /\ lifecycle' \in Clerks \cup {Unheld} /\ ErrandFits(errands'[c]) /\ errands'[c].pc \in Locked \cup {"idle"}
        /\ InHand(c)' /\ Seen(c)' /\ WayBack(c)' /\ Target(c)'
    BY <1>1, <1>3, LockLeaves
  <2>2. MemoKeeps /\ memo'.pruned = memo.pruned
    BY <1>3, MemoAsItIs, MemoTorn
  <2>3. /\ dirs' \subseteq Spots /\ PrunedAreGone'
        /\ ~memo.moved => \A x \in Rooms : Lives(x)' => There(sessions[x].cwd)'
    BY <1>1, <1>3, <2>2, PlacesAsTheyWere
  <2> QED
    BY <1>1, <1>3, <2>1, <2>2, <2>3, InnerSameHolds
<1>4. CASE /\ There(errands[c].dir) /\ Active(s) /\ sessions' = [sessions EXCEPT ![s].cwd = errands[c].dir]
           /\ Turn(c, "assign") /\ UNCHANGED <<lifecycle, memo>>
  <2> DEFINE r == [sessions[s] EXCEPT !.cwd = errands[c].dir]
  <2>1. r \in HostRoom /\ r.state = "active" /\ r.cwd = errands[c].dir
    BY <1>1, <1>4, HostParts DEF HostRoom, Active
  <2>2. sessions' = [sessions EXCEPT ![s] = r]
    BY <1>4, HostParts
  <2> HIDE DEF r
  <2>3. /\ OthersStay({c}) /\ Alones(c) /\ LockKept' /\ lifecycle' \in Clerks \cup {Unheld}
        /\ errands'[c].pc = "assign" /\ errands'[c].s = s /\ errands'[c].p = errands[c].p
        /\ errands'[c].dir = errands[c].dir /\ errands'[c].was = errands[c].was
        /\ errands'[c].tree = errands[c].tree /\ errands'[c].fresh = errands[c].fresh
        /\ ErrandFits(errands'[c]) /\ errands'[c].pc \in Locked \cup {"idle"} /\ Seen(c)'
    BY <1>2, <1>4
  <2>4. MemoKeeps /\ memo'.pruned = memo.pruned
    BY <1>4, MemoAsItIs
  <2>5. sessions'[s] = r
    BY <2>2, HostParts
  <2>6. InHand(c)'
    BY <1>1, <2>1, <2>3, <2>5 DEF InHand, Active, Made
  <2>7. WayBack(c)' /\ Target(c)'
    BY <1>1, <2>1, <2>3, <2>4, <2>5, WaysStay
  <2>8. RoomStep(c, s, r)
    BY <1>1, <1>4, <2>1, <2>2, <2>3 DEF RoomStep
  <2> QED
    BY <1>1, <2>3, <2>4, <2>6, <2>7, <2>8, InnerRoomHolds
<1>5. CASE ~(There(errands[c].dir) /\ Active(s)) /\ errands[c].dir = errands[c].was /\ Turn(c, "assign")
           /\ UNCHANGED <<lifecycle, sessions, memo>>
  <2>1. /\ OthersStay({c}) /\ Alones(c) /\ LockKept' /\ lifecycle' \in Clerks \cup {Unheld}
        /\ errands'[c].pc = "assign" /\ errands'[c].s = s /\ errands'[c].p = errands[c].p
        /\ errands'[c].dir = errands[c].dir /\ errands'[c].was = errands[c].was
        /\ errands'[c].tree = errands[c].tree /\ errands'[c].fresh = errands[c].fresh
        /\ ErrandFits(errands'[c]) /\ errands'[c].pc \in Locked \cup {"idle"} /\ Seen(c)'
    BY <1>2, <1>5
  <2>2. MemoKeeps /\ memo'.pruned = memo.pruned /\ Untorn' \subseteq Untorn /\ Sound' \subseteq Untorn'
    BY <1>5, MemoAsItIs, SoundKept
  <2>3. /\ dirs' \subseteq Spots /\ PrunedAreGone'
        /\ ~memo.moved => \A x \in Rooms : Lives(x)' => There(sessions[x].cwd)'
    BY <1>1, <1>5, <2>2, PlacesAsTheyWere
  <2>4. InHand(c)'
    BY <1>1, <1>5, <2>1, <2>2 DEF InHand, Active, Made
  <2>5. WayBack(c)' /\ Target(c)'
    <3>1. CASE memo.moved
      BY <2>2, <3>1 DEF WayBack, Target, MemoKeeps
    <3>2. CASE ~memo.moved
      <4>1. s \in Sound' \/ s \in Untorn' => sessions'[s].cwd = errands[c].dir
        BY <1>1, <1>5, <2>2, <3>2
      <4> QED
        BY <1>1, <2>1, <2>2, <4>1, WaysStay
    <3> QED
      BY <3>1, <3>2
  <2> QED
    BY <1>1, <1>5, <2>1, <2>2, <2>3, <2>4, <2>5, InnerSameHolds
<1> QED BY <1>3, <1>4, <1>5 DEF Place

LEMMA AssignFailsHolds ==
  ASSUME HostInv, NEW c \in Clerks, AssignFails(c), NEW s \in Rooms, errands[c].s = s
  PROVE  HostInv'
<1>1. /\ errands[c].pc = "assign" /\ errands[c].pc \in Locked /\ UNCHANGED <<projects, sessions, dirs, guards>>
      /\ InHand(c) /\ Target(c) /\ WayBack(c) /\ errands[c].p \in Projects /\ errands[c].fresh \in BOOLEAN
      /\ (UNCHANGED memo \/ Mishap({}))
  BY HostParts, ErrandIs DEF AssignFails, OnErrand, Locked, ErrandsFit, ErrandFits, HandsHold, PlacesHold
<1>2. MemoKeeps /\ memo'.pruned = memo.pruned /\ Untorn' \subseteq Untorn /\ Sound' \subseteq Untorn' /\ Sound' \subseteq Sound
      /\ Sound \subseteq Untorn
  BY <1>1, MemoAsItIs, MemoTorn, SoundKept
<1>3. /\ dirs' \subseteq Spots /\ PrunedAreGone'
      /\ ~memo.moved => \A x \in Rooms : Lives(x)' => There(sessions[x].cwd)'
  BY <1>1, <1>2, PlacesAsTheyWere
<1>4. CASE errands[c].fresh /\ Turn(c, "unmake") /\ UNCHANGED lifecycle
  <2>1. /\ OthersStay({c}) /\ Alones(c) /\ LockKept' /\ lifecycle' \in Clerks \cup {Unheld}
        /\ errands'[c].pc = "unmake" /\ errands'[c].s = s /\ errands'[c].fresh = errands[c].fresh
    BY <1>1, <1>4, LockGoesOn DEF Locked
  <2>2. ErrandFits(errands'[c]) /\ errands'[c].pc \in Locked \cup {"idle"}
    BY <1>4, <2>1 DEF ErrandFits, Locked
  <2>3. InHand(c)' /\ Seen(c)' /\ WayBack(c)' /\ Target(c)'
    BY <1>1, <1>2, <1>4, <2>1 DEF InHand, Owners, Seen, WayBack, Target
  <2>4. s \in Sound' => \A p \in Projects : \A a \in projects[p].assigned : a.session # s
    BY <1>1, <1>2, <1>4 DEF InHand, Owners
  <2> QED
    BY <1>1, <1>2, <1>3, <2>1, <2>2, <2>3, <2>4, InnerSameHolds
<1>5. CASE ~errands[c].fresh /\ errands[c].dir # errands[c].was /\ Turn(c, "undo") /\ UNCHANGED lifecycle
  <2>1. /\ OthersStay({c}) /\ Alones(c) /\ LockKept' /\ lifecycle' \in Clerks \cup {Unheld}
        /\ errands'[c].pc = "undo" /\ errands'[c].s = s /\ errands'[c].p = errands[c].p
        /\ errands'[c].dir = errands[c].dir /\ errands'[c].was = errands[c].was
        /\ errands'[c].tree = errands[c].tree /\ errands'[c].fresh = errands[c].fresh
    BY <1>1, <1>5, LockGoesOn DEF Locked
  <2>2. ErrandFits(errands'[c]) /\ errands'[c].pc \in Locked \cup {"idle"}
    BY <1>5, <2>1 DEF ErrandFits, Locked
  <2>3. InHand(c)' /\ Seen(c)' /\ Target(c)'
    BY <1>1, <1>2, <1>5, <2>1 DEF InHand, Active, Seen, Target
  <2>4. WayBack(c)'
    <3>1. memo'.moved = memo.moved /\ \A p : \A tree : Directory(p, tree)' = Directory(p, tree)
      BY <1>1, <1>2, DirectorySame DEF MemoKeeps
    <3>2. ~memo.moved => /\ There(errands[c].was)
                         /\ s \in Sound => \A p \in Projects : \A a \in projects[p].assigned :
                              a.session = s => Directory(p, a.tree) = {errands[c].was}
      BY <1>1, <1>5 DEF WayBack
    <3> QED
      BY <1>1, <1>2, <2>1, <3>1, <3>2 DEF WayBack, There
  <2> QED
    BY <1>1, <1>2, <1>3, <2>1, <2>2, <2>3, <2>4, InnerSameHolds
<1>6. CASE ~errands[c].fresh /\ errands[c].dir = errands[c].was /\ Leave(c)
  <2>1. /\ OthersStay({c}) /\ Alones(c) /\ LockKept'
        /\ lifecycle' \in Clerks \cup {Unheld} /\ ErrandFits(errands'[c]) /\ errands'[c].pc \in Locked \cup {"idle"}
        /\ InHand(c)' /\ Seen(c)' /\ WayBack(c)' /\ Target(c)'
    BY <1>1, <1>6, LockLeaves
  <2>2. ~memo.moved /\ s \in Sound' => \A p \in Projects : \A a \in projects[p].assigned : a.session = s => Agrees(p, a)
    BY <1>1, <1>2, <1>6 DEF WayBack, Target, Agrees
  <2> QED
    BY <1>1, <1>2, <1>3, <2>1, <2>2, InnerSameHolds
<1> QED BY <1>1, <1>4, <1>5, <1>6 DEF AssignFails

-----------------------------------------------------------------------------
LEMMA AssignHolds ==
  ASSUME HostInv, NEW c \in Clerks, Assign(c), NEW s \in Rooms, errands[c].s = s,
         NEW p \in Projects, errands[c].p = p, NEW tree, errands[c].tree = tree
  PROVE  HostInv'
<1> DEFINE new == [session |-> s, tree |-> tree]
           all == {a \in projects[p].assigned : a.session # s} \cup {new}
           q == [projects[p] EXCEPT !.assigned = all]
<1>1. /\ errands[c].pc = "assign" /\ errands[c].pc \in Locked /\ Leave(c) /\ UNCHANGED <<sessions, dirs, guards, memo>>
      /\ MayAssign(p, s, tree) /\ AssignSession(p, s, tree) /\ InHand(c) /\ Target(c) /\ errands[c].fresh \in BOOLEAN
  BY HostParts, ErrandIs DEF Assign, OnErrand, Locked, HandsHold, PlacesHold
<1>2. /\ OthersStay({c}) /\ Alones(c) /\ LockKept'
      /\ lifecycle' \in Clerks \cup {Unheld} /\ ErrandFits(errands'[c]) /\ errands'[c].pc \in Locked \cup {"idle"}
      /\ InHand(c)' /\ Seen(c)' /\ WayBack(c)' /\ Target(c)'
  BY <1>1, LockLeaves
<1>3. /\ Made(p) /\ Owners(s) \subseteq {p} /\ tree \in projects[p].trees \cup {None}
      /\ projects[p] \in HostProject /\ ProjectFits(p) /\ projects[p].trees \subseteq Roots \cup Trees
  BY <1>1, ProjectOf DEF MayAssign
<1>4. new \in Assignments /\ all \in SUBSET Assignments
  BY <1>3, AssignedIs DEF Assignments
<1>5. /\ \A a \in all : a = new \/ (a \in projects[p].assigned /\ a.session # s)
      /\ new.session = s /\ new.tree = tree
  OBVIOUS
<1> HIDE DEF all, new
<1>6. /\ q \in HostProject /\ q.made = projects[p].made /\ q.pwd = projects[p].pwd /\ q.primary = projects[p].primary
      /\ q.trees = projects[p].trees /\ q.assigned = all
  BY <1>3, <1>4 DEF HostProject
<1>7. projects'[p] = q /\ \A r \in Projects \ {p} : projects'[r] = [projects[r] EXCEPT !.assigned = {a \in @ : a.session # s}]
  <2>1. projects' = [Without(projects, s) EXCEPT ![p].assigned = @ \cup {new}]
    BY <1>1 DEF AssignSession, new
  <2>2. Without(projects, s)[p] = [projects[p] EXCEPT !.assigned = {a \in projects[p].assigned : a.session # s}]
        /\ DOMAIN Without(projects, s) = Projects
    BY DEF Without
  <2>3. projects'[p] = [Without(projects, s)[p] EXCEPT !.assigned = Without(projects, s)[p].assigned \cup {new}]
    BY <2>1, <2>2
  <2> DEFINE left == {a \in projects[p].assigned : a.session # s}
  <2>4. Without(projects, s)[p] = [projects[p] EXCEPT !.assigned = left] /\ all = left \cup {new}
    BY <2>2 DEF all
  <2> HIDE DEF left
  <2>5. [projects[p] EXCEPT !.assigned = left].assigned = left
    BY <1>3 DEF HostProject
  <2>6. projects'[p] = [[projects[p] EXCEPT !.assigned = left] EXCEPT !.assigned = all]
    BY <2>3, <2>4, <2>5
  <2>7. projects'[p] = q
    BY <1>3, <2>6 DEF HostProject
  <2>8. \A r \in Projects \ {p} : projects'[r] = Without(projects, s)[r]
    BY <2>1, <2>2
  <2> QED
    BY <2>7, <2>8 DEF Without
<1> HIDE DEF q
<1>8. ASSUME NEW r \in Projects
      PROVE  /\ projects'[r] \in HostProject
             /\ projects'[r].made = projects[r].made /\ projects'[r].pwd = projects[r].pwd
             /\ projects'[r].primary = projects[r].primary /\ projects'[r].trees = projects[r].trees
             /\ \A a \in projects'[r].assigned : (r = p /\ a = new) \/ (a \in projects[r].assigned /\ a.session # s)
  <2>1. CASE r = p
    BY <1>5, <1>6, <1>7, <2>1
  <2>2. CASE r # p
    <3> DEFINE left == {a \in projects[r].assigned : a.session # s}
    <3>1. left \in SUBSET Assignments /\ projects[r] \in HostProject
      BY HostParts, ProjectIs
    <3>2. projects'[r] = [projects[r] EXCEPT !.assigned = left]
      BY <1>7, <2>2
    <3> HIDE DEF left
    <3>3. /\ projects'[r] \in HostProject /\ projects'[r].assigned = left
          /\ projects'[r].made = projects[r].made /\ projects'[r].pwd = projects[r].pwd
          /\ projects'[r].primary = projects[r].primary /\ projects'[r].trees = projects[r].trees
      BY <3>1, <3>2 DEF HostProject
    <3> QED
      BY <2>2, <3>3 DEF left
  <2> QED
    BY <2>1, <2>2
<1>9. projects' \in [Projects -> HostProject]
  <2>1. DOMAIN projects' = Projects /\ projects' = [r \in Projects |-> projects'[r]]
    BY <1>1 DEF AssignSession, Without
  <2> QED
    BY <1>8, <2>1
<1>10. ProjectsFit'
  <2>1. OneProject'
    BY <1>3, <1>5, <1>8, HostParts DEF ProjectsFit, OneProject
  <2>2. ASSUME NEW r \in Projects PROVE ProjectFits(r)'
    <3>1. ProjectFits(r)
      BY HostParts DEF ProjectsFit
    <3>2. ValidProject(projects'[r])
      <4>1. projects'[r].primary \in projects'[r].trees \cup {None}
        BY <1>8, <3>1 DEF ProjectFits, ValidProject
      <4>2. ASSUME NEW a \in projects'[r].assigned
            PROVE  a \in Assignments /\ a.tree \in projects'[r].trees \cup {None}
        BY <1>3, <1>4, <1>5, <1>8, <3>1 DEF ProjectFits, ValidProject
      <4>3. ASSUME NEW a \in projects'[r].assigned, NEW b \in projects'[r].assigned, a.session = b.session
            PROVE  a = b
        BY <1>5, <1>8, <3>1, <4>3 DEF ProjectFits, ValidProject
      <4> QED
        BY <4>1, <4>2, <4>3 DEF ValidProject
    <3>3. ~Made(r) => projects'[r].assigned = {}
      BY <1>3, <1>8, <3>1 DEF ProjectFits, Made
    <3> QED
      BY <1>8, <3>1, <3>2, <3>3 DEF ProjectFits, Made
  <2> QED
    BY <2>1, <2>2 DEF ProjectsFit
<1>11. \A r \in Projects : \A x : Directory(r, x)' = Directory(r, x)
  BY <1>8 DEF Directory, Chosen
<1>12. ReposStay({c}) /\ GuardsStay({c})
  BY <1>1, <1>8, GuardsSame DEF ReposStay, Made
<1>13. MemoKeeps /\ memo'.pruned = memo.pruned /\ Untorn' = Untorn /\ Sound' = Sound /\ Sound \subseteq Untorn
  BY <1>1, MemoAsItIs, SoundKept DEF Untorn, Sound
<1>14. /\ dirs' \subseteq Spots /\ PrunedAreGone'
       /\ ~memo.moved => \A x \in Rooms : Lives(x)' => There(sessions[x].cwd)'
  BY <1>1, <1>13, PlacesAsTheyWere
<1>15. \A d \in Clerks \ {c} : errands[d].pc \notin Locked
  BY <1>2, OthersUnlocked
<1>16. AssignedActive'
  <2> SUFFICES ASSUME NEW r \in Projects, NEW a \in projects'[r].assigned, a.session \in Untorn
               PROVE  Active(a.session)
    BY <1>1, <1>13 DEF AssignedActive, Active
  <2>1. CASE a = new
    BY <1>1, <1>5, <2>1 DEF InHand
  <2>2. CASE a \in projects[r].assigned
    <3>1. \A d \in Clerks : ~Held(d, {"unassign"}, a.session)
      BY <1>1, <1>15 DEF Held, Locked
    <3> QED
      BY <2>2, <3>1, HostParts DEF AssignedActive
  <2> QED
    BY <1>8, <2>1, <2>2
<1>17. AssignedAgree'
  <2> SUFFICES ASSUME ~memo.moved, NEW r \in Projects, NEW a \in projects'[r].assigned, a.session \in Sound
               PROVE  {sessions[a.session].cwd} = Directory(r, a.tree)
    BY <1>1, <1>11, <1>13 DEF AssignedAgree, Agrees
  <2>1. CASE r = p /\ a = new
    BY <1>1, <1>5, <2>1, PlacesAssumption DEF Target
  <2>2. CASE a \in projects[r].assigned /\ a.session # s
    <3>1. \A d \in Clerks : ~Held(d, {"assign", "undo"}, a.session)
      BY <1>15, <2>2 DEF Held, Locked
    <3> QED
      BY <2>2, <3>1, HostParts DEF PlacesHold, AssignedAgree, Agrees
  <2> QED
    BY <1>8, <2>1, <2>2
<1> QED BY <1>1, <1>2, <1>9, <1>10, <1>12, <1>13, <1>14, <1>16, <1>17, InnerHolds, HostParts

LEMMA ForgetTreeHolds ==
  ASSUME HostInv, NEW c \in Clerks, ForgetTree(c), NEW p \in Projects, errands[c].p = p,
         NEW t \in Trees, errands[c].tree = t
  PROVE  HostInv'
<1>1. /\ errands[c].pc = "forget" /\ errands[c].pc \in Locked /\ Leave(c) /\ UNCHANGED <<sessions, dirs, guards, memo>>
  BY DEF ForgetTree, OnErrand, Locked
<1>2. /\ OthersStay({c}) /\ Alones(c) /\ LockKept'
      /\ lifecycle' \in Clerks \cup {Unheld} /\ ErrandFits(errands'[c]) /\ errands'[c].pc \in Locked \cup {"idle"}
      /\ InHand(c)' /\ Seen(c)' /\ WayBack(c)' /\ Target(c)'
  BY <1>1, LockLeaves
<1>3. MemoKeeps /\ memo'.pruned = memo.pruned /\ Untorn' = Untorn /\ Sound' = Sound
  BY <1>1, MemoAsItIs DEF Untorn, Sound
<1>4. /\ dirs' \subseteq Spots /\ PrunedAreGone'
      /\ ~memo.moved => \A x \in Rooms : Lives(x)' => There(sessions[x].cwd)'
  BY <1>1, <1>3, PlacesAsTheyWere
<1>5. CASE ~(Made(p) /\ Unowned(p, t))
  <2>1. projects' = projects
    BY <1>5 DEF ForgetTree
  <2> QED
    BY <1>1, <1>2, <1>3, <1>4, <2>1, InnerSameHolds
<1>6. CASE Made(p) /\ Unowned(p, t)
  <2> DEFINE left == projects[p].trees \ {t}
             q == [projects[p] EXCEPT !.trees = left]
  <2>1. /\ projects[p] \in HostProject /\ ValidProject(projects[p]) /\ ProjectFits(p)
        /\ projects[p].trees \subseteq Roots \cup Trees /\ projects[p].primary \in Roots \cup {None}
    BY ProjectOf
  <2>2. t \notin Roots /\ t # None /\ projects' = [projects EXCEPT ![p].trees = left]
    BY <1>6, DirectoriesAssumption, PlacesAssumption DEF ForgetTree
  <2>3. left \in SUBSET (Roots \cup Trees) /\ left \cap Roots = projects[p].trees \cap Roots /\ t \notin left
        /\ \A d \in projects[p].trees : d # t => d \in left
    BY <2>1, <2>2
  <2> HIDE DEF left
  <2>4. /\ q \in HostProject /\ q.made = projects[p].made /\ q.trees = left /\ q.primary = projects[p].primary
        /\ q.assigned = projects[p].assigned /\ q.pwd = projects[p].pwd
    BY <2>1, <2>3 DEF HostProject
  <2>5. projects' = [projects EXCEPT ![p] = q]
    BY <2>2, HostParts
  <2> HIDE DEF q
  <2>6. ValidProject(q)
    BY <1>6, <2>1, <2>2, <2>3, <2>4 DEF ValidProject, Unowned
  <2>7. ProjectBecomes(p, q) /\ q.assigned \subseteq projects[p].assigned
    <3>1. left # {} => left \cap Roots # {}
      BY <2>1, <2>3 DEF ProjectFits, left
    <3> QED
      BY <1>6, <2>1, <2>4, <2>5, <2>6, <3>1 DEF ProjectBecomes, ProjectFits, Made
  <2>8. /\ ProjectsFit' /\ projects' \in [Projects -> HostProject] /\ projects'[p] = q
        /\ \A r \in Projects : projects'[r].assigned \subseteq projects[r].assigned
        /\ \A r \in Projects \ {p} : projects'[r] = projects[r]
    BY <2>7, ProjectChanges
  <2>9. ReposStay({c}) /\ GuardsStay({c})
    <3>1. GuardsStay({c})
      BY <1>1, GuardsSame
    <3>2. projects[p].trees # {} => left # {}
      BY <2>1, <2>3 DEF ProjectFits
    <3>3. projects[p].trees = {} => left = {}
      BY DEF left
    <3> QED
      BY <2>4, <2>8, <3>1, <3>2, <3>3 DEF ReposStay, Made
  <2>10. ASSUME NEW r \in Projects, NEW a \in projects[r].assigned
         PROVE  Directory(r, a.tree)' = Directory(r, a.tree)
    <3>1. CASE r # p
      BY <2>8, <3>1 DEF Directory, Chosen
    <3>2. CASE r = p
      <4>1. a.tree # t
        BY <1>6, <3>2 DEF Unowned
      <4>2. Chosen(p, a.tree) # t
        BY <2>1, <2>2, <4>1 DEF Chosen
      <4>3. projects'[p].trees = left /\ projects'[p].primary = projects[p].primary /\ projects'[p].pwd = projects[p].pwd
        BY <2>4, <2>8
      <4>4. left \cap {Chosen(p, a.tree)} = projects[p].trees \cap {Chosen(p, a.tree)}
        BY <4>2 DEF left
      <4> QED
        BY <3>2, <4>3, <4>4 DEF Directory, Chosen
    <3> QED
      BY <3>1, <3>2
  <2>11. \A d \in Clerks \ {c} : errands[d].pc \notin Locked
    BY <1>2, OthersUnlocked
  <2>12. AssignedActive'
    <3> SUFFICES ASSUME NEW r \in Projects, NEW a \in projects[r].assigned, a.session \in Untorn
                 PROVE  Active(a.session)
      BY <1>1, <1>3, <2>8 DEF AssignedActive, Active
    <3>1. \A d \in Clerks : ~Held(d, {"unassign"}, a.session)
      BY <1>1, <2>11 DEF Held, Locked
    <3> QED
      BY <3>1, HostParts DEF AssignedActive
  <2>13. AssignedAgree'
    <3> SUFFICES ASSUME ~memo.moved, NEW r \in Projects, NEW a \in projects'[r].assigned, a.session \in Sound
                 PROVE  {sessions[a.session].cwd} = Directory(r, a.tree)'
      BY <1>1, <1>3 DEF AssignedAgree, Agrees
    <3>1. a \in projects[r].assigned
      BY <2>8
    <3>2. \A d \in Clerks : ~Held(d, {"assign", "undo"}, a.session)
      BY <1>1, <2>11 DEF Held, Locked
    <3>3. Agrees(r, a)
      BY <3>1, <3>2, HostParts DEF PlacesHold, AssignedAgree
    <3> QED
      BY <2>10, <3>1, <3>3 DEF Agrees
  <2> QED
    BY <1>1, <1>2, <1>3, <1>4, <2>8, <2>9, <2>12, <2>13, InnerHolds, HostParts
<1> QED BY <1>5, <1>6

LEMMA CrashHolds == ASSUME HostInv, Crash PROVE HostInv'
<1> DEFINE torn == {errands[c].s : c \in Clerks} \cup UNION {DOMAIN errands[c].todo : c \in Clerks}
<1>1. torn \in SUBSET (Rooms \cup {None})
  <2>1. \A c \in Clerks : errands[c].s \in Rooms \cup {None} /\ errands[c].todo \in HostMoves
    BY HostParts, ErrandIs
  <2>2. \A m \in HostMoves : DOMAIN m \subseteq Rooms
    BY DEF HostMoves
  <2> QED
    BY <2>1, <2>2
<1>2. Mishap(torn) /\ \A c \in Clerks : errands[c].s \in torn
  BY DEF Crash
<1> HIDE DEF torn
<1>3. /\ MemoKeeps /\ memo' \in HostMemo /\ memo'.pruned = memo.pruned /\ memo'.torn = memo.torn \cup torn
      /\ memo'.moved = memo.moved /\ memo'.rehung = memo.rehung
  BY <1>1, <1>2, MemoTorn DEF MemoKeeps
<1>4. /\ Untorn' \subseteq Untorn /\ Sound' \subseteq Sound /\ Sound' \subseteq Untorn'
      /\ \A c \in Clerks : errands[c].s \notin Untorn'
  BY <1>2, <1>3, SoundKept DEF Untorn
<1>5. /\ UNCHANGED <<projects, dirs>> /\ lifecycle' = Unheld /\ guards' = [s \in Rooms |-> Unheld]
      /\ errands' = [c \in Clerks |-> NoErrand]
  BY DEF Crash
<1>6. \A c \in Clerks : errands'[c] = NoErrand
  BY <1>5
<1>7. ASSUME NEW s \in Rooms
      PROVE  sessions'[s] \in HostRoom /\ sessions'[s].state = sessions[s].state /\ sessions'[s].cwd = sessions[s].cwd
  <2>1. sessions'[s] = [sessions[s] EXCEPT !.loaded = FALSE]
    BY DEF Crash
  <2> QED
    BY <2>1, HostParts DEF HostRoom
<1>8. HostTypes'
  <2>1. sessions' \in [Rooms -> HostRoom]
    BY <1>7 DEF Crash
  <2>2. errands' \in [Clerks -> HostErrand] /\ guards' \in [Rooms -> Clerks \cup {Unheld}]
    BY <1>5, NoErrandIs
  <2> QED
    BY <1>3, <1>5, <2>1, <2>2, HostParts DEF HostTypes
<1>9. NoErrand.pc = "idle" /\ ErrandFits(NoErrand) /\ "idle" \notin Locked /\ ~Loading(NoErrand)
  BY NoErrandIs DEF ErrandFits, Locked, Loading
<1>10. ErrandsFit' /\ LockKept' /\ LoadsGuard' /\ ReposFit' /\ HandsHold' /\ ScansHold'
  BY <1>5, <1>6, <1>9, HostParts DEF ErrandsFit, LockKept, HasLock, LoadsGuard, ReposFit, Registers, HandsHold, InHand,
     ScansHold, Seen
<1>11. ProjectsFit'
  BY <1>5, ProjectsSame
<1>12. AssignedActive'
  <2> SUFFICES ASSUME NEW p \in Projects, NEW a \in projects[p].assigned, a.session \in Untorn'
               PROVE  sessions'[a.session].state = "active"
    BY <1>5 DEF AssignedActive, Active
  <2>1. a.session \in Rooms /\ a.session \in Untorn /\ \A c \in Clerks : ~Held(c, {"unassign"}, a.session)
    BY <1>4, AssignedIs DEF Held
  <2> QED
    BY <1>7, <2>1, HostParts DEF AssignedActive, Active
<1>13. Still'
  BY <1>3, <1>5, <1>6, <1>7, <1>9, HostParts DEF Still, Lives, There
<1>14. PrunedAreGone'
  BY <1>3, <1>5, <1>7, HostParts DEF PrunedAreGone, PrunedIsEmpty
<1>15. PlacesHold'
  <2>1. AssignedAgree'
    <3> SUFFICES ASSUME ~memo.moved, NEW p \in Projects, NEW a \in projects[p].assigned, a.session \in Sound'
                 PROVE  {sessions'[a.session].cwd} = Directory(p, a.tree)
      BY <1>3, <1>5, DirectorySame DEF AssignedAgree, Agrees
    <3>1. a.session \in Rooms /\ a.session \in Sound /\ \A c \in Clerks : ~Held(c, {"assign", "undo"}, a.session)
      BY <1>4, AssignedIs DEF Held
    <3> QED
      BY <1>7, <3>1, HostParts DEF PlacesHold, AssignedAgree, Agrees
  <2>2. \A c \in Clerks : WayBack(c)' /\ Target(c)'
    BY <1>6, <1>9 DEF WayBack, Target
  <2> QED
    BY <2>1, <2>2 DEF PlacesHold
<1> QED BY <1>8, <1>10, <1>11, <1>12, <1>13, <1>14, <1>15 DEF HostInv

-----------------------------------------------------------------------------
LEMMA HostStarts == ASSUME HostInit PROVE HostInv
<1>1. NoProject \in HostProject /\ NoProject.made = "no" /\ NoProject.primary = None
      /\ NoProject.trees = {} /\ NoProject.assigned = {}
  BY DEF NoProject, HostProject, Spots
<1>2. NoSession \in HostRoom /\ NoSession.state = "absent"
  BY DEF NoSession, HostRoom, Spots
<1>3. memo \in HostMemo /\ memo.moved = FALSE /\ memo.rehung = {} /\ memo.pruned = {}
  BY DEF HostInit, HostMemo
<1>4. NoErrand \in HostErrand /\ NoErrand.pc = "idle" /\ ErrandFits(NoErrand) /\ "idle" \notin Locked /\ ~Loading(NoErrand)
  BY NoErrandIs DEF ErrandFits, Locked, Loading
<1>5. /\ \A p \in Projects : projects[p] = NoProject
      /\ \A s \in Rooms : sessions[s] = NoSession
      /\ \A c \in Clerks : errands[c] = NoErrand
      /\ lifecycle = Unheld /\ dirs = Roots
  BY DEF HostInit
<1>6. HostTypes
  <2>1. projects \in [Projects -> HostProject] /\ sessions \in [Rooms -> HostRoom] /\ errands \in [Clerks -> HostErrand]
        /\ guards \in [Rooms -> Clerks \cup {Unheld}]
    BY <1>1, <1>2, <1>4 DEF HostInit
  <2> QED
    BY <1>3, <1>5, <2>1 DEF HostTypes, Spots
<1>7. ErrandsFit /\ LoadsGuard /\ ReposFit /\ HandsHold /\ ScansHold
  BY <1>4, <1>5 DEF ErrandsFit, LoadsGuard, ReposFit, Registers, HandsHold, InHand, ScansHold, Seen
<1>8. LockKept
  BY <1>4, <1>5, ClerksAssumption DEF LockKept, HasLock
<1>9. ProjectsFit
  BY <1>1, <1>5 DEF ProjectsFit, OneProject, ProjectFits, ValidProject, Made
<1>10. AssignedActive /\ AssignedAgree
  BY <1>1, <1>5 DEF AssignedActive, AssignedAgree
<1>11. Still
  BY <1>2, <1>3, <1>4, <1>5 DEF Still, Lives
<1>12. PrunedAreGone
  BY <1>3 DEF PrunedAreGone, PrunedIsEmpty
<1>13. PlacesHold
  BY <1>4, <1>5, <1>10 DEF PlacesHold, WayBack, Target
<1> QED BY <1>6, <1>7, <1>8, <1>9, <1>10, <1>11, <1>12, <1>13 DEF HostInv

LEMMA ErrandHolds ==
  ASSUME HostInv, NEW c \in Clerks
  PROVE  /\ (RegisterRepository(c) \/ MoveProject(c) \/ ListSessions(c) \/ Rehung(c) => HostInv')
         /\ (Place(c) \/ Assign(c) \/ AssignFails(c) \/ Undo(c) \/ Make(c) \/ Unmake(c) \/ UnassignArchived(c) => HostInv')
         /\ (AddTree(c) \/ PruneTree(c) \/ ForgetTree(c) => HostInv')
         /\ (ScanTree(c, "active", "archived") \/ ScanTree(c, "archived", "prune") => HostInv')
         /\ (LoadThere(c) \/ LoadRepairs(c) \/ LoadRefuge(c) \/ MoveToRefuge(c) \/ ListOthers(c) \/ LoadRehung(c) => HostInv')
<1>1. ErrandFits(errands[c])
  BY HostParts DEF ErrandsFit
<1>2. CASE RegisterRepository(c) \/ MoveProject(c) \/ ListSessions(c) \/ Rehung(c)
  <2>1. MoveProject(c) => errands[c].p \in Projects /\ errands[c].dir \in Roots
    BY <1>1 DEF MoveProject, OnErrand, ErrandFits
  <2> QED
    BY <1>2, <2>1, RegisterRepositoryHolds, MoveProjectHolds, ListSessionsHolds, RehungHolds
<1>3. CASE Place(c) \/ Assign(c) \/ AssignFails(c) \/ Undo(c) \/ Make(c) \/ Unmake(c) \/ UnassignArchived(c)
  <2>1. errands[c].s \in Rooms
    BY <1>1, <1>3 DEF Place, Assign, AssignFails, Undo, Make, Unmake, UnassignArchived, OnErrand, ErrandFits
  <2>2. Assign(c) => errands[c].p \in Projects
    BY <1>1 DEF Assign, OnErrand, ErrandFits
  <2>3. Assign(c) => HostInv'
    BY <2>1, <2>2, AssignHolds
  <2>4. Place(c) \/ AssignFails(c) \/ Undo(c) \/ Make(c) \/ Unmake(c) \/ UnassignArchived(c) => HostInv'
    BY <2>1, PlaceHolds, AssignFailsHolds, UndoHolds, MakeHolds, UnmakeHolds, UnassignArchivedHolds
  <2> QED
    BY <1>3, <2>3, <2>4
<1>4. CASE AddTree(c) \/ PruneTree(c) \/ ForgetTree(c)
  <2>1. errands[c].tree \in Trees /\ errands[c].p \in Projects
    BY <1>1, <1>4 DEF AddTree, PruneTree, ForgetTree, OnErrand, ErrandFits
  <2> QED
    BY <1>4, <2>1, AddTreeHolds, PruneTreeHolds, ForgetTreeHolds
<1>5. CASE LoadThere(c) \/ LoadRepairs(c) \/ LoadRefuge(c) \/ MoveToRefuge(c) \/ ListOthers(c) \/ LoadRehung(c)
  <2>1. MoveToRefuge(c) => errands[c].p \in Projects
    BY <1>1 DEF MoveToRefuge, OnErrand, ErrandFits
  <2> QED
    BY <1>5, <2>1, LoadThereHolds, LoadRepairsHolds, LoadRefugeHolds, MoveToRefugeHolds, ListOthersHolds, LoadRehungHolds
<1> QED BY <1>2, <1>3, <1>4, <1>5, ScanTreeHolds

LEMMA BegunHolds ==
  ASSUME HostInv, NEW c \in Clerks
  PROVE  /\ \A p \in Projects, d \in Roots : ProjectCreate(c, p, d) \/ UpdateProject(c, p, d) => HostInv'
         /\ \A p \in Projects : DeleteProject(c, p) => HostInv'
         /\ \A s \in Rooms :
              /\ Rebind(c, s) \/ CreateAlone(c, s) \/ UseSession(c, s) => HostInv'
              /\ Archive(c, s) \/ Unarchive(c, s) \/ DeleteSession(c, s) => HostInv'
              /\ \A source \in Rooms, forks \in BOOLEAN : CreateFrom(c, s, source, forks) => HostInv'
              /\ \A p \in Projects :
                   /\ Unassign(c, p, s) => HostInv'
                   /\ \A tree \in Trees \cup Repos \cup {None} :
                        BeginAssign(c, s, p, tree) \/ CreateInProject(c, s, p, tree) => HostInv'
         /\ \A p \in Projects, t \in Trees :
              AttachTree(c, p, t) \/ CreateTree(c, p, t) \/ DetachTree(c, p, t) \/ RemoveTree(c, p, t) => HostInv'
<1>1. \A p \in Projects, d \in Roots : ProjectCreate(c, p, d) \/ UpdateProject(c, p, d) => HostInv'
  BY ProjectCreateHolds, UpdateProjectHolds
<1>2. \A p \in Projects : DeleteProject(c, p) => HostInv'
  BY DeleteProjectHolds
<1>3. ASSUME NEW s \in Rooms
      PROVE  /\ Rebind(c, s) \/ CreateAlone(c, s) \/ UseSession(c, s) => HostInv'
             /\ Archive(c, s) \/ Unarchive(c, s) \/ DeleteSession(c, s) => HostInv'
             /\ \A source \in Rooms, forks \in BOOLEAN : CreateFrom(c, s, source, forks) => HostInv'
             /\ \A p \in Projects :
                  /\ Unassign(c, p, s) => HostInv'
                  /\ \A tree \in Trees \cup Repos \cup {None} :
                       BeginAssign(c, s, p, tree) \/ CreateInProject(c, s, p, tree) => HostInv'
  <2>1. /\ Rebind(c, s) \/ CreateAlone(c, s) \/ UseSession(c, s) => HostInv'
        /\ Archive(c, s) \/ Unarchive(c, s) \/ DeleteSession(c, s) => HostInv'
    BY RebindHolds, CreateAloneHolds, UseSessionHolds, ArchiveHolds, UnarchiveHolds, DeleteSessionHolds
  <2>2. \A source \in Rooms, forks \in BOOLEAN : CreateFrom(c, s, source, forks) => HostInv'
    BY CreateFromHolds
  <2>3. \A p \in Projects : Unassign(c, p, s) => HostInv'
    BY UnassignHolds
  <2>4. \A p \in Projects : \A tree \in Trees \cup Repos \cup {None} :
          BeginAssign(c, s, p, tree) \/ CreateInProject(c, s, p, tree) => HostInv'
    BY BeginAssignHolds, CreateInProjectHolds
  <2> QED
    BY <2>1, <2>2, <2>3, <2>4
<1>4. \A p \in Projects, t \in Trees :
        AttachTree(c, p, t) \/ CreateTree(c, p, t) \/ DetachTree(c, p, t) \/ RemoveTree(c, p, t) => HostInv'
  BY AttachTreeHolds, CreateTreeHolds, DetachTreeHolds, RemoveTreeHolds
<1> QED BY <1>1, <1>2, <1>3, <1>4

LEMMA HostSteps == ASSUME HostInv, [HostNext]_hostVars PROVE HostInv'
<1>1. CASE UNCHANGED hostVars
  <2>1. \A p : \A tree : Directory(p, tree)' = Directory(p, tree)
    BY <1>1, DirectorySame DEF hostVars
  <2>2. HostTypes' /\ ErrandsFit' /\ LockKept' /\ LoadsGuard' /\ ReposFit'
    BY <1>1, HostParts DEF hostVars, HostInv, HostTypes, ErrandsFit, LockKept, HasLock, LoadsGuard, Active, ReposFit, Registers, Made
  <2>3. ProjectsFit'
    BY <1>1, ProjectsSame DEF hostVars
  <2>4. AssignedActive' /\ HandsHold' /\ Still' /\ ScansHold' /\ PrunedAreGone'
    BY <1>1, HostParts DEF hostVars, AssignedActive, Active, Held, Untorn, HandsHold, InHand, Owners, Made,
       Still, Lives, There, ScansHold, Seen, PrunedAreGone, PrunedIsEmpty
  <2>5. PlacesHold'
    <3>1. AssignedAgree'
      BY <1>1, <2>1, HostParts DEF hostVars, PlacesHold, AssignedAgree, Agrees, Held, Sound, Untorn
    <3>2. ASSUME NEW c \in Clerks PROVE WayBack(c)'
      BY <1>1, <2>1, HostParts DEF hostVars, PlacesHold, WayBack, There, Sound, Untorn
    <3>3. ASSUME NEW c \in Clerks PROVE Target(c)'
      BY <1>1, HostParts DEF hostVars, PlacesHold, Target, Directory, Chosen, Sound, Untorn
    <3> QED
      BY <3>1, <3>2, <3>3 DEF PlacesHold
  <2> QED
    BY <2>2, <2>3, <2>4, <2>5 DEF HostInv
<1>2. CASE HostNext
  BY <1>2, ErrandHolds, BegunHolds, ExpireHolds, UnloadHolds, LoseDirectoryHolds, CrashHolds DEF HostNext
<1> QED BY <1>1, <1>2

LEMMA HostHoldsThen == ASSUME HostInv PROVE HostHolds
<1>1. AssignedIsActive
  BY NobodyHolds DEF AssignedIsActive
<1>2. PrunedIsEmpty
  BY HostParts DEF PrunedAreGone
<1>3. AssignedInPlace
  BY NobodyHolds DEF AssignedInPlace, Quiet, Sound, Agrees
<1>4. ASSUME NEW p \in Projects PROVE ValidProject(projects[p])
  BY ProjectOf
<1>5. ASSUME NEW s \in Rooms PROVE Cardinality(Owners(s)) <= 1
  <2>1. CASE Owners(s) = {}
    BY <2>1, FS_EmptySet
  <2>2. CASE Owners(s) # {}
    <3>1. PICK p \in Projects : p \in Owners(s)
      BY <2>2 DEF Owners
    <3>2. Owners(s) = {p}
      BY <3>1, HostParts DEF Owners, ProjectsFit, OneProject
    <3> QED
      BY <3>2, FS_Singleton
  <2> QED
    BY <2>1, <2>2
<1> QED BY <1>1, <1>2, <1>3, <1>4, <1>5 DEF HostHolds, ProjectsAreValid

(* The stores of sessions and projects and the directories on disk agree,     *)
(* whatever create, assign, archive, removal, a move of a project, a load and *)
(* a crash are in the middle of.                                              *)
THEOREM HostCorrect == HostSpec => []HostHolds
<1>1. HostInit => HostInv
  BY HostStarts
<1>2. HostInv /\ [HostNext]_hostVars => HostInv'
  BY HostSteps
<1>3. HostInv => HostHolds
  BY HostHoldsThen
<1> QED BY <1>1, <1>2, <1>3, PTL DEF HostSpec
===============================================================================
