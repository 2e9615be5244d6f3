--------------------------- MODULE DaemonLifecycle ---------------------------
(* The commands that start, stop, upgrade and remove the daemon, and the      *)
(* daemon processes they meet.  A daemon takes the lock of the instance       *)
(* before it touches the profile and keeps it until its process is gone; it   *)
(* answers on a socket it opens later and closes earlier.  A command looks    *)
(* at the lock by taking it for a moment.                                     *)
EXTENDS Naturals, FiniteSets

CONSTANTS
  Consoles,       (* command line processes                                  *)
  Processes,      (* daemon processes                                        *)
  Unlocked,       (* the lock, when nobody has it                            *)
  MaxCommandsRun, (* bound: commands given                                   *)
  MaxDaemonFaults (* bound: crashes, failed starts and failing listeners     *)

(* The lock tells daemons, commands and nobody apart.                         *)
ASSUME HoldersAssumption ==
  Unlocked \notin Processes \cup Consoles /\ Processes \cap Consoles = {}

VARIABLES
  daemons,   (* each daemon process: where it is, and whether told to stop   *)
  instance,  (* InstanceLock: who has the lock file locked                   *)
  endpoint,  (* whose socket the path of the endpoint names                  *)
  commands,  (* each command: what it is, where, and what it saw             *)
  profileThere, (* whether the profile is there                            *)
  counts     (* locks taken so far, and the bounds used                      *)

daemonVars == <<daemons, instance, endpoint, commands, profileThere, counts>>

NoProcess == [at |-> "none", stop |-> FALSE, number |-> 0]
NoCommand == [cmd |-> "none", pc |-> "done", said |-> "none", seen |-> 0, restart |-> FALSE]

DaemonInit ==
  /\ daemons = [d \in Processes |-> NoProcess]
  /\ instance = Unlocked /\ endpoint = Unlocked
  /\ commands = [c \in Consoles |-> NoCommand]
  /\ profileThere = TRUE
  /\ counts = [locks |-> 0, commands |-> 0, faults |-> 0]

DaemonFault == counts.faults < MaxDaemonFaults /\ counts' = [counts EXCEPT !.faults = @ + 1]
Holding == {d \in Processes : daemons[d].at \notin {"none", "spawned"}}
Moves(d, from, to) == daemons[d].at = from /\ daemons' = [daemons EXCEPT ![d].at = to]
Exits(d) == daemons' = [daemons EXCEPT ![d] = NoProcess] /\ instance' = IF instance = d THEN Unlocked ELSE instance

-----------------------------------------------------------------------------
(* run_daemon *)

\* mutant: a daemon goes on although the lock is taken.
AcquireAnyway(d) ==
  /\ daemons[d].at = "spawned"
  /\ instance' = d
  /\ daemons' = [daemons EXCEPT ![d].at = "building", ![d].number = counts.locks + 1]
  /\ counts' = [counts EXCEPT !.locks = @ + 1]
  /\ UNCHANGED <<endpoint, commands, profileThere>>

(* InstanceLock::acquire: whoever cannot have it ends at once.                *)
Acquire(d) ==
  /\ daemons[d].at = "spawned"
  /\ IF instance = Unlocked
     THEN /\ instance' = d
          /\ daemons' = [daemons EXCEPT ![d].at = "building", ![d].number = counts.locks + 1]
          /\ counts' = [counts EXCEPT !.locks = @ + 1]
     ELSE Exits(d) /\ UNCHANGED counts
  /\ UNCHANGED <<endpoint, commands, profileThere>>

(* Host::build reads the profile and may refuse it.                           *)
BuildHost(d) ==
  /\ profileThere /\ Moves(d, "building", "built")
  /\ UNCHANGED <<instance, endpoint, commands, profileThere, counts>>

BuildRefused(d) ==
  /\ daemons[d].at = "building"
  /\ IF profileThere THEN DaemonFault ELSE UNCHANGED counts
  /\ Exits(d)
  /\ UNCHANGED <<endpoint, commands, profileThere>>

(* serve replaces whatever is at the path of the endpoint.                    *)
Listen(d) ==
  /\ Moves(d, "built", "serving") /\ endpoint' = d
  /\ UNCHANGED <<instance, commands, profileThere, counts>>

(* The socket cannot be bound, or accepting fails: the process lives on for   *)
(* its websocket, and nobody reaches it here any more.                        *)
ListenerFails(d) ==
  /\ \/ Moves(d, "built", "deaf") /\ endpoint' = Unlocked
     \/ Moves(d, "serving", "deaf") /\ UNCHANGED endpoint
  /\ DaemonFault
  /\ UNCHANGED <<instance, commands, profileThere>>

(* Told to stop, it removes the socket and shuts the host down.               *)
CloseListener(d) ==
  /\ daemons[d].stop /\ Moves(d, "serving", "closing") /\ endpoint' = Unlocked
  /\ UNCHANGED <<instance, commands, profileThere, counts>>

ProcessEnds(d) ==
  /\ daemons[d].at = "closing" \/ (daemons[d].at = "deaf" /\ daemons[d].stop)
  /\ Exits(d)
  /\ UNCHANGED <<endpoint, commands, profileThere, counts>>

DaemonKilled(d) ==
  /\ daemons[d].at # "none" /\ DaemonFault /\ Exits(d)
  /\ endpoint' = IF endpoint = d THEN Unlocked ELSE endpoint
  /\ UNCHANGED <<commands, profileThere>>

-----------------------------------------------------------------------------
(* The commands *)

(* daemon.status: the endpoint answers.                                       *)
Answering == endpoint # Unlocked /\ daemons[endpoint].at = "serving"

Command(c, cmd) ==
  /\ commands[c].pc = "done" /\ counts.commands < MaxCommandsRun
  /\ commands' = [commands EXCEPT ![c] =
       [NoCommand EXCEPT !.cmd = cmd, !.pc = IF cmd \in {"start", "install"} THEN "status" ELSE "shutdown"]]
  /\ counts' = [counts EXCEPT !.commands = @ + 1]
  /\ UNCHANGED <<daemons, instance, endpoint, profileThere>>

Goes(c, pc) == commands' = [commands EXCEPT ![c].pc = pc]
Says(c, what) == commands' = [commands EXCEPT ![c].pc = "done", ![c].said = what]

(* The first look of start and of install.                                    *)
Status(c) ==
  /\ commands[c].pc = "status"
  /\ IF commands[c].cmd = "install" /\ ~commands[c].restart
     THEN Goes(c, IF Answering THEN "shutdown" ELSE "copy")
     ELSE IF Answering THEN Says(c, "already running") ELSE Goes(c, "probe")
  /\ UNCHANGED <<daemons, instance, endpoint, profileThere, counts>>

(* daemon.shutdown only sets the token.  stop fails if nobody answers, and    *)
(* without a profile there is nothing to remove.                              *)
AskShutdown(c) ==
  /\ commands[c].pc = "shutdown"
  /\ daemons' = IF Answering THEN [daemons EXCEPT ![endpoint].stop = TRUE] ELSE daemons
  /\ IF commands[c].cmd = "stop" /\ ~Answering THEN Says(c, "no daemon")
     ELSE IF commands[c].cmd = "purge" /\ ~profileThere THEN Says(c, "nothing there")
     ELSE Goes(c, "probe")
  /\ UNCHANGED <<instance, endpoint, profileThere, counts>>

(* InstanceLock::held: taken and given back, or found taken.                  *)
Probe(c) ==
  /\ commands[c].pc = "probe" /\ instance = Unlocked
  /\ instance' = c
  /\ commands' = [commands EXCEPT ![c].pc = "probed", ![c].seen = counts.locks]
  /\ UNCHANGED <<daemons, endpoint, profileThere, counts>>

(* start gives up when the lock is held; whoever waits for the daemon to go   *)
(* looks again every 100 ms, and gives up after 30 seconds.                   *)
ProbeHeld(c) ==
  /\ commands[c].pc = "probe" /\ instance # Unlocked
  /\ Says(c, IF commands[c].cmd = "start" \/ commands[c].restart THEN "held" ELSE "did not stop")
  /\ UNCHANGED <<daemons, instance, endpoint, profileThere, counts>>

ProbeFree(c) ==
  /\ commands[c].pc = "probed"
  /\ instance' = Unlocked
  /\ commands' = [commands EXCEPT
       ![c].pc = CASE commands[c].cmd = "start" \/ commands[c].restart -> "spawn"
                   [] commands[c].cmd = "stop"    -> "done"
                   [] commands[c].cmd = "purge"   -> "remove"
                   [] OTHER                       -> "copy",
       ![c].said = IF commands[c].cmd = "stop" THEN "stopped" ELSE @,
       ![c].restart = @ \/ commands[c].cmd = "install"]
  /\ UNCHANGED <<daemons, endpoint, profileThere, counts>>

(* install writes the executable and what is missing of the profile, and      *)
(* starts the daemon if it stopped one or is told to.                         *)
Copy(c) ==
  /\ commands[c].pc = "copy"
  /\ profileThere' = TRUE
  /\ \/ ~commands[c].restart /\ Says(c, "installed")
     \/ commands' = [commands EXCEPT ![c].pc = "status", ![c].restart = TRUE]
  /\ UNCHANGED <<daemons, instance, endpoint, counts>>

RemoveProfile(c) ==
  /\ commands[c].pc = "remove"
  /\ profileThere' = FALSE /\ Says(c, "removed")
  /\ UNCHANGED <<daemons, instance, endpoint, counts>>

(* A process of its own, or the registered service.                           *)
SpawnDaemon(c) ==
  /\ commands[c].pc = "spawn"
  /\ \E d \in Processes : Moves(d, "none", "spawned")
  /\ Goes(c, "wait")
  /\ UNCHANGED <<instance, endpoint, profileThere, counts>>

(* start waits for somebody to answer, for 75 seconds.                        *)
Healthy(c) ==
  /\ commands[c].pc = "wait"
  /\ Says(c, IF Answering THEN "started" ELSE "not healthy")
  /\ UNCHANGED <<daemons, instance, endpoint, profileThere, counts>>

DaemonNext ==
  \/ \E d \in Processes :
       \/ Acquire(d) \/ BuildHost(d) \/ BuildRefused(d) \/ Listen(d) \/ ListenerFails(d)
       \/ CloseListener(d) \/ ProcessEnds(d) \/ DaemonKilled(d)
  \/ \E c \in Consoles :
       \/ \E cmd \in {"start", "stop", "install", "purge"} : Command(c, cmd)
       \/ Status(c) \/ AskShutdown(c) \/ Probe(c) \/ ProbeHeld(c) \/ ProbeFree(c)
       \/ Copy(c) \/ RemoveProfile(c) \/ SpawnDaemon(c) \/ Healthy(c)

DaemonSpec == DaemonInit /\ [][DaemonNext]_daemonVars

-----------------------------------------------------------------------------
(* Properties *)

(* However commands race, two daemons never work on one profile at a time,    *)
(* not even while one starts or the other shuts down.                         *)
OneDaemon == Cardinality(Holding) <= 1

(* A daemon that serves is the one the endpoint leads to: its predecessor     *)
(* does not take the successor's socket away.                                 *)
ServingIsReachable == \A d \in Processes : daemons[d].at = "serving" => endpoint = d

(* stop, purge and the upgrade of a running daemon go on only when that       *)
(* daemon's process is gone: whatever works on the profile then took the lock *)
(* after they saw it free.                                                    *)
StoppedIsGone == \A c \in Consoles :
  commands[c].said = "stopped" \/ commands[c].pc = "remove" \/ (commands[c].pc = "copy" /\ commands[c].restart)
    => \A d \in Holding : daemons[d].number > commands[c].seen

DaemonHolds == OneDaemon /\ ServingIsReachable /\ StoppedIsGone
=============================================================================
