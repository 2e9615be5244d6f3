---------------------------- MODULE HostSessions ----------------------------
(* The host's coordination of sessions and projects: which project a session *)
(* is assigned to, which directory it works in, which worktrees git keeps,   *)
(* under the lifecycle lock of SessionManager, the lock of a session, and    *)
(* the calls that take neither.                                              *)
EXTENDS Integers, FiniteSets, TLC

CONSTANTS
  Clerks,      (* calls served at once                                        *)
  Unheld,      (* holder of a free lock                                       *)
  Rooms,       (* sessions                                                    *)
  Projects,    (* project ids                                                 *)
  Roots,       (* directories a project may be given                          *)
  Repos,       (* those of them that are the root of a git repository         *)
  Trees,       (* paths of its further worktrees                              *)
  MaxErrands,  (* calls begun in a run                                        *)
  MaxMishaps   (* failing steps, lost directories, crashes in a run           *)

ASSUME DirectoriesAssumption == Repos \subseteq Roots /\ Roots \cap Trees = {}
ASSUME ClerksAssumption == Unheld \notin Clerks

VARIABLES
  projects,    (* project.json of each project                                *)
  sessions,    (* each session's record, and whether an actor is loaded       *)
  dirs,        (* directories there are                                       *)
  lifecycle,   (* holder of SessionManager.lifecycle                          *)
  guards,      (* holder of each session's lock                               *)
  errands,     (* where each call is                                          *)
  memo         (* bounds, and what the properties remember                    *)

hostVars == <<projects, sessions, dirs, lifecycle, guards, errands, memo>>

None == "none"
Own(s) == <<"managed", s>>
Refuge(p) == <<"fallback", p>>
Assignments == [session : Rooms, tree : Trees \cup Roots \cup {None}]
(* None is no id and no path, and no worktree lies in a directory of the     *)
(* host's own.                                                               *)
ASSUME PlacesAssumption ==
  /\ None \notin Rooms \cup Projects \cup Roots \cup Trees
  /\ \A s \in Rooms : Own(s) \notin Roots \cup Trees
  /\ \A p \in Projects : Refuge(p) \notin Roots \cup Trees
NoProject == [made |-> "no", pwd |-> None, primary |-> None, trees |-> {}, assigned |-> {}]
NoSession == [state |-> "absent", cwd |-> None, loaded |-> FALSE]
NoErrand == [pc |-> "idle", s |-> None, p |-> None, dir |-> None, was |-> None,
             tree |-> None, todo |-> <<>>, fresh |-> FALSE]

HostInit ==
  /\ projects = [p \in Projects |-> NoProject]
  /\ sessions = [s \in Rooms |-> NoSession]
  /\ dirs = Roots
  /\ lifecycle = Unheld
  /\ guards = [s \in Rooms |-> Unheld]
  /\ errands = [c \in Clerks |-> NoErrand]
  /\ memo = [begun |-> 0, mishaps |-> 0, torn |-> {}, misled |-> {}, moved |-> FALSE,
             rehung |-> {}, pruned |-> {}]

Untorn == Rooms \ memo.torn
Made(p) == projects[p].made = "yes"
Active(s) == sessions[s].state = "active"
There(d) == d \in dirs \/ \E s \in Rooms : d = Own(s)
OnErrand(c, pc) == errands[c].pc = pc
Turn(c, pc) == errands' = [errands EXCEPT ![c].pc = pc]
Finish(c) == errands' = [errands EXCEPT ![c] = NoErrand]
Leave(c) == lifecycle' = Unheld /\ Finish(c)
TakeLock(c) ==
  /\ OnErrand(c, "idle") /\ memo.begun < MaxErrands
  /\ memo' = [memo EXCEPT !.begun = @ + 1]
Alone(c) == TakeLock(c) /\ lifecycle = Unheld
Mishap(torn) ==
  /\ memo.mishaps < MaxMishaps
  /\ memo' = [memo EXCEPT !.mishaps = @ + 1, !.torn = @ \cup torn]

(* validate, before a project is written: what it calls its primary is among *)
(* its worktrees, and so is what an assignment names; one of each session.   *)
ValidProject(p) ==
  /\ p.primary \in p.trees \cup {None}
  /\ \A a \in p.assigned :
       /\ a \in Assignments /\ a.tree \in p.trees \cup {None}
       /\ \A other \in p.assigned : other.session = a.session => other = a

AssignmentsOf(s) == UNION {{a \in projects[p].assigned : a.session = s} : p \in Projects}
Owners(s) == {p \in Projects : \E a \in projects[p].assigned : a.session = s}
Without(ps, s) == [p \in Projects |->
  [ps[p] EXCEPT !.assigned = {a \in @ : a.session # s}]]

-----------------------------------------------------------------------------
(* ProjectService: each operation under its write lock                       *)

(* project_directory: an empty set for an unknown worktree *)
Chosen(p, tree) == IF tree = None THEN projects[p].primary ELSE tree
Directory(p, tree) ==
  IF Chosen(p, tree) = None THEN {projects[p].pwd}
  ELSE projects[p].trees \cap {Chosen(p, tree)}

FreePwd(p, d) == \A q \in Projects \ {p} : ~(Made(q) /\ projects[q].pwd = d)

AssignSession(p, s, tree) ==
  projects' = [Without(projects, s) EXCEPT ![p].assigned =
                 @ \cup {[session |-> s, tree |-> tree]}]
MayAssign(p, s, tree) ==
  /\ Made(p) /\ Owners(s) \subseteq {p}
  /\ tree \in projects[p].trees \cup {None}

(* project.create, then the repository found at the directory *)
ProjectCreate(c, p, d) ==
  /\ TakeLock(c) /\ projects[p].made = "no"
  /\ d \in dirs /\ FreePwd(p, d)
  /\ projects' = [projects EXCEPT ![p] = [NoProject EXCEPT !.made = "yes", !.pwd = d]]
  /\ errands' = [errands EXCEPT ![c] = [NoErrand EXCEPT
       !.pc = IF d \in Repos THEN "register" ELSE "idle",
       !.p = IF d \in Repos THEN p ELSE None, !.dir = IF d \in Repos THEN d ELSE None]]
  /\ UNCHANGED <<sessions, dirs, lifecycle, guards>>

RegisterRepository(c) ==
  LET p == errands[c].p d == errands[c].dir IN
  /\ OnErrand(c, "register")
  /\ projects' = IF Made(p)
       THEN [projects EXCEPT ![p].trees = {d},
               ![p].primary = IF projects[p].pwd = d THEN d ELSE None]
       ELSE projects
  /\ Finish(c)
  /\ UNCHANGED <<sessions, dirs, lifecycle, guards, memo>>

(* project.update: the directory is compared with the other projects' under  *)
(* the read lock and written under the write lock, and the sessions follow.  *)
UpdateProject(c, p, d) ==
  /\ TakeLock(c) /\ Made(p) /\ d \in dirs /\ FreePwd(p, d)
  /\ errands' = [errands EXCEPT ![c] = [NoErrand EXCEPT
       !.pc = "move", !.p = p, !.dir = d, !.was = projects[p].pwd]]
  /\ UNCHANGED <<projects, sessions, dirs, lifecycle, guards>>

MoveProject(c) ==
  LET p == errands[c].p IN
  /\ OnErrand(c, "move")
  /\ IF Made(p)
     THEN /\ projects' = [projects EXCEPT ![p].pwd = errands[c].dir]
          /\ IF errands[c].dir # errands[c].was THEN Turn(c, "list") ELSE Finish(c)
     ELSE UNCHANGED projects /\ Finish(c)
  /\ memo' = [memo EXCEPT !.moved = TRUE]
  /\ UNCHANGED <<sessions, dirs, lifecycle, guards>>

(* rehang_project_sessions works on the assignments it read; "skip" is the   *)
(* session whose load asked for it.                                          *)
RehangList(c, p, skip) ==
  LET mine == {a \in projects[p].assigned : a.session # skip}
      dirOf(s) == CHOOSE d \in Directory(p, (CHOOSE a \in mine : a.session = s).tree) : TRUE
  IN [s \in {a.session : a \in {b \in mine : Directory(p, b.tree) # {}}} |-> dirOf(s)]

ListSessions(c) ==
  LET p == errands[c].p IN
  /\ OnErrand(c, "list")
  /\ IF Made(p)
     THEN errands' = [errands EXCEPT ![c].pc = "rehang", ![c].todo = RehangList(c, p, None)]
     ELSE Finish(c)
  /\ UNCHANGED <<projects, sessions, dirs, lifecycle, guards, memo>>

Rest(c, s) == [r \in DOMAIN errands[c].todo \ {s} |-> errands[c].todo[r]]

(* rebind_workspace waits for the session's lock; a session that refuses (it *)
(* is archived, or a turn is running) is left where it is, with a warning.   *)
Rebind(c, s) ==
  /\ OnErrand(c, "rehang") /\ s \in DOMAIN errands[c].todo
  /\ \/ /\ There(errands[c].todo[s]) /\ guards[s] = Unheld /\ Active(s)
        /\ sessions' = [sessions EXCEPT ![s].cwd = errands[c].todo[s]]
        /\ memo' = [memo EXCEPT !.rehung = @ \cup {s}]
     \/ /\ ~There(errands[c].todo[s]) \/ (guards[s] = Unheld /\ ~Active(s))
        /\ UNCHANGED <<sessions, memo>>
     \/ /\ There(errands[c].todo[s]) /\ guards[s] = Unheld /\ Active(s)
        /\ Mishap({s}) /\ UNCHANGED sessions
  /\ errands' = [errands EXCEPT ![c].todo = Rest(c, s)]
  /\ UNCHANGED <<projects, dirs, lifecycle, guards>>

Rehung(c) ==
  /\ OnErrand(c, "rehang") /\ DOMAIN errands[c].todo = {}
  /\ errands[c].s = None
  /\ Finish(c)
  /\ UNCHANGED <<projects, sessions, dirs, lifecycle, guards, memo>>

(* project.delete: the sessions stay, without a project. *)
DeleteProject(c, p) ==
  /\ Alone(c) /\ Made(p)
  /\ projects' = [projects EXCEPT ![p] = [NoProject EXCEPT !.made = "gone"]]
  /\ UNCHANGED <<sessions, dirs, lifecycle, guards, errands>>

Unassign(c, p, s) ==
  /\ Alone(c) /\ Owners(s) = {p}
  /\ projects' = Without(projects, s)
  /\ UNCHANGED <<sessions, dirs, lifecycle, guards, errands>>

-----------------------------------------------------------------------------
(* SessionManager.assign: the session moves first and is assigned next; a    *)
(* refused assignment moves it back.                                         *)
BeginAssign(c, s, p, tree) ==
  LET kept == IF tree # None \/ Owners(s) = {} THEN tree
              ELSE (CHOOSE a \in AssignmentsOf(s) : TRUE).tree
  IN
  /\ Alone(c)
  /\ Active(s) /\ sessions[s].loaded
  /\ Owners(s) \subseteq {p} /\ Made(p)
  /\ \E d \in Directory(p, kept) :
       errands' = [errands EXCEPT ![c] = [NoErrand EXCEPT
         !.pc = "place", !.s = s, !.p = p, !.dir = d, !.was = sessions[s].cwd,
         !.tree = Chosen(p, kept)]]
  /\ lifecycle' = c
  /\ UNCHANGED <<projects, sessions, dirs, guards>>

Place(c) ==
  LET s == errands[c].s d == errands[c].dir IN
  /\ OnErrand(c, "place") /\ guards[s] = Unheld
  /\ \/ /\ There(d) /\ Active(s)
        /\ sessions' = [sessions EXCEPT ![s].cwd = d]
        /\ Turn(c, "assign")
        /\ UNCHANGED <<lifecycle, memo>>
     \/ /\ d # errands[c].was /\ Mishap({})
        /\ Leave(c)
        /\ UNCHANGED sessions
     \/ /\ ~(There(d) /\ Active(s))
        /\ IF d = errands[c].was THEN Turn(c, "assign") /\ UNCHANGED lifecycle ELSE Leave(c)
        /\ UNCHANGED <<sessions, memo>>
  /\ UNCHANGED <<projects, dirs, guards>>

(* ProjectService.assign_session, called by assign and by create *)
Assign(c) ==
  LET e == errands[c] IN
  /\ OnErrand(c, "assign") /\ MayAssign(e.p, e.s, e.tree)
  /\ AssignSession(e.p, e.s, e.tree)
  /\ Leave(c)
  /\ UNCHANGED <<sessions, dirs, guards, memo>>

\* mutant: a refused assignment leaves the session where it was moved to.
AssignFailsInPlace(c) ==
  LET e == errands[c] IN
  /\ OnErrand(c, "assign")
  /\ IF MayAssign(e.p, e.s, e.tree) THEN Mishap({}) ELSE UNCHANGED memo
  /\ IF e.fresh THEN Turn(c, "unmake") /\ UNCHANGED lifecycle ELSE Leave(c)
  /\ UNCHANGED <<projects, sessions, dirs, guards>>

AssignFails(c) ==
  LET e == errands[c] IN
  /\ OnErrand(c, "assign")
  /\ IF MayAssign(e.p, e.s, e.tree) THEN Mishap({}) ELSE UNCHANGED memo
  /\ IF e.fresh THEN Turn(c, "unmake") /\ UNCHANGED lifecycle
     ELSE IF e.dir # e.was THEN Turn(c, "undo") /\ UNCHANGED lifecycle
     ELSE Leave(c)
  /\ UNCHANGED <<projects, sessions, dirs, guards>>

(* The way back is refused by a session that meanwhile runs a turn or is gone. *)
Undo(c) ==
  LET s == errands[c].s IN
  /\ OnErrand(c, "undo") /\ guards[s] = Unheld
  /\ \/ /\ sessions' = IF Active(s) /\ There(errands[c].was)
                       THEN [sessions EXCEPT ![s].cwd = errands[c].was] ELSE sessions
        /\ UNCHANGED memo
     \/ Mishap({s}) /\ UNCHANGED sessions
  /\ Leave(c)
  /\ UNCHANGED <<projects, dirs, guards>>

-----------------------------------------------------------------------------
(* SessionManager.create: in a project, beside a parent or source whose      *)
(* assignment it inherits, in a directory given, or in one of its own.       *)
BeginCreate(c, s, p, d, tree, misled) ==
  /\ OnErrand(c, "idle") /\ memo.begun < MaxErrands
  /\ lifecycle = Unheld /\ sessions[s].state = "absent"
  /\ memo' = [memo EXCEPT !.begun = @ + 1, !.misled = @ \cup misled]
  /\ errands' = [errands EXCEPT ![c] = [NoErrand EXCEPT
       !.pc = "make", !.s = s, !.p = p, !.dir = d, !.tree = tree, !.fresh = TRUE]]
  /\ lifecycle' = c
  /\ UNCHANGED <<projects, sessions, dirs, guards>>

CreateInProject(c, s, p, tree) ==
  /\ Made(p)
  /\ \E d \in Directory(p, tree) : BeginCreate(c, s, p, d, Chosen(p, tree), {})

CreateAlone(c, s) == \E d \in dirs \cup {Own(s)} : BeginCreate(c, s, None, d, None, {})

(* What is created beside a session that is out of place is out of place.    *)
CreateFrom(c, s, source, forks) ==
  /\ sessions[source].state \in {"active", "archived"} /\ sessions[source].loaded
  /\ LET d == IF forks /\ sessions[source].cwd = Own(source) THEN Own(s)
              ELSE sessions[source].cwd IN
     \/ Owners(source) = {} /\ BeginCreate(c, s, None, d, None, {})
     \/ \E p \in Owners(source), a \in AssignmentsOf(source) :
          BeginCreate(c, s, p, d, a.tree, IF source \in Untorn \ memo.misled THEN {} ELSE {s})

Make(c) ==
  LET e == errands[c] IN
  /\ OnErrand(c, "make")
  /\ \/ /\ There(e.dir)
        /\ sessions' = [sessions EXCEPT ![e.s] =
             [state |-> "active", cwd |-> e.dir, loaded |-> TRUE]]
        /\ IF e.p = None THEN Leave(c) ELSE Turn(c, "assign") /\ UNCHANGED lifecycle
        /\ UNCHANGED memo
     \/ /\ There(e.dir) /\ Mishap({})
        /\ Turn(c, "unmake")
        /\ UNCHANGED <<sessions, lifecycle>>
     \/ /\ ~There(e.dir)
        /\ Turn(c, "unmake")
        /\ UNCHANGED <<sessions, lifecycle, memo>>
  /\ UNCHANGED <<projects, dirs, guards>>

(* SessionService.delete and its hook; a deletion that fails too is ignored. *)
Removed(s) ==
  /\ sessions' = [sessions EXCEPT ![s] = [NoSession EXCEPT !.state = "gone"]]
  /\ projects' = Without(projects, s)

Unmake(c) ==
  LET s == errands[c].s IN
  /\ OnErrand(c, "unmake") /\ guards[s] = Unheld
  /\ \/ Removed(s) /\ UNCHANGED memo
     \/ Mishap({s}) /\ UNCHANGED <<sessions, projects>>
  /\ Leave(c)
  /\ UNCHANGED <<dirs, guards>>

-----------------------------------------------------------------------------
(* Archive, unarchive and delete of the host; the expiry of an ephemeral     *)
(* session deletes it without the lifecycle lock.                            *)
Archive(c, s) ==
  /\ Alone(c) /\ guards[s] = Unheld /\ Active(s)
  /\ sessions' = [sessions EXCEPT ![s].state = "archived", ![s].loaded = FALSE]
  /\ errands' = [errands EXCEPT ![c] = [NoErrand EXCEPT !.pc = "unassign", !.s = s]]
  /\ lifecycle' = c
  /\ UNCHANGED <<projects, dirs, guards>>

UnassignArchived(c) ==
  LET s == errands[c].s IN
  /\ OnErrand(c, "unassign")
  /\ \/ projects' = Without(projects, s) /\ UNCHANGED memo
     \/ Mishap({s}) /\ UNCHANGED projects
  /\ Leave(c)
  /\ UNCHANGED <<sessions, dirs, guards>>

Unarchive(c, s) ==
  /\ Alone(c) /\ guards[s] = Unheld /\ sessions[s].state = "archived"
  /\ sessions' = [sessions EXCEPT ![s].state = "active"]
  /\ UNCHANGED <<projects, dirs, lifecycle, guards, errands>>

DeleteSession(c, s) ==
  /\ Alone(c) /\ guards[s] = Unheld /\ sessions[s].state = "archived"
  /\ Removed(s)
  /\ UNCHANGED <<dirs, lifecycle, guards, errands>>

Expire(s) ==
  /\ guards[s] = Unheld /\ Active(s) /\ Mishap({s})
  /\ Removed(s)
  /\ UNCHANGED <<dirs, lifecycle, guards, errands>>

-----------------------------------------------------------------------------
(* Worktrees: attach and create take no lock, detach and remove do.          *)
AttachTree(c, p, t) ==
  /\ TakeLock(c) /\ Made(p) /\ projects[p].trees # {}
  /\ t \in dirs
  /\ errands' = [errands EXCEPT ![c] = [NoErrand EXCEPT !.pc = "add", !.p = p, !.tree = t]]
  /\ UNCHANGED <<projects, sessions, dirs, lifecycle, guards>>

CreateTree(c, p, t) ==
  /\ Made(p) /\ projects[p].trees # {}
  /\ OnErrand(c, "idle") /\ memo.begun < MaxErrands
  /\ memo' = [memo EXCEPT !.begun = @ + 1, !.pruned = @ \ {t}]
  /\ t \notin dirs
  /\ dirs' = dirs \cup {t}
  /\ errands' = [errands EXCEPT ![c] = [NoErrand EXCEPT !.pc = "add", !.p = p, !.tree = t]]
  /\ UNCHANGED <<projects, sessions, lifecycle, guards>>

AddTree(c) ==
  LET p == errands[c].p IN
  /\ OnErrand(c, "add")
  /\ projects' = IF Made(p) THEN [projects EXCEPT ![p].trees = @ \cup {errands[c].tree}]
                 ELSE projects
  /\ Finish(c)
  /\ UNCHANGED <<sessions, dirs, lifecycle, guards, memo>>

Unowned(p, t) == ~\E a \in projects[p].assigned : a.tree = t

DetachTree(c, p, t) ==
  /\ Alone(c) /\ Made(p)
  /\ t \in projects[p].trees \cap Trees /\ Unowned(p, t)
  /\ projects' = [projects EXCEPT ![p].trees = @ \ {t}]
  /\ UNCHANGED <<sessions, dirs, lifecycle, guards, errands>>

RemoveTree(c, p, t) ==
  /\ Alone(c) /\ Made(p)
  /\ t \in projects[p].trees \cap Trees /\ Unowned(p, t)
  /\ errands' = [errands EXCEPT ![c] = [NoErrand EXCEPT
       !.pc = "active", !.p = p, !.tree = t]]
  /\ lifecycle' = c
  /\ UNCHANGED <<projects, sessions, dirs, guards>>

(* ensure_worktree_unused lists the active sessions, then the archived ones. *)
ScanTree(c, state, next) ==
  /\ OnErrand(c, state)
  /\ IF \E s \in Rooms : sessions[s].state = state /\ sessions[s].cwd = errands[c].tree
     THEN Leave(c)
     ELSE Turn(c, next) /\ UNCHANGED lifecycle
  /\ UNCHANGED <<projects, sessions, dirs, guards, memo>>

(* git worktree remove, then the registration; git may refuse a dirty tree.  *)
PruneTree(c) ==
  /\ OnErrand(c, "prune")
  /\ \/ /\ errands[c].tree \in dirs
        /\ dirs' = dirs \ {errands[c].tree}
        /\ memo' = [memo EXCEPT !.pruned = @ \cup {errands[c].tree}]
        /\ Turn(c, "forget") /\ UNCHANGED lifecycle
     \/ Leave(c) /\ UNCHANGED <<dirs, memo>>
  /\ UNCHANGED <<projects, sessions, guards>>

ForgetTree(c) ==
  LET p == errands[c].p t == errands[c].tree IN
  /\ OnErrand(c, "forget")
  /\ projects' = IF Made(p) /\ Unowned(p, t)
                 THEN [projects EXCEPT ![p].trees = @ \ {t}] ELSE projects
  /\ Leave(c)
  /\ UNCHANGED <<sessions, dirs, guards, memo>>

-----------------------------------------------------------------------------
(* A call that changes a session (session.set_config, an internal prompt)    *)
(* holds the session's lock while it loads it, and a load whose directory is *)
(* gone asks the repairer of Host::build for another one.                    *)
UseSession(c, s) ==
  /\ TakeLock(c) /\ guards[s] = Unheld
  /\ Active(s) /\ ~sessions[s].loaded
  /\ guards' = [guards EXCEPT ![s] = c]
  /\ errands' = [errands EXCEPT ![c] = [NoErrand EXCEPT !.pc = "load", !.s = s]]
  /\ UNCHANGED <<projects, sessions, dirs, lifecycle>>

Opened(c, d) ==
  LET s == errands[c].s IN
  /\ sessions' = [sessions EXCEPT ![s].cwd = d, ![s].loaded = TRUE]
  /\ guards' = [guards EXCEPT ![s] = Unheld]
  /\ memo' = IF d = sessions[s].cwd THEN memo ELSE [memo EXCEPT !.rehung = @ \cup {s}]
  /\ Finish(c)

LoadThere(c) ==
  /\ OnErrand(c, "load") /\ There(sessions[errands[c].s].cwd)
  /\ Opened(c, sessions[errands[c].s].cwd)
  /\ UNCHANGED <<projects, dirs, lifecycle>>

(* Where the repairer sends the session: its project's directory for it, or  *)
(* the project's own.                                                        *)
Refitted(p, s) ==
  LET place == CHOOSE l \in AssignmentsOf(s) : TRUE
      target == Directory(p, place.tree) IN
  IF target = {} THEN {Own(s)}
  ELSE IF target \subseteq dirs THEN target
  ELSE {projects[p].pwd} \cap dirs

LoadRepairs(c) ==
  LET s == errands[c].s IN
  /\ OnErrand(c, "load") /\ ~There(sessions[s].cwd)
  /\ IF Owners(s) = {} THEN Opened(c, Own(s))
     ELSE \E p \in Owners(s) : \E d \in Refitted(p, s) : Opened(c, d)
  /\ UNCHANGED <<projects, dirs, lifecycle>>

(* The project's directory is gone: it is given a fallback, and its other    *)
(* sessions are moved there before this load goes on.                        *)
LoadRefuge(c) ==
  LET s == errands[c].s IN
  /\ OnErrand(c, "load") /\ ~There(sessions[s].cwd)
  /\ \E p \in Owners(s) :
       /\ Refitted(p, s) = {}
       /\ dirs' = dirs \cup {Refuge(p)}
       /\ errands' = [errands EXCEPT ![c].pc = "refuge", ![c].p = p]
  /\ UNCHANGED <<projects, sessions, lifecycle, guards, memo>>

MoveToRefuge(c) ==
  LET p == errands[c].p s == errands[c].s IN
  /\ OnErrand(c, "refuge")
  /\ IF Made(p)
     THEN /\ projects' = [projects EXCEPT ![p].pwd = Refuge(p)]
          /\ Turn(c, "others")
          /\ UNCHANGED <<sessions, guards, memo>>
     ELSE Opened(c, Own(s)) /\ UNCHANGED projects
  /\ UNCHANGED <<dirs, lifecycle>>

ListOthers(c) ==
  LET p == errands[c].p IN
  /\ OnErrand(c, "others")
  /\ IF Made(p)
     THEN /\ errands' = [errands EXCEPT ![c].pc = "rehang",
               ![c].todo = RehangList(c, p, errands[c].s)]
          /\ UNCHANGED <<sessions, guards, memo>>
     ELSE Opened(c, Own(errands[c].s))
  /\ UNCHANGED <<projects, dirs, lifecycle>>

LoadRehung(c) ==
  /\ OnErrand(c, "rehang") /\ DOMAIN errands[c].todo = {}
  /\ errands[c].s # None
  /\ Opened(c, Refuge(errands[c].p))
  /\ UNCHANGED <<projects, dirs, lifecycle>>

-----------------------------------------------------------------------------
(* The idle unload, a directory lost to somebody outside, and a crash.       *)
Unload(s) ==
  /\ sessions[s].loaded /\ guards[s] = Unheld
  /\ sessions' = [sessions EXCEPT ![s].loaded = FALSE]
  /\ UNCHANGED <<projects, dirs, lifecycle, guards, errands, memo>>

LoseDirectory(d) ==
  /\ memo.mishaps < MaxMishaps
  /\ memo' = [memo EXCEPT !.mishaps = @ + 1, !.moved = TRUE]
  /\ dirs' = dirs \ {d}
  /\ UNCHANGED <<projects, sessions, lifecycle, guards, errands>>

Crash ==
  /\ Mishap({errands[c].s : c \in Clerks}
            \cup UNION {DOMAIN errands[c].todo : c \in Clerks})
  /\ \E c \in Clerks : ~OnErrand(c, "idle")
  /\ errands' = [c \in Clerks |-> NoErrand]
  /\ lifecycle' = Unheld
  /\ guards' = [s \in Rooms |-> Unheld]
  /\ sessions' = [s \in Rooms |-> [sessions[s] EXCEPT !.loaded = FALSE]]
  /\ UNCHANGED <<projects, dirs>>

HostNext ==
  \/ \E c \in Clerks :
       \/ RegisterRepository(c) \/ MoveProject(c) \/ ListSessions(c) \/ Rehung(c)
       \/ Place(c) \/ Assign(c) \/ AssignFails(c) \/ Undo(c) \/ Make(c) \/ Unmake(c)
       \/ UnassignArchived(c) \/ AddTree(c) \/ PruneTree(c) \/ ForgetTree(c)
       \/ ScanTree(c, "active", "archived") \/ ScanTree(c, "archived", "prune")
       \/ LoadThere(c) \/ LoadRepairs(c) \/ LoadRefuge(c) \/ MoveToRefuge(c)
       \/ ListOthers(c) \/ LoadRehung(c)
       \/ \E p \in Projects, d \in Roots : ProjectCreate(c, p, d) \/ UpdateProject(c, p, d)
       \/ \E p \in Projects : DeleteProject(c, p)
       \/ \E s \in Rooms :
            \/ Rebind(c, s) \/ CreateAlone(c, s) \/ UseSession(c, s)
            \/ Archive(c, s) \/ Unarchive(c, s) \/ DeleteSession(c, s)
            \/ \E source \in Rooms, forks \in BOOLEAN : CreateFrom(c, s, source, forks)
            \/ \E p \in Projects :
                 \/ Unassign(c, p, s)
                 \/ \E tree \in Trees \cup Repos \cup {None} :
                      BeginAssign(c, s, p, tree) \/ CreateInProject(c, s, p, tree)
       \/ \E p \in Projects, t \in Trees :
            AttachTree(c, p, t) \/ CreateTree(c, p, t) \/ DetachTree(c, p, t) \/ RemoveTree(c, p, t)
  \/ \E s \in Rooms : Expire(s) \/ Unload(s)
  \/ \E d \in dirs : LoseDirectory(d)
  \/ Crash

HostSpec == HostInit /\ [][HostNext]_hostVars

-----------------------------------------------------------------------------
(* Properties.                                                               *)

(* While no call holds the lifecycle lock, a session assigned to a project   *)
(* is active, unless a step of its own archive, assignment or deletion       *)
(* failed or it expired meanwhile: create, assign and archive each change a  *)
(* session and its assignment in two steps.                                  *)
AssignedIsActive ==
  lifecycle = Unheld =>
    \A p \in Projects : \A a \in projects[p].assigned : a.session \in Untorn => Active(a.session)

(* A directory git removed for the host is nobody's working directory,       *)
(* unless a session followed its project meanwhile: what a rehang or a repair *)
(* moves the sessions to was read before, and neither takes the lock.        *)
PrunedIsEmpty ==
  \A s \in Rooms \ memo.rehung, t \in memo.pruned :
    sessions[s].state \in {"active", "archived"} => sessions[s].cwd # t

(* While no project's directory is changed or lost, a session assigned and   *)
(* at rest works in the directory its assignment names: assign, create and   *)
(* their ways back keep the two stores together.                             *)
Quiet == lifecycle = Unheld /\ \A c \in Clerks : OnErrand(c, "idle")
AssignedInPlace ==
  Quiet /\ ~memo.moved =>
    \A p \in Projects : \A a \in projects[p].assigned :
      a.session \in Untorn \ memo.misled => {sessions[a.session].cwd} = Directory(p, a.tree)

(* Every operation leaves each project one that validate accepts, so that    *)
(* none is refused for what another left; and no session is in two of them.  *)
ProjectsAreValid ==
  /\ \A p \in Projects : ValidProject(projects[p])
  /\ \A s \in Rooms : Cardinality(Owners(s)) <= 1

(* The sessions' store, the projects' store and the directories on disk      *)
(* agree, whatever create, assign, archive and removal are in the middle of. *)
HostHolds == AssignedIsActive /\ PrunedIsEmpty /\ AssignedInPlace /\ ProjectsAreValid
=============================================================================
