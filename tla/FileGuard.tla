------------------------------ MODULE FileGuard ------------------------------
(* dwo-file-guard where the platform supports it (Windows): while the daemon  *)
(* runs it holds its state files open so that no other handle may write them. *)
(* A write of the daemon itself closes the handle for as long as its permit   *)
(* lives; nothing stops two writes of one file from having permits at once.   *)
EXTENDS Naturals, FiniteSets

CONSTANTS
  StateFiles,     (* files the policy protects                               *)
  OpenFiles,      (* files it leaves to others: rules, logs, workspaces      *)
  Folder,         (* those in a folder that may be deleted                   *)
  Writers,        (* tasks of the daemon                                     *)
  NoPath,         (* no file                                                 *)
  MaxWritings,    (* bound: writes and deletions of the daemon               *)
  MaxForeign      (* bound: times another program opens a file to write      *)

ASSUME FilesAssumption ==
  /\ StateFiles \cap OpenFiles = {} /\ NoPath \notin StateFiles \cup OpenFiles
  /\ Folder \subseteq StateFiles \cup OpenFiles

VARIABLES
  present,   (* the files that are there                                     *)
  held,      (* State.handles: files the daemon holds open                   *)
  writing,   (* each task: the file its permit is for, and how far it is     *)
  foreign,   (* files another program has open for writing                   *)
  guarding,  (* whether the protection is installed                          *)
  witness    (* what excuses a denied write or an unguarded file; bounds     *)

guardVars == <<present, held, writing, foreign, guarding, witness>>

AllFiles == StateFiles \cup OpenFiles
NotWriting == [pc |-> "idle", file |-> NoPath, crossed |-> FALSE]

GuardInit ==
  /\ present \in SUBSET AllFiles
  /\ held = {} /\ foreign = {} /\ guarding = FALSE
  /\ writing = [w \in Writers |-> NotWriting]
  /\ witness = [denied |-> FALSE, excused |-> {}, writings |-> 0, opened |-> 0]

(* is_protected_path *)
Protected(f) == f \in StateFiles
(* platform::guard fails while somebody else has the file open for writing.   *)
CanGuard(f) == f \in present /\ f \notin foreign
InFolder(w) == writing[w].pc = "released"

(* guard_tree goes through what is there, and skips what it cannot take.      *)
GuardTree == {f \in present : Protected(f) /\ CanGuard(f)}

(* Protection::install never prevents the start.                              *)
InstallGuards ==
  /\ ~guarding /\ guarding' = TRUE
  /\ held' = GuardTree
  /\ witness' = [witness EXCEPT !.excused = @ \cup (present \ held')]
  /\ UNCHANGED <<present, writing, foreign>>

(* Permit: the file it is for, and whether the file was taken back under it.  *)
Permit(f) == [pc |-> "permitted", file |-> f, crossed |-> FALSE]

\* mutant: a permit leaves the handle where it is.
PermitKeepsHandle(w, f) ==
  /\ guarding /\ writing[w].pc = "idle" /\ witness.writings < MaxWritings
  /\ witness' = [witness EXCEPT !.writings = @ + 1]
  /\ writing' = [writing EXCEPT ![w] = Permit(f)]
  /\ UNCHANGED <<present, held, foreign, guarding>>

(* permit_file *)
PermitFile(w, f) ==
  /\ guarding /\ writing[w].pc = "idle" /\ witness.writings < MaxWritings
  /\ witness' = [witness EXCEPT !.writings = @ + 1]
  /\ held' = held \ {f}
  /\ writing' = [writing EXCEPT ![w] = Permit(f)]
  /\ UNCHANGED <<present, foreign, guarding>>

(* write_sync replaces the file, unless a handle denies it.                   *)
ReplaceFile(w) ==
  LET f == writing[w].file IN
  /\ writing[w].pc = "permitted"
  /\ present' = IF f \in held \cup foreign THEN present ELSE present \cup {f}
  /\ witness' = [witness EXCEPT !.denied = @ \/ (f \in held /\ ~writing[w].crossed)]
  /\ writing' = [writing EXCEPT ![w].pc = "written"]
  /\ UNCHANGED <<held, foreign, guarding>>

(* protect_file *)
Rearmed(f) == IF Protected(f) /\ CanGuard(f) THEN held \cup {f} ELSE held

(* The permit ends, also after a failed write: the file is taken back,        *)
(* whoever else still writes it or deletes around it.                         *)
DropPermit(w) ==
  LET f == writing[w].file IN
  /\ writing[w].pc = "written"
  /\ held' = Rearmed(f)
  /\ witness' = [witness EXCEPT !.excused = IF f \in held' THEN @ \ {f} ELSE @ \cup {f}]
  /\ writing' = [v \in Writers |->
       IF v = w THEN NotWriting
       ELSE [writing[v] EXCEPT !.crossed = @ \/ writing[v].file = f \/ (InFolder(v) /\ f \in Folder)]]
  /\ UNCHANGED <<present, foreign, guarding>>

(* drop_tree: the handles under a directory are closed.                       *)
DropTree(files) == held' = held \ files

(* release_tree before the folder is removed; its guards do not come back.  *)
ReleaseTree(w) ==
  /\ guarding /\ writing[w].pc = "idle" /\ witness.writings < MaxWritings
  /\ DropTree(Folder)
  /\ writing' = [writing EXCEPT ![w] = [NotWriting EXCEPT !.pc = "released"]]
  /\ witness' = [witness EXCEPT !.writings = @ + 1, !.excused = @ \cup Folder]
  /\ UNCHANGED <<present, foreign, guarding>>

(* remove_dir_all goes from file to file and ends at the first it cannot      *)
(* remove.                                                                    *)
RemoveFile(w, f) ==
  /\ writing[w].pc = "released" /\ f \in Folder \cap present
  /\ IF f \in held \cup foreign
     THEN /\ writing' = [writing EXCEPT ![w] = NotWriting]
          /\ witness' = [witness EXCEPT !.denied = @ \/ (f \in held /\ ~writing[w].crossed)]
          /\ UNCHANGED present
     ELSE present' = present \ {f} /\ UNCHANGED <<writing, witness>>
  /\ UNCHANGED <<held, foreign, guarding>>

TreeRemoved(w) ==
  /\ writing[w].pc = "released" /\ Folder \cap present = {}
  /\ writing' = [writing EXCEPT ![w] = NotWriting]
  /\ UNCHANGED <<present, held, foreign, guarding, witness>>

(* A file the daemon writes without a permit: a downloaded attachment.        *)
WriteAttachment(f) ==
  /\ guarding /\ f \notin present /\ f \notin held
  /\ present' = present \cup {f}
  /\ witness' = [witness EXCEPT !.excused = @ \cup {f}]
  /\ UNCHANGED <<held, writing, foreign, guarding>>

(* Protection::release, at the end of the host, whose tasks are over.         *)
ReleaseGuards ==
  /\ guarding /\ guarding' = FALSE
  /\ DropTree(AllFiles) /\ writing' = [w \in Writers |-> NotWriting]
  /\ witness' = [witness EXCEPT !.excused = {}]
  /\ UNCHANGED <<present, foreign>>

(* Another program: it cannot open a guarded file to write.                   *)
ForeignOpens(f) ==
  /\ f \in present \ (held \cup foreign) /\ witness.opened < MaxForeign
  /\ foreign' = foreign \cup {f}
  /\ witness' = [witness EXCEPT !.opened = @ + 1]
  /\ UNCHANGED <<present, held, writing, guarding>>

ForeignCloses(f) ==
  /\ f \in foreign /\ foreign' = foreign \ {f}
  /\ UNCHANGED <<present, held, writing, guarding, witness>>

GuardNext ==
  \/ InstallGuards \/ ReleaseGuards
  \/ \E f \in AllFiles : WriteAttachment(f) \/ ForeignOpens(f) \/ ForeignCloses(f)
  \/ \E w \in Writers :
       \/ \E f \in AllFiles : PermitFile(w, f) \/ RemoveFile(w, f)
       \/ ReplaceFile(w) \/ DropPermit(w) \/ ReleaseTree(w) \/ TreeRemoved(w)

GuardSpec == GuardInit /\ [][GuardNext]_guardVars

-----------------------------------------------------------------------------
(* Properties *)

(* The daemon is never denied a write or a deletion by its own guard, unless  *)
(* the permit of another write of that file ended in between.                 *)
OwnWritesPass == ~witness.denied

(* Between writes every state file is guarded: only a file the daemon could   *)
(* not take (open elsewhere, written without a permit, left over by a         *)
(* deletion) is not, and only until its next write.                           *)
RestIsGuarded == guarding =>
  \A f \in StateFiles \cap present :
    (\A w \in Writers : writing[w].file # f) => f \in held \cup witness.excused

(* What the policy leaves to others is never guarded.                         *)
RestIsOpen == held \cap OpenFiles = {}

GuardHolds == OwnWritesPass /\ RestIsGuarded /\ RestIsOpen
=============================================================================
