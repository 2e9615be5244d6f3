---------------------------- MODULE SessionStore ----------------------------
(***************************************************************************)
(* FsSessionRepository: a directory per session under sessions/YYYY/MM/DD, *)
(* with the model context, the metadata and the transcript; the index of   *)
(* the directories lives in memory and is rebuilt by a scan when the       *)
(* daemon starts.  Each session has a lock; every step under it may fail   *)
(* and the process may die between any two.                                *)
(*                                                                         *)
(* Both JSON files are replaced atomically (a temporary file, synced and   *)
(* renamed); the transcript is appended to in place.  The day directory of *)
(* a session follows from the local time of its creation, so a change of   *)
(* the time zone may move it.  What a file holds is the number of the save *)
(* that wrote it.                                                          *)
(***************************************************************************)
EXTENDS Naturals, Sequences, FiniteSets, SequencesExt

CONSTANTS Sessions,   \* session ids
          Days,       \* day directories a session may belong to
          NoPlace,    \* no directory in the index
          MaxSaves,   \* bound: saves per session
          MaxTranscript, \* bound: transcript events per session
          MaxCrashes, \* bound: failures of the file system and crashes
          MaxZones,   \* bound: changes of the time zone
          MaxLists    \* bound: listings that find a session without a title

VARIABLES tree,   \* what is in each directory
          index,  \* paths and archived: where the daemon believes each session is
          doing,  \* the operation that holds the lock of each session
          actor,  \* what the loaded session and a listing have in memory
          durable \* what was acknowledged so far, and the bounds used

storeVars == <<tree, index, doing, actor, durable>>

Places == {"live", "archive"} \X Days
NoFile == 0
NoLog == [file |-> FALSE, lines |-> <<>>, tail |-> <<>>]
NoDir == [there |-> FALSE, context |-> NoFile, meta |-> NoFile, log |-> NoLog]
NoOperation == [kind |-> "free"]

IsArchived(s) == index[s] # NoPlace /\ index[s][1] = "archive"
DirOf(s) == tree[s][index[s]]

\* One line is one event: a single piece, written to its end.
Parses(line) == Len(line) = 1 /\ line[1].whole
EventsOf(log) ==
  [i \in DOMAIN log.lines |-> log.lines[i][1].event]
    \o (IF Parses(log.tail) THEN <<log.tail[1].event>> ELSE <<>>)

StoreInit ==
  /\ tree = [s \in Sessions |-> [p \in Places |-> NoDir]]
  /\ index = [s \in Sessions |-> NoPlace]
  /\ doing = [s \in Sessions |-> NoOperation]
  /\ actor = [s \in Sessions |-> [at |-> "new", seen |-> <<>>, listed |-> NoFile, mends |-> FALSE]]
  /\ durable = [zone |-> CHOOSE d \in Days : TRUE, zones |-> 0, breaks |-> 0, lists |-> 0,
             saves |-> [s \in Sessions |-> 0], saved |-> [s \in Sessions |-> 0],
             events |-> [s \in Sessions |-> 0], kept |-> [s \in Sessions |-> <<>>],
             broken |-> [s \in Sessions |-> 0], gone |-> {}, partly |-> {}, moved |-> {}, stale |-> {}]

Begins(s, what) == doing[s] = NoOperation /\ doing' = [doing EXCEPT ![s] = what]
Returns(s) == doing' = [doing EXCEPT ![s] = NoOperation]

-----------------------------------------------------------------------------
(* save *)

\* session_dir: an archived session stays where it is, another one goes to the directory
\* of its day.
SavePlace(s) == IF IsArchived(s) THEN index[s] ELSE <<"live", durable.zone>>

StartSave(s, v, lists) ==
  /\ Begins(s, [kind |-> "save", at |-> "context", v |-> v, place |-> SavePlace(s), lists |-> lists])
  /\ durable' = [durable EXCEPT !.moved = IF index[s] \notin {NoPlace, SavePlace(s)} THEN @ \union {s} ELSE @,
                          !.stale = IF lists /\ (s \in durable.gone \/ v # DirOf(s).context) THEN @ \union {s} ELSE @,
                          !.saves[s] = IF lists THEN @ ELSE @ + 1]

\* A new session, or one that is loaded, saves.
Save(s) ==
  /\ actor[s].at \in {"new", "open"} /\ durable.saves[s] < MaxSaves
  /\ StartSave(s, durable.saves[s] + 1, FALSE)
  /\ UNCHANGED <<tree, index, actor>>

SaveContext(s) ==
  LET d == doing[s] IN
  /\ d.kind = "save" /\ d.at = "context"
  /\ tree' = [tree EXCEPT ![s][d.place].there = TRUE, ![s][d.place].context = d.v]
  /\ doing' = [doing EXCEPT ![s].at = "meta"]
  /\ UNCHANGED <<index, actor, durable>>

SaveMeta(s) ==
  LET d == doing[s] IN
  /\ d.kind = "save" /\ d.at = "meta"
  /\ tree' = [tree EXCEPT ![s][d.place].meta = d.v]
  /\ doing' = [doing EXCEPT ![s].at = "log"]
  /\ UNCHANGED <<index, actor, durable>>

\* ensure_transcript, and the save is done.
SaveDone(s) ==
  LET d == doing[s] IN
  /\ d.kind = "save" /\ d.at = "log"
  /\ tree' = [tree EXCEPT ![s][d.place].log.file = TRUE]
  /\ index' = [index EXCEPT ![s] = d.place]
  /\ actor' = IF d.lists THEN actor ELSE [actor EXCEPT ![s].at = "open"]
  /\ durable' = [durable EXCEPT !.saved[s] = d.v]
  /\ Returns(s)

-----------------------------------------------------------------------------
(* archive, unarchive, delete: only of a session whose actor is gone. *)

MovedPlace(s) == <<IF IsArchived(s) THEN "live" ELSE "archive", index[s][2]>>

StartMove(s) ==
  /\ actor[s].at = "closed" /\ index[s] # NoPlace
  /\ Begins(s, [kind |-> "move", at |-> "rename", place |-> MovedPlace(s)])
  /\ UNCHANGED <<tree, index, actor, durable>>

\* A directory is renamed unless there is one of its name.
MoveDir(s) ==
  LET d == doing[s] IN
  /\ d.kind = "move" /\ d.at = "rename"
  /\ IF tree[s][d.place].there \/ ~DirOf(s).there
       THEN Returns(s) /\ UNCHANGED tree
       ELSE /\ tree' = [tree EXCEPT ![s] = [@ EXCEPT ![d.place] = DirOf(s), ![index[s]] = NoDir]]
            /\ doing' = [doing EXCEPT ![s].at = "index"]
  /\ UNCHANGED <<index, actor, durable>>

MoveDone(s) ==
  /\ doing[s].kind = "move" /\ doing[s].at = "index"
  /\ index' = [index EXCEPT ![s] = doing[s].place]
  /\ Returns(s)
  /\ UNCHANGED <<tree, actor, durable>>

StartDelete(s) ==
  /\ actor[s].at = "closed" /\ index[s] # NoPlace
  /\ Begins(s, [kind |-> "delete", at |-> "files", place |-> index[s]])
  /\ durable' = [durable EXCEPT !.partly = @ \union {s}]
  /\ UNCHANGED <<tree, index, actor>>

\* remove_dir_all takes the files in the order the directory lists them.
DeleteFile(s, file) ==
  LET p == doing[s].place IN
  /\ doing[s].kind = "delete"
  /\ \/ file = "context" /\ tree[s][p].context # NoFile /\ tree' = [tree EXCEPT ![s][p].context = NoFile]
     \/ file = "meta" /\ tree[s][p].meta # NoFile /\ tree' = [tree EXCEPT ![s][p].meta = NoFile]
     \/ file = "log" /\ tree[s][p].log.file /\ tree' = [tree EXCEPT ![s][p].log = NoLog]
  /\ UNCHANGED <<index, doing, actor, durable>>

DeleteDone(s) ==
  LET p == doing[s].place IN
  /\ doing[s].kind = "delete"
  /\ tree[s][p].context = NoFile /\ tree[s][p].meta = NoFile /\ ~tree[s][p].log.file
  /\ tree' = [tree EXCEPT ![s][p] = NoDir]
  /\ index' = [index EXCEPT ![s] = NoPlace]
  /\ durable' = [durable EXCEPT !.gone = @ \union {s}, !.partly = @ \ {s}]
  /\ Returns(s)
  /\ UNCHANGED actor

-----------------------------------------------------------------------------
(* The transcript. *)

WithPiece(log, event, whole) == [log EXCEPT !.file = TRUE, !.tail = Append(@, [event |-> event, whole |-> whole])]
\* mutant: what was cut short before is written again.
EndLineAgain(log) == [log EXCEPT !.lines = Append(@, log.tail)]

EndLine(log) == [log EXCEPT !.lines = Append(@, log.tail), !.tail = <<>>]

\* The line with its end in one write: it is acknowledged, or a part of it stays.
AppendEvent(s) ==
  LET e == durable.events[s] + 1
      log == DirOf(s).log IN
  /\ actor[s].at = "open" /\ doing[s] = NoOperation /\ durable.events[s] < MaxTranscript
  /\ index[s] # NoPlace /\ DirOf(s).there
  /\ \/ /\ tree' = [tree EXCEPT ![s][index[s]].log = EndLine(WithPiece(log, e, TRUE))]
        /\ actor' = [actor EXCEPT ![s].seen = Append(@, e)]
        /\ durable' = [durable EXCEPT !.events[s] = e, !.kept[s] = Append(@, e)]
     \/ \E whole \in BOOLEAN :
          /\ durable.breaks < MaxCrashes
          /\ tree' = [tree EXCEPT ![s][index[s]].log = WithPiece(log, e, whole)]
          /\ durable' = [durable EXCEPT !.events[s] = e, !.breaks = @ + 1, !.broken[s] = @ + 1]
          /\ UNCHANGED actor
  /\ UNCHANGED <<index, doing>>

\* load: the record first, then the transcript, whose tail is cut off if it does not parse
\* and is kept as it is if it does.
LoadRecord(s) ==
  /\ actor[s].at = "closed" /\ doing[s] = NoOperation /\ index[s] # NoPlace
  /\ DirOf(s).context # NoFile /\ DirOf(s).meta # NoFile
  /\ actor' = [actor EXCEPT ![s].at = "loading"]
  /\ UNCHANGED <<tree, index, doing, durable>>

LoadTranscript(s) ==
  LET log == IF index[s] = NoPlace THEN NoLog ELSE DirOf(s).log
      readable == \A i \in DOMAIN log.lines : Parses(log.lines[i]) IN
  /\ actor[s].at = "loading" /\ doing[s] = NoOperation
  /\ actor' = [actor EXCEPT ![s].at = IF readable THEN "open" ELSE "closed",
                            ![s].seen = IF readable THEN EventsOf(log) ELSE <<>>]
  /\ tree' = IF readable /\ log.tail # <<>> /\ ~Parses(log.tail)
               THEN [tree EXCEPT ![s][index[s]].log.tail = <<>>] ELSE tree
  /\ UNCHANGED <<index, doing, durable>>

\* The actor ends: unloaded, or before an archive or a delete.
UnloadActor(s) ==
  /\ actor[s].at = "open" /\ doing[s] = NoOperation
  /\ actor' = [actor EXCEPT ![s].at = "closed", ![s].seen = <<>>]
  /\ UNCHANGED <<tree, index, doing, durable>>

-----------------------------------------------------------------------------
(* list reads the records without a lock.  One that has no title gets one from the first
   prompt of its transcript and is saved as it was read. *)

ListReads(s) ==
  /\ index[s] # NoPlace /\ ~IsArchived(s) /\ actor[s].listed = NoFile /\ durable.lists < MaxLists
  /\ DirOf(s).context # NoFile /\ DirOf(s).meta # NoFile
  /\ actor' = [actor EXCEPT ![s].listed = DirOf(s).context]
  /\ durable' = [durable EXCEPT !.lists = @ + 1]
  /\ UNCHANGED <<tree, index, doing>>

ListMends(s) ==
  /\ actor[s].listed # NoFile /\ ~actor[s].mends /\ doing[s] = NoOperation
  /\ index[s] # NoPlace /\ DirOf(s).log.lines # <<>>
  /\ actor' = [actor EXCEPT ![s].mends = TRUE]
  /\ UNCHANGED <<tree, index, doing, durable>>

ListSaves(s) ==
  /\ actor[s].mends
  /\ StartSave(s, actor[s].listed, TRUE)
  /\ actor' = [actor EXCEPT ![s].listed = NoFile, ![s].mends = FALSE]
  /\ UNCHANGED <<tree, index>>

-----------------------------------------------------------------------------
(* Failures. *)

\* A step under the lock fails: the operation ends where it is.  A creation is given up (the
\* delete that is to undo it finds no directory in the index).
StepFails(s) ==
  /\ doing[s] # NoOperation /\ durable.breaks < MaxCrashes
  /\ doing[s].kind = "move" => doing[s].at = "rename"
  /\ durable' = [durable EXCEPT !.breaks = @ + 1]
  /\ actor' = [actor EXCEPT ![s].at = IF @ = "new" THEN "gone" ELSE @]
  /\ Returns(s)
  /\ UNCHANGED <<tree, index>>

\* The daemon dies and starts again: new() scans for directories with metadata, the
\* archive last.
Found(s, kind) == {p \in Places : p[1] = kind /\ tree[s][p].meta # NoFile}
Scanned(s) ==
  IF Found(s, "archive") # {} THEN Found(s, "archive")
  ELSE IF Found(s, "live") # {} THEN Found(s, "live") ELSE {NoPlace}

RestartDaemon ==
  /\ durable.breaks < MaxCrashes
  /\ index' \in {i \in [Sessions -> Places \union {NoPlace}] : \A s \in Sessions : i[s] \in Scanned(s)}
  /\ doing' = [s \in Sessions |-> NoOperation]
  /\ actor' = [s \in Sessions |-> [at |-> IF index'[s] = NoPlace THEN "gone" ELSE "closed",
                                   seen |-> <<>>, listed |-> NoFile, mends |-> FALSE]]
  /\ durable' = [durable EXCEPT !.breaks = @ + 1]
  /\ UNCHANGED tree

ZoneChanges(d) ==
  /\ durable.zones < MaxZones /\ d # durable.zone
  /\ durable' = [durable EXCEPT !.zone = d, !.zones = @ + 1]
  /\ UNCHANGED <<tree, index, doing, actor>>

StoreNext ==
  \/ \E s \in Sessions :
       \/ Save(s) \/ SaveContext(s) \/ SaveMeta(s) \/ SaveDone(s)
       \/ StartMove(s) \/ MoveDir(s) \/ MoveDone(s)
       \/ StartDelete(s) \/ DeleteDone(s) \/ \E file \in {"context", "meta", "log"} : DeleteFile(s, file)
       \/ AppendEvent(s) \/ LoadRecord(s) \/ LoadTranscript(s) \/ UnloadActor(s)
       \/ ListReads(s) \/ ListMends(s) \/ ListSaves(s)
       \/ StepFails(s)
  \/ RestartDaemon
  \/ \E d \in Days : ZoneChanges(d)

StoreSpec == StoreInit /\ [][StoreNext]_storeVars

-----------------------------------------------------------------------------
(* Properties.  A session that a change of the time zone moved to another directory is
   excepted: its transcript stays in the old one (see the README). *)

AllReturned(s) == doing[s] = NoOperation /\ s \notin durable.moved

\* Between operations the index and the directories agree: what is listed can be read, and
\* nothing that was deleted is there for the next scan to find.  Excepted are a deletion
\* that broke off, a creation that did, and the save of a listing that comes late.
IndexIsTrue == \A s \in Sessions : AllReturned(s) /\ s \notin durable.partly =>
  /\ index[s] # NoPlace => DirOf(s).context # NoFile /\ DirOf(s).meta # NoFile
  /\ \A p \in Places \ {index[s]} : tree[s][p].meta # NoFile =>
       index[s] = NoPlace /\ (durable.saved[s] = 0 \/ s \in durable.gone \intersect durable.stale)
  /\ s \in durable.gone \ durable.stale => index[s] = NoPlace

\* The context is never older than the metadata, and neither than an acknowledged save,
\* whatever failed since; excepted is a record that a listing read before and wrote after.
RecordIsNotBehind == \A s \in Sessions :
  s \notin durable.moved \union durable.stale \union durable.partly \union durable.gone /\ index[s] # NoPlace
    /\ DirOf(s).there =>
      DirOf(s).context >= DirOf(s).meta /\ DirOf(s).meta >= durable.saved[s]

\* Every acknowledged event is in the file, in order, and a session that is open has them
\* all: cutting off the tail never takes one away.
Within(small, large) == \E f \in [DOMAIN small -> DOMAIN large] :
  /\ \A i \in DOMAIN small : large[f[i]] = small[i]
  /\ \A i, j \in DOMAIN small : i < j => f[i] < f[j]
EventsAreKept == \A s \in Sessions :
  AllReturned(s) /\ s \notin durable.partly \union durable.gone /\ index[s] # NoPlace =>
    LET log == DirOf(s).log
        written == FlattenSeq(Append(log.lines, log.tail)) IN
    /\ Within(durable.kept[s], [i \in DOMAIN written |-> written[i].event])
    /\ actor[s].at = "open" => Within(durable.kept[s], actor[s].seen)

\* A broken append spoils at most one line, and with it at most one acknowledged event.
DamageIsBounded == \A s \in Sessions : \A p \in Places :
  LET lines == tree[s][p].log.lines
      bad == {i \in DOMAIN lines : ~Parses(lines[i])} IN
  /\ Cardinality(bad) <= durable.broken[s]
  /\ \A i \in bad : Cardinality({k \in DOMAIN lines[i] : lines[i][k].event \in ToSet(durable.kept[s])}) <= 1

StoreHolds == IndexIsTrue /\ RecordIsNotBehind /\ EventsAreKept /\ DamageIsBounded
=============================================================================
