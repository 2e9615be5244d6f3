------------------------------ MODULE FileEdits ------------------------------
(***************************************************************************)
(* The file_edit tool: patches of several sessions against the same files. *)
(* One lock orders them; a patch runs on a blocking thread, hunk by hunk,  *)
(* each reading its file, working out the new content and writing it, and  *)
(* the first hunk that fails ends it with what was applied.  A cancelled   *)
(* call drops its future, and the lock with it, but not the thread.        *)
(*                                                                         *)
(* A file is the sequence of its lines.  Of the four ways a line may match *)
(* only the exact one and the one that ignores blanks at the end are told  *)
(* apart.                                                                  *)
(***************************************************************************)
EXTENDS Naturals, Sequences, FiniteSets, FiniteSetsExt, SequencesExt

CONSTANTS Edits,       \* calls of file_edit
          Paths,       \* files
          Contents,    \* what a file may hold at first, or from outside
          Patches,     \* patches a model sends: sequences of hunks
          NoEdit,      \* nobody holds the lock
          MaxOutside,  \* bound: writes from outside the tool
          MaxIoFaults  \* bound: failures of the file system

VARIABLES files,   \* content of each file; Missing if there is none
          edits,   \* each call: its patch, hunk, content read and written, report
          lock,    \* FileEditManager.operation
          spent    \* the bounds used

editVars == <<files, edits, lock, spent>>

Missing == <<"missing">>
Blank == ""
NoHunk == [kind |-> "none"]

\* Lines "x" and "x " differ in a blank at the end.
Trimmed(line) == IF line = "a " THEN "a" ELSE line

-----------------------------------------------------------------------------
(* Working out a new content. *)

\* line_matches, exactly or by a looser strategy.
MatchesAt(lines, pattern, i, loose) ==
  \A k \in 1 .. Len(pattern) : IF loose THEN Trimmed(lines[i + k - 1]) = Trimmed(pattern[k])
                                        ELSE lines[i + k - 1] = pattern[k]

\* seek_sequence: the first place from `start` on, an exact one before a loose one; at the
\* end of the file only the last place counts.
Seek(lines, pattern, start, eof) ==
  LET from == IF eof THEN Len(lines) - Len(pattern) + 1 ELSE start
      places(loose) == {i \in from .. Len(lines) - Len(pattern) + 1 : MatchesAt(lines, pattern, i, loose)} IN
  IF Len(pattern) > Len(lines) THEN 0
  ELSE IF places(FALSE) # {} THEN Min(places(FALSE))
  ELSE IF places(TRUE) # {} THEN Min(places(TRUE)) ELSE 0

EndsBlank(lines) == lines # <<>> /\ Last(lines) = Blank
WithoutLast(lines) == SubSeq(lines, 1, Len(lines) - 1)

\* One chunk: where its old lines are, from where the next one looks, what replaces them.
PlaceChunk(lines, acc, chunk) ==
  LET at == IF chunk.context = <<>> THEN acc.line
            ELSE LET i == Seek(lines, chunk.context, acc.line, FALSE) IN IF i = 0 THEN 0 ELSE i + 1
      plain == Seek(lines, chunk.old, at, chunk.eof)
      short == plain = 0 /\ EndsBlank(chunk.old)
      old == IF short THEN WithoutLast(chunk.old) ELSE chunk.old
      new == IF short /\ EndsBlank(chunk.new) THEN WithoutLast(chunk.new) ELSE chunk.new
      start == IF ~short THEN plain ELSE IF old = <<>> THEN at ELSE Seek(lines, old, at, chunk.eof)
      place(s, n, ls) == Append(acc.places, [start |-> s, len |-> n, new |-> ls, i |-> Len(acc.places)]) IN
  IF ~acc.ok \/ at = 0 THEN [acc EXCEPT !.ok = FALSE]
  ELSE IF chunk.old = <<>>
    THEN [acc EXCEPT !.line = at,
            !.places = place(IF EndsBlank(lines) THEN Len(lines) ELSE Len(lines) + 1, 0, chunk.new)]
  ELSE IF start = 0 THEN [acc EXCEPT !.ok = FALSE]
  ELSE [acc EXCEPT !.line = start + Len(old), !.places = place(start, Len(old), new)]

\* compute_replacements
Replacements(lines, chunks) ==
  FoldLeft(LAMBDA acc, chunk : PlaceChunk(lines, acc, chunk), [ok |-> TRUE, line |-> 1, places |-> <<>>], chunks)

\* apply_replacements: from the last place to the first.  Places that overlap, which only
\* end-of-file chunks make, may leave one reaching over the end: the thread panics.
Splice(acc, place) ==
  IF acc.panics \/ place.start + place.len - 1 > Len(acc.lines) THEN [acc EXCEPT !.panics = TRUE]
  ELSE [acc EXCEPT !.lines = SubSeq(@, 1, place.start - 1) \o place.new
                               \o SubSeq(@, place.start + place.len, Len(@))]
ApplyReplacements(lines, places) ==
  LET sorted == SortSeq(places, LAMBDA p, q : p.start < q.start \/ (p.start = q.start /\ p.i < q.i)) IN
  FoldLeft(Splice, [panics |-> FALSE, lines |-> lines], Reverse(sorted))

Fails == [is |-> "fails", lines |-> <<>>]
Gives(lines) == [is |-> "gives", lines |-> lines]

\* derive_new_contents: a blank line at the end is the line break every file ends with.
Saved(lines) == IF EndsBlank(lines) THEN WithoutLast(lines) ELSE lines
Derived(lines, chunks) ==
  LET found == Replacements(lines, chunks)
      made == ApplyReplacements(lines, found.places) IN
  IF ~found.ok THEN Fails
  ELSE IF made.panics THEN [is |-> "panics", lines |-> <<>>]
  ELSE Gives(Saved(made.lines))

\* Replace File: as many matches as expected, from the left and not overlapping.
MatchPlaces(lines, old) ==
  FoldLeft(LAMBDA acc, i : IF i >= acc.free /\ MatchesAt(lines, old, i, FALSE)
                             THEN [free |-> i + Len(old), at |-> acc.at \union {i}] ELSE acc,
    [free |-> 1, at |-> {}], [i \in 1 .. (IF Len(lines) < Len(old) THEN 0 ELSE Len(lines) - Len(old) + 1) |-> i]).at
Replaced(lines, hunk) ==
  LET at == MatchPlaces(lines, hunk.old)
      inside(i) == \E p \in at : i > p /\ i < p + Len(hunk.old)
      part(i) == IF i \in at THEN hunk.new ELSE IF inside(i) THEN <<>> ELSE <<lines[i]>> IN
  IF Cardinality(at) # hunk.expected THEN Fails
  ELSE Gives(FlattenSeq([i \in 1 .. Len(lines) |-> part(i)]))

\* parse_patch: what a patch must be like to be run at all.
WellFormed(patch) ==
  /\ patch # <<>>
  /\ \A k \in DOMAIN patch : LET h == patch[k] IN
       /\ h.kind = "update" => h.chunks # <<>> /\ \A c \in DOMAIN h.chunks :
                                   h.chunks[c].old # <<>> \/ h.chunks[c].new # <<>>
       /\ h.kind = "replace" => h.expected > 0 /\ h.old # <<>> /\ h.old # h.new

\* apply_hunk: the new content, from what is read.
Outcome(hunk, content) ==
  IF hunk.kind = "add" THEN Gives(hunk.lines)
  ELSE IF hunk.kind = "delete" THEN Gives(<<>>)
  ELSE IF content = Missing THEN Fails
  ELSE IF hunk.kind = "update" THEN Derived(content, hunk.chunks)
  ELSE Replaced(content, hunk)

Destination(hunk) == IF hunk.kind = "update" /\ hunk.to # "same" THEN hunk.to ELSE hunk.path
IsMove(hunk) == hunk.kind = "update" /\ hunk.to # "same"

-----------------------------------------------------------------------------

NewEdit == [at |-> "free", patch |-> <<>>, hunk |-> 1, read |-> <<>>, new |-> <<>>, changes |-> <<>>,
            failed |-> FALSE, cut |-> FALSE, short |-> FALSE,
            before |-> <<>>, after |-> <<>>, alone |-> TRUE]

EditInit ==
  /\ files \in [Paths -> Contents \union {Missing}]
  /\ edits = [e \in Edits |-> NewEdit]
  /\ lock = NoEdit
  /\ spent = [outside |-> 0, faults |-> 0]

HunkOf(e) == edits[e].patch[edits[e].hunk]
Running(e) == edits[e].at \in {"hunk", "write", "remove"}
Faulty == spent.faults < MaxIoFaults /\ spent' = [spent EXCEPT !.faults = @ + 1]

\* What others write while a patch runs: it is not alone with its files any more.
Disturbs(es, except) == [x \in Edits |-> IF x # except /\ es[x].at \in {"hunk", "write", "remove"}
                                           THEN [es[x] EXCEPT !.alone = FALSE] ELSE es[x]]

\* A call the policy lets through, whose patch parses: the only edit of its batch.
SubmitEdit(e, patch) ==
  /\ edits[e].at = "free" /\ WellFormed(patch)
  /\ edits' = [edits EXCEPT ![e] = [NewEdit EXCEPT !.at = "wait", !.patch = patch]]
  /\ UNCHANGED <<files, lock, spent>>

\* mutant: two patches run beside each other.
TakeNoLock(e) ==
  /\ edits[e].at = "wait"
  /\ lock' = e
  /\ edits' = [edits EXCEPT ![e].at = "hunk", ![e].before = files,
                            ![e].alone = \A x \in Edits \ {e} : ~Running(x)]
  /\ UNCHANGED <<files, spent>>

TakeEditLock(e) ==
  /\ edits[e].at = "wait" /\ lock = NoEdit
  /\ lock' = e
  /\ edits' = [edits EXCEPT ![e].at = "hunk", ![e].before = files,
                            ![e].alone = \A x \in Edits \ {e} : ~Running(x)]
  /\ UNCHANGED <<files, spent>>

\* The patch is over: the call returns and frees the lock, if it still is its own.
PatchEnds(es, e) ==
  /\ edits' = [es EXCEPT ![e].at = "done", ![e].after = files']
  /\ lock' = IF lock = e THEN NoEdit ELSE lock

HunkFails(e) == PatchEnds([edits EXCEPT ![e].failed = TRUE], e)

HunkApplied(es, e) ==
  LET h == HunkOf(e)
      more == [es EXCEPT ![e].changes = Append(@, [kind |-> IF IsMove(h) THEN "move" ELSE h.kind,
                                                   path |-> h.path, to |-> Destination(h)])] IN
  IF edits[e].hunk = Len(edits[e].patch) THEN PatchEnds(more, e)
  ELSE edits' = [more EXCEPT ![e].at = "hunk", ![e].hunk = @ + 1] /\ UNCHANGED lock

\* A panic of the thread is the error of the whole call: the report has no changes.
ReadHunk(e) ==
  LET h == HunkOf(e)
      got == Outcome(h, files[h.path]) IN
  /\ edits[e].at = "hunk"
  /\ UNCHANGED <<files, spent>>
  /\ CASE got.is = "fails" -> HunkFails(e)
       [] got.is = "panics" -> PatchEnds([edits EXCEPT ![e].failed = TRUE, ![e].changes = <<>>,
                                                       ![e].short = TRUE], e)
       [] OTHER -> /\ edits' = [edits EXCEPT ![e].at = IF h.kind = "delete" THEN "remove" ELSE "write",
                                             ![e].read = files[h.path], ![e].new = got.lines]
                   /\ UNCHANGED lock

WriteHunk(e) ==
  LET h == HunkOf(e) IN
  /\ edits[e].at = "write"
  /\ files' = [files EXCEPT ![Destination(h)] = edits[e].new]
  /\ IF IsMove(h) THEN edits' = [Disturbs(edits, e) EXCEPT ![e].at = "remove"] /\ UNCHANGED lock
     ELSE HunkApplied(Disturbs(edits, e), e)
  /\ UNCHANGED spent

\* Deleting, or taking the source of a move away, needs the file to be there.
RemoveHunk(e) ==
  LET h == HunkOf(e) IN
  /\ edits[e].at = "remove"
  /\ IF files[h.path] = Missing
       THEN /\ UNCHANGED files
            /\ PatchEnds([edits EXCEPT ![e].failed = TRUE, ![e].short = IsMove(h)], e)
       ELSE files' = [files EXCEPT ![h.path] = Missing] /\ HunkApplied(Disturbs(edits, e), e)
  /\ UNCHANGED spent

\* The file system refuses: a write may leave nothing behind, or an empty file.
IoFails(e) ==
  LET h == HunkOf(e) IN
  /\ edits[e].at \in {"write", "remove"} /\ Faulty
  /\ \/ UNCHANGED files
     \/ edits[e].at = "write" /\ files' = [files EXCEPT ![Destination(h)] = <<>>]
  /\ PatchEnds([Disturbs(edits, e) EXCEPT ![e].failed = TRUE,
       ![e].short = files' # files \/ (edits[e].at = "remove" /\ IsMove(h))], e)

\* The turn is cancelled: a call that waits is gone, one that runs goes on without the lock
\* and reports to nobody.
CancelEdit(e) ==
  /\ edits[e].at = "wait" \/ (Running(e) /\ lock = e)
  /\ edits' = [edits EXCEPT ![e].at = IF @ = "wait" THEN "done" ELSE @, ![e].cut = TRUE]
  /\ lock' = IF lock = e THEN NoEdit ELSE lock
  /\ UNCHANGED <<files, spent>>

\* A terminal, an editor or a build writes.
OutsideWrites(p, content) ==
  /\ spent.outside < MaxOutside /\ files[p] # content
  /\ files' = [files EXCEPT ![p] = content]
  /\ edits' = Disturbs(edits, NoEdit)
  /\ spent' = [spent EXCEPT !.outside = @ + 1]
  /\ UNCHANGED lock

EditNext ==
  \/ \E e \in Edits :
       \/ \E patch \in Patches : SubmitEdit(e, patch)
       \/ TakeEditLock(e) \/ ReadHunk(e) \/ WriteHunk(e) \/ RemoveHunk(e) \/ IoFails(e) \/ CancelEdit(e)
  \/ \E p \in Paths, content \in Contents : OutsideWrites(p, content)

EditSpec == EditInit /\ [][EditNext]_editVars

-----------------------------------------------------------------------------
(* Properties. *)

\* The new content is the old one with the old lines of each chunk, one after the other and
\* none within another, replaced by its new lines; lines to insert go to the end.
Woven(lines, chunks, made) ==
  LET n == Len(chunks)
      width(k) == {Len(chunks[k].old)} \union (IF EndsBlank(chunks[k].old) THEN {Len(chunks[k].old) - 1} ELSE {}) IN
  \E at \in [1 .. n -> 1 .. Len(lines) + 1], len \in [1 .. n -> 0 .. Len(lines)] :
    LET next(k) == IF k = 0 THEN 1 ELSE at[k] + len[k]
        text(k) == IF len[k] < Len(chunks[k].old) /\ EndsBlank(chunks[k].new)
                     THEN WithoutLast(chunks[k].new) ELSE chunks[k].new IN
    /\ \A k \in 1 .. n : /\ len[k] \in width(k) /\ at[k] >= next(k - 1) /\ next(k) <= Len(lines) + 1
                         /\ MatchesAt(lines, SubSeq(chunks[k].old, 1, len[k]), at[k], TRUE)
    /\ made = Saved(FlattenSeq([k \in 1 .. n |-> SubSeq(lines, next(k - 1), at[k] - 1) \o text(k)])
                      \o SubSeq(lines, next(n), Len(lines)))

\* Chunks without the end-of-file mark, those that insert last, change what they name and
\* nothing else.
UpdatesAreWoven == \A e \in Edits :
  edits[e].at = "write" /\ HunkOf(e).kind = "update" =>
    LET chunks == HunkOf(e).chunks IN
    (\A k \in DOMAIN chunks : ~chunks[k].eof /\ (chunks[k].old = <<>> => k = Len(chunks)))
      => Woven(edits[e].read, chunks, edits[e].new)

\* A call that had the files to itself and was not cancelled reports every file it changed,
\* whether it completed or failed on the way; the exceptions are `short`: a panic, a write
\* the file system broke off, and a move that left its source behind.
Reported(e) == UNION {{edits[e].changes[k].path, edits[e].changes[k].to} : k \in DOMAIN edits[e].changes}
ReportIsWhole == \A e \in Edits :
  edits[e].at = "done" /\ edits[e].alone /\ ~edits[e].cut /\ ~edits[e].short =>
    \A p \in Paths \ Reported(e) : edits[e].before[p] = edits[e].after[p]

\* No patch loses the work of another: what a hunk replaces is what it read, unless a
\* cancelled patch still runs or something else than the tool wrote in between.
NoLostEdit == \A e \in Edits :
  edits[e].at = "write" /\ files[HunkOf(e).path] # edits[e].read /\ ~edits[e].cut =>
    spent.outside > 0 \/ \E x \in Edits \ {e} : edits[x].cut

EditsHold == UpdatesAreWoven /\ ReportIsWhole /\ NoLostEdit
=============================================================================
