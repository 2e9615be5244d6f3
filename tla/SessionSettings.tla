--------------------------- MODULE SessionSettings ---------------------------
(***************************************************************************)
(* What a session's record says beside the conversation: its title, the    *)
(* model and reasoning chosen for it, and the questionnaire it waits for.   *)
(*                                                                         *)
(* Users set title, model and reasoning; a detached task asks a model for  *)
(* a title and comes back whenever it is ready, perhaps after the user      *)
(* chose one; a turn leaves a questionnaire behind that is answered later,  *)
(* through a prompt; a reload of the profile takes reasoning modes away.    *)
(* Every step of the actor saves the whole record, and each save or line    *)
(* of the transcript may fail, after what was changed before it.            *)
(*                                                                         *)
(* An update that is refused, or whose save fails, changes nothing and is   *)
(* left out, like prompts steered into a turn.  The mode is set like the     *)
(* reasoning, without a memory, and is left out.  A title is a member of a   *)
(* small set: "" only in old records, "new" the one a session begins with,   *)
(* "m" cut from its first message, "g" generated.                           *)
(***************************************************************************)
EXTENDS Naturals, FiniteSets

CONSTANTS Models,
          Efforts,        \* the reasoning modes, as their ranks: numbers from 1 on
          Typed,          \* titles a user may give
          MaxGenerations, \* bound: titles asked of a model
          MaxUpdates,     \* bound: session.set
          MaxQuizzes,     \* bound: questionnaires
          MaxTrouble      \* bound: failures, crashes and changes of the profile

ASSUME EffortsAreRanks == Efforts \subseteq Nat \ {0}
\* apply_title refuses an empty title.
ASSUME TypedAssumption == "" \notin Typed
ASSUME QuizzesAssumption == MaxQuizzes \in Nat

VARIABLES memo,     \* SessionActor.record: title, auto_title_pending, llm, questionnaire
          stored,   \* the same on disk
          heard,    \* what an attached client shows: from a snapshot and the events
          offers,   \* the reasoning modes the profile offers for each model
          titling,  \* the generations under way, and title_cancellation
          seat,     \* the actor: its phase, its config_tx, its transcript
          trail     \* what the bounds count, and what the properties remember

settingsVars == <<memo, stored, heard, offers, titling, seat, trail>>

NoEffort == 0
FirstModel == CHOOSE m \in Models : TRUE
Config(r) == <<r.model, r.effort>>
With(f, m, e) == [x \in DOMAIN f \union {m} |-> IF x = m THEN e ELSE f[x]]

NewRecord(title) ==
  [title |-> title, auto |-> title = "new", model |-> FirstModel, effort |-> NoEffort,
   memory |-> [m \in {FirstModel} |-> NoEffort], quiz |-> 0]

Shown(r) == [title |-> r.title, config |-> Config(r), quiz |-> r.quiz]

SettingsInit ==
  /\ \E title \in {"", "new"} : memo = NewRecord(title)
  /\ stored = memo
  /\ heard = Shown(memo)
  /\ offers = [m \in Models |-> Efforts]
  /\ titling = [asking |-> {}, token |-> 0, made |-> 0]
  /\ seat = [phase |-> "idle", config |-> Config(memo), prompted |-> FALSE]
  /\ trail = [updates |-> 0, quizzes |-> 0, trouble |-> 0, choice |-> {}, wish |-> <<>>,
              replies |-> [q \in 1 .. MaxQuizzes |-> 0], failed |-> {},
              untold |-> FALSE, unshown |-> FALSE]

MayFail == trail.trouble < MaxTrouble
Troubled(t) == [t EXCEPT !.trouble = @ + 1]
MaySpawn == titling.made < MaxGenerations

\* spawn_title_generation; a regeneration replaces the token of one under way, which
\* may answer all the same.
Spawned(from) ==
  [asking |-> titling.asking \union {[id |-> titling.made + 1, from |-> from]},
   token |-> titling.made + 1, made |-> titling.made + 1]

-----------------------------------------------------------------------------
(* session.set.  Each field of an update is a set of at most one value.       *)

Updates ==
  [title : {{t} : t \in Typed} \union {{}}, again : BOOLEAN, model : {{}}, effort : {{}}]
  \union
  [title : {{}}, again : {FALSE}, model : {{m} : m \in Models} \union {{}},
   effort : {{e} : e \in Efforts \union {NoEffort}} \union {{}}]

\* middle_reasoning_mode
Middle(m) ==
  IF offers[m] = {} THEN NoEffort
  ELSE CHOOSE e \in offers[m] :
         Cardinality({f \in offers[m] : f < e}) = Cardinality(offers[m]) \div 2

Remembering(r) == [r EXCEPT !.memory = With(@, r.model, r.effort)]

\* apply_config: the model brings back the reasoning it was left with.
WithModel(r, m) ==
  LET left == Remembering(r) IN
  [left EXCEPT !.model = m,
               !.effort = IF m \in DOMAIN left.memory THEN left.memory[m] ELSE Middle(m)]

WithEffort(r, e) == Remembering([r EXCEPT !.effort = e])

WithTitle(r, t) == [r EXCEPT !.title = t, !.auto = FALSE]

Given(option) == CHOOSE x \in option : TRUE

Updated(u) ==
  LET r1 == IF u.model = {} THEN memo ELSE WithModel(memo, Given(u.model))
      r2 == IF u.effort = {} THEN r1 ELSE WithEffort(r1, Given(u.effort))
  IN  IF u.title = {} THEN r2 ELSE WithTitle(r2, Given(u.title))

\* validate_selection; a profile's default is one of its modes.
IsOffered(r) == r.effort \in offers[r.model] \union {NoEffort}

\* Only a model that was switched to may lose the reasoning it came back with; what is
\* remembered for it then stays.  Any other update of an invalid selection is refused.
Accepts(u, r) == IsOffered(r) \/ (u.model # {} /\ u.effort = {})

Fitted(r) ==
  IF IsOffered(r) THEN Remembering(r)
  ELSE LET none == [r EXCEPT !.effort = NoEffort]
       IN  IF r.model \in DOMAIN r.memory THEN none ELSE Remembering(none)

\* The user's last title, unless a title is generated for it anew or was being
\* generated for the very same words.
Chosen(u, regenerates) ==
  IF regenerates THEN {}
  ELSE IF u.title = {} THEN trail.choice
  ELSE {t \in u.title : \A g \in titling.asking : g.from # t}

\* The reasoning the user last set for each model, until the profile withdrew it.
Wished(u, r) ==
  IF u.effort # {} THEN With(trail.wish, r.model, r.effort)
  ELSE IF IsOffered(Updated(u)) THEN trail.wish
  ELSE [m \in DOMAIN trail.wish \ {r.model} |-> trail.wish[m]]

\* One save for all fields, then the events, then the generation, which needs a
\* first message.
SetSession(u) ==
  LET r == Fitted(Updated(u))
      configured == u.model # {} \/ u.effort # {}
      regenerates == u.again /\ seat.prompted IN
  /\ seat.phase \in {"idle", "running"}
  /\ trail.updates < MaxUpdates
  /\ regenerates => MaySpawn
  /\ Accepts(u, Updated(u))
  /\ memo' = r
  /\ stored' = r
  /\ seat' = IF configured THEN [seat EXCEPT !.config = Config(r)] ELSE seat
  /\ heard' = [heard EXCEPT !.config = IF configured THEN Config(r) ELSE @,
                            !.title = IF r.title # memo.title THEN r.title ELSE @]
  /\ titling' = IF regenerates THEN Spawned(r.title) ELSE titling
  /\ trail' = [trail EXCEPT !.updates = @ + 1,
                            !.choice = Chosen(u, regenerates),
                            !.wish = Wished(u, r),
                            !.untold = @ /\ r.title = memo.title]
  /\ UNCHANGED offers

\* mutant: a generated title lands whatever the title is by now.
TitleComesLate(g) ==
  /\ g \in titling.asking
  /\ titling' = [titling EXCEPT !.asking = @ \ {g}, !.token = 0]
  /\ \/ UNCHANGED <<memo, stored, heard, trail>>
     \/ /\ memo' = WithTitle(memo, "g")
        /\ stored' = memo'
        /\ heard' = [heard EXCEPT !.title = "g"]
        /\ trail' = [trail EXCEPT !.untold = FALSE]
  /\ UNCHANGED <<offers, seat>>

\* apply_generated_title: the token is given up whoever answered; a title lands only on
\* the words it was made for.
TitleComes(g) ==
  /\ g \in titling.asking
  /\ titling' = [titling EXCEPT !.asking = @ \ {g}, !.token = 0]
  /\ \/ UNCHANGED <<memo, stored, heard, trail>>
     \/ /\ memo.title = g.from
        /\ memo' = WithTitle(memo, "g")
        /\ stored' = memo'
        /\ heard' = [heard EXCEPT !.title = "g"]
        /\ trail' = [trail EXCEPT !.untold = FALSE]
  /\ UNCHANGED <<offers, seat>>

-----------------------------------------------------------------------------
(* A message that begins a turn.                                              *)

\* prompt, with r the record it finds.  An empty title is cut from the message, a first
\* one is generated.  The save may fail, with the title changed in memory; so may the
\* line of the transcript, behind the save and with no turn.
Begun(r) ==
  LET named == IF r.title = "" THEN WithTitle(r, "m") ELSE r
      asks == r.title # "" /\ r.auto /\ titling.token = 0
      saved == [memo |-> named, stored |-> named, told |-> heard.title, seat |-> seat,
                titling |-> IF asks THEN Spawned(r.title) ELSE titling, spawns |-> asks]
  IN  [ok |-> [saved EXCEPT !.told = IF r.title = "" THEN "m" ELSE @,
                            !.seat = [seat EXCEPT !.phase = "running", !.prompted = TRUE]],
       unrecorded |-> saved,
       unsaved |-> [saved EXCEPT !.stored = stored, !.titling = titling]]

PromptUser(end) ==
  LET b == Begun(memo) IN
  /\ seat.phase = "idle"
  /\ end # "ok" => MayFail
  /\ b[end].spawns => MaySpawn
  /\ memo' = b[end].memo
  /\ stored' = b[end].stored
  /\ titling' = b[end].titling
  /\ seat' = b[end].seat
  /\ heard' = [heard EXCEPT !.title = b[end].told]
  /\ trail' = IF end = "ok" THEN trail
              ELSE Troubled([trail EXCEPT !.untold = @ \/ memo.title = ""])
  /\ UNCHANGED offers

\* The end of a turn saves the record; an unload waits for it.
TurnIsEnded ==
  /\ seat.phase \in {"running", "closing"}
  /\ \/ stored' = memo /\ trail' = trail
     \/ MayFail /\ stored' = stored /\ trail' = Troubled(trail)
  /\ IF seat.phase = "running"
       THEN seat' = [seat EXCEPT !.phase = "idle"] /\ titling' = titling
       ELSE /\ seat' = [seat EXCEPT !.phase = "down"]
            /\ titling' = [titling EXCEPT !.asking = {}]
  /\ UNCHANGED <<memo, heard, offers>>

-----------------------------------------------------------------------------
(* The questionnaire.                                                         *)

\* The tool of a turn, also of one that is being cancelled: refused while one waits or
\* when the save fails, which changes nothing.
QuizAsked ==
  LET q == trail.quizzes + 1 IN
  /\ seat.phase \in {"running", "closing"}
  /\ memo.quiz = 0
  /\ trail.quizzes < MaxQuizzes
  /\ memo' = [memo EXCEPT !.quiz = q]
  /\ stored' = memo'
  /\ \/ /\ heard' = [heard EXCEPT !.quiz = q]
        /\ trail' = [trail EXCEPT !.quizzes = q, !.unshown = FALSE]
     \/ /\ MayFail
        /\ heard' = heard
        /\ trail' = Troubled([trail EXCEPT !.quizzes = q, !.unshown = TRUE])
  /\ UNCHANGED <<offers, titling, seat>>

Replied(t, q) == [t EXCEPT !.replies[q] = @ + 1]
RepliedBadly(t, q) == Troubled([Replied(t, q) EXCEPT !.failed = @ \union {q}])

\* What an answer finds when the message is through: the turn it was steered into,
\* or the one it began.
Passed ==
  LET without == [memo EXCEPT !.quiz = 0] IN
  IF seat.phase = "running"
    THEN [memo |-> without, stored |-> stored, told |-> heard.title, seat |-> seat,
          titling |-> titling, spawns |-> FALSE]
    ELSE Begun(without).ok

\* answer_questionnaire: taken out of the record, submitted as a message, and saved
\* once more; the event that follows may be lost.
QuizAnswered ==
  /\ seat.phase \in {"idle", "running"}
  /\ memo.quiz # 0
  /\ Passed.spawns => MaySpawn
  /\ memo' = Passed.memo
  /\ stored' = memo'
  /\ titling' = Passed.titling
  /\ seat' = Passed.seat
  /\ \/ /\ heard' = [heard EXCEPT !.title = Passed.told, !.quiz = 0]
        /\ trail' = Replied([trail EXCEPT !.unshown = FALSE], memo.quiz)
     \/ /\ MayFail
        /\ heard' = [heard EXCEPT !.title = Passed.told]
        /\ trail' = Troubled(Replied([trail EXCEPT !.unshown = TRUE], memo.quiz))
  /\ UNCHANGED offers

\* The last save fails, or the process dies before it: the questionnaire waits on,
\* although its answer was taken.
AnswerUnsaved ==
  /\ seat.phase \in {"idle", "running"}
  /\ memo.quiz # 0
  /\ MayFail
  /\ Passed.spawns => MaySpawn
  /\ memo' = [Passed.memo EXCEPT !.quiz = memo.quiz]
  /\ stored' = Passed.stored
  /\ heard' = [heard EXCEPT !.title = Passed.told]
  /\ trail' = RepliedBadly(trail, memo.quiz)
  /\ \/ titling' = Passed.titling /\ seat' = Passed.seat
     \/ /\ seat' = [Passed.seat EXCEPT !.phase = "down"]
        /\ titling' = [Passed.titling EXCEPT !.asking = {}]
  /\ UNCHANGED offers

\* The message itself fails, with the answer already in the context.
AnswerStuck(end) ==
  LET b == Begun([memo EXCEPT !.quiz = 0]) IN
  /\ seat.phase = "idle"
  /\ memo.quiz # 0
  /\ MayFail
  /\ b[end].spawns => MaySpawn
  /\ memo' = [b[end].memo EXCEPT !.quiz = memo.quiz]
  /\ stored' = b[end].stored
  /\ titling' = b[end].titling
  /\ trail' = RepliedBadly([trail EXCEPT !.untold = @ \/ memo.title = ""], memo.quiz)
  /\ UNCHANGED <<heard, offers, seat>>

-----------------------------------------------------------------------------
(* The actor stops and is loaded again; the profile changes under it.        *)

UnloadSeat ==
  /\ seat.phase \in {"idle", "running"}
  /\ IF seat.phase = "running"
       THEN /\ seat' = [seat EXCEPT !.phase = "closing"]
            /\ titling' = [titling EXCEPT !.token = 0]
            /\ UNCHANGED <<stored, trail>>
       ELSE /\ seat' = [seat EXCEPT !.phase = "down"]
            /\ titling' = [titling EXCEPT !.asking = {}, !.token = 0]
            /\ \/ stored' = memo /\ trail' = trail
               \/ MayFail /\ stored' = stored /\ trail' = Troubled(trail)
  /\ UNCHANGED <<memo, heard, offers>>

SeatDies ==
  /\ seat.phase # "down"
  /\ MayFail
  /\ seat' = [seat EXCEPT !.phase = "down"]
  /\ titling' = [titling EXCEPT !.asking = {}]
  /\ trail' = Troubled(trail)
  /\ UNCHANGED <<memo, stored, heard, offers>>

\* load_resolved, with repair_empty_title; clients attach to the new actor.
LoadSeat ==
  /\ seat.phase = "down"
  /\ memo' = IF stored.title = "" /\ seat.prompted THEN WithTitle(stored, "m") ELSE stored
  /\ stored' = memo'
  /\ heard' = Shown(memo')
  /\ titling' = [titling EXCEPT !.token = 0]
  /\ seat' = [seat EXCEPT !.phase = "idle", !.config = Config(memo')]
  /\ trail' = [trail EXCEPT !.untold = FALSE, !.unshown = FALSE]
  /\ UNCHANGED offers

OffersChange(m, e) ==
  /\ MayFail
  /\ offers' = [offers EXCEPT ![m] = IF e \in @ THEN @ \ {e} ELSE @ \union {e}]
  /\ trail' = Troubled(trail)
  /\ UNCHANGED <<memo, stored, heard, titling, seat>>

SettingsNext ==
  \/ \E u \in Updates : SetSession(u)
  \/ \E g \in titling.asking : TitleComes(g)
  \/ \E end \in {"ok", "unrecorded", "unsaved"} : PromptUser(end)
  \/ \E end \in {"unrecorded", "unsaved"} : AnswerStuck(end)
  \/ TurnIsEnded \/ QuizAsked \/ QuizAnswered \/ AnswerUnsaved
  \/ UnloadSeat \/ SeatDies \/ LoadSeat
  \/ \E m \in Models, e \in Efforts : OffersChange(m, e)

SettingsSpec == SettingsInit /\ [][SettingsNext]_settingsVars

-----------------------------------------------------------------------------
(* Properties. *)

\* A title the user chose stays, in memory and on disk, whatever generations end after
\* it, until another one is asked for; only a generation for the very same words may
\* still replace it.
ChoiceStays == \A t \in trail.choice : memo.title = t /\ stored.title = t

\* A reasoning set for a model is back whenever the model is, as long as the profile
\* has not withdrawn it in between.
EffortComesBack == memo.model \in DOMAIN trail.wish => memo.effort = trail.wish[memo.model]

\* What turns run with, what clients show, what is in memory and what is on disk is one
\* selection; and clients know the title, unless a prompt failed that had changed it.
OneSelection ==
  seat.phase # "down" =>
    /\ {seat.config, heard.config, Config(stored)} = {Config(memo)}
    /\ heard.title = memo.title \/ trail.untold

\* A questionnaire a turn was told is out waits, over unloads and crashes, until it is
\* answered; it is answered once, unless a failure hit the answer; and clients show it
\* exactly then, unless its event was lost.
QuizIsAnsweredOnce ==
  /\ \A q \in 1 .. trail.quizzes :
       /\ trail.replies[q] = 0 => memo.quiz = q /\ stored.quiz = q
       /\ trail.replies[q] <= 1 \/ q \in trail.failed
  /\ seat.phase # "down" => heard.quiz = memo.quiz \/ trail.unshown

SettingsHold == ChoiceStays /\ EffortComesBack /\ OneSelection /\ QuizIsAnsweredOnce
=============================================================================
