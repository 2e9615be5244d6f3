---------------------------- MODULE ClientProofs ----------------------------
(* The clients of a session. AcpHolds: prompts, cancels, questions and        *)
(* observers of an ACP editor, for both versions of the protocol. Then        *)
(* ConversationHolds: one conversation of a message channel. Then             *)
(* DeliveryHolds: a message of the Feishu platform on its way to the channel, *)
(* with its acknowledgement.                                                  *)
EXTENDS AcpSession, ChannelBridge, FeishuDelivery, SequenceTheorems, FiniteSetTheorems, TLAPS
-----------------------------------------------------------------------------
AcpEvent == [kind : {"end", "auto", "permission", "quiz", "resolved"}, turn : Nat]
AcpView == [st : {"none", "ready", "on", "off", "dropped", "ended"}, open : BOOLEAN,
            feed : Seq(AcpEvent), quiz : Nat]
AcpDesk == [pc : {"idle", "prepare", "options", "active", "submit", "wait"},
            what : {"none", "load", "prompt", "status", "stop", "compact"},
            ep : Nat, replay : BOOLEAN, replaces : SUBSET Nat, turn : Nat]
AcpJob == [kind : {"none", "turn", "compact"}, turn : Nat, ask : {"none", "permission"}, open : Nat]
AcpQuestion == [kind : {"permission", "quiz"}, turn : Nat, view : Nat]
AcpConn == [proto : Protocols, entry : Nat, held : SUBSET Nat]
AcpLedger == [views : Nat, jobs : Nat, requests : Nat, cancels : Nat, slips : Nat,
              owed : SUBSET Nat, asked : Nat, lapsed : SUBSET AcpQuestion]

AcpTypes ==
  /\ conn \in AcpConn
  /\ views \in [Views -> AcpView]
  /\ desks \in [Desks -> AcpDesk]
  /\ job \in AcpJob
  /\ screen \subseteq AcpQuestion
  /\ ledger \in AcpLedger

Attends(vs, v) == vs[v].st \in {"ready", "on"}
Hearing(vs, v) == Attends(vs, v) /\ vs[v].open
SameView(vs, ws, v) == ws[v].st = vs[v].st /\ ws[v].open = vs[v].open /\ ws[v].quiz = vs[v].quiz
FeedOf(vs, v) == Range(vs[v].feed)

(* Only the registered observer goes on; ids of observers are not reused.     *)
OnlyEntryAttends ==
  /\ conn.entry <= ledger.views /\ ledger.views <= MaxViews
  /\ \A v \in Views : Attends(views, v) => v = conn.entry

JobIsWhole == (job.kind = "none" <=> job.turn = 0) /\ job.open <= ledger.asked

(* A feed tells that a questionnaire is resolved only when it is.             *)
ResolvedIsPast ==
  \A v \in Views : \A e \in FeedOf(views, v) :
    e.kind = "resolved" => e.turn > 0 /\ e.turn <= ledger.asked /\ e.turn # job.open

(* A request: what it replaces, its observer, and what an accepted prompt has. *)
DeskIsWhole(d) ==
  /\ desks[d].what # "prompt" => desks[d].replaces = {}
  /\ desks[d].pc = "idle" => desks[d].what = "none"
  /\ desks[d].pc \in {"options", "active", "submit", "wait"} => desks[d].ep \in 1 .. ledger.views
WaitIsWhole(d) ==
  desks[d].pc = "wait" => waiter = d /\ desks[d].turn > 0 /\ desks[d].replaces \cap ledger.owed = {}
DesksHold == \A d \in Desks : DeskIsWhole(d) /\ WaitIsWhole(d)

CancelsAreNumbered ==
  /\ conn.held \subseteq 1 .. ledger.cancels
  /\ \A d \in Desks : desks[d].replaces \subseteq 1 .. ledger.cancels

WaitersFinish ==
  \A d \in Desks : desks[d].pc = "wait" /\ Hearing(views, desks[d].ep) =>
    \/ job.turn = desks[d].turn
    \/ [kind |-> "end", turn |-> desks[d].turn] \in FeedOf(views, desks[d].ep)

(* The questionnaire that is open is known to the observer that does not      *)
(* forward yet, on its way, shown by it or given up.                          *)
KnownTo(v) ==
  \/ [kind |-> "quiz", turn |-> job.open] \in FeedOf(views, v)
  \/ Quiz(job.open, v) \in screen \cup ledger.lapsed
  \/ views[v].st = "ready" /\ views[v].quiz = job.open
QuizIsKnown == job.open # 0 /\ conn.entry # 0 /\ Hearing(views, conn.entry) => KnownTo(conn.entry)

AcpInv ==
  /\ AcpTypes /\ OnlyEntryAttends /\ JobIsWhole /\ DesksHold /\ CancelsAreNumbered
  /\ CancelIsKept /\ WaitersFinish /\ QuizIsKnown /\ ResolvedIsPast

-----------------------------------------------------------------------------
LEMMA FeedGrows ==
  ASSUME NEW f \in Seq(AcpEvent), NEW e \in AcpEvent
  PROVE  Append(f, e) \in Seq(AcpEvent) /\ Range(Append(f, e)) = Range(f) \cup {e}
<1>1. Append(f, e) \in Seq(AcpEvent) /\ Len(Append(f, e)) = Len(f) + 1
      /\ \A i \in 1 .. Len(f) : Append(f, e)[i] = f[i]
      /\ Append(f, e)[Len(f) + 1] = e
  BY AppendProperties
<1>2. DOMAIN f = 1 .. Len(f) /\ DOMAIN Append(f, e) = 1 .. Len(f) + 1 /\ Len(f) \in Nat
  BY <1>1, LenProperties
<1> QED
  BY <1>1, <1>2 DEF Range

LEMMA FeedShrinks ==
  ASSUME NEW f \in Seq(AcpEvent), f # <<>>
  PROVE  Head(f) \in AcpEvent /\ Tail(f) \in Seq(AcpEvent) /\ Range(f) = Range(Tail(f)) \cup {Head(f)}
<1>1. Head(f) = f[1] /\ Tail(f) \in Seq(AcpEvent) /\ Len(Tail(f)) = Len(f) - 1 /\ Len(f) > 0
      /\ Head(f) \in AcpEvent /\ \A i \in 1 .. Len(f) - 1 : Tail(f)[i] = f[i + 1]
  BY HeadTailProperties, EmptySeq
<1>2. DOMAIN f = 1 .. Len(f) /\ DOMAIN Tail(f) = 1 .. Len(f) - 1 /\ Len(f) \in Nat
  BY <1>1, LenProperties
<1>3. \A i \in 1 .. Len(f) : i = 1 \/ (i - 1 \in 1 .. Len(f) - 1 /\ f[i] = Tail(f)[i - 1])
  BY <1>1, <1>2
<1>4. \A i \in 1 .. Len(f) - 1 : i + 1 \in 1 .. Len(f)
  BY <1>2
<1>5. ASSUME NEW i \in 1 .. Len(f) PROVE f[i] \in Range(Tail(f)) \cup {Head(f)}
  BY <1>1, <1>2, <1>3 DEF Range
<1>6. Range(Tail(f)) \cup {Head(f)} \subseteq Range(f)
  BY <1>1, <1>2, <1>4 DEF Range
<1> QED
  BY <1>1, <1>2, <1>5, <1>6 DEF Range

(* An event goes to the observers with an open subscription.                  *)
LEMMA HeardIs ==
  ASSUME NEW vs \in [Views -> AcpView], NEW e \in AcpEvent
  PROVE  /\ Heard(vs, e) \in [Views -> AcpView]
         /\ \A v \in Views :
              /\ SameView(vs, Heard(vs, e), v)
              /\ FeedOf(vs, v) \subseteq FeedOf(Heard(vs, e), v)
              /\ FeedOf(Heard(vs, e), v) \subseteq FeedOf(vs, v) \cup {e}
              /\ Hearing(vs, v) => e \in FeedOf(Heard(vs, e), v)
<1>1. ASSUME NEW v \in Views
      PROVE  LET n == IF vs[v].st \in {"ready", "on"} /\ vs[v].open
                      THEN [vs[v] EXCEPT !.feed = Append(@, e)] ELSE vs[v]
             IN  /\ n \in AcpView /\ n.st = vs[v].st /\ n.open = vs[v].open /\ n.quiz = vs[v].quiz
                 /\ Range(vs[v].feed) \subseteq Range(n.feed) /\ Range(n.feed) \subseteq Range(vs[v].feed) \cup {e}
                 /\ vs[v].st \in {"ready", "on"} /\ vs[v].open => e \in Range(n.feed)
  <2> DEFINE x == vs[v]
             more == Append(x.feed, e)
             n == [x EXCEPT !.feed = more]
  <2>1. x \in AcpView
    OBVIOUS
  <2>2. x.feed \in Seq(AcpEvent)
    BY <2>1 DEF AcpView
  <2>3. more \in Seq(AcpEvent) /\ Range(more) = Range(x.feed) \cup {e}
    BY <2>2, FeedGrows
  <2> HIDE DEF more, x
  <2>4. n \in AcpView /\ n.st = x.st /\ n.open = x.open /\ n.quiz = x.quiz /\ n.feed = more
    BY <2>1, <2>3 DEF AcpView
  <2> HIDE DEF n
  <2>5. n = [vs[v] EXCEPT !.feed = Append(@, e)]
    BY <2>1 DEF n, more, x, AcpView
  <2> QED
    BY <2>1, <2>3, <2>4, <2>5 DEF x
<1>2. Heard(vs, e) \in [Views -> AcpView]
  BY <1>1 DEF Heard
<1> QED
  BY <1>1, <1>2 DEF Heard, SameView, FeedOf, Hearing, Attends

(* Replacing one request.                                                     *)
LEMMA DeskSet ==
  ASSUME desks \in [Desks -> AcpDesk], NEW d \in Desks, NEW x \in AcpDesk, desks' = [desks EXCEPT ![d] = x]
  PROVE  desks' \in [Desks -> AcpDesk] /\ desks'[d] = x /\ \A e \in Desks : e # d => desks'[e] = desks[e]
OBVIOUS

LEMMA NoDeskType ==
  NoDesk \in AcpDesk /\ NoDesk.pc = "idle" /\ NoDesk.what = "none" /\ NoDesk.replaces = {}
BY DEF NoDesk, AcpDesk

LEMMA JobOverType ==
  ASSUME job \in AcpJob
  PROVE  JobOver \in AcpJob /\ JobOver.kind = "none" /\ JobOver.turn = 0 /\ JobOver.open = job.open
BY DEF JobOver, AcpJob

LEMMA KeptIs ==
  CancelIsKept <=> \A c \in ledger.owed : c \in conn.held \/ \E d \in Desks : c \in desks[d].replaces
BY DEF CancelIsKept

LEMMA KeptIsNext ==
  CancelIsKept' <=> \A c \in ledger'.owed : c \in conn'.held \/ \E d \in Desks : c \in desks'[d].replaces
BY DEF CancelIsKept

-----------------------------------------------------------------------------
(* What most steps leave as it is.                                            *)

ViewsKeep == \A v \in Views :
  /\ Attends(views', v) => Attends(views, v)
  /\ Hearing(views', v) => /\ Hearing(views, v) /\ SameView(views, views', v)
                           /\ FeedOf(views, v) \subseteq FeedOf(views', v)
FeedsKeep == \A v \in Views : \A e \in FeedOf(views', v) : e \in FeedOf(views, v) \/ e.kind # "resolved"
AskedKeeps == job'.open = job.open /\ ledger'.asked = ledger.asked
EntryKeeps ==
  /\ ledger'.views = ledger.views
  /\ conn'.entry = conn.entry \/ (conn'.entry = 0 /\ \A v \in Views : ~Attends(views', v))
DesksKeep == \A d \in Desks :
  \/ desks'[d] = desks[d]
  \/ /\ DeskIsWhole(d)' /\ desks'[d].pc # "wait" /\ desks'[d].replaces \subseteq 1 .. ledger.cancels
     /\ desks'[d].replaces = desks[d].replaces \/ desks[d].replaces \cap ledger'.owed = {}
DesksFit == \A d \in Desks :
  \/ desks'[d] = desks[d]
  \/ /\ DeskIsWhole(d)' /\ WaitIsWhole(d)' /\ desks'[d].replaces \subseteq 1 .. ledger.cancels
     /\ desks'[d].replaces = desks[d].replaces \/ desks[d].replaces \cap ledger'.owed = {}
WaitersSame == \A d \in Desks : desks'[d].pc = "wait" => desks'[d] = desks[d]
WaitersKnown == \A d \in Desks : desks'[d].pc = "wait" => waiter' = d
CancelsKeep ==
  /\ ledger'.cancels = ledger.cancels /\ ledger'.owed \subseteq ledger.owed
  /\ conn'.held = conn.held \/ (conn'.held = {} /\ conn.held \cap ledger'.owed = {})
EndsKeep == \A v \in 1 .. ledger.views : Hearing(views', v) =>
  /\ Hearing(views, v)
  /\ \A t \in Nat : [kind |-> "end", turn |-> t] \in FeedOf(views, v) => [kind |-> "end", turn |-> t] \in FeedOf(views', v)
TurnKeeps ==
  \/ job'.turn = job.turn
  \/ job.turn = 0
  \/ \A v \in Views : Hearing(views', v) => [kind |-> "end", turn |-> job.turn] \in FeedOf(views', v)
JobKeeps == job'.open = job.open /\ TurnKeeps
QuestionsKeep == screen \cup ledger.lapsed \subseteq screen' \cup ledger'.lapsed

LEMMA EntryStays ==
  ASSUME AcpInv, ViewsKeep, EntryKeeps, conn' \in AcpConn
  PROVE  OnlyEntryAttends'
BY DEF AcpInv, AcpTypes, AcpConn, AcpLedger, OnlyEntryAttends, ViewsKeep, EntryKeeps

LEMMA DesksStay ==
  ASSUME AcpInv, DesksFit, WaitersKnown, CancelsKeep, ledger'.views = ledger.views
  PROVE  DesksHold' /\ CancelsAreNumbered' /\ CancelIsKept'
<1>1. \A d \in Desks : DeskIsWhole(d) /\ WaitIsWhole(d)
  BY DEF AcpInv, DesksHold
<1>2. DesksHold'
  <2>1. ASSUME NEW d \in Desks, desks'[d] = desks[d] PROVE DeskIsWhole(d)' /\ WaitIsWhole(d)'
    BY <1>1, <2>1 DEF DeskIsWhole, WaitIsWhole, WaitersKnown, CancelsKeep
  <2> QED
    BY <2>1 DEF DesksFit, DesksHold
<1>3. CancelsAreNumbered'
  BY DEF AcpInv, CancelsAreNumbered, CancelsKeep, DesksFit
<1>4. CancelIsKept'
  BY KeptIs, KeptIsNext DEF AcpInv, CancelsKeep, DesksFit
<1> QED
  BY <1>2, <1>3, <1>4

LEMMA WaiterStays ==
  ASSUME AcpInv, EndsKeep, TurnKeeps, NEW d \in Desks, desks'[d] = desks[d], desks[d].pc = "wait",
         Hearing(views', desks[d].ep)
  PROVE  job'.turn = desks[d].turn \/ [kind |-> "end", turn |-> desks[d].turn] \in FeedOf(views', desks[d].ep)
<1>1. DeskIsWhole(d) /\ WaitIsWhole(d)
  BY DEF AcpInv, DesksHold
<1>2. desks[d].ep \in Views /\ desks[d].ep \in 1 .. ledger.views /\ desks[d].turn > 0 /\ desks[d].turn \in Nat
  <2>1. desks[d] \in AcpDesk /\ ledger.views \in Nat /\ ledger.views <= MaxViews
    BY DEF AcpInv, AcpTypes, OnlyEntryAttends, AcpLedger
  <2>2. desks[d].ep \in 1 .. ledger.views /\ desks[d].turn > 0
    BY <1>1 DEF DeskIsWhole, WaitIsWhole
  <2> QED
    BY <2>1, <2>2, BoundsAssumption DEF Views, AcpDesk
<1>3. /\ Hearing(views, desks[d].ep)
      /\ [kind |-> "end", turn |-> desks[d].turn] \in FeedOf(views, desks[d].ep)
           => [kind |-> "end", turn |-> desks[d].turn] \in FeedOf(views', desks[d].ep)
  BY <1>2 DEF EndsKeep
<1>4. job.turn = desks[d].turn \/ [kind |-> "end", turn |-> desks[d].turn] \in FeedOf(views, desks[d].ep)
  BY <1>1, <1>3 DEF AcpInv, WaitersFinish
<1> QED
  BY <1>2, <1>3, <1>4 DEF TurnKeeps

LEMMA WaitersStay ==
  ASSUME AcpInv, EndsKeep, TurnKeeps, WaitersSame
  PROVE  WaitersFinish'
<1> SUFFICES ASSUME NEW d \in Desks, desks'[d].pc = "wait", Hearing(views', desks'[d].ep)
             PROVE  \/ job'.turn = desks'[d].turn
                    \/ [kind |-> "end", turn |-> desks'[d].turn] \in FeedOf(views', desks'[d].ep)
  BY DEF WaitersFinish
<1>1. desks'[d] = desks[d]
  BY DEF WaitersSame
<1> QED
  BY <1>1, WaiterStays

LEMMA KeepsAre ==
  ASSUME AcpInv
  PROVE  /\ DesksKeep => DesksFit /\ WaitersSame
         /\ ViewsKeep => EndsKeep
         /\ JobKeeps => TurnKeeps
         /\ views' = views => EndsKeep
<1>1. 1 .. ledger.views \subseteq Views
  BY BoundsAssumption DEF AcpInv, AcpTypes, OnlyEntryAttends, AcpLedger, Views
<1>2. DesksKeep => DesksFit /\ WaitersSame
  BY DEF DesksKeep, DesksFit, WaitersSame, WaitIsWhole
<1>3. ViewsKeep => EndsKeep
  BY <1>1 DEF ViewsKeep, EndsKeep
<1> QED
  BY <1>2, <1>3 DEF JobKeeps, EndsKeep

LEMMA EntryIsView ==
  ASSUME AcpInv, conn.entry # 0
  PROVE  conn.entry \in Views
BY BoundsAssumption DEF AcpInv, AcpTypes, AcpConn, AcpLedger, OnlyEntryAttends, Views

LEMMA KnownStays ==
  ASSUME NEW v \in Views, KnownTo(v), job'.open = job.open, SameView(views, views', v),
         FeedOf(views, v) \subseteq FeedOf(views', v), QuestionsKeep
  PROVE  KnownTo(v)'
BY DEF KnownTo, SameView, QuestionsKeep, Quiz, FeedOf

LEMMA QuizStays ==
  ASSUME AcpInv, ViewsKeep, JobKeeps, EntryKeeps, QuestionsKeep, conn' \in AcpConn
  PROVE  QuizIsKnown'
<1> SUFFICES ASSUME job'.open # 0, conn'.entry # 0, Hearing(views, conn.entry)'
             PROVE  KnownTo(conn.entry)'
  BY DEF QuizIsKnown
<1>1. Hearing(views', conn'.entry)
  BY DEF Hearing, Attends
<1>2. job'.open = job.open /\ conn'.entry = conn.entry
  <2>1. conn'.entry = conn.entry \/ (conn'.entry = 0 /\ \A v \in Views : ~Attends(views', v))
    BY DEF EntryKeeps
  <2> QED
    BY <2>1 DEF JobKeeps
<1>3. conn.entry \in Views
  BY <1>2, EntryIsView
<1> PICK v \in Views : v = conn.entry
  BY <1>3
<1>4. Hearing(views, v) /\ FeedOf(views, v) \subseteq FeedOf(views', v) /\ SameView(views, views', v)
  BY <1>1, <1>2, <1>3 DEF ViewsKeep
<1>5. KnownTo(v)
  BY <1>2, <1>4 DEF AcpInv, QuizIsKnown
<1>6. KnownTo(v)'
  BY <1>2, <1>3, <1>4, <1>5, KnownStays
<1> QED
  BY <1>2, <1>6 DEF KnownTo, Quiz, FeedOf

LEMMA ResolvedStays ==
  ASSUME AcpInv, FeedsKeep, AskedKeeps
  PROVE  ResolvedIsPast'
BY DEF AcpInv, ResolvedIsPast, FeedsKeep, AskedKeeps, FeedOf

LEMMA StepHolds ==
  ASSUME AcpInv, AcpTypes', JobIsWhole', ViewsKeep, FeedsKeep, EntryKeeps, DesksKeep, WaitersKnown, CancelsKeep,
         JobKeeps, ledger'.asked = ledger.asked, QuestionsKeep
  PROVE  AcpInv'
<1>1. conn' \in AcpConn /\ ledger'.views = ledger.views
  BY DEF AcpTypes, EntryKeeps
<1>2. TurnKeeps /\ AskedKeeps
  BY DEF JobKeeps, AskedKeeps
<1> QED
  BY <1>1, <1>2, KeepsAre, EntryStays, DesksStay, WaitersStay, QuizStays, ResolvedStays DEF AcpInv

LEMMA AcpParts ==
  ASSUME AcpInv
  PROVE  /\ conn \in AcpConn /\ views \in [Views -> AcpView] /\ desks \in [Desks -> AcpDesk]
         /\ job \in AcpJob /\ screen \subseteq AcpQuestion /\ ledger \in AcpLedger
         /\ JobIsWhole /\ OnlyEntryAttends /\ ResolvedIsPast /\ \A d \in Desks : DeskIsWhole(d) /\ WaitIsWhole(d)
BY DEF AcpInv, AcpTypes, DesksHold

(* What is known of the open questionnaire, in terms of the registered view.   *)
LEMMA KnownNow ==
  ASSUME AcpInv, NEW u \in Views, conn.entry = u, job.open # 0, Hearing(views, u)
  PROVE  KnownTo(u)
<1>1. u # 0
  BY BoundsAssumption DEF Views
<1> QED
  BY <1>1 DEF AcpInv, QuizIsKnown

LEMMA KnownNext ==
  ASSUME AcpInv, conn' = conn,
         \A u \in Views : conn.entry = u /\ job'.open # 0 /\ Hearing(views', u) => KnownTo(u)'
  PROVE  QuizIsKnown'
<1> SUFFICES ASSUME job'.open # 0, conn'.entry # 0, Hearing(views, conn.entry)'
             PROVE  KnownTo(conn.entry)'
  BY DEF QuizIsKnown
<1>1. Hearing(views', conn'.entry)
  BY DEF Hearing, Attends
<1>2. conn.entry \in Views
  BY EntryIsView
<1> PICK u \in Views : u = conn.entry
  BY <1>2
<1>3. KnownTo(u)'
  BY <1>1
<1> QED
  BY <1>3 DEF KnownTo, Quiz, FeedOf

LEMMA KnownLeft ==
  ASSUME AcpInv, UNCHANGED <<conn, views, ledger>>, job'.open = job.open,
         \A u \in Views : Quiz(job.open, u) \in screen => Quiz(job.open, u) \in screen'
  PROVE  QuizIsKnown'
<1> SUFFICES ASSUME NEW u \in Views, conn.entry = u, job'.open # 0, Hearing(views', u) PROVE KnownTo(u)'
  BY KnownNext
<1>1. KnownTo(u)
  BY KnownNow
<1> QED
  BY <1>1 DEF KnownTo, Quiz, FeedOf

(* The open questionnaire changes to a later one, or to none.                  *)
LEMMA ResolvedPasses ==
  ASSUME AcpInv, FeedsKeep, ledger'.asked \in Nat, ledger.asked <= ledger'.asked,
         job'.open = job.open \/ ledger.asked < job'.open
  PROVE  ResolvedIsPast'
<1> SUFFICES ASSUME NEW v \in Views, NEW e \in FeedOf(views', v), e.kind = "resolved"
             PROVE  e.turn > 0 /\ e.turn <= ledger'.asked /\ e.turn # job'.open
  BY DEF ResolvedIsPast, FeedOf
<1>1. e \in FeedOf(views, v)
  BY DEF FeedsKeep
<1>2. e \in AcpEvent
  <2>1. views[v].feed \in Seq(AcpEvent)
    BY AcpParts DEF AcpView
  <2> QED
    BY <1>1, <2>1 DEF FeedOf, Range
<1>3. e.turn > 0 /\ e.turn <= ledger.asked /\ e.turn # job.open
  BY <1>1, AcpParts DEF ResolvedIsPast
<1>4. e.turn \in Nat /\ ledger.asked \in Nat
  BY <1>2, AcpParts DEF AcpEvent, AcpLedger
<1>5. job.open \in Nat
  BY AcpParts DEF AcpJob
<1>6. e.turn # job'.open
  BY <1>3, <1>4, <1>5
<1> QED
  BY <1>3, <1>4, <1>6

LEMMA PartsHold ==
  ASSUME AcpInv, AcpTypes', JobIsWhole', OnlyEntryAttends', DesksKeep, WaitersKnown, CancelsKeep,
         ledger'.views = ledger.views, EndsKeep, TurnKeeps, QuizIsKnown', ResolvedIsPast'
  PROVE  AcpInv'
BY KeepsAre, DesksStay, WaitersStay DEF AcpInv

-----------------------------------------------------------------------------
(* What the operators of several requests do.                                 *)

LEMMA SlippedIs ==
  ASSUME ledger \in AcpLedger
  PROVE  /\ Slipped \in AcpLedger /\ Slipped.views = ledger.views /\ Slipped.cancels = ledger.cancels
         /\ Slipped.owed = ledger.owed /\ Slipped.lapsed = ledger.lapsed /\ Slipped.asked = ledger.asked
<1> DEFINE n == ledger.slips + 1
<1>1. n \in Nat /\ Slipped = [ledger EXCEPT !.slips = n]
  BY DEF AcpLedger, Slipped
<1> HIDE DEF n
<1> QED
  BY <1>1 DEF AcpLedger

LEMMA SettledIs ==
  ASSUME NEW l \in AcpLedger, NEW d
  PROVE  /\ Settled(d, l) \in AcpLedger /\ Settled(d, l).views = l.views /\ Settled(d, l).cancels = l.cancels
         /\ Settled(d, l).owed = l.owed \ desks[d].replaces /\ Settled(d, l).lapsed = l.lapsed /\ Settled(d, l).asked = l.asked
<1> DEFINE owed == l.owed \ desks[d].replaces
<1>1. owed \in SUBSET Nat /\ Settled(d, l) = [l EXCEPT !.owed = owed]
  BY DEF AcpLedger, Settled
<1> HIDE DEF owed
<1>2. Settled(d, l) \in AcpLedger /\ Settled(d, l).views = l.views /\ Settled(d, l).cancels = l.cancels
      /\ Settled(d, l).owed = owed /\ Settled(d, l).lapsed = l.lapsed /\ Settled(d, l).asked = l.asked
  BY <1>1 DEF AcpLedger
<1> QED
  BY <1>2 DEF owed

(* The session's job ends and whoever attends hears of it, or nothing happens. *)
LEMMA StopIs ==
  ASSUME job \in AcpJob, JobIsWhole, ledger'.asked = ledger.asked, NEW vs \in [Views -> AcpView],
         \/ job' = JobOver /\ views' = Heard(vs, Event("end"))
         \/ job' = job /\ views' = vs
  PROVE  /\ views' \in [Views -> AcpView] /\ job' \in AcpJob /\ JobIsWhole' /\ JobKeeps
         /\ \A v \in Views :
              /\ SameView(vs, views', v)
              /\ FeedOf(vs, v) \subseteq FeedOf(views', v)
              /\ \A e \in FeedOf(views', v) : e \in FeedOf(vs, v) \/ e.kind # "resolved"
<1>1. CASE job' = JobOver /\ views' = Heard(vs, Event("end"))
  <2> DEFINE e == [kind |-> "end", turn |-> job.turn]
  <2>1. e \in AcpEvent /\ e = Event("end") /\ e.kind = "end"
    BY DEF AcpJob, AcpEvent, Event
  <2>2. job' \in AcpJob /\ JobIsWhole' /\ job'.open = job.open
    BY <1>1, JobOverType DEF JobIsWhole
  <2> HIDE DEF e
  <2>3. /\ views' \in [Views -> AcpView]
        /\ \A v \in Views :
             /\ SameView(vs, views', v)
             /\ FeedOf(vs, v) \subseteq FeedOf(views', v)
             /\ FeedOf(views', v) \subseteq FeedOf(vs, v) \cup {e}
             /\ Hearing(vs, v) => e \in FeedOf(views', v)
    BY <1>1, <2>1, HeardIs
  <2>4. \A v \in Views : Hearing(views', v) => e \in FeedOf(views', v)
    BY <2>3 DEF Attends, Hearing, SameView
  <2> QED
    BY <2>1, <2>2, <2>3, <2>4 DEF e, JobKeeps, TurnKeeps
<1>2. CASE job' = job /\ views' = vs
  BY <1>2 DEF JobIsWhole, JobKeeps, TurnKeeps, SameView
<1> QED
  BY <1>1, <1>2

(* After a drop nobody attends.                                               *)
LEMMA DroppingIs ==
  ASSUME AcpInv
  PROVE  /\ Dropping \in [Views -> AcpView] /\ \A v \in Views : ~Attends(Dropping, v)
         /\ \A v \in Views : FeedOf(Dropping, v) \subseteq FeedOf(views, v)
<1>1. conn \in AcpConn /\ views \in [Views -> AcpView] /\ OnlyEntryAttends /\ ledger \in AcpLedger
  BY AcpParts
<1>2. CASE Registered
  <2> DEFINE old == views[conn.entry]
             f == IF old.st = "on" /\ old.feed # <<>> THEN <<Head(old.feed)>> ELSE <<>>
             x == [NoView EXCEPT !.st = "off", !.quiz = old.quiz, !.feed = f]
  <2>1. conn.entry \in Views
    BY <1>2, EntryIsView DEF Registered
  <2>2. old \in AcpView
    BY <1>1, <2>1
  <2>3. f \in Seq(AcpEvent) /\ Range(f) \subseteq Range(old.feed)
    <3>1. CASE old.st = "on" /\ old.feed # <<>>
      <4>1. Head(old.feed) \in AcpEvent /\ Head(old.feed) \in Range(old.feed)
        BY <2>2, <3>1, FeedShrinks DEF AcpView
      <4> DEFINE h == Head(old.feed)
      <4>2. h \in AcpEvent /\ f = <<h>> /\ h \in Range(old.feed)
        BY <3>1, <4>1
      <4> HIDE DEF h
      <4>3. <<h>> \in Seq(AcpEvent) /\ Range(<<h>>) = {h}
        BY <4>2 DEF Range
      <4> QED
        BY <4>2, <4>3
    <3>2. CASE ~(old.st = "on" /\ old.feed # <<>>)
      BY <3>2 DEF Range
    <3> QED
      BY <3>1, <3>2
  <2> HIDE DEF f
  <2>4. x \in AcpView /\ x.st = "off" /\ x.feed = f
    BY <2>2, <2>3 DEF AcpView, NoView
  <2>5. Dropping = [views EXCEPT ![conn.entry] = x]
    BY <1>2 DEF Dropping, InHand, f
  <2> HIDE DEF x, old
  <2>6. Dropping \in [Views -> AcpView] /\ Dropping[conn.entry] = x
        /\ \A v \in Views : v # conn.entry => Dropping[v] = views[v]
    BY <1>1, <2>1, <2>4, <2>5
  <2>7. \A v \in Views : ~Attends(Dropping, v)
    BY <1>1, <2>4, <2>6 DEF Attends, OnlyEntryAttends
  <2>8. \A v \in Views : FeedOf(Dropping, v) \subseteq FeedOf(views, v)
    BY <2>3, <2>4, <2>6 DEF FeedOf, old
  <2> QED
    BY <2>6, <2>7, <2>8
<1>3. CASE ~Registered
  BY <1>1, <1>3 DEF Registered, Dropping, OnlyEntryAttends, Views
<1> QED
  BY <1>2, <1>3

(* A request goes on: it keeps what it replaces and has an observer.          *)
LEMMA MoveKeeps ==
  ASSUME AcpInv, NEW d \in Desks, NEW x \in AcpDesk, desks' = [desks EXCEPT ![d] = x],
         x.pc \notin {"wait", "idle"}, x.what # "prompt" => x.replaces = {},
         x.replaces = desks[d].replaces, x.pc # "prepare" => x.ep \in 1 .. ledger.views,
         ledger'.views = ledger.views, waiter' = waiter \/ waiter = Vacant
  PROVE  desks' \in [Desks -> AcpDesk] /\ DesksKeep /\ WaitersKnown
<1>1. desks' \in [Desks -> AcpDesk] /\ desks'[d] = x /\ \A e \in Desks : e # d => desks'[e] = desks[e]
  BY AcpParts, DeskSet
<1>2. desks'[d].replaces \subseteq 1 .. ledger.cancels
  BY <1>1 DEF AcpInv, CancelsAreNumbered
<1>3. DeskIsWhole(d)'
  BY <1>1 DEF DeskIsWhole
<1>4. DesksKeep
  BY <1>1, <1>2, <1>3 DEF DesksKeep
<1>5. \A e \in Desks : desks[e].pc = "wait" => waiter = e
  BY AcpParts DEF WaitIsWhole
<1>6. WaitersKnown
  BY <1>1, <1>5, VacantAssumption DEF WaitersKnown
<1> QED
  BY <1>1, <1>4, <1>6

(* A request is answered: what it replaces is no longer owed.                 *)
LEMMA ReplyKeeps ==
  ASSUME AcpInv, NEW d \in Desks, Reply(d), desks[d].replaces \cap ledger'.owed = {}, waiter' = waiter
  PROVE  desks' \in [Desks -> AcpDesk] /\ DesksKeep /\ WaitersKnown
<1>1. desks' \in [Desks -> AcpDesk] /\ desks'[d] = NoDesk /\ \A e \in Desks : e # d => desks'[e] = desks[e]
  BY AcpParts, NoDeskType DEF Reply
<1>2. DeskIsWhole(d)' /\ desks'[d].pc # "wait" /\ desks'[d].replaces \subseteq 1 .. ledger.cancels
  BY <1>1, NoDeskType DEF DeskIsWhole
<1>3. DesksKeep
  BY <1>1, <1>2 DEF DesksKeep
<1>4. WaitersKnown
  BY <1>1, <1>2, AcpParts DEF WaitersKnown, WaitIsWhole
<1> QED
  BY <1>1, <1>3, <1>4

LEMMA SameKeeps ==
  ASSUME AcpInv
  PROVE  /\ desks' = desks /\ waiter' = waiter => DesksKeep /\ WaitersKnown
         /\ views' = views => ViewsKeep /\ FeedsKeep
         /\ conn' = conn /\ ledger'.views = ledger.views => EntryKeeps
         /\ job' = job /\ ledger'.asked = ledger.asked => JobKeeps /\ JobIsWhole'
         /\ screen' = screen /\ ledger'.lapsed = ledger.lapsed => QuestionsKeep
<1>1. desks' = desks /\ waiter' = waiter => DesksKeep /\ WaitersKnown
  BY AcpParts DEF DesksKeep, WaitersKnown, WaitIsWhole
<1>2. views' = views => ViewsKeep /\ FeedsKeep
  BY DEF ViewsKeep, FeedsKeep, SameView
<1> QED
  BY <1>1, <1>2, AcpParts DEF EntryKeeps, JobKeeps, TurnKeeps, JobIsWhole, QuestionsKeep

-----------------------------------------------------------------------------
(* The daemon's session.                                                      *)

LEMMA JobStartsIs ==
  ASSUME AcpInv, NEW kind \in {"turn", "compact"}, JobStarts(kind), ledger'.asked = ledger.asked
  PROVE  job' \in AcpJob /\ JobIsWhole' /\ JobKeeps /\ job.turn = 0 /\ job'.turn > 0
<1> DEFINE n == ledger.jobs + 1
<1>1. n \in Nat /\ n > 0
  BY AcpParts DEF AcpLedger
<1>2. job' = [job EXCEPT !.kind = kind, !.turn = n, !.ask = "none"] /\ job.turn = 0
  BY AcpParts DEF JobStarts, Started, Busy, JobIsWhole
<1> HIDE DEF n
<1>3. job' \in AcpJob /\ job'.kind = kind /\ job'.turn = n /\ job'.open = job.open
  BY <1>1, <1>2, AcpParts DEF AcpJob
<1> QED
  BY <1>1, <1>2, <1>3, AcpParts DEF JobIsWhole, JobKeeps, TurnKeeps

LEMMA JobsSet ==
  ASSUME ledger \in AcpLedger, NEW n \in Nat, NEW l, l = [ledger EXCEPT !.jobs = n]
  PROVE  l \in AcpLedger /\ l.views = ledger.views /\ l.cancels = ledger.cancels
         /\ l.owed = ledger.owed /\ l.lapsed = ledger.lapsed /\ l.asked = ledger.asked
BY DEF AcpLedger

LEMMA StoppedKeeps ==
  ASSUME \A v \in Views :
           /\ SameView(views, views', v) /\ FeedOf(views, v) \subseteq FeedOf(views', v)
           /\ \A e \in FeedOf(views', v) : e \in FeedOf(views, v) \/ e.kind # "resolved"
  PROVE  ViewsKeep /\ FeedsKeep
BY DEF ViewsKeep, FeedsKeep, SameView, Attends, Hearing

LEMMA JobElsewhereHolds == ASSUME AcpInv, JobElsewhere PROVE AcpInv'
<1> DEFINE n == ledger.jobs + 1
<1>1. n \in Nat /\ ledger' = [ledger EXCEPT !.jobs = n] /\ UNCHANGED <<conn, views, desks, waiter, screen>>
  BY AcpParts DEF JobElsewhere, AcpLedger
<1> HIDE DEF n
<1>2. ledger' \in AcpLedger /\ ledger'.views = ledger.views /\ ledger'.cancels = ledger.cancels
      /\ ledger'.owed = ledger.owed /\ ledger'.lapsed = ledger.lapsed /\ ledger'.asked = ledger.asked
  BY <1>1, AcpParts, JobsSet
<1>3. job' \in AcpJob /\ JobIsWhole' /\ JobKeeps
  BY <1>2, JobStartsIs DEF JobElsewhere
<1> QED
  BY <1>1, <1>2, <1>3, AcpParts, SameKeeps, StepHolds DEF AcpTypes, CancelsKeep

LEMMA JobEndsHolds == ASSUME AcpInv, JobEnds PROVE AcpInv'
<1>1. job' = JobOver /\ views' = Heard(views, Event("end")) /\ UNCHANGED <<conn, desks, waiter, screen, ledger>>
  BY DEF JobEnds
<1>2. views' \in [Views -> AcpView] /\ job' \in AcpJob /\ JobIsWhole' /\ JobKeeps /\ ViewsKeep /\ FeedsKeep
  BY <1>1, AcpParts, StopIs, StoppedKeeps
<1> QED
  BY <1>1, <1>2, AcpParts, SameKeeps, StepHolds DEF AcpTypes, CancelsKeep

(* HostCancel, alone or with a request that is answered.                      *)
LEMMA HostCancelIs ==
  ASSUME AcpInv, HostCancel, ledger'.asked = ledger.asked
  PROVE  views' \in [Views -> AcpView] /\ job' \in AcpJob /\ JobIsWhole' /\ JobKeeps /\ ViewsKeep /\ FeedsKeep
BY AcpParts, StopIs, StoppedKeeps DEF HostCancel

LEMMA JobCompactsHolds == ASSUME AcpInv, JobCompacts PROVE AcpInv'
<1>1. views' = Heard(views, Event("auto")) /\ UNCHANGED <<conn, desks, waiter, job, screen, ledger>>
  BY DEF JobCompacts
<1>2. Event("auto") \in AcpEvent /\ Event("auto").kind = "auto"
  BY AcpParts DEF Event, AcpJob, AcpEvent
<1>3. views' \in [Views -> AcpView]
      /\ \A v \in Views : /\ SameView(views, views', v) /\ FeedOf(views, v) \subseteq FeedOf(views', v)
                         /\ FeedOf(views', v) \subseteq FeedOf(views, v) \cup {Event("auto")}
  BY <1>1, <1>2, AcpParts, HeardIs
<1>4. ViewsKeep /\ FeedsKeep
  BY <1>2, <1>3, StoppedKeeps
<1> QED
  BY <1>1, <1>3, <1>4, AcpParts, SameKeeps, StepHolds DEF AcpTypes, CancelsKeep

-----------------------------------------------------------------------------
(* The requests of the client.                                                *)

LEMMA RequestsSet ==
  ASSUME ledger \in AcpLedger, NEW n \in Nat, NEW l, l = [ledger EXCEPT !.requests = n]
  PROVE  l \in AcpLedger /\ l.views = ledger.views /\ l.cancels = ledger.cancels
         /\ l.owed = ledger.owed /\ l.lapsed = ledger.lapsed /\ l.asked = ledger.asked
BY DEF AcpLedger

LEMMA LoadRequestHolds == ASSUME AcpInv, NEW d \in Desks, LoadRequest(d) PROVE AcpInv'
<1> DEFINE n == ledger.requests + 1
<1>1. n \in Nat /\ ledger' = [ledger EXCEPT !.requests = n] /\ UNCHANGED <<conn, views, waiter, job, screen>>
      /\ desks[d].pc = "idle"
  BY AcpParts DEF LoadRequest, Begun, AcpLedger, On
<1> HIDE DEF n
<1>2. ledger' \in AcpLedger /\ ledger'.views = ledger.views /\ ledger'.cancels = ledger.cancels
      /\ ledger'.owed = ledger.owed /\ ledger'.lapsed = ledger.lapsed /\ ledger'.asked = ledger.asked
  BY <1>1, AcpParts, RequestsSet
<1>3. PICK replay \in BOOLEAN : desks' = [desks EXCEPT ![d] =
         [NoDesk EXCEPT !.pc = "prepare", !.what = "load", !.replay = replay]]
  BY DEF LoadRequest
<1> DEFINE x == [NoDesk EXCEPT !.pc = "prepare", !.what = "load", !.replay = replay]
<1>4. x \in AcpDesk /\ x.pc = "prepare" /\ x.what = "load" /\ x.replaces = {}
  BY NoDeskType DEF AcpDesk
<1>5. desks[d].replaces = {}
  BY <1>1, AcpParts DEF DeskIsWhole
<1> HIDE DEF x
<1>6. desks' \in [Desks -> AcpDesk] /\ DesksKeep /\ WaitersKnown
  BY <1>1, <1>2, <1>3, <1>4, <1>5, MoveKeeps DEF x
<1> QED
  BY <1>1, <1>2, <1>6, AcpParts, SameKeeps, StepHolds DEF AcpTypes, CancelsKeep

LEMMA CloseRequestHolds == ASSUME AcpInv, NEW d \in Desks, CloseRequest(d) PROVE AcpInv'
<1> DEFINE n == ledger.requests + 1
<1>1. n \in Nat /\ ledger' = [ledger EXCEPT !.requests = n] /\ UNCHANGED <<desks, waiter, job, screen>>
      /\ conn' = [conn EXCEPT !.entry = 0] /\ views' = Dropping
  BY AcpParts DEF CloseRequest, AcpLedger
<1> HIDE DEF n
<1>2. ledger' \in AcpLedger /\ ledger'.views = ledger.views /\ ledger'.cancels = ledger.cancels
      /\ ledger'.owed = ledger.owed /\ ledger'.lapsed = ledger.lapsed /\ ledger'.asked = ledger.asked
  BY <1>1, AcpParts, RequestsSet
<1>3. conn' \in AcpConn /\ conn'.entry = 0 /\ conn'.held = conn.held
  BY <1>1, AcpParts DEF AcpConn
<1>4. views' \in [Views -> AcpView] /\ ViewsKeep /\ FeedsKeep /\ EntryKeeps
  BY <1>1, <1>2, <1>3, DroppingIs DEF ViewsKeep, FeedsKeep, EntryKeeps, Hearing
<1> QED
  BY <1>1, <1>2, <1>3, <1>4, AcpParts, SameKeeps, StepHolds DEF AcpTypes, CancelsKeep

LEMMA ReuseObserverHolds == ASSUME AcpInv, NEW d \in Desks, ReuseObserver(d) PROVE AcpInv'
<1> DEFINE x == [desks[d] EXCEPT !.pc = "active", !.ep = conn.entry]
<1>1. desks' = [desks EXCEPT ![d] = x] /\ UNCHANGED <<conn, views, waiter, job, screen, ledger>>
  BY AcpParts DEF ReuseObserver, AcpDesk
<1>2. conn.entry \in 1 .. ledger.views
  BY AcpParts DEF ReuseObserver, Reuses, Registered, OnlyEntryAttends, AcpConn, AcpLedger
<1>3. x \in AcpDesk /\ x.pc = "active" /\ x.what = desks[d].what /\ x.replaces = desks[d].replaces
      /\ x.ep = conn.entry
  BY <1>2, AcpParts DEF AcpDesk, AcpConn
<1>4. desks[d].what # "prompt" => desks[d].replaces = {}
  BY AcpParts DEF DeskIsWhole
<1> HIDE DEF x
<1>5. desks' \in [Desks -> AcpDesk] /\ DesksKeep /\ WaitersKnown
  BY <1>1, <1>2, <1>3, <1>4, MoveKeeps
<1> QED
  BY <1>1, <1>5, AcpParts, SameKeeps, StepHolds DEF AcpTypes, CancelsKeep

(* Forward with the reply to the request.                                     *)
LEMMA ForwardIs ==
  ASSUME AcpInv, NEW d \in Desks, NEW vs \in [Views -> AcpView], Forward(d, vs), ledger'.asked = ledger.asked,
         vs = views \/ \A v \in Views : ~Attends(vs, v) /\ FeedOf(vs, v) \subseteq FeedOf(views, v)
  PROVE  views' \in [Views -> AcpView] /\ job' \in AcpJob /\ JobIsWhole' /\ JobKeeps /\ ViewsKeep /\ FeedsKeep
         /\ ((\A v \in Views : ~Attends(vs, v)) => \A v \in Views : ~Attends(views', v))
<1>1. /\ views' \in [Views -> AcpView] /\ job' \in AcpJob /\ JobIsWhole' /\ JobKeeps
      /\ \A v \in Views : /\ SameView(vs, views', v) /\ FeedOf(vs, v) \subseteq FeedOf(views', v)
                         /\ \A e \in FeedOf(views', v) : e \in FeedOf(vs, v) \/ e.kind # "resolved"
  BY AcpParts, StopIs DEF Forward
<1>2. \A v \in Views : Attends(views', v) <=> Attends(vs, v)
  BY <1>1 DEF Attends, SameView
<1>3. CASE vs = views
  BY <1>1, <1>2, <1>3, StoppedKeeps
<1>4. CASE \A v \in Views : ~Attends(vs, v) /\ FeedOf(vs, v) \subseteq FeedOf(views, v)
  <2>1. ViewsKeep
    BY <1>2, <1>4 DEF ViewsKeep, Hearing
  <2>2. FeedsKeep
    BY <1>1, <1>4 DEF FeedsKeep
  <2> QED
    BY <1>1, <1>2, <2>1, <2>2
<1> QED
  BY <1>3, <1>4

LEMMA SubscribeFailsHolds == ASSUME AcpInv, NEW d \in Desks, SubscribeFails(d) PROVE AcpInv'
<1>1. conn' = [conn EXCEPT !.entry = 0] /\ Forward(d, Dropping) /\ Reply(d)
      /\ ledger' = Settled(d, Slipped) /\ UNCHANGED <<waiter, screen>>
  BY DEF SubscribeFails
<1>2. ledger' \in AcpLedger /\ ledger'.views = ledger.views /\ ledger'.cancels = ledger.cancels
      /\ ledger'.owed = ledger.owed \ desks[d].replaces /\ ledger'.lapsed = ledger.lapsed /\ ledger'.asked = ledger.asked
  BY <1>1, AcpParts, SlippedIs, SettledIs
<1>3. conn' \in AcpConn /\ conn'.entry = 0 /\ conn'.held = conn.held
  BY <1>1, AcpParts DEF AcpConn
<1>4. /\ views' \in [Views -> AcpView] /\ job' \in AcpJob /\ JobIsWhole' /\ JobKeeps /\ ViewsKeep /\ FeedsKeep
      /\ \A v \in Views : ~Attends(views', v)
  BY <1>1, <1>2, DroppingIs, ForwardIs
<1>5. EntryKeeps
  BY <1>2, <1>3, <1>4 DEF EntryKeeps
<1>6. desks' \in [Desks -> AcpDesk] /\ DesksKeep /\ WaitersKnown
  BY <1>1, <1>2, ReplyKeeps
<1> QED
  BY <1>1, <1>2, <1>3, <1>4, <1>5, <1>6, AcpParts, SameKeeps, StepHolds DEF AcpTypes, CancelsKeep

LEMMA OptionsFailHolds == ASSUME AcpInv, NEW d \in Desks, OptionsFail(d) PROVE AcpInv'
<1> DEFINE v == desks[d].ep
           gone == [NoView EXCEPT !.st = "dropped"]
           x == IF views[v].st = "ready" THEN gone ELSE views[v]
<1>1. views' = [views EXCEPT ![v] = x] /\ Reply(d) /\ ledger' = Slipped
      /\ UNCHANGED <<conn, waiter, job, screen>> /\ desks[d].what = "load" /\ desks[d].pc = "options"
  BY DEF OptionsFail, On
<1>2. ledger' \in AcpLedger /\ ledger'.views = ledger.views /\ ledger'.cancels = ledger.cancels
      /\ ledger'.owed = ledger.owed /\ ledger'.lapsed = ledger.lapsed /\ ledger'.asked = ledger.asked
  BY <1>1, AcpParts, SlippedIs
<1>3. v \in Views /\ views[v] \in AcpView
  BY <1>1, AcpParts, BoundsAssumption DEF DeskIsWhole, OnlyEntryAttends, AcpLedger, Views
<1>4. gone \in AcpView /\ gone.st = "dropped" /\ Range(gone.feed) = {}
  <2>1. <<>> \in Seq(AcpEvent) /\ Range(<<>>) = {}
    BY DEF Range
  <2>2. PICK empty : empty = <<>>
    OBVIOUS
  <2>3. PICK n : n = [st |-> "none", open |-> FALSE, feed |-> empty, quiz |-> 0]
    OBVIOUS
  <2>4. NoView = n
    BY <2>2, <2>3 DEF NoView
  <2>5. gone = [n EXCEPT !.st = "dropped"]
    BY <2>4
  <2> HIDE DEF gone
  <2>6. gone = [st |-> "dropped", open |-> FALSE, feed |-> empty, quiz |-> 0]
    BY <2>3, <2>5
  <2> QED
    BY <2>1, <2>2, <2>6 DEF AcpView
<1> HIDE DEF gone
<1>5. x \in AcpView /\ Range(x.feed) \subseteq Range(views[v].feed) /\ (x = views[v] \/ x.st = "dropped")
  BY <1>3, <1>4
<1>6. desks[d].replaces = {}
  BY <1>1, AcpParts DEF DeskIsWhole
<1> HIDE DEF x, v
<1>7. views' \in [Views -> AcpView] /\ views'[v] = x /\ \A u \in Views : u # v => views'[u] = views[u]
  BY <1>1, <1>3, <1>5, AcpParts
<1>8. \A u \in Views : views'[u] = views[u] \/ (views'[u].st = "dropped" /\ FeedOf(views', u) \subseteq FeedOf(views, u))
  BY <1>5, <1>7 DEF FeedOf
<1>9. ViewsKeep
  BY <1>8 DEF ViewsKeep, Attends, Hearing, SameView, FeedOf
<1>10. FeedsKeep
  BY <1>8 DEF FeedsKeep, FeedOf
<1>11. desks' \in [Desks -> AcpDesk] /\ DesksKeep /\ WaitersKnown
  BY <1>1, <1>6, ReplyKeeps
<1> QED
  BY <1>1, <1>2, <1>7, <1>9, <1>10, <1>11, AcpParts, SameKeeps, StepHolds DEF AcpTypes, CancelsKeep

LEMMA LoadReplyHolds == ASSUME AcpInv, NEW d \in Desks, LoadReply(d) PROVE AcpInv'
<1>1. Reply(d) /\ UNCHANGED <<conn, views, waiter, job, screen, ledger>> /\ desks[d].what \in {"load", "status"}
  BY DEF LoadReply
<1>2. desks[d].replaces = {}
  BY <1>1, AcpParts DEF DeskIsWhole
<1>3. desks' \in [Desks -> AcpDesk] /\ DesksKeep /\ WaitersKnown
  BY <1>1, <1>2, ReplyKeeps
<1> QED
  BY <1>1, <1>3, AcpParts, SameKeeps, StepHolds DEF AcpTypes, CancelsKeep

LEMMA StopCommandHolds == ASSUME AcpInv, NEW d \in Desks, StopCommand(d) PROVE AcpInv'
<1>1. Reply(d) /\ HostCancel /\ UNCHANGED <<conn, waiter, screen, ledger>> /\ desks[d].what = "stop"
  BY DEF StopCommand
<1>2. desks[d].replaces = {}
  BY <1>1, AcpParts DEF DeskIsWhole
<1>3. desks' \in [Desks -> AcpDesk] /\ DesksKeep /\ WaitersKnown
  BY <1>1, <1>2, ReplyKeeps
<1>4. views' \in [Views -> AcpView] /\ job' \in AcpJob /\ JobIsWhole' /\ JobKeeps /\ ViewsKeep /\ FeedsKeep
  BY <1>1, <1>2, HostCancelIs
<1> QED
  BY <1>1, <1>3, <1>4, AcpParts, SameKeeps, StepHolds DEF AcpTypes, CancelsKeep

LEMMA SubmitHolds == ASSUME AcpInv, NEW d \in Desks, TakeWaiter(d) \/ SubmitV2(d) PROVE AcpInv'
<1> DEFINE x == [desks[d] EXCEPT !.pc = "submit"]
<1>1. desks' = [desks EXCEPT ![d] = x] /\ UNCHANGED <<conn, views, job, screen, ledger>>
      /\ (waiter' = waiter \/ waiter = Vacant) /\ desks[d].pc = "active"
  BY AcpParts DEF TakeWaiter, SubmitV2, Submits, Turns, On, AcpDesk
<1>2. desks[d].ep \in 1 .. ledger.views /\ (desks[d].what # "prompt" => desks[d].replaces = {})
  BY <1>1, AcpParts DEF DeskIsWhole
<1>3. x \in AcpDesk /\ x.pc = "submit" /\ x.what = desks[d].what /\ x.replaces = desks[d].replaces
      /\ x.ep = desks[d].ep
  BY AcpParts DEF AcpDesk
<1> HIDE DEF x
<1>4. desks' \in [Desks -> AcpDesk] /\ DesksKeep /\ WaitersKnown
  BY <1>1, <1>2, <1>3, MoveKeeps
<1> QED
  BY <1>1, <1>4, AcpParts, SameKeeps, StepHolds DEF AcpTypes, CancelsKeep

LEMMA WaiterTakenHolds == ASSUME AcpInv, NEW d \in Desks, WaiterTaken(d) PROVE AcpInv'
<1>1. Forward(d, views) /\ Reply(d) /\ ledger' = Settled(d, ledger) /\ UNCHANGED <<conn, waiter, screen>>
  BY DEF WaiterTaken
<1>2. ledger' \in AcpLedger /\ ledger'.views = ledger.views /\ ledger'.cancels = ledger.cancels
      /\ ledger'.owed = ledger.owed \ desks[d].replaces /\ ledger'.lapsed = ledger.lapsed /\ ledger'.asked = ledger.asked
  BY <1>1, AcpParts, SettledIs
<1>3. views' \in [Views -> AcpView] /\ job' \in AcpJob /\ JobIsWhole' /\ JobKeeps /\ ViewsKeep /\ FeedsKeep
  BY <1>1, <1>2, AcpParts, ForwardIs
<1>4. desks' \in [Desks -> AcpDesk] /\ DesksKeep /\ WaitersKnown
  BY <1>1, <1>2, ReplyKeeps
<1> QED
  BY <1>1, <1>2, <1>3, <1>4, AcpParts, SameKeeps, StepHolds DEF AcpTypes, CancelsKeep

LEMMA HostRefusesHolds == ASSUME AcpInv, NEW d \in Desks, HostRefuses(d) PROVE AcpInv'
<1>1. /\ ledger' = Settled(d, IF Accepts(d) THEN Slipped ELSE ledger)
      /\ Forward(d, views) /\ waiter' = Vacant /\ UNCHANGED <<conn, screen>>
      /\ desks' = [e \in Desks |-> IF e = d \/ (e = waiter /\ desks[e].pc = "wait") THEN NoDesk ELSE desks[e]]
  BY DEF HostRefuses
<1>2. ledger' \in AcpLedger /\ ledger'.views = ledger.views /\ ledger'.cancels = ledger.cancels
      /\ ledger'.owed = ledger.owed \ desks[d].replaces /\ ledger'.lapsed = ledger.lapsed /\ ledger'.asked = ledger.asked
  <2> DEFINE l == IF Accepts(d) THEN Slipped ELSE ledger
  <2>1. l \in AcpLedger /\ l.views = ledger.views /\ l.cancels = ledger.cancels
        /\ l.owed = ledger.owed /\ l.lapsed = ledger.lapsed /\ l.asked = ledger.asked
    BY AcpParts, SlippedIs
  <2>2. ledger' = Settled(d, l)
    BY <1>1
  <2> HIDE DEF l
  <2> QED
    BY <2>1, <2>2, SettledIs
<1>3. views' \in [Views -> AcpView] /\ job' \in AcpJob /\ JobIsWhole' /\ JobKeeps /\ ViewsKeep /\ FeedsKeep
  BY <1>1, <1>2, AcpParts, ForwardIs
<1>4. \A e \in Desks : desks[e].pc = "wait" => waiter = e /\ desks[e].replaces \cap ledger.owed = {}
  BY AcpParts DEF WaitIsWhole
<1>5. desks' \in [Desks -> AcpDesk]
  BY <1>1, AcpParts, NoDeskType
<1>6. WaitersKnown
  BY <1>1, <1>4, NoDeskType DEF WaitersKnown
<1>7. DesksKeep
  <2> SUFFICES ASSUME NEW e \in Desks, desks'[e] # desks[e]
               PROVE  /\ DeskIsWhole(e)' /\ desks'[e].pc # "wait" /\ desks'[e].replaces \subseteq 1 .. ledger.cancels
                      /\ desks[e].replaces \cap ledger'.owed = {}
    BY DEF DesksKeep
  <2>1. desks'[e] = NoDesk /\ (e = d \/ desks[e].pc = "wait")
    BY <1>1
  <2>2. desks[e].replaces \cap ledger'.owed = {}
    BY <1>2, <1>4, <2>1
  <2> QED
    BY <2>1, <2>2, NoDeskType DEF DeskIsWhole
<1> QED
  BY <1>1, <1>2, <1>3, <1>5, <1>6, <1>7, AcpParts, SameKeeps, StepHolds DEF AcpTypes, CancelsKeep

-----------------------------------------------------------------------------
(* The requests that change what is expected.                                 *)

LEMMA CancelNowHolds == ASSUME AcpInv, CancelNow PROVE AcpInv'
<1> DEFINE n == ledger.requests + 1
<1>1. HostCancel /\ UNCHANGED <<conn, desks, waiter, screen>>
      /\ ledger' = [ledger EXCEPT !.requests = n] /\ n \in Nat
  BY AcpParts DEF CancelNow, AcpLedger
<1> HIDE DEF n
<1>2. ledger' \in AcpLedger /\ ledger'.views = ledger.views /\ ledger'.cancels = ledger.cancels
      /\ ledger'.owed = ledger.owed /\ ledger'.lapsed = ledger.lapsed /\ ledger'.asked = ledger.asked
  BY <1>1, AcpParts, RequestsSet
<1>3. views' \in [Views -> AcpView] /\ job' \in AcpJob /\ JobIsWhole' /\ JobKeeps /\ ViewsKeep /\ FeedsKeep
  BY <1>1, <1>2, HostCancelIs
<1> QED
  BY <1>1, <1>2, <1>3, AcpParts, SameKeeps, StepHolds DEF AcpTypes, CancelsKeep

(* Completed answers whoever waits.                                           *)
LEMMA CompletedIs ==
  ASSUME AcpInv, Completed
  PROVE  /\ desks' \in [Desks -> AcpDesk] /\ \A d \in Desks : desks'[d].pc # "wait"
         /\ \A d \in Desks : \/ desks'[d] = desks[d]
                             \/ desks'[d] = NoDesk /\ desks[d].pc = "wait" /\ desks[d].replaces \cap ledger.owed = {}
<1>1. \A d \in Desks : desks[d].pc = "wait" => waiter = d /\ desks[d].replaces \cap ledger.owed = {}
  BY AcpParts DEF WaitIsWhole
<1>2. desks \in [Desks -> AcpDesk] /\ NoDesk \in AcpDesk /\ NoDesk.pc = "idle"
  BY AcpParts, NoDeskType
<1>3. desks' = [desks EXCEPT ![waiter] = NoDesk] \/ desks' = desks
  BY DEF Completed
<1>4. desks' \in [Desks -> AcpDesk] /\ \A d \in Desks : d # waiter => desks'[d] = desks[d]
  BY <1>2, <1>3
<1>5. ASSUME NEW d \in Desks, d # waiter PROVE desks'[d] = desks[d] /\ desks[d].pc # "wait"
  BY <1>1, <1>4, <1>5
<1>6. ASSUME NEW d \in Desks, d = waiter
      PROVE  \/ desks'[d] = desks[d] /\ desks[d].pc # "wait"
             \/ desks'[d] = NoDesk /\ desks[d].pc = "wait" /\ desks[d].replaces \cap ledger.owed = {}
  <2>1. waiter # Vacant
    BY <1>6, VacantAssumption
  <2>2. CASE desks[d].pc = "wait"
    <3>1. desks' = [desks EXCEPT ![d] = NoDesk]
      BY <1>6, <2>1, <2>2 DEF Completed
    <3> QED
      BY <1>1, <1>2, <2>2, <3>1
  <2>3. CASE desks[d].pc # "wait"
    <3>1. desks' = desks
      BY <1>6, <2>3 DEF Completed
    <3> QED
      BY <2>3, <3>1
  <2> QED
    BY <2>2, <2>3
<1>7. ASSUME NEW d \in Desks
      PROVE  /\ desks'[d].pc # "wait"
             /\ \/ desks'[d] = desks[d]
                \/ desks'[d] = NoDesk /\ desks[d].pc = "wait" /\ desks[d].replaces \cap ledger.owed = {}
  <2>1. CASE d # waiter
    BY <1>5, <2>1
  <2>2. CASE d = waiter
    <3>1. CASE desks'[d] = desks[d] /\ desks[d].pc # "wait"
      BY <3>1
    <3>2. CASE desks'[d] = NoDesk /\ desks[d].pc = "wait" /\ desks[d].replaces \cap ledger.owed = {}
      BY <1>2, <3>2
    <3> QED
      BY <1>6, <2>2, <3>1, <3>2
  <2> QED
    BY <2>1, <2>2
<1>8. \A d \in Desks : desks'[d].pc # "wait"
  BY <1>7
<1>9. \A d \in Desks : \/ desks'[d] = desks[d]
                       \/ desks'[d] = NoDesk /\ desks[d].pc = "wait" /\ desks[d].replaces \cap ledger.owed = {}
  BY <1>7
<1>10. desks' \in [Desks -> AcpDesk]
  BY <1>4
<1> QED
  BY <1>8, <1>9, <1>10, Zenon

LEMMA CancelNoticeHolds == ASSUME AcpInv, CancelNotice PROVE AcpInv'
<1> DEFINE c == ledger.cancels + 1
           owed == ledger.owed \cup {c}
           held == conn.held \cup {c}
<1>1. Completed /\ UNCHANGED <<views, job, screen>>
      /\ ledger' = [ledger EXCEPT !.cancels = c, !.owed = owed] /\ conn' = [conn EXCEPT !.held = held]
  BY DEF CancelNotice, Schedule
<1>2. c \in Nat /\ c \notin 1 .. ledger.cancels /\ c \in 1 .. c /\ 1 .. ledger.cancels \subseteq 1 .. c
  BY AcpParts DEF AcpLedger
<1>3. owed \in SUBSET Nat /\ held \in SUBSET Nat
  BY <1>2, AcpParts DEF AcpLedger, AcpConn
<1> HIDE DEF c, owed, held
<1>4. ledger' \in AcpLedger /\ ledger'.views = ledger.views /\ ledger'.cancels = c
      /\ ledger'.owed = owed /\ ledger'.lapsed = ledger.lapsed /\ ledger'.asked = ledger.asked
  BY <1>1, <1>2, <1>3, AcpParts DEF AcpLedger
<1>5. conn' \in AcpConn /\ conn'.entry = conn.entry /\ conn'.held = held
  BY <1>1, <1>3, AcpParts DEF AcpConn
<1>6. /\ desks' \in [Desks -> AcpDesk] /\ \A d \in Desks : desks'[d].pc # "wait"
      /\ \A d \in Desks : \/ desks'[d] = desks[d]
                          \/ desks'[d] = NoDesk /\ desks[d].pc = "wait" /\ desks[d].replaces \cap ledger.owed = {}
  BY <1>1, CompletedIs
<1>7. \A d \in Desks : DeskIsWhole(d) /\ desks[d].replaces \subseteq 1 .. ledger.cancels
  BY AcpParts DEF AcpInv, CancelsAreNumbered
<1>8. DesksHold'
  <2>1. ASSUME NEW d \in Desks PROVE DeskIsWhole(d)' /\ WaitIsWhole(d)'
    BY <1>4, <1>6, <1>7, NoDeskType DEF DeskIsWhole, WaitIsWhole
  <2> QED
    BY <2>1 DEF DesksHold
<1>9. CancelsAreNumbered'
  BY <1>2, <1>4, <1>5, <1>6, <1>7, NoDeskType DEF AcpInv, CancelsAreNumbered, held
<1>10. CancelIsKept'
  BY <1>4, <1>5, <1>6, KeptIs, KeptIsNext DEF AcpInv, owed, held
<1>11. EntryKeeps /\ QuestionsKeep /\ WaitersSame /\ JobKeeps /\ JobIsWhole' /\ ViewsKeep
  BY <1>1, <1>4, <1>5, <1>6, SameKeeps DEF EntryKeeps, QuestionsKeep, WaitersSame
<1>12. views' \in [Views -> AcpView] /\ job' \in AcpJob /\ screen' \subseteq AcpQuestion
  BY <1>1, AcpParts
<1>13. ResolvedIsPast'
  BY <1>1, <1>4, SameKeeps, ResolvedStays DEF AskedKeeps
<1> QED
  BY <1>4, <1>5, <1>6, <1>8, <1>9, <1>10, <1>11, <1>12, <1>13, KeepsAre, EntryStays, WaitersStay, QuizStays
  DEF AcpInv, AcpTypes, JobKeeps

LEMMA GraceOverHolds == ASSUME AcpInv, GraceOver PROVE AcpInv'
<1> DEFINE owed == ledger.owed \ conn.held
<1>1. HostCancel /\ UNCHANGED <<desks, waiter, screen>> /\ conn' = [conn EXCEPT !.held = {}]
      /\ ledger' = [ledger EXCEPT !.owed = owed] /\ owed \in SUBSET Nat
  BY AcpParts DEF GraceOver, Expired, AcpLedger
<1> HIDE DEF owed
<1>2. ledger' \in AcpLedger /\ ledger'.views = ledger.views /\ ledger'.cancels = ledger.cancels
      /\ ledger'.owed = owed /\ ledger'.lapsed = ledger.lapsed /\ ledger'.asked = ledger.asked
  BY <1>1, AcpParts DEF AcpLedger
<1>3. conn' \in AcpConn /\ conn'.entry = conn.entry /\ conn'.held = {}
  BY <1>1, AcpParts DEF AcpConn
<1>4. views' \in [Views -> AcpView] /\ job' \in AcpJob /\ JobIsWhole' /\ JobKeeps /\ ViewsKeep /\ FeedsKeep
  BY <1>1, <1>2, HostCancelIs
<1>5. EntryKeeps /\ CancelsKeep
  BY <1>2, <1>3 DEF EntryKeeps, CancelsKeep, owed
<1> QED
  BY <1>1, <1>2, <1>3, <1>4, <1>5, AcpParts, SameKeeps, StepHolds DEF AcpTypes

(* A prompt takes the cancel over that is held back; a local command drops it. *)
LEMMA PromptRequestHolds == ASSUME AcpInv, NEW d \in Desks, PromptRequest(d) PROVE AcpInv'
<1>1. PICK what \in {"prompt", "status", "stop", "compact"} :
       /\ Begun(d, what)
       /\ desks' = [desks EXCEPT ![d] =
            [NoDesk EXCEPT !.pc = "prepare", !.what = what,
             !.replaces = IF what = "prompt" THEN conn.held ELSE {}]]
       /\ ledger' = [ledger EXCEPT !.requests = @ + 1,
            !.owed = IF what = "prompt" THEN @ ELSE @ \ conn.held]
  BY DEF PromptRequest
<1> DEFINE taken == IF what = "prompt" THEN conn.held ELSE {}
           x == [NoDesk EXCEPT !.pc = "prepare", !.what = what, !.replaces = taken]
           owed == IF what = "prompt" THEN ledger.owed ELSE ledger.owed \ conn.held
           n == ledger.requests + 1
<1>2. UNCHANGED <<views, waiter, job, screen>> /\ conn' = [conn EXCEPT !.held = {}] /\ desks[d].pc = "idle"
  BY <1>1 DEF PromptRequest, Overtaken, Begun, On
<1>3. n \in Nat /\ taken \in SUBSET Nat /\ owed \in SUBSET Nat /\ owed \subseteq ledger.owed
      /\ taken \subseteq 1 .. ledger.cancels
  BY AcpParts DEF AcpLedger, AcpConn, AcpInv, CancelsAreNumbered
<1>4. desks' = [desks EXCEPT ![d] = x] /\ ledger' = [ledger EXCEPT !.requests = n, !.owed = owed]
  BY <1>1
<1> HIDE DEF n, taken, owed
<1>5. x \in AcpDesk /\ x.pc = "prepare" /\ x.what = what /\ x.replaces = taken
  BY <1>3, NoDeskType DEF AcpDesk
<1> HIDE DEF x
<1>6. desks' \in [Desks -> AcpDesk] /\ desks'[d] = x /\ \A e \in Desks : e # d => desks'[e] = desks[e]
  BY <1>4, <1>5, AcpParts
<1>7. ledger' \in AcpLedger /\ ledger'.views = ledger.views /\ ledger'.cancels = ledger.cancels
      /\ ledger'.owed = owed /\ ledger'.lapsed = ledger.lapsed /\ ledger'.asked = ledger.asked
  BY <1>3, <1>4, AcpParts DEF AcpLedger
<1>8. conn' \in AcpConn /\ conn'.entry = conn.entry /\ conn'.held = {}
  BY <1>2, AcpParts DEF AcpConn
<1>9. \A e \in Desks : DeskIsWhole(e) /\ WaitIsWhole(e)
  BY AcpParts
<1>10. DesksHold'
  <2>1. what # "prompt" => taken = {}
    BY DEF taken
  <2>2. ASSUME NEW e \in Desks PROVE DeskIsWhole(e)' /\ WaitIsWhole(e)'
    BY <1>2, <1>3, <1>5, <1>6, <1>7, <1>9, <2>1 DEF DeskIsWhole, WaitIsWhole
  <2> QED
    BY <2>2 DEF DesksHold
<1>11. CancelsAreNumbered'
  BY <1>3, <1>5, <1>6, <1>7, <1>8 DEF AcpInv, CancelsAreNumbered
<1>12. CancelIsKept'
  <2>1. desks[d].replaces = {}
    BY <1>2, <1>9 DEF DeskIsWhole
  <2>2. \A c \in ledger.owed : c \in conn.held \/ \E e \in Desks : c \in desks[e].replaces
    BY KeptIs DEF AcpInv
  <2>3. ASSUME NEW c \in owed PROVE \E e \in Desks : c \in desks'[e].replaces
    <3>1. CASE c \in conn.held
      BY <1>5, <1>6, <2>3, <3>1 DEF owed, taken
    <3>2. CASE \E e \in Desks : c \in desks[e].replaces
      BY <1>6, <2>1, <3>2
    <3> QED
      BY <1>3, <2>2, <3>1, <3>2
  <2> QED
    BY <1>7, <2>3, KeptIsNext
<1>13. EntryKeeps /\ QuestionsKeep /\ WaitersSame /\ JobKeeps /\ JobIsWhole' /\ ViewsKeep
  BY <1>2, <1>5, <1>6, <1>7, <1>8, SameKeeps DEF EntryKeeps, QuestionsKeep, WaitersSame
<1>14. views' \in [Views -> AcpView] /\ job' \in AcpJob /\ screen' \subseteq AcpQuestion
  BY <1>2, AcpParts
<1>15. ResolvedIsPast'
  BY <1>2, <1>7, SameKeeps, ResolvedStays DEF AskedKeeps
<1> QED
  BY <1>6, <1>7, <1>8, <1>10, <1>11, <1>12, <1>13, <1>14, <1>15, KeepsAre, EntryStays, WaitersStay, QuizStays
  DEF AcpInv, AcpTypes, JobKeeps

(* An accepted prompt waits for the turn it joined or started.                *)
LEMMA HostAcceptsHolds == ASSUME AcpInv, NEW d \in Desks, HostAccepts(d) PROVE AcpInv'
<1>1. /\ UNCHANGED <<conn, views, waiter, screen>> /\ desks[d].pc = "submit"
      /\ desks' = IF V1 /\ waiter = d THEN [desks EXCEPT ![d].pc = "wait", ![d].turn = job'.turn]
                  ELSE [desks EXCEPT ![d] = NoDesk]
  BY DEF HostAccepts, On
<1>2. /\ ledger' \in AcpLedger /\ ledger'.views = ledger.views /\ ledger'.cancels = ledger.cancels
      /\ ledger'.owed = ledger.owed \ desks[d].replaces /\ ledger'.lapsed = ledger.lapsed /\ ledger'.asked = ledger.asked
  <2>1. CASE Busy
    BY <2>1, AcpParts, SettledIs DEF HostAccepts
  <2>2. CASE ~Busy
    <3> DEFINE n == ledger.jobs + 1
               l == [ledger EXCEPT !.jobs = n]
    <3>1. n \in Nat /\ ledger' = Settled(d, l)
      BY <2>2, AcpParts DEF HostAccepts, AcpLedger
    <3> HIDE DEF n
    <3>2. l \in AcpLedger /\ l.views = ledger.views /\ l.cancels = ledger.cancels
          /\ l.owed = ledger.owed /\ l.lapsed = ledger.lapsed /\ l.asked = ledger.asked
      BY <3>1, AcpParts, JobsSet
    <3> HIDE DEF l
    <3> QED
      BY <3>1, <3>2, SettledIs
  <2> QED
    BY <2>1, <2>2
<1>3. job' \in AcpJob /\ JobIsWhole' /\ JobKeeps /\ job'.turn > 0 /\ job'.turn \in Nat
  <2>1. CASE Busy
    BY <1>2, <2>1, AcpParts DEF HostAccepts, Busy, JobIsWhole, AcpJob, JobKeeps, TurnKeeps
  <2>2. CASE ~Busy
    <3>1. job' \in AcpJob /\ JobIsWhole' /\ JobKeeps /\ job'.turn > 0
      BY <1>2, <2>2, JobStartsIs DEF HostAccepts
    <3> QED
      BY <3>1 DEF AcpJob
  <2> QED
    BY <2>1, <2>2
<1> DEFINE t == job'.turn
           x == IF V1 /\ waiter = d THEN [desks[d] EXCEPT !.pc = "wait", !.turn = t] ELSE NoDesk
<1>4. desks[d] \in AcpDesk /\ DeskIsWhole(d) /\ desks[d].replaces \subseteq 1 .. ledger.cancels
  BY AcpParts DEF AcpInv, CancelsAreNumbered
<1>5. desks' = [desks EXCEPT ![d] = x]
  BY <1>1, <1>4, AcpParts DEF AcpDesk
<1> HIDE DEF t
<1>6. x \in AcpDesk
      /\ \/ x = NoDesk
         \/ waiter = d /\ x.pc = "wait" /\ x.turn = t /\ x.what = desks[d].what /\ x.ep = desks[d].ep
            /\ x.replaces = desks[d].replaces
  <2>1. t \in Nat
    BY <1>3 DEF t
  <2> QED
    BY <1>4, <2>1, NoDeskType DEF AcpDesk
<1> HIDE DEF x
<1>7. desks' \in [Desks -> AcpDesk] /\ desks'[d] = x /\ \A e \in Desks : e # d => desks'[e] = desks[e]
  BY <1>5, <1>6, AcpParts
<1>8. DesksFit
  <2>1. DeskIsWhole(d)'
    BY <1>1, <1>2, <1>4, <1>6, <1>7, NoDeskType DEF DeskIsWhole
  <2>2. WaitIsWhole(d)'
    BY <1>1, <1>2, <1>3, <1>6, <1>7, NoDeskType DEF WaitIsWhole, t
  <2>3. x.replaces \subseteq 1 .. ledger.cancels /\ desks[d].replaces \cap ledger'.owed = {}
    BY <1>2, <1>4, <1>6, NoDeskType
  <2> QED
    BY <1>7, <2>1, <2>2, <2>3 DEF DesksFit
<1>9. WaitersKnown
  BY <1>1, <1>6, <1>7, AcpParts, NoDeskType DEF WaitersKnown, WaitIsWhole
<1>10. CancelsKeep /\ EntryKeeps /\ QuestionsKeep /\ ViewsKeep
  BY <1>1, <1>2, SameKeeps DEF CancelsKeep
<1>11. WaitersFinish'
  <2> SUFFICES ASSUME NEW e \in Desks, desks'[e].pc = "wait", Hearing(views', desks'[e].ep)
               PROVE  \/ job'.turn = desks'[e].turn
                      \/ [kind |-> "end", turn |-> desks'[e].turn] \in FeedOf(views', desks'[e].ep)
    BY DEF WaitersFinish
  <2>1. CASE e = d
    BY <1>6, <1>7, <2>1, NoDeskType DEF t
  <2>2. CASE e # d
    BY <1>3, <1>7, <1>10, <2>2, KeepsAre, WaiterStays
  <2> QED
    BY <2>1, <2>2
<1>12. conn' \in AcpConn /\ views' \in [Views -> AcpView] /\ screen' \subseteq AcpQuestion
  BY <1>1, AcpParts
<1>13. ResolvedIsPast'
  BY <1>1, <1>2, <1>3, SameKeeps, ResolvedStays DEF JobKeeps, AskedKeeps
<1> QED
  BY <1>2, <1>3, <1>7, <1>8, <1>9, <1>10, <1>11, <1>12, <1>13, DesksStay, EntryStays, QuizStays DEF AcpInv, AcpTypes

-----------------------------------------------------------------------------
(* Observers.                                                                 *)

LEMMA SubscribeHolds == ASSUME AcpInv, NEW d \in Desks, Subscribe(d) PROVE AcpInv'
<1> DEFINE v == ledger.views + 1
           empty == <<>>
           w == [st |-> "ready", open |-> TRUE, feed |-> empty, quiz |-> job.open]
           x == [desks[d] EXCEPT !.pc = "options", !.ep = v]
<1>1. UNCHANGED <<waiter, job, screen>> /\ desks[d].pc = "prepare" /\ ledger.views < MaxViews
      /\ views' = [Dropping EXCEPT ![v] = w] /\ conn' = [conn EXCEPT !.entry = v]
      /\ ledger' = [ledger EXCEPT !.views = v]
  BY DEF Subscribe, On
<1>2. desks' = [desks EXCEPT ![d] = x]
  BY AcpParts DEF Subscribe, AcpDesk
<1>3. v \in Nat /\ v \in Views /\ v > 0 /\ v = ledger.views + 1 /\ ledger.views \in Nat /\ v <= MaxViews
  BY <1>1, AcpParts, BoundsAssumption DEF AcpLedger, Views
<1>4. job.open \in Nat
  BY AcpParts DEF AcpJob
<1>5. empty \in Seq(AcpEvent) /\ Range(empty) = {}
  BY DEF Range
<1> HIDE DEF v, empty
<1>6. w \in AcpView /\ w.st = "ready" /\ w.quiz = job.open /\ w.feed = empty
  BY <1>4, <1>5 DEF AcpView
<1>7. x \in AcpDesk /\ x.pc = "options" /\ x.ep = v /\ x.what = desks[d].what /\ x.replaces = desks[d].replaces
  BY <1>3, AcpParts DEF AcpDesk
<1> HIDE DEF w, x
<1>8. views' \in [Views -> AcpView] /\ views'[v] = w
      /\ \A u \in Views : u # v => views'[u] = Dropping[u] /\ ~Attends(views', u)
  BY <1>1, <1>3, <1>6, DroppingIs DEF Attends
<1>9. conn' \in AcpConn /\ conn'.entry = v /\ conn'.held = conn.held
  BY <1>1, <1>3, AcpParts DEF AcpConn
<1>10. ledger' \in AcpLedger /\ ledger'.views = v /\ ledger'.cancels = ledger.cancels
      /\ ledger'.owed = ledger.owed /\ ledger'.lapsed = ledger.lapsed /\ ledger'.asked = ledger.asked
  BY <1>1, <1>3, AcpParts DEF AcpLedger
<1>11. desks' \in [Desks -> AcpDesk] /\ desks'[d] = x /\ \A e \in Desks : e # d => desks'[e] = desks[e]
  BY <1>2, <1>7, AcpParts
<1>12. OnlyEntryAttends'
  <2>1. \A u \in Views : Attends(views', u) => u = v
    BY <1>8
  <2>2. conn'.entry <= ledger'.views /\ ledger'.views <= MaxViews
    BY <1>3, <1>9, <1>10
  <2> QED BY <1>9, <2>1, <2>2 DEF OnlyEntryAttends
<1>13. 1 .. ledger.views \subseteq 1 .. v /\ v \in 1 .. v /\ v \notin 1 .. ledger.views /\ 1 .. ledger.views \subseteq Views
  BY <1>3, BoundsAssumption DEF Views
<1>14. DesksHold'
  <2>1. ASSUME NEW e \in Desks PROVE DeskIsWhole(e)' /\ WaitIsWhole(e)'
    <3>1. DeskIsWhole(e) /\ WaitIsWhole(e)
      BY AcpParts
    <3>2. CASE e = d
      BY <1>1, <1>7, <1>10, <1>11, <1>13, <3>1, <3>2 DEF DeskIsWhole, WaitIsWhole
    <3>3. CASE e # d
      BY <1>1, <1>10, <1>11, <1>13, <3>1, <3>3 DEF DeskIsWhole, WaitIsWhole
    <3> QED
      BY <3>2, <3>3
  <2> QED
    BY <2>1 DEF DesksHold
<1>15. \A e \in Desks : desks'[e].replaces = desks[e].replaces
  BY <1>7, <1>11
<1>16. CancelsAreNumbered' /\ CancelIsKept'
  BY <1>9, <1>10, <1>15, KeptIs, KeptIsNext DEF AcpInv, CancelsAreNumbered
<1>17. WaitersFinish'
  <2>1. WaitersSame
    BY <1>7, <1>11 DEF WaitersSame
  <2>2. EndsKeep
    BY <1>8, <1>13 DEF EndsKeep, Hearing
  <2>3. TurnKeeps
    BY <1>1 DEF TurnKeeps
  <2> QED
    BY <2>1, <2>2, <2>3, WaitersStay
<1>18. QuizIsKnown'
  BY <1>1, <1>6, <1>8, <1>9 DEF QuizIsKnown, KnownTo
<1>19. JobIsWhole' /\ job' \in AcpJob /\ screen' \subseteq AcpQuestion
  BY <1>1, <1>10, AcpParts DEF JobIsWhole
<1>20. ResolvedIsPast'
  <2>1. FeedsKeep
    BY <1>5, <1>6, <1>8, DroppingIs DEF FeedsKeep, FeedOf
  <2> QED
    BY <1>1, <1>10, <2>1, ResolvedStays DEF AskedKeeps
<1> QED
  BY <1>8, <1>9, <1>10, <1>11, <1>12, <1>14, <1>16, <1>17, <1>18, <1>19, <1>20 DEF AcpInv, AcpTypes

(* The observer begins to forward, with the questionnaire that was open.      *)
LEMMA ActivateHolds == ASSUME AcpInv, NEW d \in Desks, Activate(d) PROVE AcpInv'
<1>0. desks[d].pc = "options" /\ desks[d].ep \in 1 .. ledger.views /\ desks[d].ep \in Views
  BY AcpParts, BoundsAssumption DEF Activate, On, DeskIsWhole, OnlyEntryAttends, AcpLedger, Views
<1> PICK v \in Views : v = desks[d].ep
  BY <1>0
<1> DEFINE w == [views[v] EXCEPT !.st = IF @ = "ready" THEN "on" ELSE @, !.quiz = 0]
           x == [desks[d] EXCEPT !.pc = "active"]
           q == Quiz(views[v].quiz, v)
<1>1. UNCHANGED <<conn, waiter, job, ledger>>
      /\ screen' = IF views[v].quiz = 0 THEN screen ELSE screen \cup {q}
  BY DEF Activate
<1>2. desks[d] \in AcpDesk /\ v \in 1 .. ledger.views /\ v \in Nat
      /\ (desks[d].what # "prompt" => desks[d].replaces = {})
  BY <1>0, AcpParts DEF DeskIsWhole, Views
<1>3. views[v] \in AcpView
  BY AcpParts
<1>4. views' = [views EXCEPT ![v] = w] /\ desks' = [desks EXCEPT ![d] = x]
  BY <1>2, <1>3, AcpParts DEF Activate, Turns, AcpView, AcpDesk
<1>5. w \in AcpView /\ w.feed = views[v].feed /\ w.open = views[v].open
      /\ (w.st \in {"ready", "on"} => views[v].st \in {"ready", "on"}) /\ w.st # "ready"
  BY <1>3 DEF AcpView
<1>6. x \in AcpDesk /\ x.pc = "active" /\ x.what = desks[d].what /\ x.replaces = desks[d].replaces /\ x.ep = v
  BY <1>2 DEF AcpDesk
<1>7. q \in AcpQuestion
  BY <1>2, <1>3 DEF AcpView, AcpQuestion, Quiz
<1> HIDE DEF w, x
<1>8. views' \in [Views -> AcpView] /\ views'[v] = w /\ \A u \in Views : u # v => views'[u] = views[u]
  BY <1>4, <1>5, AcpParts
<1>9. \A u \in Views : /\ FeedOf(views', u) = FeedOf(views, u) /\ (Attends(views', u) => Attends(views, u))
                       /\ (Hearing(views', u) => Hearing(views, u))
  BY <1>5, <1>8 DEF FeedOf, Attends, Hearing
<1>10. desks' \in [Desks -> AcpDesk] /\ DesksKeep /\ WaitersKnown
  BY <1>1, <1>2, <1>4, <1>6, MoveKeeps
<1>11. OnlyEntryAttends'
  BY <1>1, <1>9, AcpParts DEF OnlyEntryAttends
<1>12. EndsKeep /\ FeedsKeep
  <2>1. 1 .. ledger.views \subseteq Views
    BY AcpParts, BoundsAssumption DEF OnlyEntryAttends, AcpLedger, Views
  <2> QED
    BY <1>9, <2>1 DEF EndsKeep, FeedsKeep
<1>13. CancelsKeep /\ JobIsWhole' /\ TurnKeeps /\ ResolvedIsPast'
  BY <1>1, <1>12, SameKeeps, ResolvedStays DEF CancelsKeep, JobKeeps, AskedKeeps
<1>14. QuizIsKnown'
  <2> SUFFICES ASSUME NEW u \in Views, conn.entry = u, job.open # 0, Hearing(views', u) PROVE KnownTo(u)'
    BY <1>1, KnownNext
  <2>1. KnownTo(u)
    BY <1>9, KnownNow
  <2>2. CASE views[u].st = "ready" /\ views[u].quiz = job.open
    BY <1>1, <1>8, <2>2 DEF KnownTo
  <2>3. CASE [kind |-> "quiz", turn |-> job.open] \in FeedOf(views, u)
    BY <1>1, <1>9, <2>3 DEF KnownTo, FeedOf
  <2>4. CASE Quiz(job.open, u) \in screen \cup ledger.lapsed
    BY <1>1, <2>4 DEF KnownTo, Quiz
  <2> QED
    BY <2>1, <2>2, <2>3, <2>4 DEF KnownTo
<1>15. job' \in AcpJob /\ conn' \in AcpConn /\ ledger' \in AcpLedger /\ screen' \subseteq AcpQuestion
       /\ ledger'.views = ledger.views
  BY <1>1, <1>7, AcpParts
<1> QED
  BY <1>8, <1>10, <1>11, <1>12, <1>13, <1>14, <1>15, PartsHold DEF AcpTypes

(* The daemon asks for a permission.                                          *)
LEMMA JobAsksHolds == ASSUME AcpInv, JobAsks PROVE AcpInv'
<1> DEFINE e == [kind |-> "permission", turn |-> job.turn]
           t == job.turn
<1>1. UNCHANGED <<conn, desks, waiter, screen>> /\ job' = [job EXCEPT !.ask = "permission"]
      /\ ledger' = [ledger EXCEPT !.asked = t] /\ views' = Heard(views, e) /\ ledger.asked < t
  BY DEF JobAsks, Event
<1>2. e \in AcpEvent /\ e.kind = "permission" /\ t \in Nat
  BY AcpParts DEF AcpJob, AcpEvent
<1>3. job' \in AcpJob /\ job'.turn = job.turn /\ job'.open = job.open /\ job'.kind = job.kind
  BY <1>1, AcpParts DEF AcpJob
<1> HIDE DEF e, t
<1>4. ledger' \in AcpLedger /\ ledger'.views = ledger.views /\ ledger'.cancels = ledger.cancels
      /\ ledger'.owed = ledger.owed /\ ledger'.lapsed = ledger.lapsed /\ ledger'.asked = t
  BY <1>1, <1>2, AcpParts DEF AcpLedger
<1>5. views' \in [Views -> AcpView]
      /\ \A v \in Views : /\ SameView(views, views', v) /\ FeedOf(views, v) \subseteq FeedOf(views', v)
                         /\ FeedOf(views', v) \subseteq FeedOf(views, v) \cup {e}
  BY <1>1, <1>2, AcpParts, HeardIs
<1>6. ViewsKeep /\ FeedsKeep
  BY <1>2, <1>5, StoppedKeeps
<1>7. JobIsWhole'
  BY <1>1, <1>2, <1>3, <1>4, AcpParts DEF JobIsWhole, AcpLedger, AcpJob
<1>8. TurnKeeps /\ JobKeeps /\ CancelsKeep /\ EntryKeeps /\ DesksKeep /\ WaitersKnown /\ QuestionsKeep
  BY <1>1, <1>3, <1>4, SameKeeps DEF TurnKeeps, JobKeeps, CancelsKeep
<1>9. conn' \in AcpConn /\ desks' \in [Desks -> AcpDesk] /\ screen' \subseteq AcpQuestion
  BY <1>1, AcpParts
<1>10. ResolvedIsPast'
  <2>1. ledger'.asked \in Nat /\ ledger.asked \in Nat /\ ledger.asked <= ledger'.asked
    BY <1>1, <1>2, <1>4, AcpParts DEF AcpLedger
  <2> QED
    BY <1>3, <1>6, <2>1, ResolvedPasses
<1> QED
  BY <1>3, <1>4, <1>5, <1>6, <1>7, <1>8, <1>9, <1>10, KeepsAre, EntryStays, QuizStays, PartsHold DEF AcpTypes

(* A questionnaire is raised: whoever listens has it in its feed, or it is    *)
(* known that nobody was told.                                                *)
LEMMA JobRaisesHolds == ASSUME AcpInv, JobRaises PROVE AcpInv'
<1> DEFINE t == job.turn
           e == [kind |-> "quiz", turn |-> t]
           untold == {Quiz(t, v) : v \in {w \in Views : Listens(w)}}
<1>1. UNCHANGED <<conn, desks, waiter, screen>> /\ job' = [job EXCEPT !.open = t] /\ ledger.asked < t
  BY DEF JobRaises
<1>2. e \in AcpEvent /\ e.kind = "quiz" /\ t \in Nat
  BY AcpParts DEF AcpJob, AcpEvent
<1>3. untold \subseteq AcpQuestion
  BY <1>2, BoundsAssumption DEF Quiz, AcpQuestion, Views
<1> HIDE DEF t
<1>4. job' \in AcpJob /\ job'.turn = job.turn /\ job'.open = t /\ job'.kind = job.kind
  BY <1>1, <1>2, AcpParts DEF AcpJob
<1>5. /\ ledger' \in AcpLedger /\ ledger'.views = ledger.views /\ ledger'.cancels = ledger.cancels
      /\ ledger'.owed = ledger.owed /\ ledger'.asked = t
      /\ ledger.lapsed \subseteq ledger'.lapsed /\ (views' = Heard(views, e) \/ (views' = views /\ untold \subseteq ledger'.lapsed))
  <2>1. CASE views' = Heard(views, Event("quiz")) /\ ledger' = [ledger EXCEPT !.asked = job.turn]
    <3>1. ledger' = [ledger EXCEPT !.asked = t] /\ views' = Heard(views, e)
      BY <2>1 DEF t, Event
    <3> QED
      BY <1>2, <3>1, AcpParts DEF AcpLedger
  <2>2. CASE views' = views
             /\ ledger' = [Slipped EXCEPT !.asked = job.turn,
                  !.lapsed = @ \cup {Quiz(job.turn, v) : v \in {w \in Views : Listens(w)}}]
    <3> DEFINE l == Slipped
               lapsed == l.lapsed \cup untold
    <3>1. l \in AcpLedger /\ l.views = ledger.views /\ l.cancels = ledger.cancels /\ l.owed = ledger.owed
          /\ l.lapsed = ledger.lapsed
      BY AcpParts, SlippedIs
    <3>2. lapsed \in SUBSET AcpQuestion /\ ledger.lapsed \subseteq lapsed /\ untold \subseteq lapsed
      BY <1>3, <3>1 DEF AcpLedger
    <3>3. ledger' = [l EXCEPT !.asked = t, !.lapsed = lapsed]
      BY <2>2 DEF t
    <3> HIDE DEF l, lapsed, untold
    <3>4. ledger' \in AcpLedger /\ ledger'.views = l.views /\ ledger'.cancels = l.cancels /\ ledger'.owed = l.owed
          /\ ledger'.asked = t /\ ledger'.lapsed = lapsed
      BY <1>2, <3>1, <3>2, <3>3 DEF AcpLedger
    <3> QED
      BY <2>2, <3>1, <3>2, <3>4
  <2> QED
    BY <2>1, <2>2 DEF JobRaises
<1> HIDE DEF e, untold
<1>6. views' \in [Views -> AcpView]
      /\ \A v \in Views : /\ SameView(views, views', v) /\ FeedOf(views, v) \subseteq FeedOf(views', v)
                         /\ FeedOf(views', v) \subseteq FeedOf(views, v) \cup {e}
  BY <1>2, <1>5, AcpParts, HeardIs DEF SameView
<1>6a. ASSUME NEW v \in Views, Hearing(views, v) PROVE e \in FeedOf(views', v) \/ untold \subseteq ledger'.lapsed
  BY <1>2, <1>5, <1>6a, AcpParts, HeardIs
<1>7. ViewsKeep /\ FeedsKeep
  BY <1>2, <1>6, StoppedKeeps
<1>8. JobIsWhole'
  BY <1>1, <1>2, <1>4, <1>5, AcpParts DEF JobIsWhole
<1>9. TurnKeeps /\ CancelsKeep /\ EntryKeeps /\ DesksKeep /\ WaitersKnown
  BY <1>1, <1>4, <1>5, SameKeeps DEF TurnKeeps, CancelsKeep
<1>10. QuizIsKnown'
  <2> SUFFICES ASSUME NEW u \in Views, conn.entry = u, Hearing(views', u) PROVE KnownTo(u)'
    BY <1>1, KnownNext
  <2>1. Hearing(views, u)
    BY <1>7 DEF ViewsKeep
  <2>2. CASE e \in FeedOf(views', u)
    BY <1>4, <2>2 DEF KnownTo, FeedOf, e
  <2>3. CASE untold \subseteq ledger'.lapsed
    <3>1. Quiz(t, u) \in untold
      BY <2>1 DEF Hearing, Attends, Listens, untold
    <3> QED
      BY <1>4, <2>3, <3>1 DEF KnownTo, Quiz
  <2>4. e \in FeedOf(views', u) \/ untold \subseteq ledger'.lapsed
    BY <1>6a, <2>1
  <2> QED
    BY <2>2, <2>3, <2>4
<1>11. conn' \in AcpConn /\ desks' \in [Desks -> AcpDesk] /\ screen' \subseteq AcpQuestion
  BY <1>1, AcpParts
<1>12. ResolvedIsPast'
  <2>1. ledger'.asked \in Nat /\ ledger.asked \in Nat /\ ledger.asked <= ledger'.asked /\ ledger.asked < job'.open
    BY <1>1, <1>2, <1>4, <1>5, AcpParts DEF AcpLedger
  <2> QED
    BY <1>7, <2>1, ResolvedPasses
<1> QED
  BY <1>4, <1>5, <1>6, <1>7, <1>8, <1>9, <1>10, <1>11, <1>12, KeepsAre, EntryStays, PartsHold DEF AcpTypes

-----------------------------------------------------------------------------
(* The forwarding task.                                                       *)

LEMMA HeededIs ==
  ASSUME AcpInv, NEW v \in Views, NEW kind, Hears(v, kind), views' = Heeded(v)
  PROVE  LET e == Head(views[v].feed) IN
         /\ views' \in [Views -> AcpView] /\ e \in AcpEvent /\ e.kind = kind /\ e \in FeedOf(views, v)
         /\ \A u \in Views :
              /\ SameView(views, views', u) /\ FeedOf(views', u) \subseteq FeedOf(views, u)
              /\ FeedOf(views, u) \subseteq FeedOf(views', u) \cup {e}
              /\ u # v => views'[u] = views[u]
<1> DEFINE e == Head(views[v].feed)
           feed == Tail(views[v].feed)
           w == [views[v] EXCEPT !.feed = feed]
<1>1. views[v] \in AcpView /\ views[v].feed # <<>> /\ e.kind = kind
  BY AcpParts DEF Hears
<1>2. e \in AcpEvent /\ feed \in Seq(AcpEvent) /\ Range(views[v].feed) = Range(feed) \cup {e}
  BY <1>1, FeedShrinks DEF AcpView
<1>3. views' = [views EXCEPT ![v] = w]
  BY AcpParts DEF Heeded, AcpView
<1> HIDE DEF e, feed
<1>4. w \in AcpView /\ w.st = views[v].st /\ w.open = views[v].open /\ w.quiz = views[v].quiz /\ w.feed = feed
  BY <1>1, <1>2 DEF AcpView
<1> HIDE DEF w
<1>5. views' \in [Views -> AcpView] /\ views'[v] = w /\ \A u \in Views : u # v => views'[u] = views[u]
  BY <1>3, <1>4, AcpParts
<1>6. \A u \in Views :
        /\ SameView(views, views', u) /\ FeedOf(views', u) \subseteq FeedOf(views, u)
        /\ FeedOf(views, u) \subseteq FeedOf(views', u) \cup {e}
  BY <1>2, <1>4, <1>5 DEF FeedOf, SameView
<1> QED
  BY <1>1, <1>2, <1>5, <1>6 DEF e, FeedOf

(* What a task does with an event leaves who attends and what is resolved.     *)
LEMMA HeedKeeps ==
  ASSUME AcpInv, NEW v \in Views, NEW kind, Hears(v, kind), views' = Heeded(v), conn' = conn, ledger' = ledger,
         job' = job
  PROVE  /\ OnlyEntryAttends' /\ ResolvedIsPast' /\ JobIsWhole' /\ TurnKeeps /\ CancelsKeep
         /\ (kind # "end" => EndsKeep)
<1> DEFINE e == Head(views[v].feed)
<1>1. /\ e.kind = kind
      /\ \A u \in Views :
           /\ SameView(views, views', u) /\ FeedOf(views', u) \subseteq FeedOf(views, u)
           /\ FeedOf(views, u) \subseteq FeedOf(views', u) \cup {e}
  BY HeededIs
<1> HIDE DEF e
<1>2. FeedsKeep
  BY <1>1 DEF FeedsKeep
<1>3. ResolvedIsPast' /\ JobIsWhole' /\ TurnKeeps /\ CancelsKeep
  BY <1>2, SameKeeps, ResolvedStays DEF AskedKeeps, JobKeeps, CancelsKeep
<1>4. kind # "end" => EndsKeep
  <2> SUFFICES ASSUME kind # "end" PROVE EndsKeep
    OBVIOUS
  <2>1. \A t \in Nat : [kind |-> "end", turn |-> t] # e
    BY <1>1
  <2>2. 1 .. ledger.views \subseteq Views
    BY AcpParts, BoundsAssumption DEF OnlyEntryAttends, AcpLedger, Views
  <2> QED
    BY <1>1, <2>1, <2>2 DEF EndsKeep, Hearing, Attends, SameView
<1>5. OnlyEntryAttends'
  BY <1>1, AcpParts DEF OnlyEntryAttends, Attends, SameView
<1> QED
  BY <1>3, <1>4, <1>5

(* An event that is no questionnaire leaves what is known of the open one.     *)
LEMMA HeedKnows ==
  ASSUME AcpInv, NEW v \in Views, NEW kind \in {"end", "auto", "permission", "resolved"}, Hears(v, kind),
         views' = Heeded(v), conn' = conn, ledger' = ledger, job' = job,
         job.open # 0 => \A u \in Views : Quiz(job.open, u) \in screen => Quiz(job.open, u) \in screen'
  PROVE  QuizIsKnown'
<1> DEFINE e == Head(views[v].feed)
<1>1. /\ e.kind = kind
      /\ \A u \in Views :
           /\ SameView(views, views', u) /\ FeedOf(views, u) \subseteq FeedOf(views', u) \cup {e}
  BY HeededIs
<1> HIDE DEF e
<1> SUFFICES ASSUME NEW u \in Views, conn.entry = u, job.open # 0, Hearing(views', u) PROVE KnownTo(u)'
  BY KnownNext
<1>2. SameView(views, views', u) /\ FeedOf(views, u) \subseteq FeedOf(views', u) \cup {e}
  BY <1>1
<1>3. KnownTo(u)
  BY <1>2, KnownNow DEF Hearing, Attends, SameView
<1>4. [kind |-> "quiz", turn |-> job.open] # e
  BY <1>1
<1>5. CASE [kind |-> "quiz", turn |-> job.open] \in FeedOf(views, u)
  BY <1>2, <1>4, <1>5 DEF KnownTo, FeedOf
<1>6. CASE Quiz(job.open, u) \in screen \cup ledger.lapsed
  BY <1>6 DEF KnownTo, Quiz
<1>7. CASE views[u].st = "ready" /\ views[u].quiz = job.open
  BY <1>2, <1>7 DEF KnownTo, SameView
<1> QED
  BY <1>3, <1>5, <1>6, <1>7 DEF KnownTo

(* The end of the job completes the prompt that waits.                        *)
LEMMA ForwardEndHolds == ASSUME AcpInv, NEW v \in Views, ForwardEnd(v) PROVE AcpInv'
<1>1. Completed /\ UNCHANGED <<conn, job, screen, ledger>> /\ Hears(v, "end") /\ views' = Heeded(v)
  BY DEF ForwardEnd
<1>2. views' \in [Views -> AcpView]
  BY <1>1, HeededIs
<1>3. /\ desks' \in [Desks -> AcpDesk] /\ \A d \in Desks : desks'[d].pc # "wait"
      /\ \A d \in Desks : \/ desks'[d] = desks[d]
                          \/ desks'[d] = NoDesk /\ desks[d].pc = "wait" /\ desks[d].replaces \cap ledger.owed = {}
  BY <1>1, CompletedIs
<1>4. DesksKeep /\ WaitersKnown
  BY <1>1, <1>3, NoDeskType DEF DesksKeep, WaitersKnown, DeskIsWhole
<1>5. WaitersFinish'
  BY <1>3 DEF WaitersFinish
<1>6. OnlyEntryAttends' /\ ResolvedIsPast' /\ JobIsWhole' /\ CancelsKeep
  BY <1>1, HeedKeeps
<1>7. QuizIsKnown'
  BY <1>1, HeedKnows
<1>8. job' \in AcpJob /\ conn' \in AcpConn /\ ledger' \in AcpLedger /\ screen' \subseteq AcpQuestion
      /\ ledger'.views = ledger.views
  BY <1>1, AcpParts
<1> QED
  BY <1>2, <1>3, <1>4, <1>5, <1>6, <1>7, <1>8, KeepsAre, DesksStay DEF AcpInv, AcpTypes

LEMMA ForwardAutoHolds == ASSUME AcpInv, NEW v \in Views, ForwardAuto(v) PROVE AcpInv'
<1>1. UNCHANGED <<conn, desks, waiter, job, screen, ledger>> /\ Hears(v, "auto") /\ views' = Heeded(v)
  BY DEF ForwardAuto
<1>2. views' \in [Views -> AcpView]
  BY <1>1, HeededIs
<1>3. OnlyEntryAttends' /\ ResolvedIsPast' /\ JobIsWhole' /\ TurnKeeps /\ CancelsKeep /\ EndsKeep
  BY <1>1, HeedKeeps
<1>4. QuizIsKnown'
  BY <1>1, HeedKnows
<1>5. DesksKeep /\ WaitersKnown
  BY <1>1, SameKeeps
<1>6. job' \in AcpJob /\ conn' \in AcpConn /\ ledger' \in AcpLedger /\ desks' \in [Desks -> AcpDesk]
      /\ screen' \subseteq AcpQuestion /\ ledger'.views = ledger.views
  BY <1>1, AcpParts
<1> QED
  BY <1>2, <1>3, <1>4, <1>5, <1>6, PartsHold DEF AcpTypes

(* A permission or a questionnaire goes to the screen.                        *)
LEMMA ForwardAskHolds == ASSUME AcpInv, NEW v \in Views, ForwardAsk(v) PROVE AcpInv'
<1> DEFINE e == Head(views[v].feed)
<1>1. PICK kind \in {"permission", "quiz"} :
        Hears(v, kind) /\ screen' = screen \cup {[kind |-> kind, turn |-> e.turn, view |-> v]}
  BY DEF ForwardAsk
<1>2. UNCHANGED <<conn, desks, waiter, job, ledger>> /\ views' = Heeded(v)
  BY DEF ForwardAsk
<1>3. /\ views' \in [Views -> AcpView] /\ e \in AcpEvent /\ e.kind = kind
      /\ \A u \in Views :
           /\ SameView(views, views', u) /\ FeedOf(views, u) \subseteq FeedOf(views', u) \cup {e}
           /\ u # v => views'[u] = views[u]
  BY <1>1, <1>2, HeededIs
<1> HIDE DEF e
<1>4. OnlyEntryAttends' /\ ResolvedIsPast' /\ JobIsWhole' /\ TurnKeeps /\ CancelsKeep /\ EndsKeep
  <2>1. kind # "end"
    OBVIOUS
  <2> QED
    BY <1>1, <1>2, <2>1, HeedKeeps
<1> DEFINE q == [kind |-> kind, turn |-> e.turn, view |-> v]
<1>5. q \in AcpQuestion /\ screen' = screen \cup {q}
  BY <1>1, <1>3, BoundsAssumption DEF AcpEvent, AcpQuestion, Views
<1>6. QuizIsKnown'
  <2> SUFFICES ASSUME NEW u \in Views, conn.entry = u, job.open # 0, Hearing(views', u) PROVE KnownTo(u)'
    BY <1>2, KnownNext
  <2>1. SameView(views, views', u) /\ FeedOf(views, u) \subseteq FeedOf(views', u) \cup {e}
        /\ (u # v => FeedOf(views', u) = FeedOf(views, u))
    BY <1>3 DEF FeedOf
  <2>2. KnownTo(u)
    BY <2>1, KnownNow DEF Hearing, Attends, SameView
  <2>3. CASE [kind |-> "quiz", turn |-> job.open] \in FeedOf(views', u)
    BY <1>2, <2>3 DEF KnownTo, FeedOf
  <2>4. CASE u = v /\ [kind |-> "quiz", turn |-> job.open] = e
    <3>1. e.kind = "quiz" /\ e.turn = job.open
      BY <2>4
    <3>2. Quiz(job.open, u) = q
      BY <1>3, <2>4, <3>1 DEF Quiz
    <3>3. Quiz(job.open, u) \in screen'
      BY <1>5, <3>2
    <3> QED
      BY <1>2, <3>3 DEF KnownTo, Quiz
  <2>5. CASE Quiz(job.open, u) \in screen \cup ledger.lapsed
    <3>1. Quiz(job.open, u) \in screen' \cup ledger.lapsed
      BY <1>5, <2>5
    <3> QED
      BY <1>2, <3>1 DEF KnownTo, Quiz
  <2>6. CASE views[u].st = "ready" /\ views[u].quiz = job.open
    BY <1>2, <2>1, <2>6 DEF KnownTo, SameView
  <2> QED
    BY <2>1, <2>2, <2>3, <2>4, <2>5, <2>6 DEF KnownTo
<1>7. DesksKeep /\ WaitersKnown
  BY <1>2, SameKeeps
<1>8. job' \in AcpJob /\ conn' \in AcpConn /\ ledger' \in AcpLedger /\ desks' \in [Desks -> AcpDesk]
      /\ screen' \subseteq AcpQuestion /\ ledger'.views = ledger.views
  BY <1>2, <1>5, AcpParts
<1> QED
  BY <1>3, <1>4, <1>6, <1>7, <1>8, PartsHold DEF AcpTypes

(* The client takes away a questionnaire that is resolved, never the open one. *)
LEMMA ForwardResolvedHolds == ASSUME AcpInv, NEW v \in Views, ForwardResolved(v) PROVE AcpInv'
<1> DEFINE e == Head(views[v].feed)
<1>1. UNCHANGED <<conn, desks, waiter, job, ledger>> /\ Hears(v, "resolved") /\ views' = Heeded(v)
      /\ screen' = {q \in screen : ~(q.kind = "quiz" /\ q.turn = e.turn)}
  BY DEF ForwardResolved
<1>2. views' \in [Views -> AcpView] /\ e \in FeedOf(views, v) /\ e.kind = "resolved"
  BY <1>1, HeededIs
<1> HIDE DEF e
<1>3. e.turn # job.open
  BY <1>2, AcpParts DEF ResolvedIsPast
<1>4. OnlyEntryAttends' /\ ResolvedIsPast' /\ JobIsWhole' /\ TurnKeeps /\ CancelsKeep /\ EndsKeep
  BY <1>1, HeedKeeps
<1>5. \A u \in Views : Quiz(job.open, u) \in screen => Quiz(job.open, u) \in screen'
  BY <1>1, <1>3 DEF Quiz
<1>6. QuizIsKnown'
  BY <1>1, <1>5, HeedKnows
<1>7. DesksKeep /\ WaitersKnown
  BY <1>1, SameKeeps
<1>8. job' \in AcpJob /\ conn' \in AcpConn /\ ledger' \in AcpLedger /\ desks' \in [Desks -> AcpDesk]
      /\ screen' \subseteq AcpQuestion /\ ledger'.views = ledger.views
  BY <1>1, AcpParts
<1> QED
  BY <1>2, <1>4, <1>6, <1>7, <1>8, PartsHold DEF AcpTypes

LEMMA FeedLagsHolds == ASSUME AcpInv, NEW v \in Views, FeedLags(v) PROVE AcpInv'
<1> DEFINE no == FALSE
           w == [views[v] EXCEPT !.open = no]
<1>1. UNCHANGED <<conn, desks, waiter, job, screen>> /\ ledger' = Slipped
  BY DEF FeedLags
<1>2. views[v] \in AcpView /\ no \in BOOLEAN /\ ~no
  BY AcpParts
<1>3. views' = [views EXCEPT ![v] = w]
  BY <1>2, AcpParts DEF FeedLags, AcpView
<1> HIDE DEF no
<1>4. w \in AcpView /\ w.st = views[v].st /\ w.open = no /\ w.feed = views[v].feed
  BY <1>2 DEF AcpView
<1> HIDE DEF w
<1>5. views' \in [Views -> AcpView] /\ views'[v] = w /\ \A u \in Views : u # v => views'[u] = views[u]
  BY <1>3, <1>4, AcpParts
<1>6. ledger' \in AcpLedger /\ ledger'.views = ledger.views /\ ledger'.cancels = ledger.cancels
      /\ ledger'.owed = ledger.owed /\ ledger'.lapsed = ledger.lapsed /\ ledger'.asked = ledger.asked
  BY <1>1, AcpParts, SlippedIs
<1>7. ViewsKeep
  <2> SUFFICES ASSUME NEW u \in Views
               PROVE  /\ Attends(views', u) => Attends(views, u)
                      /\ Hearing(views', u) => /\ Hearing(views, u) /\ SameView(views, views', u)
                                               /\ FeedOf(views, u) \subseteq FeedOf(views', u)
    BY DEF ViewsKeep
  <2>1. CASE u = v
    BY <1>2, <1>4, <1>5, <2>1 DEF Attends, Hearing
  <2>2. CASE u # v
    BY <1>5, <2>2 DEF Attends, Hearing, SameView, FeedOf
  <2> QED
    BY <2>1, <2>2
<1>8. FeedsKeep
  BY <1>4, <1>5 DEF FeedsKeep, FeedOf
<1> QED
  BY <1>1, <1>5, <1>6, <1>7, <1>8, AcpParts, SameKeeps, StepHolds DEF AcpTypes, CancelsKeep

(* The task that has read all that was left goes, and its registration.        *)
LEMMA ForwardingEndsHolds == ASSUME AcpInv, NEW v \in Views, ForwardingEnds(v) PROVE AcpInv'
<1> DEFINE w == [views[v] EXCEPT !.st = "ended"]
           entry == IF conn.entry = v THEN 0 ELSE conn.entry
<1>1. UNCHANGED <<desks, waiter, job, screen, ledger>> /\ conn' = [conn EXCEPT !.entry = entry] /\ Attends(views, v)
  BY DEF ForwardingEnds, Attends
<1>2. views[v] \in AcpView
  BY AcpParts
<1>3. views' = [views EXCEPT ![v] = w]
  BY <1>2, AcpParts DEF ForwardingEnds, AcpView
<1>4. conn.entry = v
  BY <1>1, AcpParts DEF OnlyEntryAttends
<1>5. entry = 0
  BY <1>4
<1> HIDE DEF entry
<1>6. w \in AcpView /\ w.st = "ended" /\ w.feed = views[v].feed
  BY <1>2 DEF AcpView
<1> HIDE DEF w
<1>7. views' \in [Views -> AcpView] /\ views'[v] = w /\ \A u \in Views : u # v => views'[u] = views[u]
  BY <1>3, <1>6, AcpParts
<1>8. \A u \in Views : ~Attends(views', u)
  BY <1>4, <1>6, <1>7, AcpParts DEF Attends, OnlyEntryAttends
<1>9. conn' \in AcpConn /\ conn'.entry = 0 /\ conn'.held = conn.held
  BY <1>1, <1>5, AcpParts DEF AcpConn
<1>10. ViewsKeep /\ EntryKeeps /\ CancelsKeep
  BY <1>1, <1>8, <1>9 DEF ViewsKeep, EntryKeeps, CancelsKeep, Hearing
<1>11. FeedsKeep
  BY <1>6, <1>7 DEF FeedsKeep, FeedOf
<1> QED
  BY <1>1, <1>7, <1>9, <1>10, <1>11, AcpParts, SameKeeps, StepHolds DEF AcpTypes

-----------------------------------------------------------------------------
(* Answers.                                                                   *)

LEMMA AnswerPermissionHolds == ASSUME AcpInv, AnswerPermission PROVE AcpInv'
<1>1. PICK q \in screen : q.kind = "permission" /\ screen' = screen \ {q}
                          /\ job' = IF job.turn = q.turn THEN [job EXCEPT !.ask = "none"] ELSE job
  BY DEF AnswerPermission
<1>2. UNCHANGED <<conn, views, desks, waiter, ledger>>
  BY DEF AnswerPermission
<1>3. job' \in AcpJob /\ job'.turn = job.turn /\ job'.kind = job.kind /\ job'.open = job.open
  BY <1>1, AcpParts DEF AcpJob
<1>4. JobIsWhole' /\ TurnKeeps
  BY <1>2, <1>3, AcpParts DEF JobIsWhole, TurnKeeps
<1>5. \A u \in Views : Quiz(job.open, u) \in screen => Quiz(job.open, u) \in screen'
  BY <1>1 DEF Quiz
<1>6. QuizIsKnown'
  BY <1>2, <1>3, <1>5, KnownLeft
<1>7. ViewsKeep /\ FeedsKeep /\ EntryKeeps /\ DesksKeep /\ WaitersKnown /\ CancelsKeep
  BY <1>2, SameKeeps DEF CancelsKeep
<1>8. conn' \in AcpConn /\ ledger' \in AcpLedger /\ desks' \in [Desks -> AcpDesk] /\ views' \in [Views -> AcpView]
      /\ screen' \subseteq AcpQuestion /\ ledger'.views = ledger.views
  BY <1>1, <1>2, AcpParts
<1>9. ResolvedIsPast'
  BY <1>2, <1>3, <1>7, ResolvedStays DEF AskedKeeps
<1> QED
  BY <1>3, <1>4, <1>6, <1>7, <1>8, <1>9, KeepsAre, EntryStays, PartsHold DEF AcpTypes

(* A questionnaire that was answered before: the open one stays.               *)
LEMMA AnswerLateHolds == ASSUME AcpInv, AnswerLate PROVE AcpInv'
<1>1. PICK q \in screen : q.turn # job.open /\ screen' = screen \ {q}
  BY DEF AnswerLate
<1>2. UNCHANGED <<conn, views, desks, waiter, job, ledger>>
  BY DEF AnswerLate
<1>3. \A u \in Views : Quiz(job.open, u) \in screen => Quiz(job.open, u) \in screen'
  BY <1>1 DEF Quiz
<1>4. QuizIsKnown'
  BY <1>2, <1>3, KnownLeft
<1>5. ViewsKeep /\ FeedsKeep /\ EntryKeeps /\ DesksKeep /\ WaitersKnown /\ CancelsKeep /\ JobKeeps /\ JobIsWhole'
  BY <1>2, SameKeeps DEF CancelsKeep
<1>6. conn' \in AcpConn /\ ledger' \in AcpLedger /\ desks' \in [Desks -> AcpDesk] /\ views' \in [Views -> AcpView]
      /\ screen' \subseteq AcpQuestion /\ job' \in AcpJob /\ ledger'.views = ledger.views
  BY <1>1, <1>2, AcpParts
<1>7. ResolvedIsPast'
  BY <1>2, <1>5, ResolvedStays DEF AskedKeeps
<1> QED
  BY <1>4, <1>5, <1>6, <1>7, KeepsAre, EntryStays, PartsHold DEF AcpTypes

(* The answers join the turn that runs or start one.                          *)
LEMMA JoinedIs ==
  ASSUME AcpInv
  PROVE  /\ Joined \in AcpJob /\ (Joined.turn = job.turn \/ job.turn = 0) /\ Joined.open = job.open
         /\ (Joined.kind = "none" <=> Joined.turn = 0)
<1> DEFINE n == ledger.jobs + 1
<1>1. n \in Nat /\ n > 0
  BY AcpParts DEF AcpLedger
<1>2. CASE Busy
  BY <1>2, AcpParts DEF Joined, JobIsWhole
<1>3. CASE ~Busy
  <2> PICK j : j = Joined
    OBVIOUS
  <2>1. j = [job EXCEPT !.kind = "turn", !.turn = n, !.ask = "none"] /\ job.turn = 0
    BY <1>3, AcpParts DEF Joined, Started, Busy, JobIsWhole
  <2> HIDE DEF n
  <2>2. j \in AcpJob /\ j.kind = "turn" /\ j.turn = n /\ j.open = job.open
    BY <1>1, <2>1, AcpParts DEF AcpJob
  <2>3. j.kind # "none" /\ j.turn # 0
    BY <1>1, <2>2
  <2> QED
    BY <2>1, <2>2, <2>3
<1> QED
  BY <1>2, <1>3

LEMMA JoinsIs ==
  ASSUME NEW l \in AcpLedger
  PROVE  /\ Joins(l) \in AcpLedger /\ Joins(l).views = l.views /\ Joins(l).cancels = l.cancels
         /\ Joins(l).owed = l.owed /\ Joins(l).lapsed = l.lapsed /\ Joins(l).asked = l.asked
<1> DEFINE n == l.jobs + 1
<1>1. n \in Nat /\ Joins(l) \in {l, [l EXCEPT !.jobs = n]}
  BY DEF AcpLedger, Joins
<1> HIDE DEF n
<1> QED
  BY <1>1 DEF AcpLedger

(* The questionnaire is resolved: none is open, and who hears of it is right.   *)
LEMMA ResolvesHolds ==
  ASSUME AcpInv, Resolves, UNCHANGED <<conn, desks, waiter>>, screen' \subseteq screen
  PROVE  AcpInv'
<1> DEFINE e == [kind |-> "resolved", turn |-> job.open]
           j == Joined
<1>1. job.open # 0 /\ job' = [j EXCEPT !.open = 0]
      /\ (views' = Heard(views, e) \/ views' = views)
      /\ (ledger' = Joins(ledger) \/ ledger' = Joins(Slipped))
  BY DEF Resolves
<1>2. e \in AcpEvent /\ e.kind = "resolved" /\ e.turn = job.open /\ job.open \in Nat
  BY AcpParts DEF AcpEvent, AcpJob
<1>3. j \in AcpJob /\ (j.turn = job.turn \/ job.turn = 0) /\ (j.kind = "none" <=> j.turn = 0)
  BY JoinedIs
<1> HIDE DEF e, j
<1>4. job' \in AcpJob /\ job'.open = 0 /\ job'.turn = j.turn /\ job'.kind = j.kind
  BY <1>1, <1>3 DEF AcpJob
<1>5. ledger' \in AcpLedger /\ ledger'.views = ledger.views /\ ledger'.cancels = ledger.cancels
      /\ ledger'.owed = ledger.owed /\ ledger'.asked = ledger.asked
  BY <1>1, AcpParts, SlippedIs, JoinsIs
<1>6. views' \in [Views -> AcpView]
      /\ \A v \in Views : /\ SameView(views, views', v) /\ FeedOf(views, v) \subseteq FeedOf(views', v)
                         /\ FeedOf(views', v) \subseteq FeedOf(views, v) \cup {e}
  BY <1>1, <1>2, AcpParts, HeardIs DEF SameView
<1>7. ViewsKeep
  BY <1>6 DEF ViewsKeep, Attends, Hearing, SameView
<1>8. JobIsWhole' /\ TurnKeeps
  <2>1. ledger.asked \in Nat
    BY AcpParts DEF AcpLedger
  <2> QED
    BY <1>3, <1>4, <1>5, <2>1 DEF JobIsWhole, TurnKeeps
<1>9. EntryKeeps /\ DesksKeep /\ WaitersKnown /\ CancelsKeep
  BY <1>5, SameKeeps DEF CancelsKeep
<1>10. QuizIsKnown'
  BY <1>4 DEF QuizIsKnown
<1>11. ResolvedIsPast'
  <2> SUFFICES ASSUME NEW v \in Views, NEW f \in FeedOf(views', v), f.kind = "resolved"
               PROVE  f.turn > 0 /\ f.turn <= ledger'.asked /\ f.turn # job'.open
    BY DEF ResolvedIsPast, FeedOf
  <2>1. CASE f = e
    BY <1>1, <1>2, <1>4, <1>5, <2>1, AcpParts DEF JobIsWhole, AcpLedger
  <2>2. CASE f \in FeedOf(views, v)
    <3>1. f.turn > 0 /\ f.turn <= ledger.asked
      BY <2>2, AcpParts DEF ResolvedIsPast
    <3>2. f.turn # 0
      BY <3>1
    <3> QED
      BY <1>4, <1>5, <3>1, <3>2
  <2> QED
    BY <1>6, <2>1, <2>2
<1>12. conn' \in AcpConn /\ desks' \in [Desks -> AcpDesk] /\ screen' \subseteq AcpQuestion
  BY AcpParts
<1> QED
  BY <1>4, <1>5, <1>6, <1>7, <1>8, <1>9, <1>10, <1>11, <1>12, KeepsAre, EntryStays, PartsHold DEF AcpTypes

LEMMA AnswerQuizHolds == ASSUME AcpInv, AnswerQuiz \/ QuizElsewhere PROVE AcpInv'
BY ResolvesHolds DEF AnswerQuiz, QuizElsewhere

(* What the client is shown no longer is given up at the same time.            *)
LEMMA LapsedSet ==
  ASSUME NEW l \in AcpLedger, NEW q \in AcpQuestion, NEW m \in {[l EXCEPT !.lapsed = @ \cup {q}]}
  PROVE  /\ m \in AcpLedger /\ m.views = l.views /\ m.cancels = l.cancels /\ m.owed = l.owed /\ m.asked = l.asked
         /\ m.lapsed = l.lapsed \cup {q}
<1> DEFINE lapsed == l.lapsed \cup {q}
<1>1. lapsed \in SUBSET AcpQuestion /\ m = [l EXCEPT !.lapsed = lapsed]
  BY DEF AcpLedger
<1> HIDE DEF lapsed
<1>2. m \in AcpLedger /\ m.views = l.views /\ m.cancels = l.cancels /\ m.owed = l.owed /\ m.asked = l.asked
      /\ m.lapsed = lapsed
  BY <1>1 DEF AcpLedger
<1> QED
  BY <1>2 DEF lapsed

(* A refused answer leaves the questionnaire open.                            *)
LEMMA GivenUpHolds ==
  ASSUME AcpInv, UNCHANGED <<conn, views, desks, waiter>>, NEW q \in screen, screen' = screen \ {q},
         NEW l \in AcpLedger, l.views = ledger.views, l.cancels = ledger.cancels, l.owed = ledger.owed,
         l.asked = ledger.asked, l.lapsed = ledger.lapsed,
         ledger' = [l EXCEPT !.lapsed = @ \cup {q}], job' = job \/ job' = Joined
  PROVE  AcpInv'
<1>1. q \in AcpQuestion
  BY AcpParts
<1>2. ledger' \in AcpLedger /\ ledger'.views = ledger.views /\ ledger'.cancels = ledger.cancels
      /\ ledger'.owed = ledger.owed /\ ledger'.asked = ledger.asked /\ ledger'.lapsed = ledger.lapsed \cup {q}
  <2>1. ledger' \in {[l EXCEPT !.lapsed = @ \cup {q}]}
    OBVIOUS
  <2> PICK m : m = ledger'
    OBVIOUS
  <2>2. m \in AcpLedger /\ m.views = l.views /\ m.cancels = l.cancels /\ m.owed = l.owed /\ m.asked = l.asked
        /\ m.lapsed = l.lapsed \cup {q}
    BY <1>1, <2>1, LapsedSet
  <2> QED
    BY <2>2
<1>3. job' \in AcpJob /\ JobIsWhole' /\ JobKeeps
  BY <1>2, AcpParts, JoinedIs DEF JobIsWhole, JobKeeps, TurnKeeps
<1>4. QuestionsKeep
  BY <1>2 DEF QuestionsKeep
<1>5. ViewsKeep /\ FeedsKeep /\ EntryKeeps /\ DesksKeep /\ WaitersKnown /\ CancelsKeep
  BY <1>2, SameKeeps DEF CancelsKeep
<1>6. conn' \in AcpConn /\ desks' \in [Desks -> AcpDesk] /\ views' \in [Views -> AcpView]
      /\ screen' \subseteq AcpQuestion
  BY AcpParts
<1> QED
  BY <1>2, <1>3, <1>4, <1>5, <1>6, StepHolds DEF AcpTypes

LEMMA AnswerRefusedHolds == ASSUME AcpInv, AnswerRefused PROVE AcpInv'
<1>1. PICK q \in screen :
        /\ screen' = screen \ {q}
        /\ \/ ledger' = [IF job.kind = "compact" THEN ledger ELSE Slipped EXCEPT !.lapsed = @ \cup {q}] /\ job' = job
           \/ ledger' = [Joins(Slipped) EXCEPT !.lapsed = @ \cup {q}] /\ job' = Joined
  BY DEF AnswerRefused
<1>2. UNCHANGED <<conn, views, desks, waiter>>
  BY DEF AnswerRefused
<1>3. \E l \in AcpLedger :
        /\ l.views = ledger.views /\ l.cancels = ledger.cancels /\ l.owed = ledger.owed /\ l.asked = ledger.asked
        /\ l.lapsed = ledger.lapsed /\ ledger' = [l EXCEPT !.lapsed = @ \cup {q}]
  <2>1. /\ Slipped \in AcpLedger /\ Slipped.views = ledger.views /\ Slipped.cancels = ledger.cancels
        /\ Slipped.owed = ledger.owed /\ Slipped.lapsed = ledger.lapsed /\ Slipped.asked = ledger.asked
    BY AcpParts, SlippedIs
  <2>2. /\ Joins(Slipped) \in AcpLedger /\ Joins(Slipped).views = ledger.views
        /\ Joins(Slipped).cancels = ledger.cancels /\ Joins(Slipped).owed = ledger.owed
        /\ Joins(Slipped).lapsed = ledger.lapsed /\ Joins(Slipped).asked = ledger.asked
    BY <2>1, JoinsIs
  <2>3. ledger \in AcpLedger
    BY AcpParts
  <2>4. CASE ledger' = [Slipped EXCEPT !.lapsed = @ \cup {q}]
    BY <2>1, <2>4
  <2>5. CASE ledger' = [Joins(Slipped) EXCEPT !.lapsed = @ \cup {q}]
    BY <2>2, <2>5
  <2>6. CASE ledger' = [ledger EXCEPT !.lapsed = @ \cup {q}]
    BY <2>3, <2>6
  <2> QED
    BY <1>1, <2>4, <2>5, <2>6
<1> QED
  BY <1>1, <1>2, <1>3, GivenUpHolds

LEMMA QuizUnsupportedHolds == ASSUME AcpInv, QuizUnsupported PROVE AcpInv'
<1>1. PICK q \in screen : screen' = screen \ {q} /\ ledger' = [Slipped EXCEPT !.lapsed = @ \cup {q}]
  BY DEF QuizUnsupported
<1>2. UNCHANGED <<conn, views, desks, waiter, job>>
  BY DEF QuizUnsupported
<1>3. /\ Slipped \in AcpLedger /\ Slipped.views = ledger.views /\ Slipped.cancels = ledger.cancels
      /\ Slipped.owed = ledger.owed /\ Slipped.lapsed = ledger.lapsed /\ Slipped.asked = ledger.asked
  BY AcpParts, SlippedIs
<1> QED
  BY <1>1, <1>2, <1>3, GivenUpHolds

-----------------------------------------------------------------------------
LEMMA AcpInitHolds == AcpInit => AcpInv
<1> SUFFICES ASSUME AcpInit PROVE AcpInv
  OBVIOUS
<1>1. conn \in [proto : Protocols, entry : {0}, held : {{}}] /\ views = [v \in Views |-> NoView]
      /\ desks = [d \in Desks |-> NoDesk] /\ job = [kind |-> "none", turn |-> 0, ask |-> "none", open |-> 0]
      /\ screen = {}
  BY DEF AcpInit
<1>2. conn \in AcpConn /\ conn.entry = 0 /\ conn.held = {}
  BY <1>1 DEF AcpConn
<1>3. ledger \in AcpLedger /\ ledger.views = 0 /\ ledger.owed = {} /\ ledger.cancels = 0 /\ ledger.asked = 0
  BY DEF AcpInit, AcpLedger
<1>4. NoView \in AcpView /\ NoView.st = "none" /\ Range(NoView.feed) = {}
  BY DEF NoView, AcpView, Range
<1>5. AcpTypes
  BY <1>1, <1>2, <1>3, <1>4, NoDeskType DEF AcpTypes, AcpJob
<1>6. \A v \in Views : views[v].st = "none" /\ FeedOf(views, v) = {}
  BY <1>1, <1>4 DEF FeedOf
<1>7. \A d \in Desks : desks[d].pc = "idle" /\ desks[d].what = "none" /\ desks[d].replaces = {}
  BY <1>1, NoDeskType
<1>8. OnlyEntryAttends /\ JobIsWhole /\ QuizIsKnown
  BY <1>1, <1>2, <1>3, <1>6, BoundsAssumption DEF OnlyEntryAttends, JobIsWhole, QuizIsKnown, Attends
<1>9. DesksHold /\ CancelsAreNumbered /\ WaitersFinish
  BY <1>2, <1>7 DEF DesksHold, DeskIsWhole, WaitIsWhole, CancelsAreNumbered, WaitersFinish
<1>10. CancelIsKept
  BY <1>3 DEF CancelIsKept
<1>11. ResolvedIsPast
  BY <1>6 DEF ResolvedIsPast
<1> QED
  BY <1>5, <1>8, <1>9, <1>10, <1>11 DEF AcpInv

LEMMA AcpStep == AcpInv /\ [AcpNext]_acpVars => AcpInv'
<1> SUFFICES ASSUME AcpInv, [AcpNext]_acpVars PROVE AcpInv'
  OBVIOUS
<1>1. CASE JobElsewhere \/ JobEnds \/ JobCompacts \/ JobAsks \/ JobRaises
  BY <1>1, JobElsewhereHolds, JobEndsHolds, JobCompactsHolds, JobAsksHolds, JobRaisesHolds
<1>2. ASSUME NEW d \in Desks, LoadRequest(d) \/ PromptRequest(d) \/ CloseRequest(d) PROVE AcpInv'
  BY <1>2, LoadRequestHolds, PromptRequestHolds, CloseRequestHolds
<1>3. ASSUME NEW d \in Desks, ReuseObserver(d) \/ Subscribe(d) \/ SubscribeFails(d) \/ OptionsFail(d) PROVE AcpInv'
  BY <1>3, ReuseObserverHolds, SubscribeHolds, SubscribeFailsHolds, OptionsFailHolds
<1>4. ASSUME NEW d \in Desks, Activate(d) \/ LoadReply(d) \/ StopCommand(d) PROVE AcpInv'
  BY <1>4, ActivateHolds, LoadReplyHolds, StopCommandHolds
<1>5. ASSUME NEW d \in Desks,
             TakeWaiter(d) \/ WaiterTaken(d) \/ SubmitV2(d) \/ HostAccepts(d) \/ HostRefuses(d) PROVE AcpInv'
  BY <1>5, SubmitHolds, WaiterTakenHolds, HostAcceptsHolds, HostRefusesHolds
<1>6. ASSUME NEW v \in Views, ForwardEnd(v) \/ ForwardAuto(v) \/ ForwardAsk(v) PROVE AcpInv'
  BY <1>6, ForwardEndHolds, ForwardAutoHolds, ForwardAskHolds
<1>7. ASSUME NEW v \in Views, ForwardResolved(v) \/ FeedLags(v) \/ ForwardingEnds(v) PROVE AcpInv'
  BY <1>7, ForwardResolvedHolds, FeedLagsHolds, ForwardingEndsHolds
<1>8. CASE AnswerPermission \/ AnswerQuiz \/ QuizElsewhere \/ AnswerRefused \/ AnswerLate
  BY <1>8, AnswerPermissionHolds, AnswerQuizHolds, AnswerRefusedHolds, AnswerLateHolds
<1>9. CASE QuizUnsupported \/ CancelNow \/ CancelNotice \/ GraceOver
  BY <1>9, QuizUnsupportedHolds, CancelNowHolds, CancelNoticeHolds, GraceOverHolds
<1>10. CASE UNCHANGED acpVars
  <2>1. UNCHANGED <<conn, views, desks, waiter, job, screen, ledger>>
    BY <1>10 DEF acpVars
  <2> QED
    BY <2>1, AcpParts, SameKeeps, StepHolds DEF AcpTypes, CancelsKeep
<1> QED
  BY <1>1, <1>2, <1>3, <1>4, <1>5, <1>6, <1>7, <1>8, <1>9, <1>10 DEF AcpNext

(* However requests, cancels, ends of turns, lagging feeds and failing calls   *)
(* interleave on one ACP connection: an accepted prompt under an observer with *)
(* an open subscription has its turn running or its end on the way, a cancel    *)
(* held back is not lost, one task at most goes on forwarding the session's     *)
(* events, and a questionnaire that is open, in its turn or after, is shown or  *)
(* on its way, unless its delivery ended without an answer the host took.       *)
THEOREM AcpCorrect == AcpSpec => []AcpHolds
<1>1. AcpInit => AcpInv
  BY AcpInitHolds
<1>2. AcpInv /\ [AcpNext]_acpVars => AcpInv'
  BY AcpStep
<1>3. AcpInv => AcpHolds
  <2> SUFFICES ASSUME AcpInv PROVE AcpHolds
    OBVIOUS
  <2>1. PromptsFinish
    BY AcpParts DEF PromptsFinish, On, WaitIsWhole, AcpInv, WaitersFinish, Listens, Hearing, Attends, FeedOf
  <2>2. OneForwarder
    <3>1. Looking \subseteq {conn.entry}
      BY AcpParts DEF Looking, OnlyEntryAttends, Attends
    <3>2. IsFiniteSet({conn.entry}) /\ Cardinality({conn.entry}) = 1
      BY FS_Singleton
    <3>3. Cardinality(Looking) <= 1
      BY <3>1, <3>2, FS_Subset
    <3> QED
      BY <3>3 DEF OneForwarder
  <2>3. QuizIsShown
    BY DEF QuizIsShown, AcpInv, QuizIsKnown, KnownTo, Registered, Listens, Hearing, Attends, FeedOf
  <2> QED
    BY <2>1, <2>2, <2>3 DEF AcpHolds, AcpInv
<1> QED
  BY <1>1, <1>2, <1>3, PTL DEF AcpSpec

-----------------------------------------------------------------------------
(* ChannelBridge: one conversation of a message channel.                      *)

Places == Chats \cup {Nowhere}
BridgeLine == [kind : Adapters, up : BOOLEAN, selected : Places, saved : Places,
               cards : SUBSET Nat, flying : SUBSET Nat]
BridgeChat == [made : BOOLEAN, turn : Nat, ask : BOOLEAN]
BridgeEvent == [kind : {"ask", "end"}, turn : Nat]
BridgeWatch == [on : Places, open : BOOLEAN, feed : Seq(BridgeEvent), card : Nat]
BridgeButton == [turn : Nat, s : Places, allowed : BOOLEAN]
HandlerSteps == {"idle", "route", "select", "save", "observe", "replay", "ready", "submit", "excused"}
BridgeHandler == [pc : HandlerSteps, s : Places,
                  what : Places \cup {"prompt", "new", "cancel", "resume", "allow"}]
BridgePress == [pc : {"idle", "resolve", "close"}, turn : Nat, s : Places]
BridgeDiary == [inputs : Nat, turns : Nat, breaks : Nat, told : Places, unsaved : BOOLEAN,
                owed : SUBSET Nat, ended : SUBSET Nat, seen : SUBSET Nat, lost : SUBSET Nat,
                used : Places, pressed : SUBSET Nat, void : SUBSET Nat, twice : BOOLEAN,
                asked : SUBSET Nat, of : Seq(Chats)]

BridgeTypes ==
  /\ line \in BridgeLine /\ chats \in [Chats -> BridgeChat] /\ watch \in BridgeWatch
  /\ buttons \subseteq BridgeButton /\ shown \subseteq BridgeButton
  /\ handler \in BridgeHandler /\ press \in BridgePress /\ diary \in BridgeDiary

(* An event of a turn that the observer has not taken yet.                    *)
Waits(w, kind, t) == [kind |-> kind, turn |-> t] \in Range(w.feed)

(* Turns are numbered over all sessions; one that runs has not ended, and one *)
(* that waits for an answer has asked.                                        *)
ChatHolds(cs, d, s) ==
  /\ cs[s].turn # 0 => cs[s].turn \in 1..d.turns /\ d.of[cs[s].turn] = s /\ cs[s].turn \notin d.ended
  /\ cs[s].ask => cs[s].turn # 0
TurnsAreNumbered ==
  /\ Len(diary.of) = diary.turns
  /\ diary.owed \cup diary.ended \cup diary.asked \subseteq 1..diary.turns
  /\ \A s \in Chats : ChatHolds(chats, diary, s)

(* A turn whose end was sent, or could not be.                                *)
Delivered(t) == t \in diary.seen \/ t \in diary.lost

(* Whoever is owed the end of a turn was sent it, or watches the turn's       *)
(* session: with the end on its way, or over a subscription that is open.     *)
OwedAreWatched ==
  \A t \in diary.owed :
    \/ Delivered(t)
    \/ /\ diary.of[t] = watch.on
       /\ IF t \in diary.ended THEN Waits(watch, "end", t) ELSE watch.open

(* The observer is there, and subscribed, when the prompt is submitted.       *)
SubmitIsWatched == At("submit") /\ Existing(handler.s) => Watched(handler.s)

(* The session of the last /use is the one that is watched, and what ended    *)
(* of it was sent, is on its way or is too old to be replayed.                *)
TooOld(t) == Cardinality(Later(t)) >= ReplayTurns
UsedIsWatched ==
  diary.used # Nowhere =>
    /\ Watched(diary.used)
    /\ \A t \in diary.ended : diary.of[t] = diary.used =>
         Delivered(t) \/ Waits(watch, "end", t) \/ TooOld(t)

(* A channel that is stopped has nothing, but cards that are on their way.    *)
DownIsQuiet ==
  ~line.up =>
    /\ At("idle") /\ press.pc = "idle" /\ watch = NoWatch
    /\ buttons = {} /\ diary.owed = {} /\ diary.used = Nowhere

(* What is selected is saved, but between the two steps that do it.           *)
Unsaved == diary.unsaved
SelectionAgrees ==
  /\ At("save") => line.selected = handler.s /\ diary.told \in {Nowhere, handler.s}
  /\ At("observe") \/ At("replay") => line.saved = handler.s
  /\ At("submit") \/ At("excused") => line.selected = handler.s
  /\ ~Unsaved /\ line.up /\ ~At("save") => line.selected = line.saved
  /\ ~Unsaved /\ diary.told # Nowhere => line.saved = diary.told

(* No request comes twice.                                                    *)
Once(f) == \A i, j \in 1..Len(f) : f[i].kind = "ask" /\ f[i] = f[j] => i = j

(* The group of a request that was neither pressed nor given up.              *)
Live(t) == t \notin diary.pressed /\ t \notin diary.void /\ t # press.turn

(* A request that the observer has not taken has no button, on its way or not.*)
Untouched(t) ==
  /\ t \in diary.asked /\ Live(t) /\ t # watch.card /\ t \notin line.flying
  /\ \A b \in buttons \cup shown : b.turn # t
AsksAreNew ==
  /\ \A t \in Nat : Waits(watch, "ask", t) => Untouched(t)
  /\ Once(watch.feed)

(* A press is of a request that is answered with it, once.                    *)
PressAgrees ==
  /\ press.pc = "idle" => press.turn = 0
  /\ press.pc # "idle" => press.turn \in diary.asked
  /\ press.pc = "resolve" => press.turn \notin diary.pressed
  /\ press.pc = "close" => press.turn \in diary.pressed
  /\ diary.pressed \subseteq diary.asked /\ diary.void \subseteq diary.asked \cup {0}
  /\ ~diary.twice

(* A card is of a request, and both its buttons are in the store from before  *)
(* it is sent until its group goes.                                           *)
ButtonsAgree ==
  /\ watch.card # 0 => watch.card \in diary.asked
  /\ line.flying \subseteq diary.asked
  /\ \A b \in buttons \cup shown : b.turn \in diary.asked
  /\ \A b \in buttons : b.turn \notin diary.pressed /\ b.turn # press.turn
  /\ \A t \in line.flying : Live(t) => Pair(t) \subseteq buttons
  /\ \A b \in shown : Live(b.turn) => b \in buttons

BridgeInv ==
  /\ BridgeTypes /\ TurnsAreNumbered /\ OwedAreWatched /\ SubmitIsWatched /\ UsedIsWatched
  /\ DownIsQuiet /\ SelectionAgrees /\ AsksAreNew /\ PressAgrees /\ ButtonsAgree

-----------------------------------------------------------------------------
LEMMA BridgeParts ==
  ASSUME BridgeInv
  PROVE  /\ line \in BridgeLine /\ line.up \in BOOLEAN /\ line.selected \in Places
         /\ line.saved \in Places /\ line.cards \in SUBSET Nat /\ line.flying \in SUBSET Nat
         /\ chats \in [Chats -> BridgeChat]
         /\ \A s \in Chats : chats[s] \in BridgeChat /\ chats[s].turn \in Nat /\ chats[s].ask \in BOOLEAN
         /\ watch \in BridgeWatch /\ watch.on \in Places /\ watch.feed \in Seq(BridgeEvent)
         /\ watch.card \in Nat /\ watch.open \in BOOLEAN
         /\ buttons \subseteq BridgeButton /\ shown \subseteq BridgeButton
         /\ handler \in BridgeHandler /\ handler.pc \in HandlerSteps /\ handler.s \in Places
         /\ press \in BridgePress /\ press.pc \in {"idle", "resolve", "close"}
         /\ press.turn \in Nat /\ press.s \in Places
         /\ diary \in BridgeDiary /\ diary.turns \in Nat /\ diary.told \in Places
         /\ diary.unsaved \in BOOLEAN /\ diary.owed \in SUBSET Nat /\ diary.ended \in SUBSET Nat
         /\ diary.seen \in SUBSET Nat /\ diary.lost \in SUBSET Nat /\ diary.used \in Places
         /\ diary.pressed \in SUBSET Nat /\ diary.void \in SUBSET Nat
         /\ diary.twice \in BOOLEAN /\ diary.asked \in SUBSET Nat /\ diary.of \in Seq(Chats)
         /\ TurnsAreNumbered /\ OwedAreWatched /\ SubmitIsWatched /\ UsedIsWatched
         /\ DownIsQuiet /\ SelectionAgrees /\ AsksAreNew /\ PressAgrees /\ ButtonsAgree
<1>1. BridgeTypes
  BY DEF BridgeInv
<1>2. line.up \in BOOLEAN /\ line.selected \in Places /\ line.saved \in Places
      /\ line.cards \in SUBSET Nat /\ line.flying \in SUBSET Nat
  BY <1>1 DEF BridgeTypes, BridgeLine
<1>3. \A s \in Chats : chats[s] \in BridgeChat /\ chats[s].turn \in Nat /\ chats[s].ask \in BOOLEAN
  BY <1>1 DEF BridgeTypes, BridgeChat
<1>4. watch.on \in Places /\ watch.feed \in Seq(BridgeEvent) /\ watch.card \in Nat /\ watch.open \in BOOLEAN
  BY <1>1 DEF BridgeTypes, BridgeWatch
<1>5. handler.pc \in HandlerSteps /\ handler.s \in Places
  BY <1>1 DEF BridgeTypes, BridgeHandler
<1>6. press.pc \in {"idle", "resolve", "close"} /\ press.turn \in Nat /\ press.s \in Places
  BY <1>1 DEF BridgeTypes, BridgePress
<1>7. /\ diary.turns \in Nat /\ diary.told \in Places
      /\ diary.unsaved \in BOOLEAN /\ diary.owed \in SUBSET Nat /\ diary.ended \in SUBSET Nat
      /\ diary.seen \in SUBSET Nat /\ diary.lost \in SUBSET Nat /\ diary.used \in Places
         /\ diary.pressed \in SUBSET Nat /\ diary.void \in SUBSET Nat
      /\ diary.twice \in BOOLEAN /\ diary.asked \in SUBSET Nat /\ diary.of \in Seq(Chats)
  BY <1>1 DEF BridgeTypes, BridgeDiary
<1> QED BY <1>1, <1>2, <1>3, <1>4, <1>5, <1>6, <1>7 DEF BridgeInv, BridgeTypes

(* The empty values of the module.                                            *)
LEMMA RestTypes ==
  /\ NoHandler \in BridgeHandler /\ NoHandler.pc = "idle"
  /\ NoPress \in BridgePress /\ NoPress.pc = "idle" /\ NoPress.turn = 0
  /\ NoWatch \in BridgeWatch /\ NoWatch.on = Nowhere /\ NoWatch.feed = <<>>
  /\ NoWatch.card = 0 /\ NoWatch.open = FALSE
<1>1. NoHandler \in BridgeHandler /\ NoHandler.pc = "idle"
  BY DEF NoHandler, BridgeHandler, HandlerSteps, Places
<1>2. NoPress \in BridgePress /\ NoPress.pc = "idle" /\ NoPress.turn = 0
  BY DEF NoPress, BridgePress, Places
<1> DEFINE f == <<>>
<1>3. f \in Seq(BridgeEvent)
  OBVIOUS
<1> HIDE DEF f
<1>4. [on |-> Nowhere, open |-> FALSE, feed |-> f, card |-> 0] \in BridgeWatch
  BY <1>3 DEF BridgeWatch, Places
<1>5. NoWatch = [on |-> Nowhere, open |-> FALSE, feed |-> f, card |-> 0]
  BY DEF NoWatch, f
<1>6. NoWatch \in BridgeWatch /\ NoWatch.on = Nowhere /\ NoWatch.feed = f
      /\ NoWatch.card = 0 /\ NoWatch.open = FALSE
  BY <1>4, <1>5
<1> QED BY <1>1, <1>2, <1>6 DEF f

(* An observer that has just subscribed.                                      *)
LEMMA NewWatch ==
  ASSUME NEW s \in Places
  PROVE  /\ Watching(s) \in BridgeWatch /\ Watching(s).on = s /\ Watching(s).open = TRUE
         /\ Watching(s).feed = <<>> /\ Watching(s).card = 0
BY RestTypes DEF BridgeWatch, Watching

LEMMA BrokenIs ==
  ASSUME BridgeInv
  PROVE  /\ Broken \in BridgeDiary /\ Broken.turns = diary.turns /\ Broken.told = diary.told
         /\ Broken.unsaved = diary.unsaved /\ Broken.owed = diary.owed /\ Broken.ended = diary.ended
         /\ Broken.seen = diary.seen /\ Broken.lost = diary.lost /\ Broken.used = diary.used
         /\ Broken.pressed = diary.pressed /\ Broken.void = diary.void
         /\ Broken.twice = diary.twice /\ Broken.asked = diary.asked /\ Broken.of = diary.of
<1> DEFINE n == diary.breaks + 1
<1>1. n \in Nat
  BY BridgeParts DEF BridgeDiary
<1>2. Broken = [diary EXCEPT !.breaks = n]
  BY DEF Broken
<1> HIDE DEF n
<1> QED BY <1>1, <1>2, BridgeParts DEF BridgeDiary

LEMMA ExcusedAre == ASSUME NEW s PROVE Excused(s) = {t \in diary.owed : diary.of[t] # s}
BY DEF Excused

(* Events in the feed of the observer.                                        *)
LEMMA FeedEmpty ==
  /\ Once(<<>>)
  /\ \A w, kind, t : w.feed = <<>> => ~Waits(w, kind, t)
<1>1. Range(<<>>) = {} /\ Len(<<>>) = 0
  BY DEF Range
<1> QED BY <1>1 DEF Once, Waits

LEMMA FeedAppends ==
  ASSUME NEW f \in Seq(BridgeEvent), NEW e \in BridgeEvent
  PROVE  /\ Append(f, e) \in Seq(BridgeEvent) /\ Range(Append(f, e)) = Range(f) \cup {e}
         /\ Once(f) /\ (e.kind = "ask" => e \notin Range(f)) => Once(Append(f, e))
<1> DEFINE g == Append(f, e)
<1>1. g \in Seq(BridgeEvent) /\ Len(g) = Len(f) + 1 /\ \A i \in 1 .. Len(f) : g[i] = f[i]
  BY AppendProperties
<1>0. g[Len(f) + 1] = e
  BY AppendProperties
<1>2. DOMAIN f = 1 .. Len(f) /\ DOMAIN g = 1 .. Len(f) + 1 /\ Len(f) \in Nat
  BY <1>1, LenProperties
<1> HIDE DEF g
<1>3. Range(g) = Range(f) \cup {e}
  <2> DEFINE n == Len(f) + 1
  <2>a. /\ \A i \in 1 .. n : i \in 1 .. Len(f) \/ i = n
        /\ \A i \in 1 .. Len(f) : i \in 1 .. n
        /\ n \in 1 .. n
    BY <1>2
  <2>b. DOMAIN g = 1 .. n
    BY <1>2
  <2>c. g[n] = e
    BY <1>0
  <2> HIDE DEF n
  <2>1. /\ \A i \in 1 .. n : i \in 1 .. Len(f) \/ i = n
        /\ \A i \in 1 .. Len(f) : i \in 1 .. n
        /\ n \in 1 .. n /\ DOMAIN g = 1 .. n /\ g[n] = e
    BY <2>a, <2>b, <2>c
  <2>2. ASSUME NEW x \in Range(g) PROVE x \in Range(f) \cup {e}
    <3>1. PICK i \in 1 .. n : g[i] = x
      BY <2>1 DEF Range
    <3> QED BY <1>1, <1>2, <2>1, <3>1 DEF Range
  <2>3. \A i \in 1 .. n : g[i] \in Range(g)
    BY <2>1 DEF Range
  <2>4. ASSUME NEW x \in Range(f) PROVE x \in Range(g)
    <3>1. PICK i \in 1 .. Len(f) : f[i] = x
      BY <1>2 DEF Range
    <3> QED BY <1>1, <2>1, <2>3, <3>1
  <2> QED BY <2>1, <2>2, <2>3, <2>4
<1>4. \A i \in 1 .. Len(g) : i \in 1 .. Len(f) \/ i = Len(f) + 1
  BY <1>1, <1>2
<1>5. \A i \in 1 .. Len(f) : f[i] \in Range(f)
  BY <1>2 DEF Range
<1>6. ASSUME Once(f), e.kind = "ask" => e \notin Range(f) PROVE Once(g)
  BY <1>0, <1>1, <1>4, <1>5, <1>6 DEF Once
<1> QED BY <1>1, <1>3, <1>6 DEF g

LEMMA FeedAdvances ==
  ASSUME NEW f \in Seq(BridgeEvent), f # <<>>, Once(f)
  PROVE  /\ Head(f) \in BridgeEvent /\ Tail(f) \in Seq(BridgeEvent) /\ Once(Tail(f))
         /\ Range(f) = Range(Tail(f)) \cup {Head(f)}
         /\ Head(f).kind = "ask" => Head(f) \notin Range(Tail(f))
<1> DEFINE g == Tail(f)
           h == Head(f)
<1>1. h = f[1] /\ g \in Seq(BridgeEvent) /\ Len(g) = Len(f) - 1 /\ Len(f) > 0
      /\ h \in BridgeEvent /\ \A i \in 1 .. Len(f) - 1 : g[i] = f[i + 1]
  BY HeadTailProperties, EmptySeq
<1>2. DOMAIN f = 1 .. Len(f) /\ DOMAIN g = 1 .. Len(f) - 1 /\ Len(f) \in Nat
  BY <1>1, LenProperties
<1> HIDE DEF g, h
<1>3. \A i \in 1 .. Len(f) : i = 1 \/ (i - 1 \in 1 .. Len(f) - 1 /\ f[i] = g[i - 1])
  BY <1>1, <1>2
<1>4. \A i \in 1 .. Len(f) - 1 : i + 1 \in 1 .. Len(f) /\ i + 1 # 1
  BY <1>2
<1>5. ASSUME NEW i \in 1 .. Len(f) PROVE f[i] \in Range(g) \cup {h}
  BY <1>1, <1>2, <1>3 DEF Range
<1>6. 1 \in 1 .. Len(f)
  BY <1>1, <1>2
<1>7. Range(g) \cup {h} \subseteq Range(f)
  BY <1>1, <1>2, <1>4, <1>6 DEF Range
<1>8. Range(f) = Range(g) \cup {h}
  BY <1>2, <1>5, <1>7 DEF Range
<1>9. h.kind = "ask" => h \notin Range(g)
  BY <1>1, <1>2, <1>4, <1>6 DEF Range, Once
<1>10. ASSUME NEW i \in 1 .. Len(g), NEW j \in 1 .. Len(g), g[i].kind = "ask", g[i] = g[j]
       PROVE  i = j
  <2>1. i \in 1 .. Len(f) - 1 /\ j \in 1 .. Len(f) - 1 /\ i \in Int /\ j \in Int
    BY <1>1
  <2>2. f[i + 1] = g[i] /\ f[j + 1] = g[j] /\ i + 1 \in 1 .. Len(f) /\ j + 1 \in 1 .. Len(f)
    BY <1>1, <1>4, <2>1
  <2>3. i + 1 = j + 1
    BY <1>10, <2>2 DEF Once
  <2> QED BY <2>1, <2>3
<1>11. Once(g)
  BY <1>10 DEF Once
<1> QED BY <1>1, <1>8, <1>9, <1>11 DEF g, h

(* What the observer hears when its session, or another, has an event.        *)
LEMMA ToldIs ==
  ASSUME BridgeInv, NEW s \in Chats, NEW kind \in {"ask", "end"}, NEW n \in Nat
  PROVE  /\ Told(s, kind, n) \in BridgeWatch
         /\ Told(s, kind, n).on = watch.on /\ Told(s, kind, n).card = watch.card
         /\ Told(s, kind, n).open = watch.open
         /\ ~Watched(s) => Told(s, kind, n) = watch
         /\ Watched(s) => Range(Told(s, kind, n).feed) = Range(watch.feed) \cup {[kind |-> kind, turn |-> n]}
         /\ (kind = "ask" => ~Waits(watch, "ask", n)) => Once(Told(s, kind, n).feed)
<1> DEFINE e == [kind |-> kind, turn |-> n]
           f == Append(watch.feed, e)
<1>1. e \in BridgeEvent /\ e.kind = kind
  BY DEF BridgeEvent
<1>2. Once(watch.feed)
  BY BridgeParts DEF AsksAreNew
<1>3. /\ f \in Seq(BridgeEvent) /\ Range(f) = Range(watch.feed) \cup {e}
      /\ Once(watch.feed) /\ (e.kind = "ask" => e \notin Range(watch.feed)) => Once(f)
  BY <1>1, BridgeParts, FeedAppends
<1>4. (kind = "ask" => ~Waits(watch, "ask", n)) => (e.kind = "ask" => e \notin Range(watch.feed))
  BY <1>1 DEF Waits
<1>5. Told(s, kind, n) = IF ~Watched(s) THEN watch ELSE [watch EXCEPT !.feed = f]
  BY DEF Told
<1> HIDE DEF e, f
<1>6. CASE ~Watched(s)
  BY <1>2, <1>5, <1>6, BridgeParts
<1>7. CASE Watched(s)
  <2>1. Told(s, kind, n) = [watch EXCEPT !.feed = f]
    BY <1>5, <1>7
  <2>2. /\ Told(s, kind, n) \in BridgeWatch /\ Told(s, kind, n).on = watch.on
        /\ Told(s, kind, n).card = watch.card /\ Told(s, kind, n).open = watch.open
        /\ Told(s, kind, n).feed = f
    BY <1>3, <2>1, BridgeParts DEF BridgeWatch
  <2> QED BY <1>2, <1>3, <1>4, <1>7, <2>2 DEF e
<1> QED BY <1>6, <1>7

-----------------------------------------------------------------------------
(* What each part of the invariant is about.                                  *)

(* What the diary knows of turns and requests.                                *)
TurnsStay ==
  /\ diary'.turns = diary.turns /\ diary'.of = diary.of
  /\ diary'.ended = diary.ended /\ diary'.asked = diary.asked
PressesStay ==
  diary'.pressed = diary.pressed /\ diary'.void = diary.void /\ diary'.twice = diary.twice
DebtStays ==
  /\ diary'.owed = diary.owed /\ diary'.used = diary.used
  /\ diary'.seen = diary.seen /\ diary'.lost = diary.lost
WordStays == diary'.told = diary.told /\ diary'.unsaved = diary.unsaved

(* No session gets a turn or a request.                                       *)
ChatsCalm ==
  \A s \in Chats :
    /\ chats'[s].turn = chats[s].turn \/ chats'[s].turn = 0
    /\ chats'[s].ask => chats[s].ask /\ chats'[s].turn = chats[s].turn

LEMMA TurnsKeep ==
  ASSUME BridgeInv, TurnsStay, diary'.owed \subseteq diary.owed, ChatsCalm
  PROVE  TurnsAreNumbered'
<1>1. Len(diary'.of) = diary'.turns
  BY BridgeParts DEF TurnsStay, TurnsAreNumbered
<1>2. diary'.owed \cup diary'.ended \cup diary'.asked \subseteq 1..diary'.turns
  BY BridgeParts DEF TurnsStay, TurnsAreNumbered
<1>3. ASSUME NEW s \in Chats PROVE ChatHolds(chats, diary, s)'
  BY <1>3, BridgeParts DEF TurnsStay, TurnsAreNumbered, ChatHolds, ChatsCalm
<1> QED BY <1>1, <1>2, <1>3 DEF TurnsAreNumbered

(* The sessions of the turns there were stay, and no turn gets younger.       *)
OfStays ==
  \A t \in 1..diary.turns : diary'.of[t] = diary.of[t] /\ (TooOld(t) => TooOld(t)')

LEMMA LaterCounts ==
  ASSUME NEW of \in Seq(Chats), NEW t
  PROVE  LET later == {u \in DOMAIN of : u > t /\ of[u] = of[t]} IN
         IsFiniteSet(later) /\ Cardinality(later) \in Nat
<1> DEFINE later == {u \in DOMAIN of : u > t /\ of[u] = of[t]}
<1>1. DOMAIN of = 1..Len(of) /\ Len(of) \in Nat
  BY LenProperties
<1>2. IsFiniteSet(1..Len(of))
  BY <1>1, FS_Interval
<1>3. later \subseteq 1..Len(of)
  BY <1>1
<1> HIDE DEF later
<1>4. IsFiniteSet(later)
  BY <1>2, <1>3, FS_Subset
<1>5. Cardinality(later) \in Nat
  BY <1>4, FS_CardinalityType
<1> QED BY <1>4, <1>5 DEF later

LEMMA OfGrows ==
  ASSUME BridgeInv, diary'.of \in Seq(Chats), Len(diary'.of) >= diary.turns,
         \A t \in 1..diary.turns : diary'.of[t] = diary.of[t]
  PROVE  OfStays
<1> SUFFICES ASSUME NEW t \in 1..diary.turns, TooOld(t) PROVE TooOld(t)'
  BY DEF OfStays
<1> DEFINE old == {u \in DOMAIN diary.of : u > t /\ diary.of[u] = diary.of[t]}
           new == {u \in DOMAIN diary'.of : u > t /\ diary'.of[u] = diary'.of[t]}
<1>1. DOMAIN diary.of = 1..diary.turns /\ DOMAIN diary'.of = 1..Len(diary'.of)
      /\ diary.turns \in Nat /\ Len(diary'.of) \in Nat
  BY BridgeParts, LenProperties DEF TurnsAreNumbered
<1>2. \A u \in 1..diary.turns : u \in 1..Len(diary'.of)
  BY <1>1
<1>3. old \subseteq new
  BY <1>1, <1>2
<1>4. IsFiniteSet(new) /\ Cardinality(new) \in Nat /\ Cardinality(old) \in Nat
  BY LaterCounts, BridgeParts, ZenonT(40)
<1>5. Later(t) = old /\ Later(t)' = new
  BY DEF Later
<1> HIDE DEF old, new
<1>6. Cardinality(old) <= Cardinality(new)
  BY <1>3, <1>4, FS_Subset
<1>7. Cardinality(old) >= ReplayTurns
  BY <1>5 DEF TooOld
<1>8. Cardinality(new) >= ReplayTurns
  BY <1>4, <1>6, <1>7, ReplayAssumption
<1> QED BY <1>5, <1>8 DEF TooOld

LEMMA OfKept ==
  ASSUME BridgeInv, diary'.of = diary.of
  PROVE  OfStays
<1>1. Len(diary.of) = diary.turns /\ diary.turns \in Nat
  BY BridgeParts DEF TurnsAreNumbered
<1>2. diary.of \in Seq(Chats)
  BY BridgeParts
<1>3. Len(diary'.of) >= diary.turns
  BY <1>1
<1> QED BY <1>2, <1>3, OfGrows

(* The debts when nothing ends and the feed loses no end.                     *)
LEMMA DebtsKeep ==
  ASSUME BridgeInv, diary'.ended = diary.ended, OfStays,
         diary'.owed = diary.owed, diary'.used = diary.used,
         watch'.on = watch.on, watch'.open = watch.open,
         \A t \in Nat : Delivered(t) => Delivered(t)',
         \A t \in Nat : Waits(watch, "end", t) => Waits(watch', "end", t) \/ Delivered(t)'
  PROVE  OwedAreWatched' /\ UsedIsWatched'
<1>1. /\ diary.owed \subseteq 1..diary.turns /\ diary.ended \subseteq 1..diary.turns
      /\ diary.owed \subseteq Nat /\ diary.ended \subseteq Nat
  BY BridgeParts DEF TurnsAreNumbered
<1>2. OwedAreWatched'
  <2>1. ASSUME NEW t \in diary.owed
        PROVE  \/ Delivered(t)'
               \/ /\ diary'.of[t] = watch'.on
                  /\ IF t \in diary'.ended THEN Waits(watch', "end", t) ELSE watch'.open
    <3>1. \/ Delivered(t)
          \/ diary.of[t] = watch.on /\ IF t \in diary.ended THEN Waits(watch, "end", t) ELSE watch.open
      BY <2>1, BridgeParts DEF OwedAreWatched
    <3>2. t \in Nat /\ diary'.of[t] = diary.of[t]
      BY <1>1 DEF OfStays
    <3> QED BY <3>1, <3>2
  <2> QED BY <2>1 DEF OwedAreWatched
<1>3. UsedIsWatched'
  <2> SUFFICES ASSUME diary.used # Nowhere PROVE UsedIsWatched'
    BY DEF UsedIsWatched
  <2>1. Watched(diary.used)'
    BY BridgeParts DEF UsedIsWatched, Watched
  <2>2. ASSUME NEW t \in diary.ended, diary'.of[t] = diary.used
        PROVE  Delivered(t)' \/ Waits(watch', "end", t) \/ TooOld(t)'
    <3>1. t \in Nat /\ diary.of[t] = diary.used /\ (TooOld(t) => TooOld(t)')
      BY <1>1, <2>2 DEF OfStays
    <3>2. Delivered(t) \/ Waits(watch, "end", t) \/ TooOld(t)
      BY <3>1, BridgeParts DEF UsedIsWatched
    <3> QED BY <3>1, <3>2
  <2> QED BY <2>1, <2>2 DEF UsedIsWatched
<1> QED BY <1>2, <1>3

LEMMA DebtsLast ==
  ASSUME DebtStays
  PROVE  \A t \in Nat : Delivered(t) => Delivered(t)'
BY DEF DebtStays, Delivered

(* The debts when the observer goes.                                          *)
LEMMA DebtsDropped ==
  ASSUME BridgeInv, diary'.seen = diary.seen, diary'.lost = diary.lost, diary'.used = Nowhere,
         \A t \in diary'.owed : t \in diary.owed /\ diary.of[t] # watch.on
  PROVE  OwedAreWatched' /\ UsedIsWatched'
BY BridgeParts DEF OwedAreWatched, UsedIsWatched, Delivered

LEMMA SelectionKeeps ==
  ASSUME BridgeInv, UNCHANGED <<line, handler>>, WordStays
  PROVE  SelectionAgrees'
BY BridgeParts DEF SelectionAgrees, WordStays, Unsaved, At

(* A handler that was not saving and does not begin to.                       *)
LEMMA SelectionRests ==
  ASSUME BridgeInv, WordStays, ~At("save"), line'.up = line.up,
         line'.selected = line.selected, line'.saved = line.saved,
         handler'.pc \in {"idle", "route", "select", "ready"}
  PROVE  SelectionAgrees'
BY BridgeParts DEF SelectionAgrees, WordStays, Unsaved, At

LEMMA SubmitKeeps ==
  ASSUME BridgeInv, handler' = handler \/ handler'.pc # "submit",
         watch'.on = watch.on, watch'.open = watch.open,
         Existing(handler.s)' => Existing(handler.s) \/ handler'.pc # "submit"
  PROVE  SubmitIsWatched'
BY BridgeParts DEF SubmitIsWatched, Watched, At, Existing

LEMMA UpKeeps ==
  ASSUME line'.up = TRUE
  PROVE  DownIsQuiet'
BY DEF DownIsQuiet

(* Who has something is up.                                                   *)
LEMMA WhoIsUp ==
  ASSUME BridgeInv,
         \/ ~At("idle") \/ press.pc # "idle" \/ watch.on # Nowhere \/ watch.feed # <<>>
         \/ watch.card # 0 \/ buttons # {}
  PROVE  line.up = TRUE
BY BridgeParts, RestTypes DEF DownIsQuiet

(* A channel that is stopped stays as it is.                                  *)
LEMMA DownKeeps ==
  ASSUME BridgeInv, line'.up = line.up, UNCHANGED <<handler, press, buttons>>,
         watch.on = Nowhere => watch' = watch,
         diary'.owed \subseteq diary.owed, diary'.used \in {diary.used, Nowhere}
  PROVE  DownIsQuiet'
BY BridgeParts, RestTypes DEF DownIsQuiet, At

LEMMA LivesStay ==
  ASSUME PressesStay, press' = press
  PROVE  \A t : Live(t)' <=> Live(t)
BY DEF PressesStay, Live

LEMMA PairsStay ==
  ASSUME BridgeInv, OfStays
  PROVE  \A t \in diary.asked : Pair(t)' = Pair(t)
BY BridgeParts DEF OfStays, Pair, TurnsAreNumbered

(* The requests and their buttons when the feed gets none and no card moves.   *)
LEMMA ButtonsKeep ==
  ASSUME BridgeInv, UNCHANGED <<buttons, shown, press>>, line'.flying = line.flying,
         PressesStay, diary'.asked = diary.asked, OfStays,
         watch'.card = 0 \/ watch'.card = watch.card,
         Once(watch'.feed), \A t \in Nat : Waits(watch', "ask", t) => Waits(watch, "ask", t)
  PROVE  AsksAreNew' /\ PressAgrees' /\ ButtonsAgree'
<1>0. (\A t : Live(t)' <=> Live(t)) /\ \A t \in diary.asked : Pair(t)' = Pair(t)
  BY LivesStay, PairsStay
<1>1. ASSUME NEW t \in Nat, Waits(watch', "ask", t) PROVE Untouched(t)'
  <2>1. Untouched(t)
    BY <1>1, BridgeParts DEF AsksAreNew
  <2>2. t # watch'.card
    <3>1. CASE watch'.card = 0
      <4>1. t \in diary.asked /\ diary.asked \subseteq 1..diary.turns /\ diary.turns \in Nat
        BY <2>1, BridgeParts DEF Untouched, TurnsAreNumbered
      <4> QED BY <3>1, <4>1
    <3>2. CASE watch'.card = watch.card
      BY <2>1, <3>2 DEF Untouched
    <3> QED BY <3>1, <3>2
  <2> QED BY <1>0, <2>1, <2>2 DEF Untouched
<1>2. AsksAreNew'
  BY <1>1 DEF AsksAreNew
<1>3. PressAgrees'
  BY BridgeParts DEF PressAgrees, PressesStay
<1>4. watch'.card # 0 => watch'.card \in diary.asked
  BY BridgeParts DEF ButtonsAgree
<1>5. \A t \in line.flying : Live(t)' => Pair(t)' \subseteq buttons
  BY <1>0, BridgeParts DEF ButtonsAgree
<1>6. \A b \in shown : Live(b.turn)' => b \in buttons
  BY <1>0, BridgeParts DEF ButtonsAgree
<1>7. ButtonsAgree'
  BY <1>4, <1>5, <1>6, BridgeParts DEF ButtonsAgree, PressesStay
<1> QED BY <1>2, <1>3, <1>7

(* A step that leaves the observer alone, and what it sends.                  *)
LEMMA ObserverRests ==
  ASSUME BridgeInv, UNCHANGED <<watch, buttons, shown, press>>, line'.flying = line.flying,
         PressesStay, DebtStays, diary'.ended = diary.ended, diary'.asked = diary.asked, OfStays
  PROVE  OwedAreWatched' /\ UsedIsWatched' /\ AsksAreNew' /\ PressAgrees' /\ ButtonsAgree'
<1>1. OwedAreWatched' /\ UsedIsWatched'
  BY DebtsLast, DebtsKeep DEF DebtStays
<1>2. Once(watch.feed)
  BY BridgeParts DEF AsksAreNew
<1>3. Once(watch'.feed)
  BY <1>2
<1>4. AsksAreNew' /\ PressAgrees' /\ ButtonsAgree'
  BY <1>3, ButtonsKeep
<1> QED BY <1>1, <1>4

(* A step of the handler that touches neither the observer nor a request.     *)
LEMMA HandlerStep ==
  ASSUME BridgeInv, BridgeTypes', UNCHANGED <<watch, buttons, shown, press>>,
         PressesStay, DebtStays, TurnsStay, ChatsCalm, line.up = TRUE, line'.up = line.up,
         line'.flying = line.flying, SelectionAgrees', SubmitIsWatched'
  PROVE  BridgeInv'
<1>1. TurnsAreNumbered'
  BY TurnsKeep DEF DebtStays
<1>2. OwedAreWatched' /\ UsedIsWatched' /\ AsksAreNew' /\ PressAgrees' /\ ButtonsAgree'
  BY OfKept, ObserverRests DEF TurnsStay
<1>3. DownIsQuiet'
  BY UpKeeps
<1> QED BY <1>1, <1>2, <1>3 DEF BridgeInv

(* The diary keeps what a step leaves alone.                                  *)
LEMMA DiaryRests ==
  ASSUME UNCHANGED diary
  PROVE  PressesStay /\ DebtStays /\ TurnsStay /\ WordStays
BY DEF PressesStay, DebtStays, TurnsStay, WordStays

LEMMA HandlerMoves ==
  ASSUME BridgeInv, NEW p \in HandlerSteps, Step(p)
  PROVE  handler' \in BridgeHandler /\ handler'.pc = p /\ handler'.s = handler.s
BY BridgeParts DEF Step, BridgeHandler

(* Steps of the handler that only say what it does next.                      *)
LEMMA RouteStep ==
  ASSUME BridgeInv, UNCHANGED <<line, watch, buttons, shown, press, diary>>, ChatsCalm,
         chats' \in [Chats -> BridgeChat], handler' \in BridgeHandler, ~At("save"),
         line.up = TRUE, handler'.pc \in {"idle", "route", "select", "ready"}
  PROVE  BridgeInv'
<1>1. PressesStay /\ DebtStays /\ TurnsStay /\ WordStays
  BY DiaryRests
<1>2. BridgeTypes'
  BY BridgeParts DEF BridgeTypes
<1>3. SelectionAgrees'
  BY <1>1, SelectionRests
<1>4. SubmitIsWatched'
  BY DEF SubmitIsWatched, At
<1> QED BY <1>1, <1>2, <1>3, <1>4, HandlerStep

LEMMA ReceiveHolds == ASSUME BridgeInv, ReceiveMessage PROVE BridgeInv'
<1>1. PICK what \in {"prompt", "new", "cancel", "resume", "allow"} \cup Chats : Receive(what)
  BY DEF ReceiveMessage
<1> DEFINE n == diary.inputs + 1
<1>2. n \in Nat
  BY BridgeParts DEF BridgeDiary
<1>3. diary' = [diary EXCEPT !.inputs = n]
  BY <1>1 DEF Receive
<1> HIDE DEF n
<1>4. diary' \in BridgeDiary /\ PressesStay /\ DebtStays /\ TurnsStay /\ WordStays
  BY <1>2, <1>3, BridgeParts DEF BridgeDiary, PressesStay, DebtStays, TurnsStay, WordStays
<1>5. handler' \in BridgeHandler /\ handler'.pc = "route" /\ line.up = TRUE /\ ~At("save")
  <2>1. handler' = [[NoHandler EXCEPT !.pc = "route"] EXCEPT !.what = what]
    BY <1>1, RestTypes DEF Receive, BridgeHandler
  <2>2. what \in Places \cup {"prompt", "new", "cancel", "resume", "allow"}
    BY DEF Places
  <2>3. handler' \in BridgeHandler /\ handler'.pc = "route"
    BY <2>1, <2>2, RestTypes DEF BridgeHandler, HandlerSteps
  <2>4. line.up = TRUE /\ ~At("save")
    BY <1>1, BridgeParts DEF Receive, At
  <2> QED BY <2>3, <2>4
<1>6. UNCHANGED <<line, chats, watch, buttons, shown, press>>
  BY DEF ReceiveMessage
<1>7. BridgeTypes' /\ ChatsCalm
  BY <1>4, <1>5, <1>6, BridgeParts DEF BridgeTypes, ChatsCalm
<1>8. SelectionAgrees' /\ SubmitIsWatched'
  BY <1>4, <1>5, <1>6, SelectionRests DEF SubmitIsWatched, At
<1> QED BY <1>4, <1>5, <1>6, <1>7, <1>8, HandlerStep

LEMMA MakeHolds == ASSUME BridgeInv, MakeSession PROVE BridgeInv'
<1>1. PICK s \in Chats : /\ chats' = [chats EXCEPT ![s].made = TRUE]
                         /\ handler' = [handler EXCEPT !.pc = "select", !.s = s]
  BY DEF MakeSession
<1>2. At("route") /\ UNCHANGED <<line, watch, buttons, shown, press, diary>>
  BY DEF MakeSession
<1>3. handler' \in BridgeHandler /\ handler'.pc = "select"
  BY <1>1, BridgeParts DEF BridgeHandler, HandlerSteps, Places
<1>4. chats' \in [Chats -> BridgeChat] /\ ChatsCalm
  BY <1>1, BridgeParts DEF BridgeChat, ChatsCalm
<1>5. line.up = TRUE /\ ~At("save")
  BY <1>2, WhoIsUp DEF At
<1> QED BY <1>2, <1>3, <1>4, <1>5, RouteStep

LEMMA RoutesHold ==
  ASSUME BridgeInv, PromptSelected \/ UseChat \/ ResumeChat
  PROVE  BridgeInv'
<1>1. /\ At("route") /\ UNCHANGED <<line, chats, watch, buttons, shown, press, diary>>
      /\ \/ handler' = NoHandler
         \/ \E s \in Places, p \in {"select", "ready"} : handler' = [handler EXCEPT !.pc = p, !.s = s]
  <2>1. CASE PromptSelected
    BY <2>1, BridgeParts, ZenonT(40) DEF PromptSelected, Selected
  <2>2. CASE UseChat
    BY <2>2, BridgeParts DEF UseChat, Places, Done
  <2>3. CASE ResumeChat
    BY <2>3, BridgeParts, ZenonT(40) DEF ResumeChat, Selected
  <2> QED BY <2>1, <2>2, <2>3
<1>2. handler' \in BridgeHandler /\ handler'.pc \in {"idle", "route", "select", "ready"}
  <2>1. CASE handler' = NoHandler
    BY <2>1, RestTypes
  <2>2. ASSUME NEW s \in Places, NEW p \in {"select", "ready"}, handler' = [handler EXCEPT !.pc = p, !.s = s]
        PROVE  handler' \in BridgeHandler /\ handler'.pc \in {"idle", "route", "select", "ready"}
    BY <2>2, BridgeParts DEF BridgeHandler, HandlerSteps
  <2> QED BY <1>1, <2>1, <2>2
<1>3. chats' \in [Chats -> BridgeChat] /\ ChatsCalm
  BY <1>1, BridgeParts DEF ChatsCalm
<1>4. line.up = TRUE /\ ~At("save")
  BY <1>1, WhoIsUp DEF At
<1> QED BY <1>1, <1>2, <1>3, <1>4, RouteStep, ZenonT(40)

(* A decision of a request leaves the turn to run on.                         *)
LEMMA DecideIs ==
  ASSUME BridgeInv, NEW s \in Chats, Decide(s) \/ UNCHANGED chats
  PROVE  chats' \in [Chats -> BridgeChat] /\ ChatsCalm
<1>1. CASE UNCHANGED chats
  BY <1>1, BridgeParts DEF ChatsCalm
<1>2. CASE Decide(s)
  <2> DEFINE c == [chats[s] EXCEPT !.ask = FALSE]
  <2>1. c \in BridgeChat /\ c.turn = chats[s].turn /\ c.ask = FALSE
    BY BridgeParts DEF BridgeChat
  <2>2. chats' = [chats EXCEPT ![s] = c]
    BY <1>2, BridgeParts DEF Decide
  <2> HIDE DEF c
  <2>3. chats' \in [Chats -> BridgeChat] /\ chats'[s] = c /\ \A u \in Chats : u # s => chats'[u] = chats[u]
    BY <2>1, <2>2, BridgeParts
  <2>4. ASSUME NEW u \in Chats
        PROVE  /\ chats'[u].turn = chats[u].turn \/ chats'[u].turn = 0
               /\ chats'[u].ask => chats[u].ask /\ chats'[u].turn = chats[u].turn
    BY <2>1, <2>3
  <2> QED BY <2>3, <2>4 DEF ChatsCalm
<1> QED BY <1>1, <1>2

LEMMA AllowHolds == ASSUME BridgeInv, AllowByCommand PROVE BridgeInv'
<1>1. At("route") /\ handler' = NoHandler /\ UNCHANGED <<line, watch, buttons, shown, press, diary>>
  BY DEF AllowByCommand, Done
<1>2. chats' \in [Chats -> BridgeChat] /\ ChatsCalm
  <2>1. CASE PermissionRequested(Selected)
    BY <2>1, DecideIs DEF AllowByCommand, PermissionRequested, Existing
  <2>2. CASE ~PermissionRequested(Selected)
    BY <2>2, BridgeParts DEF AllowByCommand, ChatsCalm
  <2> QED BY <2>1, <2>2
<1>3. line.up = TRUE /\ ~At("save")
  BY <1>1, WhoIsUp DEF At
<1> QED BY <1>1, <1>2, <1>3, RestTypes, RouteStep

LEMMA SelectHolds == ASSUME BridgeInv, SelectChat PROVE BridgeInv'
<1> DEFINE told == IF diary.told = handler.s THEN diary.told ELSE Nowhere
<1>1. /\ At("select") /\ line' = [line EXCEPT !.selected = handler.s] /\ Step("save")
      /\ diary' = [diary EXCEPT !.told = told] /\ UNCHANGED <<chats, watch, buttons, shown, press>>
  BY DEF SelectChat
<1>2. told \in {Nowhere, handler.s} /\ told \in {Nowhere, diary.told} /\ told \in Places
  BY BridgeParts DEF Places
<1> HIDE DEF told
<1>3. /\ diary' \in BridgeDiary /\ PressesStay /\ DebtStays /\ TurnsStay
      /\ diary'.told = told /\ diary'.unsaved = diary.unsaved
  BY <1>1, <1>2, BridgeParts DEF BridgeDiary, PressesStay, DebtStays, TurnsStay
<1>4. handler' \in BridgeHandler /\ handler'.pc = "save" /\ handler'.s = handler.s
  BY <1>1, HandlerMoves DEF HandlerSteps
<1>5. line' \in BridgeLine /\ line'.up = line.up /\ line'.selected = handler.s /\ line'.saved = line.saved
      /\ line'.flying = line.flying
  BY <1>1, BridgeParts DEF BridgeLine
<1>6. line.up = TRUE
  BY <1>1, WhoIsUp DEF At
<1>7. BridgeTypes' /\ ChatsCalm /\ SubmitIsWatched'
  BY <1>1, <1>3, <1>4, <1>5, BridgeParts DEF BridgeTypes, ChatsCalm, SubmitIsWatched, At
<1>8. SelectionAgrees'
  BY <1>2, <1>3, <1>4, <1>5, BridgeParts DEF SelectionAgrees, Unsaved, At
<1> QED BY <1>1, <1>3, <1>5, <1>6, <1>7, <1>8, HandlerStep

LEMMA SaveHolds == ASSUME BridgeInv, SaveState PROVE BridgeInv'
<1>1. /\ At("save") /\ line' = [line EXCEPT !.saved = handler.s] /\ Step("observe")
      /\ UNCHANGED <<chats, watch, buttons, shown, press, diary>>
  BY DEF SaveState
<1>2. PressesStay /\ DebtStays /\ TurnsStay /\ WordStays
  BY <1>1, DiaryRests
<1>3. handler' \in BridgeHandler /\ handler'.pc = "observe" /\ handler'.s = handler.s
  BY <1>1, HandlerMoves DEF HandlerSteps
<1>4. line' \in BridgeLine /\ line'.up = line.up /\ line'.saved = handler.s /\ line'.selected = line.selected
      /\ line'.flying = line.flying
  BY <1>1, BridgeParts DEF BridgeLine
<1>5. line.up = TRUE
  BY <1>1, WhoIsUp DEF At
<1>6. BridgeTypes' /\ ChatsCalm /\ SubmitIsWatched'
  BY <1>1, <1>3, <1>4, BridgeParts DEF BridgeTypes, ChatsCalm, SubmitIsWatched, At
<1>7. SelectionAgrees'
  BY <1>1, <1>2, <1>3, <1>4, BridgeParts DEF SelectionAgrees, WordStays, Unsaved, At
<1> QED BY <1>1, <1>2, <1>4, <1>5, <1>6, <1>7, HandlerStep

LEMMA SaveFailsHolds == ASSUME BridgeInv, SaveStateFails PROVE BridgeInv'
<1>1. /\ At("save") /\ handler' = NoHandler /\ diary' = [Broken EXCEPT !.unsaved = TRUE]
      /\ UNCHANGED <<line, chats, watch, buttons, shown, press>>
  BY DEF SaveStateFails, Done
<1>2. /\ diary' \in BridgeDiary /\ PressesStay /\ DebtStays /\ TurnsStay
      /\ diary'.told = diary.told /\ diary'.unsaved = TRUE
  BY <1>1, BrokenIs DEF BridgeDiary, PressesStay, DebtStays, TurnsStay
<1>3. line.up = TRUE
  BY <1>1, WhoIsUp DEF At
<1>4. BridgeTypes' /\ ChatsCalm /\ SubmitIsWatched'
  BY <1>1, <1>2, RestTypes, BridgeParts DEF BridgeTypes, ChatsCalm, SubmitIsWatched, At
<1>5. SelectionAgrees'
  BY <1>1, <1>2, RestTypes DEF SelectionAgrees, Unsaved, At
<1> QED BY <1>1, <1>2, <1>3, <1>4, <1>5, HandlerStep

(* A turn belongs to a session there may be.                                  *)
LEMMA TurnsAreOf ==
  ASSUME BridgeInv, NEW t \in 1..diary.turns
  PROVE  diary.of[t] \in Chats /\ diary.of[t] # Nowhere
BY BridgeParts, ElementOfSeq, ChatsAssumption DEF TurnsAreNumbered

(* The observer stays, or goes with what it owed.                             *)
LEMMA ObserveStep ==
  ASSUME BridgeInv, UNCHANGED <<line, chats, buttons, shown, press>>, watch' \in BridgeWatch,
         \/ watch' = watch /\ diary' = diary
         \/ watch'.feed = <<>> /\ watch'.card = 0 /\ diary' = StopWatching
  PROVE  /\ diary' \in BridgeDiary /\ WordStays
         /\ TurnsAreNumbered' /\ OwedAreWatched' /\ UsedIsWatched' /\ AsksAreNew' /\ PressAgrees' /\ ButtonsAgree'
<1>1. ChatsCalm
  BY BridgeParts DEF ChatsCalm
<1>2. CASE watch' = watch /\ diary' = diary
  <2>1. diary' \in BridgeDiary /\ WordStays /\ PressesStay /\ DebtStays /\ TurnsStay
    BY <1>2, DiaryRests, BridgeParts
  <2>2. TurnsAreNumbered'
    BY <1>1, <2>1, TurnsKeep DEF DebtStays
  <2> QED BY <1>2, <2>1, <2>2, OfKept, ObserverRests DEF TurnsStay
<1>3. CASE watch'.feed = <<>> /\ watch'.card = 0 /\ diary' = StopWatching
  <2> DEFINE owed == IF watch.on = Nowhere THEN diary.owed ELSE Excused(watch.on)
  <2>1. diary' = [diary EXCEPT !.owed = owed, !.used = Nowhere]
    BY <1>3 DEF StopWatching
  <2>2. diary.owed \subseteq 1..diary.turns
    BY BridgeParts DEF TurnsAreNumbered
  <2>3. owed \subseteq diary.owed /\ \A t \in owed : diary.of[t] # watch.on
    BY <2>2, ExcusedAre, TurnsAreOf
  <2>4. owed \in SUBSET Nat
    BY <2>3, BridgeParts
  <2> HIDE DEF owed
  <2>5. diary' \in BridgeDiary /\ WordStays /\ PressesStay /\ TurnsStay
        /\ diary'.owed = owed /\ diary'.used = Nowhere
        /\ diary'.seen = diary.seen /\ diary'.lost = diary.lost
    BY <2>1, <2>4, BridgeParts DEF BridgeDiary, WordStays, PressesStay, TurnsStay, Places
  <2>6. TurnsAreNumbered'
    BY <1>1, <2>3, <2>5, TurnsKeep
  <2>7. OwedAreWatched' /\ UsedIsWatched'
    BY <2>3, <2>5, DebtsDropped
  <2>8. Once(watch'.feed) /\ \A t \in Nat : ~Waits(watch', "ask", t)
    BY <1>3, FeedEmpty
  <2>9. AsksAreNew' /\ PressAgrees' /\ ButtonsAgree'
    BY <1>3, <2>5, <2>8, OfKept, ButtonsKeep DEF TurnsStay
  <2> QED BY <2>5, <2>6, <2>7, <2>9
<1> QED BY <1>2, <1>3

LEMMA ObserveHolds == ASSUME BridgeInv, ObserveSelected PROVE BridgeInv'
<1>1. At("observe") /\ UNCHANGED <<line, chats, buttons, shown, press>>
  BY DEF ObserveSelected
<1>2. line.up = TRUE
  BY <1>1, WhoIsUp DEF At
<1>3. /\ watch' \in BridgeWatch
      /\ \/ watch' = watch /\ diary' = diary
         \/ watch'.feed = <<>> /\ watch'.card = 0 /\ diary' = StopWatching
      /\ handler' = NoHandler \/ \E p \in {"ready", "replay"} : Step(p)
  <2>1. CASE Existing(handler.s)
    <3>1. Observe(handler.s) /\ Step(IF handler.what = "prompt" THEN "ready" ELSE "replay")
          /\ diary' = IF watch.on = handler.s THEN diary ELSE StopWatching
      BY <2>1 DEF ObserveSelected
    <3> QED BY <3>1, NewWatch, BridgeParts DEF Observe
  <2>2. CASE ~Existing(handler.s)
    <3>1. watch' = NoWatch /\ Done /\ diary' = StopWatching
      BY <2>2 DEF ObserveSelected
    <3> QED BY <3>1, RestTypes DEF Done
  <2> QED BY <2>1, <2>2
<1>4. handler' \in BridgeHandler /\ handler'.pc \in {"idle", "ready", "replay"}
      /\ (handler'.pc = "replay" => handler'.s = handler.s)
  BY <1>3, RestTypes, HandlerMoves DEF HandlerSteps
<1>5. /\ diary' \in BridgeDiary /\ WordStays
      /\ TurnsAreNumbered' /\ OwedAreWatched' /\ UsedIsWatched' /\ AsksAreNew' /\ PressAgrees' /\ ButtonsAgree'
  BY <1>1, <1>3, ObserveStep
<1>6. BridgeTypes' /\ SubmitIsWatched' /\ DownIsQuiet'
  BY <1>1, <1>2, <1>3, <1>4, <1>5, UpKeeps, BridgeParts DEF BridgeTypes, SubmitIsWatched, At
<1>7. SelectionAgrees'
  BY <1>1, <1>4, <1>5, BridgeParts DEF SelectionAgrees, WordStays, Unsaved, At
<1> QED BY <1>5, <1>6, <1>7 DEF BridgeInv

LEMMA SubmitObserveHolds == ASSUME BridgeInv, SubmitObserve PROVE BridgeInv'
<1>1. At("ready") /\ UNCHANGED <<line, chats, buttons, shown, press>>
  BY DEF SubmitObserve
<1>2. line.up = TRUE
  BY <1>1, WhoIsUp DEF At
<1>3. /\ watch' \in BridgeWatch
      /\ \/ watch' = watch /\ diary' = diary
         \/ watch'.feed = <<>> /\ watch'.card = 0 /\ diary' = StopWatching
      /\ \/ handler' = NoHandler
         \/ \E p \in {"excused", "submit"} :
              /\ handler' = [handler EXCEPT !.pc = p, !.s = line.selected]
              /\ p = "submit" => watch'.on = line.selected /\ watch'.open
  <2>1. CASE Existing(Selected)
    <3>1. /\ watch' = (IF watch.on = line.selected THEN watch ELSE Watching(line.selected))
          /\ handler' = [handler EXCEPT !.s = line.selected,
               !.pc = IF watch.on = line.selected /\ ~watch.open THEN "excused" ELSE "submit"]
          /\ diary' = IF watch.on = line.selected THEN diary ELSE StopWatching
      BY <2>1 DEF SubmitObserve, Observe, Selected
    <3>2. CASE watch.on = line.selected /\ ~watch.open
      BY <3>1, <3>2, BridgeParts
    <3>3. CASE watch.on = line.selected /\ watch.open
      BY <3>1, <3>3, BridgeParts
    <3>4. CASE watch.on # line.selected
      <4>1. /\ Watching(line.selected) \in BridgeWatch /\ Watching(line.selected).on = line.selected
            /\ Watching(line.selected).open /\ Watching(line.selected).feed = <<>>
            /\ Watching(line.selected).card = 0
        BY NewWatch, BridgeParts
      <4>2. /\ watch' = Watching(line.selected) /\ diary' = StopWatching
            /\ handler' = [handler EXCEPT !.pc = "submit", !.s = line.selected]
        BY <3>1, <3>4
      <4> QED BY <4>1, <4>2
    <3> QED BY <3>2, <3>3, <3>4
  <2>2. CASE ~Existing(Selected)
    <3>1. watch' = NoWatch /\ Done /\ diary' = StopWatching
      BY <2>2 DEF SubmitObserve
    <3> QED BY <3>1, RestTypes DEF Done
  <2> QED BY <2>1, <2>2
<1>4. handler' \in BridgeHandler /\ handler'.pc \in {"idle", "submit", "excused"}
      /\ (handler'.pc \in {"submit", "excused"} => handler'.s = line.selected)
      /\ (handler'.pc = "submit" => watch'.on = line.selected /\ watch'.open)
  <2>1. CASE handler' = NoHandler
    BY <2>1, RestTypes
  <2>2. ASSUME NEW p \in {"excused", "submit"}, handler' = [handler EXCEPT !.pc = p, !.s = line.selected]
        PROVE  handler' \in BridgeHandler /\ handler'.pc = p /\ handler'.s = line.selected
    BY <2>2, BridgeParts DEF BridgeHandler, HandlerSteps
  <2> QED BY <1>3, <2>1, <2>2
<1>5. /\ diary' \in BridgeDiary /\ WordStays
      /\ TurnsAreNumbered' /\ OwedAreWatched' /\ UsedIsWatched' /\ AsksAreNew' /\ PressAgrees' /\ ButtonsAgree'
  BY <1>1, <1>3, ObserveStep
<1>6. BridgeTypes' /\ DownIsQuiet'
  BY <1>1, <1>2, <1>3, <1>4, <1>5, UpKeeps, BridgeParts DEF BridgeTypes
<1>7. SubmitIsWatched'
  BY <1>4 DEF SubmitIsWatched, Watched, At
<1>8. SelectionAgrees'
  BY <1>1, <1>4, <1>5, BridgeParts DEF SelectionAgrees, WordStays, Unsaved, At
<1> QED BY <1>5, <1>6, <1>7, <1>8 DEF BridgeInv

(* What the reply of /use sends leaves no gap, but for what is too old.       *)
LEMMA ReplyHolds == ASSUME BridgeInv, ReplySelected PROVE BridgeInv'
<1>1. At("replay") /\ handler' = NoHandler /\ UNCHANGED <<line, chats, watch, buttons, shown, press>>
  BY DEF ReplySelected, Done
<1>2. line.up = TRUE /\ ~At("save") /\ ChatsCalm
  BY <1>1, WhoIsUp, BridgeParts DEF At, ChatsCalm
<1>3. \/ diary' = diary
      \/ diary' = Broken
      \/ \E seen \in SUBSET Nat, used \in Places :
           /\ diary' = [diary EXCEPT !.told = handler.s, !.used = used, !.seen = seen]
           /\ diary.seen \subseteq seen
           /\ \/ used = diary.used
              \/ /\ used = handler.s /\ Watched(handler.s)
                 /\ \A t \in diary.ended : diary.of[t] = handler.s => t \in seen \/ TooOld(t)
  <2>1. CASE diary' = [diary EXCEPT !.told = handler.s]
    BY <2>1, BridgeParts DEF BridgeDiary
  <2>2. CASE diary' = [diary EXCEPT !.told = handler.s,
                         !.used = IF Watched(handler.s) THEN handler.s ELSE @,
                         !.seen = @ \cup Replayed(handler.s)]
    <3> DEFINE seen == diary.seen \cup Replayed(handler.s)
               used == IF Watched(handler.s) THEN handler.s ELSE diary.used
    <3>1. diary' = [diary EXCEPT !.told = handler.s, !.used = used, !.seen = seen]
      BY <2>2
    <3>2. Replayed(handler.s) \subseteq Nat
      BY BridgeParts DEF Replayed
    <3>3. seen \in SUBSET Nat /\ diary.seen \subseteq seen
      BY <3>2, BridgeParts
    <3>4. used \in Places
      BY BridgeParts
    <3>5. ASSUME NEW t \in diary.ended, diary.of[t] = handler.s PROVE t \in seen \/ TooOld(t)
      <4>1. Cardinality(Later(t)) \in Nat
        BY LaterCounts, BridgeParts DEF Later
      <4>2. CASE Cardinality(Later(t)) < ReplayTurns
        BY <3>5, <4>2 DEF Replayed
      <4>3. CASE ~(Cardinality(Later(t)) < ReplayTurns)
        BY <4>1, <4>3, ReplayAssumption DEF TooOld
      <4> QED BY <4>2, <4>3
    <3>6. used = diary.used \/ (used = handler.s /\ Watched(handler.s))
      OBVIOUS
    <3> HIDE DEF seen, used
    <3> QED BY <3>1, <3>3, <3>4, <3>5, <3>6
  <2> QED BY <2>1, <2>2 DEF ReplySelected
<1>4. CASE diary' = diary
  BY <1>1, <1>2, <1>4, RestTypes, RouteStep, BridgeParts
<1>5. CASE diary' = Broken
  <2>1. diary' \in BridgeDiary /\ PressesStay /\ DebtStays /\ TurnsStay /\ WordStays
    BY <1>5, BrokenIs DEF PressesStay, DebtStays, TurnsStay, WordStays
  <2>2. BridgeTypes' /\ SubmitIsWatched'
    BY <1>1, <2>1, RestTypes, BridgeParts DEF BridgeTypes, SubmitIsWatched, At
  <2>3. SelectionAgrees'
    BY <1>1, <1>2, <2>1, RestTypes, SelectionRests
  <2> QED BY <1>1, <1>2, <2>1, <2>2, <2>3, HandlerStep
<1>6. ASSUME NEW seen \in SUBSET Nat, NEW used \in Places,
             diary' = [diary EXCEPT !.told = handler.s, !.used = used, !.seen = seen],
             diary.seen \subseteq seen,
             \/ used = diary.used
             \/ /\ used = handler.s /\ Watched(handler.s)
                /\ \A t \in diary.ended : diary.of[t] = handler.s => t \in seen \/ TooOld(t)
      PROVE  BridgeInv'
  <2>1. /\ diary' \in BridgeDiary /\ PressesStay /\ TurnsStay /\ diary'.owed = diary.owed
        /\ diary'.told = handler.s /\ diary'.unsaved = diary.unsaved
        /\ diary'.used = used /\ diary'.seen = seen /\ diary'.lost = diary.lost
    BY <1>6, BridgeParts DEF BridgeDiary, PressesStay, TurnsStay
  <2>2. TurnsAreNumbered' /\ OfStays
    BY <1>2, <2>1, TurnsKeep, OfKept DEF TurnsStay
  <2>3. \A t \in Nat : Delivered(t) => Delivered(t)'
    BY <1>6, <2>1 DEF Delivered
  <2>4. diary.owed \subseteq Nat /\ diary.ended \subseteq Nat /\ diary.ended \subseteq 1..diary.turns
    BY BridgeParts DEF TurnsAreNumbered
  <2>5. OwedAreWatched'
    <3>1. ASSUME NEW t \in diary.owed
          PROVE  \/ Delivered(t)'
                 \/ /\ diary.of[t] = watch.on
                    /\ IF t \in diary.ended THEN Waits(watch, "end", t) ELSE watch.open
      BY <2>3, <2>4, BridgeParts DEF OwedAreWatched
    <3> QED BY <1>1, <2>1, <3>1 DEF OwedAreWatched, TurnsStay
  <2>6. UsedIsWatched'
    <3> SUFFICES ASSUME used # Nowhere PROVE UsedIsWatched'
      BY <2>1 DEF UsedIsWatched
    <3>1. \A t \in diary.ended : TooOld(t) => TooOld(t)'
      BY <2>2, <2>4 DEF OfStays
    <3>2. CASE used = diary.used
      <4>1. Watched(used)'
        BY <1>1, <3>2, BridgeParts DEF UsedIsWatched, Watched
      <4>2. ASSUME NEW t \in diary.ended, diary.of[t] = used
            PROVE  Delivered(t)' \/ Waits(watch, "end", t) \/ TooOld(t)'
        BY <2>3, <2>4, <3>1, <3>2, <4>2, BridgeParts DEF UsedIsWatched
      <4> QED BY <1>1, <2>1, <4>1, <4>2 DEF UsedIsWatched, TurnsStay
    <3>3. CASE /\ used = handler.s /\ Watched(handler.s)
               /\ \A t \in diary.ended : diary.of[t] = handler.s => t \in seen \/ TooOld(t)
      <4>1. Watched(used)'
        BY <1>1, <3>3 DEF Watched
      <4>2. ASSUME NEW t \in diary.ended, diary.of[t] = used
            PROVE  Delivered(t)' \/ TooOld(t)'
        BY <2>1, <3>1, <3>3, <4>2 DEF Delivered
      <4> QED BY <1>1, <2>1, <4>1, <4>2 DEF UsedIsWatched, TurnsStay
    <3> QED BY <1>6, <3>2, <3>3
  <2>7. Once(watch'.feed)
    BY <1>1, BridgeParts DEF AsksAreNew
  <2>8. AsksAreNew' /\ PressAgrees' /\ ButtonsAgree'
    BY <1>1, <2>1, <2>2, <2>7, ButtonsKeep DEF TurnsStay
  <2>9. BridgeTypes' /\ SubmitIsWatched' /\ DownIsQuiet'
    BY <1>1, <1>2, <2>1, RestTypes, UpKeeps, BridgeParts DEF BridgeTypes, SubmitIsWatched, At
  <2>10. SelectionAgrees'
    BY <1>1, <2>1, RestTypes, BridgeParts DEF SelectionAgrees, Unsaved, At
  <2> QED BY <2>2, <2>5, <2>6, <2>8, <2>9, <2>10 DEF BridgeInv
<1> QED BY <1>3, <1>4, <1>5, <1>6

(* A turn begins, or a prompt joins the one that runs.                        *)
LEMMA BegunHolds ==
  ASSUME BridgeInv, NEW s \in Chats, NEW n \in Nat,
         n = IF chats[s].turn = 0 THEN diary.turns + 1 ELSE chats[s].turn,
         chats' = [chats EXCEPT ![s].turn = n],
         diary'.turns = IF n > diary.turns THEN n ELSE diary.turns,
         diary'.of = IF n > Len(diary.of) THEN Append(diary.of, s) ELSE diary.of,
         diary'.ended = diary.ended, diary'.asked = diary.asked, diary'.owed \subseteq diary.owed \cup {n}
  PROVE  /\ chats' \in [Chats -> BridgeChat] /\ TurnsAreNumbered'
         /\ diary'.turns \in Nat /\ diary'.of \in Seq(Chats)
         /\ n \notin diary.ended /\ diary'.of[n] = s /\ OfStays
<1>1. /\ diary'.turns \in Nat /\ diary'.of \in Seq(Chats) /\ Len(diary'.of) = diary'.turns
      /\ diary'.turns >= diary.turns /\ n \in 1..diary'.turns /\ diary'.of[n] = s
      /\ n \notin diary.ended /\ n # 0
      /\ \A t \in 1..diary.turns : diary'.of[t] = diary.of[t]
  <2> DEFINE turns == diary'.turns
             of == diary'.of
  <2>1. turns = (IF n > diary.turns THEN n ELSE diary.turns)
        /\ of = (IF n > Len(diary.of) THEN Append(diary.of, s) ELSE diary.of)
    OBVIOUS
  <2>2. diary.turns \in Nat /\ Len(diary.of) = diary.turns /\ diary.of \in Seq(Chats)
        /\ diary.ended \subseteq 1..diary.turns /\ ChatHolds(chats, diary, s) /\ chats[s].turn \in Nat
    BY BridgeParts DEF TurnsAreNumbered
  <2> HIDE DEF turns, of
  <2>3. CASE chats[s].turn = 0
    <3>1. n = diary.turns + 1 /\ n > diary.turns /\ n \notin diary.ended /\ n > Len(diary.of)
      BY <2>2, <2>3
    <3>2. turns = n /\ of = Append(diary.of, s)
      BY <2>1, <3>1
    <3>3. /\ of \in Seq(Chats) /\ Len(of) = n /\ of[n] = s
          /\ \A t \in 1..diary.turns : of[t] = diary.of[t]
      BY <2>2, <3>1, <3>2, AppendProperties
    <3>4. n \in 1..n /\ n # 0 /\ n >= diary.turns
      BY <2>2, <3>1
    <3> QED BY <3>1, <3>2, <3>3, <3>4 DEF turns, of
  <2>4. CASE chats[s].turn # 0
    <3>1. n = chats[s].turn /\ n \in 1..diary.turns /\ diary.of[n] = s /\ n \notin diary.ended
      BY <2>2, <2>4 DEF ChatHolds
    <3>2. ~(n > diary.turns) /\ ~(n > Len(diary.of)) /\ n # 0 /\ diary.turns >= diary.turns
      BY <2>2, <3>1
    <3>3. turns = diary.turns /\ of = diary.of
      BY <2>1, <3>2
    <3> QED BY <2>2, <3>1, <3>2, <3>3 DEF turns, of
  <2> QED BY <2>3, <2>4
<1>2. diary.turns \in Nat /\ 1..diary.turns \subseteq 1..diary'.turns
  BY <1>1, BridgeParts
<1> DEFINE c == [chats[s] EXCEPT !.turn = n]
<1>3. c \in BridgeChat /\ c.turn = n /\ c.ask = chats[s].ask
  BY BridgeParts DEF BridgeChat
<1>4. chats' = [chats EXCEPT ![s] = c]
  BY BridgeParts
<1> HIDE DEF c
<1>5. chats' \in [Chats -> BridgeChat] /\ chats'[s] = c /\ \A u \in Chats : u # s => chats'[u] = chats[u]
  BY <1>3, <1>4, BridgeParts
<1>6. ASSUME NEW u \in Chats PROVE ChatHolds(chats, diary, u)'
  <2>1. CASE u = s
    BY <1>1, <1>3, <1>5, <2>1 DEF ChatHolds
  <2>2. CASE u # s
    <3>1. ChatHolds(chats, diary, u) /\ chats'[u] = chats[u]
      BY <1>5, <2>2, BridgeParts DEF TurnsAreNumbered
    <3> QED BY <1>1, <1>2, <3>1 DEF ChatHolds
  <2> QED BY <2>1, <2>2
<1>7. diary'.owed \cup diary'.ended \cup diary'.asked \subseteq 1..diary'.turns
  BY <1>1, <1>2, BridgeParts DEF TurnsAreNumbered
<1>8. TurnsAreNumbered'
  BY <1>1, <1>6, <1>7 DEF TurnsAreNumbered
<1>9. OfStays
  BY <1>1, OfGrows
<1> QED BY <1>1, <1>5, <1>8, <1>9

LEMMA TurnElsewhereHolds ==
  ASSUME BridgeInv, NEW s \in Chats, ChatTurnElsewhere(s)
  PROVE  BridgeInv'
<1> DEFINE n == diary.turns + 1
           of == Append(diary.of, s)
<1>1. /\ chats[s].turn = 0 /\ chats' = [chats EXCEPT ![s].turn = n]
      /\ diary' = [diary EXCEPT !.turns = n, !.of = of]
      /\ UNCHANGED <<line, watch, buttons, shown, handler, press>>
  BY DEF ChatTurnElsewhere, OpenTurn
<1>2. diary.turns \in Nat /\ Len(diary.of) = diary.turns
  BY BridgeParts DEF TurnsAreNumbered
<1>3. n \in Nat /\ n > diary.turns /\ n > Len(diary.of) /\ of \in Seq(Chats)
  BY <1>2, BridgeParts, AppendProperties
<1>4. n = IF chats[s].turn = 0 THEN diary.turns + 1 ELSE chats[s].turn
  BY <1>1
<1>5. of = Append(diary.of, s)
  OBVIOUS
<1> HIDE DEF n, of
<1>6. /\ diary' \in BridgeDiary /\ PressesStay /\ DebtStays /\ WordStays
      /\ diary'.turns = n /\ diary'.of = of
      /\ diary'.ended = diary.ended /\ diary'.asked = diary.asked
  BY <1>1, <1>3, BridgeParts DEF BridgeDiary, PressesStay, DebtStays, WordStays
<1>7. diary'.turns = (IF n > diary.turns THEN n ELSE diary.turns)
      /\ diary'.of = (IF n > Len(diary.of) THEN Append(diary.of, s) ELSE diary.of)
      /\ diary'.owed \subseteq diary.owed \cup {n}
  BY <1>3, <1>5, <1>6 DEF DebtStays
<1>8. chats' \in [Chats -> BridgeChat] /\ TurnsAreNumbered' /\ OfStays
  BY <1>1, <1>3, <1>4, <1>6, <1>7, BegunHolds, ZenonT(40)
<1>9. OwedAreWatched' /\ UsedIsWatched' /\ AsksAreNew' /\ PressAgrees' /\ ButtonsAgree'
  BY <1>1, <1>6, <1>8, ObserverRests
<1>10. SelectionAgrees'
  BY <1>1, <1>6, SelectionKeeps
<1>11. DownIsQuiet'
  BY <1>1, <1>6, DownKeeps DEF DebtStays
<1>12. SubmitIsWatched'
  <2>1. Existing(handler.s)' => Existing(handler.s)
    BY <1>1, BridgeParts DEF Existing, BridgeChat
  <2> QED BY <1>1, <2>1, SubmitKeeps
<1>13. BridgeTypes'
  BY <1>1, <1>6, <1>8, BridgeParts DEF BridgeTypes
<1> QED BY <1>8, <1>9, <1>10, <1>11, <1>12, <1>13 DEF BridgeInv

LEMMA AskHolds ==
  ASSUME BridgeInv, NEW s \in Chats, ChatAsks(s)
  PROVE  BridgeInv'
<1> DEFINE n == chats[s].turn
           c == [chats[s] EXCEPT !.ask = TRUE]
           asked == diary.asked \cup {n}
<1>1. /\ n # 0 /\ n \notin diary.asked /\ chats' = [chats EXCEPT ![s].ask = TRUE]
      /\ watch' = Told(s, "ask", n) /\ diary' = [diary EXCEPT !.asked = asked]
      /\ UNCHANGED <<line, buttons, shown, handler, press>>
  BY DEF ChatAsks
<1>2. c \in BridgeChat /\ c.turn = n /\ c.made = chats[s].made
  BY BridgeParts DEF BridgeChat
<1>3. chats' = [chats EXCEPT ![s] = c]
  BY <1>1, BridgeParts
<1>4. n \in Nat /\ ChatHolds(chats, diary, s) /\ n \in 1..diary.turns /\ asked \in SUBSET Nat
      /\ n \notin diary.ended /\ diary.of[n] = s
  BY <1>1, BridgeParts DEF TurnsAreNumbered, ChatHolds
<1>5. n = chats[s].turn /\ asked = diary.asked \cup {n}
  OBVIOUS
<1> HIDE DEF n, c, asked
<1>6. chats' \in [Chats -> BridgeChat] /\ chats'[s] = c /\ \A u \in Chats : u # s => chats'[u] = chats[u]
  BY <1>2, <1>3, BridgeParts
<1>7. /\ diary' \in BridgeDiary /\ PressesStay /\ DebtStays /\ WordStays /\ diary'.asked = asked
      /\ diary'.turns = diary.turns /\ diary'.of = diary.of /\ diary'.ended = diary.ended
  BY <1>1, <1>4, BridgeParts DEF BridgeDiary, PressesStay, DebtStays, WordStays
<1>8. ASSUME NEW u \in Chats PROVE ChatHolds(chats, diary, u)'
  <2>1. CASE u = s
    BY <1>1, <1>2, <1>4, <1>6, <1>7, <2>1 DEF ChatHolds
  <2>2. CASE u # s
    BY <1>6, <1>7, <2>2, BridgeParts DEF ChatHolds, TurnsAreNumbered
  <2> QED BY <2>1, <2>2
<1>9. TurnsAreNumbered'
  BY <1>4, <1>5, <1>7, <1>8, BridgeParts DEF TurnsAreNumbered, DebtStays
<1>10. ~Waits(watch, "ask", n)
  BY <1>1, <1>4, BridgeParts DEF AsksAreNew, Untouched
<1>11. /\ watch' \in BridgeWatch /\ watch'.on = watch.on /\ watch'.card = watch.card /\ watch'.open = watch.open
       /\ ~Watched(s) => watch' = watch
       /\ Watched(s) => Range(watch'.feed) = Range(watch.feed) \cup {[kind |-> "ask", turn |-> n]}
       /\ Once(watch'.feed)
  BY <1>1, <1>4, <1>10, ToldIs
<1>12. \A t \in Nat : Waits(watch, "end", t) => Waits(watch', "end", t)
  BY <1>11 DEF Waits
<1>13. \A t \in Nat : Waits(watch', "ask", t) => Waits(watch, "ask", t) \/ t = n
  <2>1. ASSUME NEW t \in Nat, [kind |-> "ask", turn |-> t] = [kind |-> "ask", turn |-> n] PROVE t = n
    BY <2>1
  <2> QED BY <1>11, <2>1 DEF Waits
<1>22. OfStays
  BY <1>7, OfKept
<1>14. OwedAreWatched' /\ UsedIsWatched'
  BY <1>7, <1>11, <1>12, <1>22, DebtsLast, DebtsKeep DEF DebtStays
<1>23. \A t : Live(t)' <=> Live(t)
  BY <1>1, <1>7, LivesStay
<1>15. ASSUME NEW t \in Nat, Waits(watch', "ask", t) PROVE Untouched(t)'
  <2>1. CASE Waits(watch, "ask", t)
    BY <1>1, <1>5, <1>7, <1>11, <1>23, <2>1, BridgeParts DEF AsksAreNew, Untouched
  <2>2. CASE t = n
    <3>1. t \in asked /\ t \notin diary.pressed /\ t # watch.card /\ t \notin line.flying
      BY <1>1, <1>5, <2>2, BridgeParts DEF ButtonsAgree, PressAgrees
    <3>2. \A b \in buttons \cup shown : b.turn # t
      BY <1>1, <2>2, BridgeParts DEF ButtonsAgree
    <3>3. t # press.turn
      BY <1>1, <2>2, BridgeParts DEF PressAgrees
    <3>4. t \notin diary.void
      BY <1>1, <2>2, BridgeParts DEF PressAgrees
    <3> QED BY <1>1, <1>7, <1>11, <1>23, <3>1, <3>2, <3>3, <3>4 DEF Untouched, Live
  <2> QED BY <1>13, <1>15, <2>1, <2>2
<1>16. AsksAreNew'
  BY <1>11, <1>15 DEF AsksAreNew
<1>17. diary.asked \subseteq diary'.asked /\ \A t \in diary.asked : Pair(t)' = Pair(t)
  BY <1>5, <1>7, <1>22, PairsStay
<1>24. PressAgrees'
  BY <1>1, <1>7, <1>17, BridgeParts DEF PressAgrees, PressesStay
<1>18. ButtonsAgree'
  <2>1. \A t \in line.flying : Live(t)' => Pair(t)' \subseteq buttons
    BY <1>17, <1>23, BridgeParts DEF ButtonsAgree
  <2>2. \A b \in shown : Live(b.turn)' => b \in buttons
    BY <1>23, BridgeParts DEF ButtonsAgree
  <2> QED BY <1>1, <1>7, <1>11, <1>17, <2>1, <2>2, BridgeParts DEF ButtonsAgree, PressesStay
<1>19. SelectionAgrees' /\ DownIsQuiet'
  <2>1. watch.on = Nowhere => watch' = watch
    BY <1>11, ChatsAssumption DEF Watched
  <2> QED BY <1>1, <1>7, <2>1, SelectionKeeps, DownKeeps DEF DebtStays
<1>20. SubmitIsWatched'
  <2>1. Existing(handler.s)' => Existing(handler.s)
    BY <1>1, <1>2, <1>6 DEF Existing
  <2> QED BY <1>1, <1>11, <2>1, SubmitKeeps
<1>21. BridgeTypes'
  BY <1>1, <1>6, <1>7, <1>11, BridgeParts DEF BridgeTypes
<1> QED BY <1>9, <1>14, <1>16, <1>18, <1>19, <1>20, <1>21, <1>24 DEF BridgeInv

LEMMA DecidedHolds ==
  ASSUME BridgeInv, NEW s \in Chats, ChatDecidedElsewhere(s)
  PROVE  BridgeInv'
<1>1. Decide(s) /\ UNCHANGED <<line, watch, buttons, shown, handler, press, diary>>
  BY DEF ChatDecidedElsewhere
<1>2. chats' \in [Chats -> BridgeChat] /\ ChatsCalm
  BY <1>1, DecideIs
<1>3. PressesStay /\ DebtStays /\ TurnsStay /\ WordStays
  BY <1>1, DiaryRests
<1>4. TurnsAreNumbered' /\ OwedAreWatched' /\ UsedIsWatched' /\ AsksAreNew' /\ PressAgrees' /\ ButtonsAgree'
  BY <1>1, <1>2, <1>3, TurnsKeep, OfKept, ObserverRests DEF TurnsStay, DebtStays
<1>5. SelectionAgrees' /\ DownIsQuiet'
  BY <1>1, <1>3, SelectionKeeps, DownKeeps DEF DebtStays
<1>6. SubmitIsWatched'
  <2>1. Existing(handler.s)' => Existing(handler.s)
    BY <1>1, BridgeParts DEF Existing, Decide, BridgeChat
  <2> QED BY <1>1, <2>1, SubmitKeeps
<1>7. BridgeTypes'
  BY <1>1, <1>2, BridgeParts DEF BridgeTypes
<1> QED BY <1>4, <1>5, <1>6, <1>7 DEF BridgeInv

(* A turn ends, and its end is on the way to who watches the session.         *)
LEMMA EndIs ==
  ASSUME BridgeInv, NEW s \in Chats, NEW n \in Nat, n = chats[s].turn, n # 0,
         chats' = [chats EXCEPT ![s].turn = 0, ![s].ask = FALSE], watch' = Told(s, "end", n),
         diary' = [diary EXCEPT !.ended = @ \cup {n}], UNCHANGED <<line, buttons, shown, press>>
  PROVE  /\ diary' \in BridgeDiary /\ WordStays /\ DebtStays
         /\ chats' \in [Chats -> BridgeChat] /\ (Existing(handler.s)' /\ UNCHANGED handler => Existing(handler.s))
         /\ watch' \in BridgeWatch /\ watch'.on = watch.on /\ watch'.open = watch.open
         /\ (~Watched(s) => watch' = watch)
         /\ TurnsAreNumbered' /\ OwedAreWatched' /\ UsedIsWatched' /\ AsksAreNew' /\ PressAgrees' /\ ButtonsAgree'
<1> DEFINE c == [chats[s] EXCEPT !.turn = 0, !.ask = FALSE]
           ended == diary.ended \cup {n}
<1>1. c \in BridgeChat /\ c.turn = 0 /\ c.ask = FALSE /\ c.made = chats[s].made
  BY BridgeParts DEF BridgeChat
<1>2. diary' = [diary EXCEPT !.ended = ended]
  OBVIOUS
<1>a. chats' = [chats EXCEPT ![s] = c]
  BY BridgeParts
<1>3. ended \in SUBSET Nat /\ ended = diary.ended \cup {n}
  BY BridgeParts
<1>4. n \in 1..diary.turns /\ diary.of[n] = s
  BY BridgeParts DEF TurnsAreNumbered, ChatHolds
<1> HIDE DEF c, ended
<1>5. chats' \in [Chats -> BridgeChat] /\ chats'[s] = c /\ \A u \in Chats : u # s => chats'[u] = chats[u]
  BY <1>1, <1>a, BridgeParts, ZenonT(40)
<1>6. /\ diary' \in BridgeDiary /\ PressesStay /\ DebtStays /\ WordStays /\ diary'.ended = ended
      /\ diary'.turns = diary.turns /\ diary'.of = diary.of /\ diary'.asked = diary.asked
  BY <1>2, <1>3, BridgeParts, ZenonT(40) DEF BridgeDiary, PressesStay, DebtStays, WordStays
<1>7. ASSUME NEW u \in Chats PROVE ChatHolds(chats, diary, u)'
  <2>1. CASE u = s
    BY <1>1, <1>5, <2>1 DEF ChatHolds
  <2>2. CASE u # s
    <3>1. ChatHolds(chats, diary, u) /\ ChatHolds(chats, diary, s) /\ chats'[u] = chats[u]
      BY <1>5, <2>2, BridgeParts DEF TurnsAreNumbered
    <3>2. chats[u].turn # 0 => chats[u].turn # n
      BY <1>4, <2>2, <3>1 DEF ChatHolds
    <3> QED BY <1>3, <1>6, <3>1, <3>2 DEF ChatHolds
  <2> QED BY <2>1, <2>2
<1>8. TurnsAreNumbered'
  BY <1>3, <1>4, <1>6, <1>7, BridgeParts DEF TurnsAreNumbered, DebtStays
<1>9. /\ watch' \in BridgeWatch /\ watch'.on = watch.on /\ watch'.card = watch.card /\ watch'.open = watch.open
      /\ ~Watched(s) => watch' = watch
      /\ Watched(s) => Range(watch'.feed) = Range(watch.feed) \cup {[kind |-> "end", turn |-> n]}
      /\ Once(watch'.feed)
  BY ToldIs
<1>10. \A t \in Nat : Waits(watch, "end", t) => Waits(watch', "end", t)
  BY <1>9 DEF Waits
<1>11. Watched(s) => Waits(watch', "end", n)
  BY <1>9 DEF Waits
<1>12. \A t \in Nat : Waits(watch', "ask", t) => Waits(watch, "ask", t)
  <2>1. \A t \in Nat : [kind |-> "ask", turn |-> t] # [kind |-> "end", turn |-> n]
    OBVIOUS
  <2> QED BY <1>9, <2>1 DEF Waits
<1>13. diary.owed \subseteq Nat /\ diary.ended \subseteq Nat
  BY BridgeParts
<1>18. OfStays
  BY <1>6, OfKept
<1>19. \A t \in Nat : Delivered(t) => Delivered(t)'
  BY <1>6, DebtsLast
<1>20. diary.owed \subseteq 1..diary.turns /\ diary.ended \subseteq 1..diary.turns
  BY BridgeParts DEF TurnsAreNumbered
<1>14. OwedAreWatched'
  <2>1. ASSUME NEW t \in diary.owed
        PROVE  \/ Delivered(t)'
               \/ /\ diary.of[t] = watch'.on
                  /\ IF t \in ended THEN Waits(watch', "end", t) ELSE watch'.open
    <3>1. \/ Delivered(t)
          \/ /\ diary.of[t] = watch.on
             /\ IF t \in diary.ended THEN Waits(watch, "end", t) ELSE watch.open
      BY <2>1, BridgeParts DEF OwedAreWatched
    <3>2. CASE Delivered(t)
      BY <1>13, <1>19, <3>2
    <3>3. CASE diary.of[t] = watch.on /\ t \in diary.ended /\ Waits(watch, "end", t)
      BY <1>3, <1>9, <1>10, <1>13, <3>3
    <3>4. CASE diary.of[t] = watch.on /\ t \notin diary.ended /\ watch.open
      <4>1. CASE t = n
        BY <1>3, <1>4, <1>9, <1>11, <3>4, <4>1 DEF Watched
      <4>2. CASE t # n
        BY <1>3, <1>9, <3>4, <4>2
      <4> QED BY <4>1, <4>2
    <3> QED BY <3>1, <3>2, <3>3, <3>4
  <2> QED BY <1>6, <2>1 DEF OwedAreWatched, DebtStays
<1>15. UsedIsWatched'
  <2> SUFFICES ASSUME diary.used # Nowhere PROVE UsedIsWatched'
    BY <1>6 DEF UsedIsWatched, DebtStays
  <2>1. Watched(diary.used) /\ Watched(diary.used)'
    BY <1>9, BridgeParts DEF UsedIsWatched, Watched
  <2>2. ASSUME NEW t \in ended, diary.of[t] = diary.used
        PROVE  Delivered(t)' \/ Waits(watch', "end", t) \/ TooOld(t)'
    <3>1. CASE t \in diary.ended
      <4>1. t \in Nat /\ (TooOld(t) => TooOld(t)')
        BY <1>13, <1>18, <1>20, <3>1 DEF OfStays
      <4>2. Delivered(t) \/ Waits(watch, "end", t) \/ TooOld(t)
        BY <2>2, <3>1, BridgeParts DEF UsedIsWatched
      <4> QED BY <1>10, <1>19, <4>1, <4>2
    <3>2. CASE t = n
      BY <1>4, <1>11, <2>1, <2>2, <3>2
    <3> QED BY <1>3, <2>2, <3>1, <3>2
  <2> QED BY <1>6, <2>1, <2>2 DEF UsedIsWatched, DebtStays
<1>16. AsksAreNew' /\ PressAgrees' /\ ButtonsAgree'
  BY <1>6, <1>9, <1>12, <1>18, ButtonsKeep
<1>17. Existing(handler.s)' /\ UNCHANGED handler => Existing(handler.s)
  BY <1>1, <1>5 DEF Existing
<1> QED BY <1>5, <1>6, <1>8, <1>9, <1>14, <1>15, <1>16, <1>17

LEMMA EndHolds ==
  ASSUME BridgeInv, NEW s \in Chats, ChatEnds(s)
  PROVE  BridgeInv'
<1> DEFINE n == chats[s].turn
<1>1. /\ n # 0 /\ chats' = [chats EXCEPT ![s].turn = 0, ![s].ask = FALSE]
      /\ watch' = Told(s, "end", n) /\ diary' = [diary EXCEPT !.ended = @ \cup {n}]
      /\ UNCHANGED <<line, buttons, shown, handler, press>>
  BY DEF ChatEnds
<1>2. n \in Nat /\ n = chats[s].turn
  BY BridgeParts
<1> HIDE DEF n
<1>3. /\ diary' \in BridgeDiary /\ WordStays /\ DebtStays
      /\ chats' \in [Chats -> BridgeChat] /\ (Existing(handler.s)' /\ UNCHANGED handler => Existing(handler.s))
      /\ watch' \in BridgeWatch /\ watch'.on = watch.on /\ watch'.open = watch.open
      /\ (~Watched(s) => watch' = watch)
      /\ TurnsAreNumbered' /\ OwedAreWatched' /\ UsedIsWatched' /\ AsksAreNew' /\ PressAgrees' /\ ButtonsAgree'
  BY <1>1, <1>2, EndIs
<1>4. SelectionAgrees' /\ DownIsQuiet'
  BY <1>1, <1>3, SelectionKeeps, DownKeeps, ChatsAssumption DEF DebtStays, Watched
<1>5. SubmitIsWatched'
  BY <1>1, <1>3, SubmitKeeps
<1>6. BridgeTypes'
  BY <1>1, <1>3, BridgeParts DEF BridgeTypes
<1> QED BY <1>3, <1>4, <1>5, <1>6 DEF BridgeInv

LEMMA CancelHolds == ASSUME BridgeInv, CancelChat PROVE BridgeInv'
<1>1. At("route") /\ handler' = NoHandler /\ UNCHANGED <<line, buttons, shown, press>>
  BY DEF CancelChat, Done
<1>2. line.up = TRUE /\ ~At("save")
  BY <1>1, WhoIsUp DEF At
<1>3. CASE ~(Existing(Selected) /\ chats[Selected].turn # 0)
  <2>1. UNCHANGED <<chats, watch, diary>>
    BY <1>3 DEF CancelChat
  <2> QED BY <1>1, <1>2, <2>1, RestTypes, RouteStep, BridgeParts DEF ChatsCalm
<1>4. CASE Existing(Selected) /\ chats[Selected].turn # 0
  <2> DEFINE s == line.selected
             n == chats[s].turn
  <2>1. /\ s \in Chats /\ n # 0 /\ chats' = [chats EXCEPT ![s].turn = 0, ![s].ask = FALSE]
        /\ watch' = Told(s, "end", n) /\ diary' = [diary EXCEPT !.ended = @ \cup {n}]
    BY <1>4 DEF CancelChat, Selected, Existing
  <2>2. n \in Nat /\ n = chats[s].turn
    BY <2>1, BridgeParts
  <2> HIDE DEF n, s
  <2>3. /\ diary' \in BridgeDiary /\ WordStays
        /\ chats' \in [Chats -> BridgeChat] /\ watch' \in BridgeWatch
        /\ TurnsAreNumbered' /\ OwedAreWatched' /\ UsedIsWatched' /\ AsksAreNew' /\ PressAgrees' /\ ButtonsAgree'
    BY <1>1, <2>1, <2>2, EndIs
  <2>4. SelectionAgrees' /\ DownIsQuiet' /\ SubmitIsWatched'
    BY <1>1, <1>2, <2>3, RestTypes, SelectionRests, UpKeeps DEF SubmitIsWatched, At
  <2>5. BridgeTypes'
    BY <1>1, <2>3, RestTypes, BridgeParts DEF BridgeTypes
  <2> QED BY <2>3, <2>4, <2>5 DEF BridgeInv
<1> QED BY <1>3, <1>4

(* The turn of a prompt is owed, and watched.                                 *)
LEMMA SubmitPromptHolds == ASSUME BridgeInv, SubmitPrompt PROVE BridgeInv'
<1> DEFINE s == handler.s
           n == IF chats[s].turn = 0 THEN diary.turns + 1 ELSE chats[s].turn
<1>1. /\ At("submit") \/ At("excused")
      /\ handler' = NoHandler /\ UNCHANGED <<line, watch, buttons, shown, press>>
  BY DEF SubmitPrompt, Done
<1>2. line.up = TRUE /\ ~At("save")
  BY <1>1, WhoIsUp DEF At
<1>3. CASE ~Existing(s) \/ n > MaxChatTurns
  <2>1. UNCHANGED <<chats, diary>>
    BY <1>3 DEF SubmitPrompt
  <2> QED BY <1>1, <1>2, <2>1, RestTypes, RouteStep, BridgeParts DEF ChatsCalm
<1>4. CASE ~(~Existing(s) \/ n > MaxChatTurns)
  <2> DEFINE turns == IF n > diary.turns THEN n ELSE diary.turns
             of == IF n > Len(diary.of) THEN Append(diary.of, s) ELSE diary.of
             owed == IF At("excused") THEN diary.owed ELSE diary.owed \cup {n}
  <2>1. /\ chats' = [chats EXCEPT ![s].turn = n]
        /\ diary' = [diary EXCEPT !.told = s, !.turns = turns, !.of = of, !.owed = owed]
    BY <1>4 DEF SubmitPrompt
  <2>2. s \in Chats /\ Existing(s) /\ s \in Places
    BY <1>4 DEF Existing, Places
  <2>3. n \in Nat
    BY <2>2, BridgeParts
  <2>4. /\ n = IF chats[s].turn = 0 THEN diary.turns + 1 ELSE chats[s].turn
        /\ turns = IF n > diary.turns THEN n ELSE diary.turns
        /\ of = IF n > Len(diary.of) THEN Append(diary.of, s) ELSE diary.of
    OBVIOUS
  <2>5. turns \in Nat /\ of \in Seq(Chats)
    BY <2>2, <2>3, BridgeParts, AppendProperties
  <2>6. owed \in SUBSET Nat /\ owed \subseteq diary.owed \cup {n}
        /\ (n \in owed => n \in diary.owed \/ (At("submit") /\ Watched(s)))
    BY <1>1, <2>2, <2>3, BridgeParts DEF SubmitIsWatched
  <2> HIDE DEF n, turns, of, owed
  <2>7. /\ diary' \in BridgeDiary /\ diary'.told = s /\ diary'.turns = turns /\ diary'.of = of
        /\ diary'.owed = owed /\ diary'.ended = diary.ended /\ diary'.asked = diary.asked
        /\ diary'.seen = diary.seen /\ diary'.lost = diary.lost /\ diary'.used = diary.used
        /\ diary'.unsaved = diary.unsaved /\ PressesStay
    BY <2>1, <2>2, <2>5, <2>6, BridgeParts DEF BridgeDiary, PressesStay
  <2>8. /\ chats' \in [Chats -> BridgeChat] /\ TurnsAreNumbered'
        /\ n \notin diary.ended /\ diary'.of[n] = s /\ OfStays
    <3>1. diary'.turns = (IF n > diary.turns THEN n ELSE diary.turns)
          /\ diary'.of = (IF n > Len(diary.of) THEN Append(diary.of, s) ELSE diary.of)
          /\ diary'.owed \subseteq diary.owed \cup {n}
      BY <2>4, <2>6, <2>7
    <3>2. diary'.ended = diary.ended /\ diary'.asked = diary.asked
      BY <2>7
    <3>3. chats' = [chats EXCEPT ![s].turn = n] /\ s \in Chats /\ n \in Nat
      BY <2>1, <2>2, <2>3
    <3>4. n = IF chats[s].turn = 0 THEN diary.turns + 1 ELSE chats[s].turn
      BY <2>4
    <3> HIDE DEF s
    <3> QED BY <3>1, <3>2, <3>3, <3>4, BegunHolds, ZenonT(40)
  <2>9. diary.owed \subseteq 1..diary.turns /\ diary.ended \subseteq 1..diary.turns
    BY BridgeParts DEF TurnsAreNumbered
  <2>10. \A t \in Nat : Delivered(t) => Delivered(t)'
    BY <2>7 DEF Delivered
  <2>11. OwedAreWatched'
    <3>1. ASSUME NEW t \in owed
          PROVE  \/ Delivered(t)'
                 \/ /\ diary'.of[t] = watch.on
                    /\ IF t \in diary.ended THEN Waits(watch, "end", t) ELSE watch.open
      <4>1. CASE t \in diary.owed
        <5>1. t \in Nat /\ diary'.of[t] = diary.of[t]
          BY <2>8, <2>9, <4>1, BridgeParts DEF OfStays
        <5>2. \/ Delivered(t)
              \/ /\ diary.of[t] = watch.on
                 /\ IF t \in diary.ended THEN Waits(watch, "end", t) ELSE watch.open
          BY <4>1, BridgeParts DEF OwedAreWatched
        <5> QED BY <2>10, <5>1, <5>2
      <4>2. CASE t \notin diary.owed
        BY <2>6, <2>8, <3>1, <4>2 DEF Watched
      <4> QED BY <4>1, <4>2
    <3> QED BY <1>1, <2>7, <3>1 DEF OwedAreWatched
  <2>12. UsedIsWatched'
    <3> SUFFICES ASSUME diary.used # Nowhere PROVE UsedIsWatched'
      BY <2>7 DEF UsedIsWatched
    <3>1. Watched(diary.used)'
      BY <1>1, <2>7, BridgeParts DEF UsedIsWatched, Watched
    <3>2. ASSUME NEW t \in diary.ended, diary'.of[t] = diary.used
          PROVE  Delivered(t)' \/ Waits(watch, "end", t) \/ TooOld(t)'
      <4>1. t \in Nat /\ diary.of[t] = diary.used /\ (TooOld(t) => TooOld(t)')
        BY <2>8, <2>9, <3>2, BridgeParts DEF OfStays
      <4>2. Delivered(t) \/ Waits(watch, "end", t) \/ TooOld(t)
        BY <4>1, BridgeParts DEF UsedIsWatched
      <4> QED BY <2>10, <4>1, <4>2
    <3> QED BY <1>1, <2>7, <3>1, <3>2 DEF UsedIsWatched
  <2>16. Once(watch'.feed)
    BY <1>1, BridgeParts DEF AsksAreNew
  <2>13. AsksAreNew' /\ PressAgrees' /\ ButtonsAgree'
    BY <1>1, <2>7, <2>8, <2>16, ButtonsKeep
  <2>14. DownIsQuiet' /\ SubmitIsWatched' /\ BridgeTypes'
    BY <1>1, <1>2, <2>7, <2>8, RestTypes, UpKeeps, BridgeParts DEF SubmitIsWatched, BridgeTypes, At
  <2>15. SelectionAgrees'
    BY <1>1, <1>2, <2>7, RestTypes, BridgeParts DEF SelectionAgrees, Unsaved, At
  <2> QED BY <2>8, <2>11, <2>12, <2>13, <2>14, <2>15 DEF BridgeInv
<1> QED BY <1>3, <1>4

(* The subscription of session s, if the observer has it, closes.             *)
LEMMA ClosingIs ==
  ASSUME BridgeInv, NEW s \in Places, watch' = Closed(s), handler' = Unsubmitted(s), diary' = Closing(s),
         ChatsCalm, UNCHANGED <<line, buttons, shown, press>>,
         \A u \in Chats : chats'[u].made => chats[u].made,
         line.up = TRUE \/ s # Nowhere
  PROVE  /\ watch' \in BridgeWatch /\ handler' \in BridgeHandler /\ diary' \in BridgeDiary
         /\ TurnsAreNumbered' /\ OwedAreWatched' /\ SubmitIsWatched' /\ UsedIsWatched'
         /\ DownIsQuiet' /\ SelectionAgrees' /\ AsksAreNew' /\ PressAgrees' /\ ButtonsAgree'
<1> DEFINE owed == Unheard(s)
           used == IF diary.used = s THEN Nowhere ELSE diary.used
<1>1. diary' = [Broken EXCEPT !.owed = owed, !.used = used]
  BY BrokenIs DEF Closing
<1>2. owed = {t \in diary.owed : diary.of[t] # s \/ t \in diary.ended}
      /\ owed \subseteq diary.owed /\ owed \in SUBSET Nat
  BY BridgeParts DEF Unheard
<1>3. used \in Places /\ used \in {diary.used, Nowhere} /\ (watch.on = s => used = Nowhere)
      /\ (watch.on # s => used = diary.used)
  BY BridgeParts DEF UsedIsWatched, Watched, Places
<1> HIDE DEF owed, used
<1>4. /\ diary' \in BridgeDiary /\ PressesStay /\ WordStays /\ TurnsStay /\ OfStays
      /\ diary'.owed = owed /\ diary'.used = used /\ diary'.seen = diary.seen /\ diary'.lost = diary.lost
  BY <1>1, <1>2, <1>3, BrokenIs, OfKept, ZenonT(40) DEF BridgeDiary, PressesStay, WordStays, TurnsStay
<1>5. /\ watch' \in BridgeWatch /\ watch'.on = watch.on /\ watch'.feed = watch.feed
      /\ watch'.card = watch.card /\ (watch.on # s => watch' = watch)
      /\ (watch.on = s => watch'.open = FALSE)
  BY BridgeParts DEF Closed, BridgeWatch
<1>6. handler' \in BridgeHandler /\ handler'.s = handler.s
      /\ (handler' = handler \/ (At("submit") /\ handler'.pc = "excused"))
      /\ (handler.s = s => handler'.pc # "submit")
  BY BridgeParts DEF Unsubmitted, BridgeHandler, HandlerSteps, At
<1>7. TurnsAreNumbered'
  BY <1>2, <1>4, TurnsKeep
<1>8. \A kind \in {"ask", "end"}, t \in Nat : Waits(watch', kind, t) <=> Waits(watch, kind, t)
  BY <1>5 DEF Waits
<1>9. diary.owed \subseteq Nat /\ diary.ended \subseteq Nat
  BY BridgeParts
<1>10. OwedAreWatched'
  <2>1. ASSUME NEW t \in owed
        PROVE  \/ Delivered(t)
               \/ /\ diary.of[t] = watch'.on
                  /\ IF t \in diary.ended THEN Waits(watch', "end", t) ELSE watch'.open
    <3>1. \/ Delivered(t)
          \/ /\ diary.of[t] = watch.on
             /\ IF t \in diary.ended THEN Waits(watch, "end", t) ELSE watch.open
      BY <1>2, <2>1, BridgeParts DEF OwedAreWatched
    <3>2. t \in Nat /\ (diary.of[t] # s \/ t \in diary.ended)
      BY <1>2, <1>9, <2>1
    <3> QED BY <1>5, <1>8, <3>1, <3>2
  <2>2. \A t : Delivered(t)' <=> Delivered(t)
    BY <1>4 DEF Delivered
  <2> QED BY <1>4, <2>1, <2>2 DEF OwedAreWatched, TurnsStay
<1>11. UsedIsWatched'
  <2>1. CASE watch.on = s
    BY <1>3, <1>4, <2>1 DEF UsedIsWatched
  <2>2. CASE watch.on # s
    <3> SUFFICES ASSUME diary.used # Nowhere PROVE UsedIsWatched'
      BY <1>3, <1>4, <2>2 DEF UsedIsWatched
    <3>1. Watched(diary.used)'
      BY <1>3, <1>4, <1>5, <2>2, BridgeParts DEF UsedIsWatched, Watched
    <3>2. ASSUME NEW t \in diary.ended, diary.of[t] = diary.used
          PROVE  Delivered(t)' \/ Waits(watch', "end", t) \/ TooOld(t)'
      <4>1. Delivered(t) \/ Waits(watch, "end", t) \/ TooOld(t)
        BY <3>2, BridgeParts DEF UsedIsWatched
      <4>2. TooOld(t) => TooOld(t)'
        BY <1>4, BridgeParts DEF OfStays, TurnsAreNumbered
      <4>3. Delivered(t) => Delivered(t)'
        BY <1>4 DEF Delivered
      <4> QED BY <1>8, <1>9, <4>1, <4>2, <4>3
    <3> QED BY <1>3, <1>4, <2>2, <3>1, <3>2 DEF UsedIsWatched, TurnsStay
  <2> QED BY <2>1, <2>2
<1>12. Once(watch'.feed)
  BY <1>5, BridgeParts DEF AsksAreNew
<1>13. AsksAreNew' /\ PressAgrees' /\ ButtonsAgree'
  BY <1>4, <1>5, <1>8, <1>12, ButtonsKeep DEF TurnsStay
<1>14. SelectionAgrees'
  <2>1. CASE handler' = handler
    BY <1>4, <2>1, SelectionKeeps
  <2>2. CASE At("submit") /\ handler'.pc = "excused"
    BY <1>4, <1>6, <2>2, BridgeParts DEF SelectionAgrees, WordStays, Unsaved, At
  <2> QED BY <1>6, <2>1, <2>2
<1>15. SubmitIsWatched'
  <2> SUFFICES ASSUME handler'.pc = "submit", Existing(handler.s)' PROVE Watched(handler.s)'
    BY <1>6 DEF SubmitIsWatched, At
  <2>1. handler' = handler /\ At("submit") /\ handler.s # s /\ handler'.s = handler.s
    BY <1>6 DEF At
  <2>2. Existing(handler.s)
    BY <2>1 DEF Existing
  <2>3. Watched(handler.s)
    BY <2>1, <2>2, BridgeParts DEF SubmitIsWatched
  <2> QED BY <1>5, <2>1, <2>3 DEF Watched
<1>16. DownIsQuiet'
  <2>1. CASE line.up
    BY <2>1, BridgeParts, UpKeeps
  <2>2. CASE ~line.up
    <3>1. At("idle") /\ watch = NoWatch /\ diary.owed = {} /\ diary.used = Nowhere
          /\ press.pc = "idle" /\ buttons = {}
      BY <2>2, BridgeParts DEF DownIsQuiet
    <3>2. handler' = handler /\ diary'.owed = {} /\ diary'.used = Nowhere
      BY <1>2, <1>3, <1>4, <1>6, <3>1 DEF At
    <3>3. watch' = NoWatch
      BY <1>5, <2>2, <3>1, RestTypes
    <3> QED BY <3>1, <3>2, <3>3 DEF DownIsQuiet, At
  <2> QED BY <2>1, <2>2, BridgeParts
<1> QED BY <1>4, <1>5, <1>6, <1>7, <1>10, <1>11, <1>13, <1>14, <1>15, <1>16

LEMMA DeleteHolds ==
  ASSUME BridgeInv, NEW s \in Chats, DeleteChat(s)
  PROVE  BridgeInv'
<1> DEFINE c == [made |-> FALSE, turn |-> 0, ask |-> FALSE]
<1>1. /\ chats' = [chats EXCEPT ![s] = c] /\ watch' = Closed(s) /\ handler' = Unsubmitted(s)
      /\ diary' = Closing(s) /\ UNCHANGED <<line, buttons, shown, press>>
  BY DEF DeleteChat
<1>2. c \in BridgeChat /\ c.turn = 0 /\ c.ask = FALSE /\ c.made = FALSE
  BY DEF BridgeChat
<1> HIDE DEF c
<1>3. chats' \in [Chats -> BridgeChat] /\ chats'[s] = c /\ \A u \in Chats : u # s => chats'[u] = chats[u]
  BY <1>1, <1>2, BridgeParts, SMTT(30)
<1>4. ChatsCalm /\ \A u \in Chats : chats'[u].made => chats[u].made
  BY <1>2, <1>3, BridgeParts DEF ChatsCalm
<1>5. s # Nowhere /\ s \in Places
  BY ChatsAssumption DEF Places
<1>6. /\ watch' \in BridgeWatch /\ handler' \in BridgeHandler /\ diary' \in BridgeDiary
      /\ TurnsAreNumbered' /\ OwedAreWatched' /\ SubmitIsWatched' /\ UsedIsWatched'
      /\ DownIsQuiet' /\ SelectionAgrees' /\ AsksAreNew' /\ PressAgrees' /\ ButtonsAgree'
  BY <1>1, <1>4, <1>5, ClosingIs
<1>7. BridgeTypes'
  BY <1>1, <1>3, <1>6, BridgeParts DEF BridgeTypes
<1> QED BY <1>6, <1>7 DEF BridgeInv

LEMMA ClosesHolds == ASSUME BridgeInv, FeedCloses PROVE BridgeInv'
<1>1. PICK s \in Places : s = watch.on
  BY BridgeParts
<1>2. /\ watch' = Closed(s) /\ handler' = Unsubmitted(s) /\ diary' = Closing(s)
      /\ UNCHANGED <<line, chats, buttons, shown, press>>
  BY <1>1 DEF FeedCloses
<1>3. ChatsCalm /\ \A u \in Chats : chats'[u].made => chats[u].made
  BY <1>2, BridgeParts DEF ChatsCalm
<1>6. line.up = TRUE
  BY BridgeParts, RestTypes DEF FeedCloses, DownIsQuiet
<1>4. /\ watch' \in BridgeWatch /\ handler' \in BridgeHandler /\ diary' \in BridgeDiary
      /\ TurnsAreNumbered' /\ OwedAreWatched' /\ SubmitIsWatched' /\ UsedIsWatched'
      /\ DownIsQuiet' /\ SelectionAgrees' /\ AsksAreNew' /\ PressAgrees' /\ ButtonsAgree'
  BY <1>1, <1>2, <1>3, <1>6, ClosingIs
<1>5. BridgeTypes'
  BY <1>2, <1>4, BridgeParts DEF BridgeTypes
<1> QED BY <1>4, <1>5 DEF BridgeInv

-----------------------------------------------------------------------------
(* The observer takes the next event.                                         *)
LEMMA TakenIs ==
  ASSUME BridgeInv, NEW kind \in {"ask", "end"}, Streams(kind)
  PROVE  LET t == Head(watch.feed).turn IN
         /\ Consumed \in BridgeWatch /\ Consumed.on = watch.on /\ Consumed.card = 0
         /\ Consumed.open = watch.open /\ Once(Consumed.feed)
         /\ t \in Nat /\ Waits(watch, kind, t) /\ watch.card = 0
         /\ \A u \in Nat : Waits(Consumed, "ask", u) => Waits(watch, "ask", u) /\ (kind = "ask" => u # t)
         /\ \A u \in Nat : Waits(watch, "end", u) => Waits(Consumed, "end", u) \/ (kind = "end" /\ u = t)
<1> DEFINE f == Tail(watch.feed)
           h == Head(watch.feed)
<1>1. watch.feed # <<>> /\ h.kind = kind /\ watch.card = 0
  BY DEF Streams
<1>2. Once(watch.feed)
  BY BridgeParts DEF AsksAreNew
<1>3. /\ h \in BridgeEvent /\ f \in Seq(BridgeEvent) /\ Once(f)
      /\ Range(watch.feed) = Range(f) \cup {h} /\ (h.kind = "ask" => h \notin Range(f))
  BY <1>1, <1>2, BridgeParts, FeedAdvances
<1>4. Consumed = [watch EXCEPT !.feed = f]
  BY DEF Consumed
<1> HIDE DEF f, h
<1>5. Consumed \in BridgeWatch /\ Consumed.on = watch.on /\ Consumed.card = 0 /\ Consumed.open = watch.open
      /\ Consumed.feed = f
  BY <1>1, <1>3, <1>4, BridgeParts DEF BridgeWatch
<1>6. h.turn \in Nat /\ h = [kind |-> kind, turn |-> h.turn]
  BY <1>1, <1>3 DEF BridgeEvent
<1>7. Waits(watch, kind, h.turn)
  BY <1>3, <1>6 DEF Waits
<1>8. ASSUME NEW u \in Nat, Waits(Consumed, "ask", u)
      PROVE  Waits(watch, "ask", u) /\ (kind = "ask" => u # h.turn)
  BY <1>1, <1>3, <1>5, <1>6, <1>8 DEF Waits
<1>9. ASSUME NEW u \in Nat, Waits(watch, "end", u)
      PROVE  Waits(Consumed, "end", u) \/ (kind = "end" /\ u = h.turn)
  <2>1. CASE [kind |-> "end", turn |-> u] \in Range(f)
    BY <1>5, <2>1 DEF Waits
  <2>2. CASE [kind |-> "end", turn |-> u] = h
    <3>1. h.kind = "end" /\ h.turn = u
      BY <2>2
    <3> QED BY <1>1, <3>1
  <2> QED BY <1>3, <1>9, <2>1, <2>2 DEF Waits
<1> QED BY <1>1, <1>3, <1>5, <1>6, <1>7, <1>8, <1>9 DEF h

(* The end of a turn is sent, or cannot be.                                   *)
LEMMA StreamEndHolds == ASSUME BridgeInv, StreamEnd PROVE BridgeInv'
<1>1. PICK t \in {Head(watch.feed).turn} : TRUE
  OBVIOUS
<1>2. /\ Streams("end") /\ watch' = Consumed
      /\ UNCHANGED <<line, chats, buttons, shown, handler, press>>
      /\ \/ diary' = [diary EXCEPT !.seen = @ \cup {t}]
         \/ diary' = [Broken EXCEPT !.lost = @ \cup {t}]
  BY DEF StreamEnd
<1>3. /\ watch' \in BridgeWatch /\ watch'.on = watch.on /\ watch'.open = watch.open
      /\ watch'.card = 0 /\ Once(watch'.feed) /\ t \in Nat
      /\ \A u \in Nat : Waits(watch', "ask", u) => Waits(watch, "ask", u)
      /\ \A u \in Nat : Waits(watch, "end", u) => Waits(watch', "end", u) \/ u = t
  BY <1>2, TakenIs
<1>4. line.up = TRUE
  BY <1>2, WhoIsUp DEF Streams
<1>5. /\ diary' \in BridgeDiary /\ PressesStay /\ TurnsStay /\ WordStays
      /\ diary'.owed = diary.owed /\ diary'.used = diary.used
      /\ Delivered(t)' /\ \A u \in Nat : Delivered(u) => Delivered(u)'
  <2>1. CASE diary' = [diary EXCEPT !.seen = @ \cup {t}]
    <3>1. PICK seen \in SUBSET Nat : seen = diary.seen \cup {t}
      BY <1>3, BridgeParts
    <3>2. diary' = [diary EXCEPT !.seen = seen]
      BY <2>1, <3>1
    <3>3. /\ diary' \in BridgeDiary /\ PressesStay /\ TurnsStay /\ WordStays
          /\ diary'.owed = diary.owed /\ diary'.used = diary.used
          /\ diary'.seen = seen /\ diary'.lost = diary.lost
      BY <3>2, BridgeParts DEF BridgeDiary, PressesStay, TurnsStay, WordStays
    <3> QED BY <3>1, <3>3 DEF Delivered
  <2>2. CASE diary' = [Broken EXCEPT !.lost = @ \cup {t}]
    <3>1. PICK lost \in SUBSET Nat : lost = Broken.lost \cup {t}
      BY <1>3, BrokenIs, BridgeParts
    <3>2. diary' = [Broken EXCEPT !.lost = lost]
      BY <2>2, <3>1
    <3>3. /\ diary' \in BridgeDiary /\ PressesStay /\ TurnsStay /\ WordStays
          /\ diary'.owed = diary.owed /\ diary'.used = diary.used
          /\ diary'.lost = lost /\ diary'.seen = diary.seen
      BY <3>2, BrokenIs DEF BridgeDiary, PressesStay, TurnsStay, WordStays
    <3>4. lost = diary.lost \cup {t}
      BY <3>1, BrokenIs
    <3> QED BY <3>3, <3>4 DEF Delivered
  <2> QED BY <1>2, <2>1, <2>2
<1>6. ChatsCalm
  BY <1>2, BridgeParts DEF ChatsCalm
<1>7. TurnsAreNumbered' /\ OfStays
  BY <1>5, <1>6, TurnsKeep, OfKept DEF TurnsStay
<1>8. \A u \in Nat : Waits(watch, "end", u) => Waits(watch', "end", u) \/ Delivered(u)'
  BY <1>3, <1>5
<1>9. OwedAreWatched' /\ UsedIsWatched'
  BY <1>3, <1>5, <1>7, <1>8, DebtsKeep DEF TurnsStay
<1>11. AsksAreNew' /\ PressAgrees' /\ ButtonsAgree'
  BY <1>2, <1>3, <1>5, <1>7, ButtonsKeep DEF TurnsStay
<1>12. SelectionAgrees' /\ DownIsQuiet'
  BY <1>2, <1>4, <1>5, SelectionKeeps, UpKeeps
<1>13. BridgeTypes' /\ SubmitIsWatched'
  BY <1>2, <1>3, <1>5, BridgeParts DEF BridgeTypes, SubmitIsWatched, Watched, At, Existing
<1> QED BY <1>7, <1>9, <1>11, <1>12, <1>13 DEF BridgeInv

(* The observer of a closed subscription is done when it has read it.         *)
LEMMA ObserverEndsHolds == ASSUME BridgeInv, ObserverEnds PROVE BridgeInv'
<1>1. /\ watch.on # Nowhere /\ ~watch.open /\ watch.feed = <<>> /\ watch.card = 0 /\ watch' = NoWatch
      /\ UNCHANGED <<line, chats, buttons, shown, handler, press, diary>>
  BY DEF ObserverEnds
<1>2. line.up = TRUE
  BY <1>1, WhoIsUp
<1>3. PressesStay /\ DebtStays /\ TurnsStay /\ WordStays /\ OfStays /\ ChatsCalm
  BY <1>1, DiaryRests, OfKept, BridgeParts DEF ChatsCalm
<1>4. TurnsAreNumbered'
  BY <1>3, TurnsKeep DEF DebtStays
<1>5. \A t : ~Waits(watch, "end", t)
  BY <1>1, FeedEmpty
<1>6. \A t \in diary.owed : Delivered(t)
  BY <1>1, <1>5, BridgeParts DEF OwedAreWatched
<1>7. diary.used = Nowhere
  BY <1>1, BridgeParts DEF UsedIsWatched, Watched
<1>8. OwedAreWatched' /\ UsedIsWatched'
  BY <1>1, <1>6, <1>7 DEF OwedAreWatched, UsedIsWatched, Delivered
<1>9. watch' \in BridgeWatch /\ watch'.card = 0 /\ Once(watch'.feed) /\ \A t \in Nat : ~Waits(watch', "ask", t)
  BY <1>1, RestTypes, FeedEmpty
<1>10. AsksAreNew' /\ PressAgrees' /\ ButtonsAgree'
  BY <1>1, <1>3, <1>9, ButtonsKeep
<1>11. SelectionAgrees' /\ DownIsQuiet'
  BY <1>1, <1>2, <1>3, SelectionKeeps, UpKeeps
<1>12. BridgeTypes' /\ SubmitIsWatched'
  BY <1>1, <1>9, BridgeParts DEF BridgeTypes, SubmitIsWatched, Watched, At, Existing
<1> QED BY <1>4, <1>8, <1>10, <1>11, <1>12 DEF BridgeInv

-----------------------------------------------------------------------------
(* Steps of requests, cards and buttons.                                      *)
LEMMA CardStep ==
  ASSUME BridgeInv, BridgeTypes', TurnsStay, DebtStays, WordStays, ChatsCalm, UNCHANGED handler,
         \A s \in Chats : chats'[s].made = chats[s].made, DownIsQuiet',
         line'.up = line.up, line'.selected = line.selected, line'.saved = line.saved,
         watch'.on = watch.on, watch'.open = watch.open,
         \A t \in Nat : Waits(watch, "end", t) => Waits(watch', "end", t),
         AsksAreNew', PressAgrees', ButtonsAgree'
  PROVE  BridgeInv'
<1>1. TurnsAreNumbered' /\ OfStays
  BY TurnsKeep, OfKept DEF DebtStays, TurnsStay
<1>2. OwedAreWatched' /\ UsedIsWatched'
  BY <1>1, DebtsLast, DebtsKeep DEF TurnsStay, DebtStays
<1>3. SubmitIsWatched'
  <2>1. Existing(handler.s)' => Existing(handler.s)
    BY DEF Existing
  <2> QED BY <2>1, SubmitKeeps
<1>4. SelectionAgrees'
  BY BridgeParts DEF SelectionAgrees, WordStays, Unsaved, At
<1> QED BY <1>1, <1>2, <1>3, <1>4 DEF BridgeInv

LEMMA PairIs ==
  ASSUME BridgeInv, NEW t \in diary.asked
  PROVE  Pair(t) \subseteq BridgeButton /\ \A b \in Pair(t) : b.turn = t
<1>1. t \in Nat /\ t \in 1..diary.turns
  BY BridgeParts DEF TurnsAreNumbered
<1>2. diary.of[t] \in Places
  BY <1>1, TurnsAreOf DEF Places
<1> QED BY <1>1, <1>2 DEF Pair, BridgeButton

(* The channel runs while the observer has an event or a card.                *)
LEMMA BusyIsUp ==
  ASSUME BridgeInv, line'.up = line.up,
         watch.feed # <<>> \/ watch.card # 0 \/ buttons # {} \/ press.pc # "idle"
  PROVE  DownIsQuiet'
BY WhoIsUp, UpKeeps

LEMMA StreamAskHolds == ASSUME BridgeInv, StreamAsk PROVE BridgeInv'
<1>1. PICK t \in {Head(watch.feed).turn} : TRUE
  OBVIOUS
<1>2. /\ Streams("ask") /\ UNCHANGED <<chats, shown, handler, press, diary>>
      /\ \/ watch' = Consumed /\ UNCHANGED <<line, buttons>>
         \/ /\ watch' = [Consumed EXCEPT !.card = t]
            /\ line' = [line EXCEPT !.flying = @ \cup {t}]
            /\ buttons' = buttons \cup Pair(t)
  BY DEF StreamAsk
<1>3. /\ Consumed \in BridgeWatch /\ Consumed.on = watch.on /\ Consumed.card = 0
      /\ Consumed.open = watch.open /\ Once(Consumed.feed)
      /\ t \in Nat /\ Waits(watch, "ask", t) /\ watch.card = 0
      /\ \A u \in Nat : Waits(Consumed, "ask", u) => Waits(watch, "ask", u) /\ u # t
      /\ \A u \in Nat : Waits(watch, "end", u) => Waits(Consumed, "end", u)
  BY <1>2, TakenIs
<1>4. TurnsStay /\ DebtStays /\ WordStays /\ PressesStay /\ OfStays
  BY <1>2, DiaryRests, OfKept DEF TurnsStay
<1>5. ChatsCalm /\ \A s \in Chats : chats'[s].made = chats[s].made
  BY <1>2, BridgeParts DEF ChatsCalm
<1>6. CASE watch' = Consumed /\ UNCHANGED <<line, buttons>>
  <2>1. DownIsQuiet'
    BY <1>2, <1>6, BusyIsUp DEF Streams
  <2>2. AsksAreNew' /\ PressAgrees' /\ ButtonsAgree'
    <3>1. \A u \in Nat : Waits(watch', "ask", u) => Waits(watch, "ask", u)
      BY <1>3, <1>6
    <3> QED BY <1>2, <1>3, <1>4, <1>6, <3>1, ButtonsKeep DEF TurnsStay
  <2>3. BridgeTypes'
    BY <1>2, <1>3, <1>6, BridgeParts DEF BridgeTypes
  <2> QED BY <1>2, <1>3, <1>4, <1>5, <1>6, <2>1, <2>2, <2>3, CardStep
<1>7. CASE /\ watch' = [Consumed EXCEPT !.card = t]
           /\ line' = [line EXCEPT !.flying = @ \cup {t}]
           /\ buttons' = buttons \cup Pair(t)
  <2>1. /\ watch' \in BridgeWatch /\ watch'.on = watch.on /\ watch'.card = t
        /\ watch'.open = watch.open /\ watch'.feed = Consumed.feed
    BY <1>3, <1>7 DEF BridgeWatch
  <2>2. /\ line' \in BridgeLine /\ line'.up = line.up /\ line'.selected = line.selected
        /\ line'.saved = line.saved /\ line'.flying = line.flying \cup {t}
    <3>1. PICK flying \in SUBSET Nat : flying = line.flying \cup {t}
      BY <1>3, BridgeParts
    <3>2. line' = [line EXCEPT !.flying = flying]
      BY <1>7, <3>1
    <3> QED BY <3>1, <3>2, BridgeParts DEF BridgeLine
  <2>3. \A kind \in {"ask", "end"}, u \in Nat : Waits(watch', kind, u) = Waits(Consumed, kind, u)
    BY <2>1 DEF Waits
  <2>4. Untouched(t)
    BY <1>3, BridgeParts DEF AsksAreNew
  <2>5. Pair(t) \subseteq BridgeButton /\ \A b \in Pair(t) : b.turn = t
    BY <2>4, PairIs DEF Untouched
  <2>6. (\A u : Live(u)' <=> Live(u)) /\ \A u \in diary.asked : Pair(u)' = Pair(u)
    BY <1>2, <1>4, LivesStay, PairsStay
  <2>7. ASSUME NEW u \in Nat, Waits(watch', "ask", u) PROVE Untouched(u)'
    <3>1. Untouched(u) /\ u # t
      BY <1>3, <2>3, <2>7, BridgeParts DEF AsksAreNew
    <3>2. \A b \in buttons' \cup shown' : b.turn # u
      BY <1>2, <1>7, <2>5, <3>1 DEF Untouched
    <3> QED BY <1>2, <2>1, <2>2, <2>6, <3>1, <3>2 DEF Untouched
  <2>8. AsksAreNew'
    BY <1>3, <2>1, <2>7 DEF AsksAreNew
  <2>9. PressAgrees'
    BY <1>2, BridgeParts DEF PressAgrees
  <2>10. ButtonsAgree'
    <3>1. \A b \in buttons' : b.turn \in diary.asked /\ b.turn \notin diary.pressed /\ b.turn # press.turn
      BY <1>7, <2>4, <2>5, BridgeParts DEF ButtonsAgree, Untouched, Live
    <3>2. \A u \in line'.flying : u \in diary.asked /\ (Live(u)' => Pair(u)' \subseteq buttons')
      BY <1>7, <2>2, <2>4, <2>6, BridgeParts DEF ButtonsAgree, Untouched
    <3>3. \A b \in shown : Live(b.turn)' => b \in buttons'
      BY <1>7, <2>6, BridgeParts DEF ButtonsAgree
    <3>4. t \in diary.asked /\ \A b \in shown : b.turn \in diary.asked
      BY <2>4, BridgeParts DEF ButtonsAgree, Untouched
    <3> QED BY <1>2, <2>1, <3>1, <3>2, <3>3, <3>4 DEF ButtonsAgree
  <2>11. BridgeTypes'
    BY <1>2, <1>7, <2>1, <2>2, <2>5, BridgeParts DEF BridgeTypes
  <2>12. \A u \in Nat : Waits(watch, "end", u) => Waits(watch', "end", u)
    BY <1>3, <2>3
  <2>13. DownIsQuiet'
    BY <1>2, <2>2, BusyIsUp DEF Streams
  <2> QED BY <1>2, <1>4, <1>5, <2>1, <2>2, <2>8, <2>9, <2>10, <2>11, <2>12, <2>13, CardStep
<1> QED BY <1>2, <1>6, <1>7

(* The card is on the screen: its buttons are in the store, or were.          *)
LEMMA SendHolds == ASSUME BridgeInv, SendCard PROVE BridgeInv'
<1>1. PICK t \in line.flying : /\ line' = [line EXCEPT !.flying = @ \ {t}]
                               /\ shown' = shown \cup Pair(t)
  BY DEF SendCard
<1>2. UNCHANGED <<chats, watch, buttons, handler, press, diary>>
  BY DEF SendCard
<1>3. /\ line' \in BridgeLine /\ line'.up = line.up /\ line'.selected = line.selected
      /\ line'.saved = line.saved /\ line'.flying = line.flying \ {t}
  <2>1. PICK flying \in SUBSET Nat : flying = line.flying \ {t}
    BY BridgeParts
  <2>2. line' = [line EXCEPT !.flying = flying]
    BY <1>1, <2>1
  <2> QED BY <2>1, <2>2, BridgeParts DEF BridgeLine
<1>4. TurnsStay /\ DebtStays /\ WordStays /\ PressesStay /\ OfStays
  BY <1>2, DiaryRests, OfKept DEF TurnsStay
<1>5. ChatsCalm /\ \A s \in Chats : chats'[s].made = chats[s].made
  BY <1>2, BridgeParts DEF ChatsCalm
<1>6. t \in Nat /\ t \in diary.asked
  BY BridgeParts DEF ButtonsAgree
<1>7. Pair(t) \subseteq BridgeButton /\ \A b \in Pair(t) : b.turn = t
  BY <1>6, PairIs
<1>8. (\A u : Live(u)' <=> Live(u)) /\ \A u \in diary.asked : Pair(u)' = Pair(u)
  BY <1>2, <1>4, LivesStay, PairsStay
<1>9. AsksAreNew'
  <2>1. ASSUME NEW u \in Nat, Waits(watch, "ask", u) PROVE Untouched(u)'
    <3>1. Untouched(u) /\ u # t
      BY <2>1, BridgeParts DEF AsksAreNew, Untouched
    <3>2. \A b \in buttons' \cup shown' : b.turn # u
      BY <1>1, <1>2, <1>7, <3>1 DEF Untouched
    <3> QED BY <1>2, <1>3, <1>8, <3>1, <3>2 DEF Untouched
  <2>2. Once(watch'.feed)
    BY <1>2, BridgeParts DEF AsksAreNew
  <2> QED BY <1>2, <2>1, <2>2 DEF AsksAreNew
<1>10. PressAgrees'
  BY <1>2, BridgeParts DEF PressAgrees
<1>11. ButtonsAgree'
  <2>1. \A b \in shown' : b.turn \in diary.asked
    BY <1>1, <1>6, <1>7, BridgeParts DEF ButtonsAgree
  <2>2. \A u \in line'.flying : u \in diary.asked /\ (Live(u)' => Pair(u)' \subseteq buttons)
    BY <1>3, <1>8, BridgeParts DEF ButtonsAgree
  <2>3. ASSUME NEW b \in shown', Live(b.turn)' PROVE b \in buttons
    <3>1. Live(b.turn)
      BY <1>8, <2>3
    <3>2. CASE b \in shown
      BY <3>1, <3>2, BridgeParts DEF ButtonsAgree
    <3>3. CASE b \in Pair(t)
      BY <1>7, <3>1, <3>3, BridgeParts DEF ButtonsAgree
    <3> QED BY <1>1, <2>3, <3>2, <3>3
  <2> QED BY <1>2, <2>1, <2>2, <2>3, BridgeParts DEF ButtonsAgree
<1>12. BridgeTypes'
  BY <1>1, <1>2, <1>3, <1>7, BridgeParts DEF BridgeTypes
<1>13. DownIsQuiet'
  BY <1>2, <1>3, BridgeParts DEF DownIsQuiet, At
<1>14. \A u \in Nat : Waits(watch, "end", u) => Waits(watch', "end", u)
  BY <1>2 DEF Waits
<1> QED BY <1>2, <1>3, <1>4, <1>5, <1>9, <1>10, <1>11, <1>12, <1>13, <1>14, CardStep

(* A group leaves the store, given up.                                        *)
LEMMA GroupGoes ==
  ASSUME BridgeInv, NEW t \in diary.asked, buttons' = WithoutCard(t),
         diary' = [Broken EXCEPT !.void = @ \cup {t}], line'.flying = line.flying,
         UNCHANGED <<shown, press>>, watch'.feed = watch.feed, watch'.card \in {0, watch.card},
         t = watch.card \/ \E b \in buttons : b.turn = t
  PROVE  /\ diary' \in BridgeDiary /\ TurnsStay /\ DebtStays /\ WordStays
         /\ buttons' \subseteq BridgeButton /\ AsksAreNew' /\ PressAgrees' /\ ButtonsAgree'
<1>1. PICK void \in SUBSET Nat : void = diary.void \cup {t}
  BY BridgeParts
<1>2. diary' = [Broken EXCEPT !.void = void]
  BY <1>1, BrokenIs
<1>3. /\ diary' \in BridgeDiary /\ TurnsStay /\ DebtStays /\ WordStays
      /\ diary'.pressed = diary.pressed /\ diary'.twice = diary.twice /\ diary'.void = void
  BY <1>2, BrokenIs DEF BridgeDiary, TurnsStay, DebtStays, WordStays
<1>4. buttons' \subseteq buttons /\ \A b \in buttons : b.turn # t => b \in buttons'
  BY DEF WithoutCard
<1>5. \A u : Live(u)' <=> Live(u) /\ u # t
  BY <1>1, <1>3 DEF Live
<1>6. OfStays
  BY <1>3, OfKept DEF TurnsStay
<1>7. \A u \in diary.asked : Pair(u)' = Pair(u)
  BY <1>6, PairsStay
<1>8. AsksAreNew'
  <2>1. ASSUME NEW u \in Nat, Waits(watch', "ask", u) PROVE Untouched(u)'
    <3>1. Waits(watch, "ask", u)
      BY <2>1 DEF Waits
    <3>2. Untouched(u)
      BY <3>1, BridgeParts DEF AsksAreNew
    <3>3. u # 0
      BY <3>2, BridgeParts DEF Untouched, TurnsAreNumbered
    <3>5. u # t
      BY <3>2 DEF Untouched
    <3> QED BY <1>3, <1>4, <1>5, <3>2, <3>3, <3>5 DEF Untouched, TurnsStay
  <2>2. Once(watch'.feed)
    BY BridgeParts DEF AsksAreNew
  <2> QED BY <2>1, <2>2 DEF AsksAreNew
<1>9. PressAgrees'
  BY <1>1, <1>3, BridgeParts DEF PressAgrees, TurnsStay
<1>10. ButtonsAgree'
  <2>1. \A u \in line.flying : Live(u)' => Pair(u)' \subseteq buttons'
    <3>1. ASSUME NEW u \in line.flying, Live(u)' PROVE Pair(u)' \subseteq buttons'
      <4>1. u # t /\ Live(u) /\ u \in Nat /\ u \in diary.asked
        BY <1>5, <3>1, BridgeParts DEF ButtonsAgree
      <4>2. Pair(u) \subseteq buttons /\ \A b \in Pair(u) : b.turn = u
        BY <4>1, PairIs, BridgeParts DEF ButtonsAgree
      <4> QED BY <1>4, <1>7, <4>1, <4>2
    <3> QED BY <3>1
  <2>2. \A b \in shown : Live(b.turn)' => b \in buttons'
    BY <1>4, <1>5, BridgeParts DEF ButtonsAgree
  <2>3. watch'.card # 0 => watch'.card \in diary.asked
    BY BridgeParts DEF ButtonsAgree
  <2> QED BY <1>3, <1>4, <2>1, <2>2, <2>3, BridgeParts DEF ButtonsAgree, TurnsStay
<1> QED BY <1>3, <1>4, <1>8, <1>9, <1>10, BridgeParts

LEMMA SentHolds == ASSUME BridgeInv, CardSent PROVE BridgeInv'
<1>1. /\ watch.card # 0 /\ watch' = [watch EXCEPT !.card = 0]
      /\ line' = (IF Feishu THEN PutCard(watch.card) ELSE line)
      /\ UNCHANGED <<chats, buttons, shown, handler, press, diary>>
  BY DEF CardSent
<1>2. /\ watch' \in BridgeWatch /\ watch'.on = watch.on /\ watch'.open = watch.open
      /\ watch'.card = 0 /\ watch'.feed = watch.feed
  BY <1>1, BridgeParts DEF BridgeWatch
<1>3. /\ line' \in BridgeLine /\ line'.up = line.up /\ line'.selected = line.selected
      /\ line'.saved = line.saved /\ line'.flying = line.flying
  <2>1. PICK cards \in SUBSET Nat : cards = line.cards \cup {watch.card}
    BY BridgeParts
  <2>2. PutCard(watch.card) = [line EXCEPT !.cards = cards]
    BY <2>1 DEF PutCard
  <2>3. LET l == [line EXCEPT !.cards = cards] IN
        l \in BridgeLine /\ l.up = line.up /\ l.selected = line.selected /\ l.saved = line.saved
        /\ l.flying = line.flying
    BY <2>1, BridgeParts DEF BridgeLine
  <2> QED BY <1>1, <2>2, <2>3, BridgeParts
<1>4. TurnsStay /\ DebtStays /\ WordStays /\ PressesStay /\ OfStays
  BY <1>1, DiaryRests, OfKept DEF TurnsStay
<1>5. ChatsCalm /\ \A s \in Chats : chats'[s].made = chats[s].made
  BY <1>1, BridgeParts DEF ChatsCalm
<1>6. \A kind \in {"ask", "end"}, u \in Nat : Waits(watch', kind, u) <=> Waits(watch, kind, u)
  BY <1>2 DEF Waits
<1>7. Once(watch'.feed)
  BY <1>2, BridgeParts DEF AsksAreNew
<1>8. AsksAreNew' /\ PressAgrees' /\ ButtonsAgree'
  BY <1>1, <1>2, <1>3, <1>4, <1>6, <1>7, ButtonsKeep DEF TurnsStay
<1>9. DownIsQuiet'
  BY <1>1, <1>3, BusyIsUp
<1>10. BridgeTypes'
  BY <1>1, <1>2, <1>3, BridgeParts DEF BridgeTypes
<1> QED BY <1>1, <1>2, <1>3, <1>4, <1>5, <1>6, <1>8, <1>9, <1>10, CardStep

LEMMA FailsHolds == ASSUME BridgeInv, CardFails PROVE BridgeInv'
<1>1. /\ watch.card # 0 /\ watch' = [watch EXCEPT !.card = 0]
      /\ UNCHANGED <<line, chats, shown, handler, press>>
      /\ \/ UNCHANGED buttons /\ diary' = Broken
         \/ /\ buttons' = WithoutCard(watch.card)
            /\ diary' = [Broken EXCEPT !.void = @ \cup {watch.card}]
  BY DEF CardFails
<1>2. /\ watch' \in BridgeWatch /\ watch'.on = watch.on /\ watch'.open = watch.open
      /\ watch'.card = 0 /\ watch'.feed = watch.feed
  BY <1>1, BridgeParts DEF BridgeWatch
<1>3. \A kind \in {"ask", "end"}, u \in Nat : Waits(watch', kind, u) <=> Waits(watch, kind, u)
  BY <1>2 DEF Waits
<1>4. ChatsCalm /\ \A s \in Chats : chats'[s].made = chats[s].made
  BY <1>1, BridgeParts DEF ChatsCalm
<1>5. DownIsQuiet'
  BY <1>1, BusyIsUp
<1>6. /\ diary' \in BridgeDiary /\ TurnsStay /\ DebtStays /\ WordStays
      /\ buttons' \subseteq BridgeButton /\ AsksAreNew' /\ PressAgrees' /\ ButtonsAgree'
  <2>1. CASE UNCHANGED buttons /\ diary' = Broken
    <3>1. diary' \in BridgeDiary /\ TurnsStay /\ DebtStays /\ WordStays /\ PressesStay
      BY <2>1, BrokenIs DEF TurnsStay, DebtStays, WordStays, PressesStay
    <3>2. OfStays
      BY <3>1, OfKept DEF TurnsStay
    <3>3. Once(watch'.feed)
      BY <1>2, BridgeParts DEF AsksAreNew
    <3>4. AsksAreNew' /\ PressAgrees' /\ ButtonsAgree'
      BY <1>1, <1>2, <1>3, <2>1, <3>1, <3>2, <3>3, ButtonsKeep DEF TurnsStay
    <3> QED BY <2>1, <3>1, <3>4, BridgeParts
  <2>2. CASE /\ buttons' = WithoutCard(watch.card)
             /\ diary' = [Broken EXCEPT !.void = @ \cup {watch.card}]
    <3>1. PICK t \in diary.asked : t = watch.card
      BY <1>1, BridgeParts DEF ButtonsAgree
    <3> QED BY <1>1, <1>2, <2>2, <3>1, GroupGoes
  <2> QED BY <1>1, <2>1, <2>2
<1>7. BridgeTypes'
  BY <1>1, <1>2, <1>6, BridgeParts DEF BridgeTypes
<1> QED BY <1>1, <1>2, <1>3, <1>4, <1>5, <1>6, <1>7, CardStep

LEMMA ExpireHolds == ASSUME BridgeInv, ButtonsExpire PROVE BridgeInv'
<1>1. PICK b \in buttons : /\ buttons' = WithoutCard(b.turn) /\ line' = TakeCard(b.turn)
                           /\ diary' = [Broken EXCEPT !.void = @ \cup {b.turn}]
  BY DEF ButtonsExpire
<1>2. UNCHANGED <<chats, watch, shown, handler, press>>
  BY DEF ButtonsExpire
<1>3. PICK t \in diary.asked : t = b.turn
  BY BridgeParts DEF ButtonsAgree
<1>4. /\ line' \in BridgeLine /\ line'.up = line.up /\ line'.selected = line.selected
      /\ line'.saved = line.saved /\ line'.flying = line.flying
  <2>1. PICK cards \in SUBSET Nat : cards = line.cards \ {t}
    BY BridgeParts
  <2>2. line' = [line EXCEPT !.cards = cards]
    BY <1>1, <1>3, <2>1 DEF TakeCard
  <2> QED BY <2>1, <2>2, BridgeParts DEF BridgeLine
<1>5. /\ diary' \in BridgeDiary /\ TurnsStay /\ DebtStays /\ WordStays
      /\ buttons' \subseteq BridgeButton /\ AsksAreNew' /\ PressAgrees' /\ ButtonsAgree'
  <2>1. /\ buttons' = WithoutCard(t) /\ diary' = [Broken EXCEPT !.void = @ \cup {t}]
        /\ watch'.feed = watch.feed /\ watch'.card \in {0, watch.card}
        /\ \E x \in buttons : x.turn = t
    BY <1>1, <1>2, <1>3
  <2> QED BY <1>2, <1>4, <2>1, GroupGoes
<1>6. DownIsQuiet'
  BY <1>4, BusyIsUp
<1>7. ChatsCalm /\ \A s \in Chats : chats'[s].made = chats[s].made
  BY <1>2, BridgeParts DEF ChatsCalm
<1>8. BridgeTypes'
  BY <1>2, <1>4, <1>5, BridgeParts DEF BridgeTypes
<1>9. \A u \in Nat : Waits(watch, "end", u) => Waits(watch', "end", u)
  BY <1>2 DEF Waits
<1> QED BY <1>2, <1>4, <1>5, <1>6, <1>7, <1>8, <1>9, CardStep

LEMMA PressHolds ==
  ASSUME BridgeInv, NEW b \in shown, PressButton(b)
  PROVE  BridgeInv'
<1>1. /\ line.up /\ press.pc = "idle" /\ TakeAction(b)
      /\ UNCHANGED <<line, chats, watch, shown, handler, diary>>
  BY DEF PressButton
<1>2. TurnsStay /\ DebtStays /\ WordStays /\ PressesStay /\ OfStays
  BY <1>1, DiaryRests, OfKept DEF TurnsStay
<1>3. ChatsCalm /\ \A s \in Chats : chats'[s].made = chats[s].made
  BY <1>1, BridgeParts DEF ChatsCalm
<1>4. AsksAreNew' /\ PressAgrees' /\ ButtonsAgree' /\ BridgeTypes'
  <2>1. CASE b \in buttons
    <3>1. /\ press' = [pc |-> "resolve", turn |-> b.turn, s |-> b.s] /\ buttons' = WithoutCard(b.turn)
      BY <1>1, <2>1 DEF TakeAction
    <3>2. b.turn \in Nat /\ b.s \in Places
      BY BridgeParts DEF BridgeButton
    <3>3. press' \in BridgePress /\ press'.pc = "resolve" /\ press'.turn = b.turn
      BY <3>1, <3>2 DEF BridgePress
    <3>4. /\ buttons' \subseteq buttons /\ \A x \in buttons' : x.turn # b.turn
          /\ \A x \in buttons : x.turn # b.turn => x \in buttons'
      BY <3>1 DEF WithoutCard
    <3>5. b.turn \in diary.asked /\ b.turn \notin diary.pressed
      BY <2>1, BridgeParts DEF ButtonsAgree
    <3>6. press.turn = 0 /\ \A u \in diary.asked : u # 0
      BY <1>1, BridgeParts DEF PressAgrees, TurnsAreNumbered
    <3>7. \A u \in diary.asked : Live(u)' <=> Live(u) /\ u # b.turn
      BY <1>1, <3>3, <3>6 DEF Live
    <3>8. \A u \in diary.asked : Pair(u)' = Pair(u)
      BY <1>2, PairsStay
    <3>9. AsksAreNew'
      <4>1. ASSUME NEW u \in Nat, Waits(watch, "ask", u) PROVE Untouched(u)'
        <5>1. Untouched(u) /\ u # b.turn
          BY <4>1, <2>1, BridgeParts DEF AsksAreNew, Untouched
        <5> QED BY <1>1, <3>4, <3>7, <5>1 DEF Untouched
      <4>2. Once(watch'.feed)
        BY <1>1, BridgeParts DEF AsksAreNew
      <4> QED BY <1>1, <4>1, <4>2 DEF AsksAreNew
    <3>10. PressAgrees'
      BY <1>1, <3>3, <3>5, BridgeParts DEF PressAgrees
    <3>11. ButtonsAgree'
      <4>1. ASSUME NEW u \in line.flying, Live(u)' PROVE Pair(u)' \subseteq buttons'
        <5>1. u \in diary.asked /\ u \in Nat
          BY BridgeParts DEF ButtonsAgree
        <5>2. u # b.turn /\ Live(u)
          BY <3>7, <4>1, <5>1
        <5>3. Pair(u) \subseteq buttons /\ \A x \in Pair(u) : x.turn = u
          BY <5>1, <5>2, PairIs, BridgeParts DEF ButtonsAgree
        <5> QED BY <3>4, <3>8, <5>1, <5>2, <5>3
      <4>2. \A x \in shown : Live(x.turn)' => x \in buttons'
        BY <3>4, <3>7, BridgeParts DEF ButtonsAgree
      <4> QED BY <1>1, <3>3, <3>4, <4>1, <4>2, BridgeParts DEF ButtonsAgree
    <3>12. BridgeTypes'
      BY <1>1, <3>3, <3>4, BridgeParts DEF BridgeTypes
    <3> QED BY <3>9, <3>10, <3>11, <3>12
  <2>2. CASE b \notin buttons
    <3>1. UNCHANGED <<press, buttons>>
      BY <1>1, <2>2 DEF TakeAction
    <3> QED BY <1>1, <1>2, <3>1, ObserverRests, BridgeParts DEF BridgeTypes, TurnsStay
  <2> QED BY <2>1, <2>2
<1>5. DownIsQuiet'
  BY <1>1, BridgeParts, UpKeeps
<1>6. \A u \in Nat : Waits(watch, "end", u) => Waits(watch', "end", u)
  BY <1>1 DEF Waits
<1> QED BY <1>1, <1>2, <1>3, <1>4, <1>5, <1>6, CardStep

LEMMA ResolveHolds == ASSUME BridgeInv, ResolvePress PROVE BridgeInv'
<1>1. /\ press.pc = "resolve"
      /\ diary' = [diary EXCEPT !.twice = @ \/ press.turn \in diary.pressed,
                                !.pressed = @ \cup {press.turn}]
      /\ press' = (IF Feishu THEN [press EXCEPT !.pc = "close"] ELSE NoPress)
      /\ UNCHANGED <<line, watch, buttons, shown, handler>>
  BY DEF ResolvePress
<1>2. press.turn \notin diary.pressed /\ ~diary.twice /\ press.turn \in diary.asked
  BY <1>1, BridgeParts DEF PressAgrees
<1>3. PICK pressed \in SUBSET Nat : pressed = diary.pressed \cup {press.turn}
  BY BridgeParts
<1>4. diary' = [diary EXCEPT !.twice = FALSE, !.pressed = pressed]
  BY <1>1, <1>2, <1>3, BridgeParts
<1>5. /\ diary' \in BridgeDiary /\ TurnsStay /\ DebtStays /\ WordStays
      /\ diary'.twice = FALSE /\ diary'.pressed = pressed /\ diary'.void = diary.void
  BY <1>3, <1>4, BridgeParts DEF BridgeDiary, TurnsStay, DebtStays, WordStays
<1>6. /\ press' \in BridgePress /\ press'.pc \in {"idle", "close"}
      /\ (press'.pc = "close" => press'.turn = press.turn) /\ (press'.pc = "idle" => press'.turn = 0)
  BY <1>1, RestTypes, BridgeParts DEF BridgePress
<1>7. /\ chats' \in [Chats -> BridgeChat] /\ ChatsCalm
      /\ \A s \in Chats : chats'[s].made = chats[s].made
  <2> DEFINE s == press.s
  <2>1. CASE Existing(s) /\ chats[s].ask /\ chats[s].turn = press.turn
    <3>1. s \in Chats /\ Decide(s)
      BY <2>1 DEF ResolvePress, Existing
    <3> HIDE DEF s
    <3>2. chats' \in [Chats -> BridgeChat] /\ ChatsCalm
      BY <3>1, DecideIs
    <3>3. \A u \in Chats : chats'[u].made = chats[u].made
      BY <3>1, BridgeParts DEF Decide, BridgeChat
    <3> QED BY <3>2, <3>3
  <2>2. CASE ~(Existing(s) /\ chats[s].ask /\ chats[s].turn = press.turn)
    <3>1. UNCHANGED chats
      BY <2>2 DEF ResolvePress
    <3> QED BY <3>1, BridgeParts DEF ChatsCalm
  <2> QED BY <2>1, <2>2
<1>8. DownIsQuiet'
  BY <1>1, BusyIsUp
<1>9. OfStays /\ \A u \in diary.asked : u # 0
  BY <1>5, OfKept, BridgeParts DEF TurnsStay, TurnsAreNumbered
<1>10. \A u \in diary.asked : Live(u)' <=> Live(u)
  BY <1>3, <1>5, <1>6, <1>9 DEF Live
<1>11. \A u \in diary.asked : Pair(u)' = Pair(u)
  BY <1>9, PairsStay
<1>12. AsksAreNew'
  <2>1. ASSUME NEW u \in Nat, Waits(watch, "ask", u) PROVE Untouched(u)'
    <3>1. Untouched(u)
      BY <2>1, BridgeParts DEF AsksAreNew
    <3> QED BY <1>1, <1>5, <1>10, <3>1 DEF Untouched, TurnsStay
  <2>2. Once(watch'.feed)
    BY <1>1, BridgeParts DEF AsksAreNew
  <2> QED BY <1>1, <2>1, <2>2 DEF AsksAreNew
<1>13. PressAgrees'
  BY <1>2, <1>3, <1>5, <1>6, BridgeParts DEF PressAgrees, TurnsStay
<1>14. ButtonsAgree'
  <2>1. \A u \in line.flying : Live(u)' => Pair(u)' \subseteq buttons
    BY <1>10, <1>11, BridgeParts DEF ButtonsAgree
  <2>2. \A b \in shown : Live(b.turn)' => b \in buttons
    BY <1>10, BridgeParts DEF ButtonsAgree
  <2>3. \A b \in buttons : b.turn \notin pressed /\ b.turn # press'.turn
    BY <1>3, <1>6, <1>9, BridgeParts DEF ButtonsAgree
  <2> QED BY <1>1, <1>5, <2>1, <2>2, <2>3, BridgeParts DEF ButtonsAgree, TurnsStay
<1>15. BridgeTypes'
  BY <1>1, <1>5, <1>6, <1>7, BridgeParts DEF BridgeTypes
<1>16. \A u \in Nat : Waits(watch, "end", u) => Waits(watch', "end", u)
  BY <1>1 DEF Waits
<1> QED BY <1>1, <1>5, <1>7, <1>8, <1>12, <1>13, <1>14, <1>15, <1>16, CardStep

LEMMA CloseCardHolds == ASSUME BridgeInv, CloseCard PROVE BridgeInv'
<1>1. /\ press.pc = "close" /\ press' = NoPress /\ line' = TakeCard(press.turn)
      /\ UNCHANGED <<chats, watch, buttons, handler, diary>>
  BY DEF CloseCard
<1>2. shown' \subseteq shown
  BY DEF CloseCard
<1>3. /\ line' \in BridgeLine /\ line'.up = line.up /\ line'.selected = line.selected
      /\ line'.saved = line.saved /\ line'.flying = line.flying
  <2>1. PICK cards \in SUBSET Nat : cards = line.cards \ {press.turn}
    BY BridgeParts
  <2>2. line' = [line EXCEPT !.cards = cards]
    BY <1>1, <2>1 DEF TakeCard
  <2> QED BY <2>1, <2>2, BridgeParts DEF BridgeLine
<1>4. DownIsQuiet'
  BY <1>1, <1>3, BusyIsUp
<1>5. TurnsStay /\ DebtStays /\ WordStays /\ PressesStay /\ OfStays
  BY <1>1, DiaryRests, OfKept DEF TurnsStay
<1>6. ChatsCalm /\ \A s \in Chats : chats'[s].made = chats[s].made
  BY <1>1, BridgeParts DEF ChatsCalm
<1>7. /\ press.turn \in diary.pressed /\ press'.turn = 0 /\ press'.pc = "idle"
      /\ \A u \in diary.asked : u # 0
  BY <1>1, RestTypes, BridgeParts DEF PressAgrees, TurnsAreNumbered
<1>8. \A u \in diary.asked : Live(u)' <=> Live(u)
  BY <1>1, <1>7 DEF Live
<1>9. \A u \in diary.asked : Pair(u)' = Pair(u)
  BY <1>5, PairsStay
<1>10. AsksAreNew'
  <2>1. ASSUME NEW u \in Nat, Waits(watch, "ask", u) PROVE Untouched(u)'
    <3>1. Untouched(u)
      BY <2>1, BridgeParts DEF AsksAreNew
    <3> QED BY <1>1, <1>2, <1>3, <1>8, <3>1 DEF Untouched
  <2>2. Once(watch'.feed)
    BY <1>1, BridgeParts DEF AsksAreNew
  <2> QED BY <1>1, <2>1, <2>2 DEF AsksAreNew
<1>11. PressAgrees'
  BY <1>1, <1>7, BridgeParts DEF PressAgrees
<1>12. ButtonsAgree'
  <2>1. \A u \in line.flying : Live(u)' => Pair(u)' \subseteq buttons
    BY <1>8, <1>9, BridgeParts DEF ButtonsAgree
  <2>2. \A b \in shown' : b.turn \in diary.asked /\ (Live(b.turn)' => b \in buttons)
    BY <1>2, <1>8, BridgeParts DEF ButtonsAgree
  <2>3. \A b \in buttons : b.turn \in diary.asked /\ b.turn \notin diary.pressed /\ b.turn # press'.turn
    BY <1>7, BridgeParts DEF ButtonsAgree
  <2> QED BY <1>1, <1>3, <2>1, <2>2, <2>3, BridgeParts DEF ButtonsAgree
<1>13. BridgeTypes'
  BY <1>1, <1>2, <1>3, RestTypes, BridgeParts DEF BridgeTypes
<1>14. \A u \in Nat : Waits(watch, "end", u) => Waits(watch', "end", u)
  BY <1>1 DEF Waits
<1> QED BY <1>1, <1>3, <1>4, <1>5, <1>6, <1>10, <1>11, <1>12, <1>13, <1>14, CardStep

-----------------------------------------------------------------------------
LEMMA StopHolds == ASSUME BridgeInv, StopChannel PROVE BridgeInv'
<1> DEFINE none == {}
<1>1. /\ line' = [line EXCEPT !.up = FALSE, !.selected = Nowhere, !.cards = none]
      /\ watch' = NoWatch /\ handler' = NoHandler /\ press' = NoPress
      /\ buttons' = {} /\ UNCHANGED <<chats, shown>>
      /\ diary' = [Broken EXCEPT !.owed = none, !.used = Nowhere,
                     !.void = @ \cup {b.turn : b \in buttons} \cup {press.turn}]
  BY DEF StopChannel
<1>2. none \in SUBSET Nat /\ none = {}
  OBVIOUS
<1> HIDE DEF none
<1>a. PICK void \in SUBSET Nat : void = diary.void \cup {b.turn : b \in buttons} \cup {press.turn}
  BY BridgeParts DEF BridgeButton
<1>b. diary' = [Broken EXCEPT !.owed = none, !.used = Nowhere, !.void = void]
  BY <1>1, <1>a, BrokenIs
<1>c. /\ diary.void \subseteq void /\ press.turn \in void /\ \A b \in buttons : b.turn \in void
      /\ \A t \in void : t \in diary.void \/ t = press.turn \/ \E b \in buttons : t = b.turn
  BY <1>a
<1>3. line' \in BridgeLine /\ line'.up = FALSE /\ line'.saved = line.saved /\ line'.flying = line.flying
  BY <1>1, <1>2, BridgeParts DEF BridgeLine, Places
<1>4. /\ diary' \in BridgeDiary /\ TurnsStay /\ WordStays
      /\ diary'.owed = {} /\ diary'.used = Nowhere /\ diary'.seen = diary.seen /\ diary'.lost = diary.lost
      /\ diary'.pressed = diary.pressed /\ diary'.twice = diary.twice /\ diary'.void = void
  BY <1>b, <1>2, BrokenIs DEF BridgeDiary, TurnsStay, WordStays, Places
<1>5. ChatsCalm
  BY <1>1, BridgeParts DEF ChatsCalm
<1>6. TurnsAreNumbered' /\ OfStays
  BY <1>4, <1>5, TurnsKeep, OfKept DEF TurnsStay
<1>7. OwedAreWatched' /\ UsedIsWatched'
  BY <1>4, DebtsDropped
<1>8. watch'.card = 0 /\ Once(watch'.feed) /\ \A t \in Nat : ~Waits(watch', "ask", t)
  BY <1>1, RestTypes, FeedEmpty
<1>9. AsksAreNew'
  BY <1>8 DEF AsksAreNew
<1>d. press'.turn = 0 /\ press'.pc = "idle"
  BY <1>1, RestTypes
<1>e. \A t \in diary.asked : Live(t)' => Live(t) /\ t \notin void
  BY <1>4, <1>c DEF Live
<1>f. PressAgrees'
  <2>1. void \subseteq diary.asked \cup {0}
    BY <1>c, BridgeParts DEF PressAgrees, ButtonsAgree
  <2> QED BY <1>4, <1>d, <2>1, BridgeParts DEF PressAgrees, TurnsStay
<1>10. ButtonsAgree'
  <2>1. ASSUME NEW t \in line.flying PROVE ~Live(t)'
    <3>1. t \in diary.asked
      BY BridgeParts DEF ButtonsAgree
    <3>2. SUFFICES ASSUME Live(t), t \notin void PROVE FALSE
      BY <1>e, <3>1
    <3>3. Pair(t) \subseteq buttons
      BY <3>2, BridgeParts DEF ButtonsAgree
    <3>4. [turn |-> t, s |-> diary.of[t], allowed |-> TRUE] \in Pair(t)
      BY DEF Pair
    <3>5. [turn |-> t, s |-> diary.of[t], allowed |-> TRUE].turn = t
      OBVIOUS
    <3> QED BY <1>c, <3>2, <3>3, <3>4, <3>5
  <2>2. ASSUME NEW b \in shown PROVE ~Live(b.turn)'
    BY <1>c, <1>e, <2>2, BridgeParts DEF ButtonsAgree
  <2>3. /\ line.flying \subseteq diary.asked /\ \A b \in shown : b.turn \in diary.asked
    BY BridgeParts DEF ButtonsAgree
  <2> QED BY <1>1, <1>3, <1>4, <1>8, <2>1, <2>2, <2>3 DEF ButtonsAgree, TurnsStay
<1>11. SelectionAgrees'
  BY <1>1, <1>3, <1>4, RestTypes, BridgeParts DEF SelectionAgrees, WordStays, Unsaved, At
<1>12. DownIsQuiet' /\ SubmitIsWatched'
  BY <1>1, <1>4, RestTypes DEF DownIsQuiet, SubmitIsWatched, At
<1>13. BridgeTypes'
  BY <1>1, <1>3, <1>4, RestTypes, BridgeParts DEF BridgeTypes
<1> QED BY <1>6, <1>7, <1>9, <1>f, <1>10, <1>11, <1>12, <1>13 DEF BridgeInv

LEMMA StartHolds == ASSUME BridgeInv, StartChannel PROVE BridgeInv'
<1>1. /\ ~line.up /\ line' = [line EXCEPT !.up = TRUE, !.selected = line.saved]
      /\ watch' = (IF Existing(line.saved) THEN Watching(line.saved) ELSE NoWatch)
      /\ UNCHANGED <<chats, buttons, shown, handler, press, diary>>
  BY DEF StartChannel, Prepared, ResumeObserver
<1>3. line' \in BridgeLine /\ line'.up = TRUE /\ line'.saved = line.saved /\ line'.selected = line.saved
      /\ line'.flying = line.flying
  BY <1>1, BridgeParts DEF BridgeLine
<1>4. watch' \in BridgeWatch /\ watch'.card = 0 /\ watch'.feed = <<>>
  BY <1>1, NewWatch, RestTypes, BridgeParts
<1>5. Once(watch'.feed) /\ \A t \in Nat : ~Waits(watch', "ask", t)
  BY <1>4, FeedEmpty
<1>6. TurnsStay /\ DebtStays /\ WordStays /\ PressesStay /\ OfStays
  BY <1>1, DiaryRests, OfKept DEF TurnsStay
<1>7. ChatsCalm
  BY <1>1, BridgeParts DEF ChatsCalm
<1>8. At("idle") /\ diary.owed = {} /\ diary.used = Nowhere
  BY <1>1, BridgeParts DEF DownIsQuiet
<1>9. TurnsAreNumbered'
  BY <1>6, <1>7, TurnsKeep DEF DebtStays
<1>10. OwedAreWatched' /\ UsedIsWatched'
  BY <1>6, <1>8, DebtsDropped DEF DebtStays
<1>11. AsksAreNew' /\ PressAgrees' /\ ButtonsAgree'
  BY <1>1, <1>3, <1>4, <1>5, <1>6, ButtonsKeep DEF TurnsStay
<1>12. SelectionAgrees'
  BY <1>1, <1>3, <1>6, <1>8, BridgeParts DEF SelectionAgrees, WordStays, Unsaved, At
<1>13. DownIsQuiet' /\ SubmitIsWatched'
  BY <1>1, <1>3, <1>8, UpKeeps DEF SubmitIsWatched, At
<1>14. BridgeTypes'
  BY <1>1, <1>3, <1>4, BridgeParts DEF BridgeTypes
<1> QED BY <1>9, <1>10, <1>11, <1>12, <1>13, <1>14 DEF BridgeInv

LEMMA BridgeStutters == ASSUME BridgeInv, UNCHANGED bridgeVars PROVE BridgeInv'
<1>1. UNCHANGED <<line, chats, watch, buttons, shown, handler, press, diary>>
  BY DEF bridgeVars
<1>2. TurnsStay /\ DebtStays /\ WordStays /\ PressesStay /\ ChatsCalm
  BY <1>1, DiaryRests, BridgeParts DEF ChatsCalm
<1>3. TurnsAreNumbered' /\ OwedAreWatched' /\ UsedIsWatched' /\ AsksAreNew' /\ PressAgrees' /\ ButtonsAgree'
  BY <1>1, <1>2, TurnsKeep, OfKept, ObserverRests DEF TurnsStay, DebtStays
<1>4. SelectionAgrees' /\ DownIsQuiet'
  BY <1>1, <1>2, SelectionKeeps, DownKeeps
<1>5. BridgeTypes' /\ SubmitIsWatched'
  BY <1>1, BridgeParts DEF BridgeTypes, SubmitIsWatched, Watched, At, Existing
<1> QED BY <1>3, <1>4, <1>5 DEF BridgeInv

LEMMA BridgeStep == ASSUME BridgeInv, [BridgeNext]_bridgeVars PROVE BridgeInv'
<1>1. ASSUME NEW s \in Chats,
             ChatTurnElsewhere(s) \/ ChatAsks(s) \/ ChatDecidedElsewhere(s) \/ ChatEnds(s) \/ DeleteChat(s)
      PROVE  BridgeInv'
  BY <1>1, TurnElsewhereHolds, AskHolds, DecidedHolds, EndHolds, DeleteHolds
<1>2. CASE FeedCloses \/ ReceiveMessage \/ MakeSession \/ PromptSelected \/ UseChat \/ SelectChat
  BY <1>2, ClosesHolds, ReceiveHolds, MakeHolds, RoutesHold, SelectHolds
<1>3. CASE SaveState \/ SaveStateFails \/ ObserveSelected \/ ReplySelected \/ SubmitObserve \/ SubmitPrompt
  BY <1>3, SaveHolds, SaveFailsHolds, ObserveHolds, ReplyHolds, SubmitObserveHolds, SubmitPromptHolds
<1>4. CASE CancelChat \/ ResumeChat \/ AllowByCommand \/ StreamEnd \/ ObserverEnds \/ StreamAsk
  BY <1>4, CancelHolds, RoutesHold, AllowHolds, StreamEndHolds, ObserverEndsHolds, StreamAskHolds
<1>5. CASE SendCard \/ CardSent \/ CardFails \/ ButtonsExpire \/ \E b \in shown : PressButton(b)
  BY <1>5, SendHolds, SentHolds, FailsHolds, ExpireHolds, PressHolds
<1>6. CASE ResolvePress \/ CloseCard \/ StopChannel \/ StartChannel
  BY <1>6, ResolveHolds, CloseCardHolds, StopHolds, StartHolds
<1> QED BY <1>1, <1>2, <1>3, <1>4, <1>5, <1>6, BridgeStutters DEF BridgeNext

LEMMA BridgeStarts == BridgeInit => BridgeInv
<1> SUFFICES ASSUME BridgeInit PROVE BridgeInv
  OBVIOUS
<1> DEFINE none == {}
           of == <<>>
           idle == [made |-> FALSE, turn |-> 0, ask |-> FALSE]
           d == [inputs |-> 0, turns |-> 0, breaks |-> 0, told |-> Nowhere, unsaved |-> FALSE,
                 owed |-> none, ended |-> none, seen |-> none, lost |-> none, used |-> Nowhere,
                 pressed |-> none, void |-> none, twice |-> FALSE, asked |-> none, of |-> of]
<1>1. none \in SUBSET Nat /\ none \in SUBSET Chats /\ none = {} /\ of \in Seq(Chats) /\ Len(of) = 0
  OBVIOUS
<1>2. /\ chats = [s \in Chats |-> idle] /\ watch = NoWatch /\ buttons = {} /\ shown = {}
      /\ handler = NoHandler /\ press = NoPress /\ diary = d
      /\ line \in [kind : Adapters, up : {TRUE}, selected : {Nowhere}, saved : {Nowhere},
                   cards : {none}, flying : {none}]
  BY DEF BridgeInit
<1> HIDE DEF none, of
<1>3. d \in BridgeDiary /\ d.turns = 0 /\ d.told = Nowhere /\ d.owed = {} /\ d.ended = {} /\ d.used = Nowhere
      /\ d.pressed = {} /\ d.void = {} /\ d.twice = FALSE /\ d.asked = {} /\ d.of = of
  BY <1>1 DEF BridgeDiary, Places
<1> HIDE DEF d
<1>4. line \in BridgeLine /\ line.up = TRUE /\ line.selected = Nowhere /\ line.saved = Nowhere
      /\ line.flying = {}
  BY <1>1, <1>2 DEF BridgeLine, Places
<1>5. idle \in BridgeChat /\ idle.turn = 0 /\ idle.ask = FALSE
  BY DEF BridgeChat
<1> HIDE DEF idle
<1>6. chats \in [Chats -> BridgeChat] /\ \A s \in Chats : chats[s] = idle
  BY <1>2, <1>5
<1>7. BridgeTypes
  BY <1>2, <1>3, <1>4, <1>6, RestTypes DEF BridgeTypes
<1>8. TurnsAreNumbered
  BY <1>1, <1>2, <1>3, <1>5, <1>6 DEF TurnsAreNumbered, ChatHolds
<1>9. Once(watch.feed) /\ (\A t \in Nat : ~Waits(watch, "ask", t)) /\ watch.card = 0
  BY <1>2, RestTypes, FeedEmpty
<1>10. OwedAreWatched /\ UsedIsWatched /\ SubmitIsWatched
  BY <1>2, <1>3, RestTypes DEF OwedAreWatched, UsedIsWatched, SubmitIsWatched, At
<1>11. AsksAreNew /\ PressAgrees /\ ButtonsAgree
  BY <1>2, <1>3, <1>4, <1>9, RestTypes DEF AsksAreNew, PressAgrees, ButtonsAgree
<1>12. DownIsQuiet /\ SelectionAgrees
  BY <1>2, <1>3, <1>4, RestTypes DEF DownIsQuiet, SelectionAgrees, Unsaved, At
<1> QED BY <1>7, <1>8, <1>10, <1>11, <1>12 DEF BridgeInv

(* What waits in the feed is what is coming.                                  *)
LEMMA ComingIs ==
  ASSUME BridgeInv, NEW t \in Nat, Waits(watch, "end", t)
  PROVE  t \in Coming
<1>1. [kind |-> "end", turn |-> t] \in Range(watch.feed)
  BY DEF Waits
<1>2. watch.feed # <<>>
  BY <1>1 DEF Range
<1>3. [kind |-> "end", turn |-> t].turn = t /\ [kind |-> "end", turn |-> t].kind = "end"
  OBVIOUS
<1> QED BY <1>1, <1>2, <1>3 DEF Coming

LEMMA ConversationFollows == BridgeInv => ConversationHolds
<1> SUFFICES ASSUME BridgeInv PROVE ConversationHolds
  OBVIOUS
<1>1. diary.owed \subseteq Nat /\ diary.ended \subseteq Nat
  BY BridgeParts
<1>2. ASSUME NEW t \in Nat, Waits(watch, "end", t) \/ Delivered(t)
      PROVE  t \in diary.seen \cup diary.lost \cup Coming
  BY <1>2, ComingIs DEF Delivered
<1>3. AnswersArrive
  BY <1>1, <1>2, BridgeParts DEF AnswersArrive, OwedAreWatched
<1>4. UseLeavesNoGap
  <2>1. ASSUME NEW t \in diary.ended, diary.used # Nowhere, diary.of[t] = diary.used
        PROVE  t \in diary.seen \cup diary.lost \cup Coming \/ Cardinality(Later(t)) >= ReplayTurns
    <3>1. Delivered(t) \/ Waits(watch, "end", t) \/ TooOld(t)
      BY <2>1, BridgeParts DEF UsedIsWatched
    <3> QED BY <1>1, <1>2, <3>1 DEF TooOld
  <2> QED BY <2>1 DEF UseLeavesNoGap
<1>5. SelectionSurvives
  BY BridgeParts DEF SelectionSurvives, SelectionAgrees, Unsaved
<1>6. OneAnswerPerCard
  BY BridgeParts DEF OneAnswerPerCard, PressAgrees, ButtonsAgree, Live
<1> QED BY <1>3, <1>4, <1>5, <1>6 DEF ConversationHolds

(* What a conversation of a message channel may rely on, for any sessions,    *)
(* messages, presses, failures and restarts: the end of a turn it prompted is *)
(* sent to it, unless that fails, or the conversation turned away or lost its *)
(* subscription before the turn ended; /use leaves out no turn but those older *)
(* than the last it replays; a restart selects the session the user was told  *)
(* of; and a request is answered once, by a button that was in the store      *)
(* before it could be pressed and stays there until the group was given up.   *)
THEOREM ConversationCorrect == BridgeSpec => []ConversationHolds
<1>1. BridgeInit => BridgeInv
  BY BridgeStarts
<1>2. BridgeInv /\ [BridgeNext]_bridgeVars => BridgeInv'
  BY BridgeStep
<1>3. BridgeInv => ConversationHolds
  BY ConversationFollows
<1> QED BY <1>1, <1>2, <1>3, PTL DEF BridgeSpec

-----------------------------------------------------------------------------
(* Messages of the Feishu platform.                                           *)

SocketStates == {"None", "Active", "Closing", "Draining"}
Fate == [note : Notes, ok : BOOLEAN]
CloudRecord == [waiting : SUBSET Notes, acked : SUBSET Notes, frames : Nat]
Worker == [note : Notes \cup {NoNote}, ok : BOOLEAN]
Pieces == [Notes -> SUBSET {1, 2}]
SocketRecord ==
  [state : SocketStates, parts : Pieces, jobs : Seq(Notes), outbox : Seq(Notes),
   worker : Worker, outcomes : Seq(Fate), inflight : Int]
GatewayRecord ==
  [on : BOOLEAN, payloads : Seq(Notes), recent : Seq(Notes), working : Notes \cup {NoNote}]
Submission == [note : Notes, run : Nat]
Record ==
  [arrived : Seq(Notes), handled : Seq(Notes), submitted : Seq(Submission), dropped : SUBSET Notes,
   overtook : BOOLEAN, run : Nat, drops : Nat]

DeliveryTypes ==
  /\ cloud \in CloudRecord
  /\ socket \in SocketRecord
  /\ gateway \in GatewayRecord
  /\ record \in Record

(* Where a message is that the platform may forget.                           *)
Submitted(r) == {r.submitted[i].note : i \in DOMAIN r.submitted}
Held(g, r) == ToSet(g.payloads) \cup {g.working} \cup r.dropped \cup Submitted(r)

(* What the gateway acknowledges it holds, from the moment the worker has the  *)
(* payload forwarded.                                                         *)
OkIsHeld ==
  /\ socket.worker.ok /\ socket.worker.note # NoNote => socket.worker.note \in Held(gateway, record)
  /\ \A i \in 1 .. Len(socket.outcomes) :
       socket.outcomes[i].ok => socket.outcomes[i].note \in Held(gateway, record)

(* The i-th message the message loop took, whatever the run: submitted, or    *)
(* the one at work.                                                           *)
PassedOn(g, r, i) == IF i <= Len(r.submitted) THEN r.submitted[i].note ELSE g.working
CountOf(g, r) == Len(r.submitted) + (IF g.working = NoNote THEN 0 ELSE 1)

(* recent is what this run took last, all of it or as much as it may hold.    *)
RecentIsTrue(g, r) ==
  LET n == CountOf(g, r)
      k == Len(g.recent) IN
  /\ k <= RecentLimit /\ k <= n /\ (g.working # NoNote => k > 0 \/ k = RecentLimit)
  /\ \A m \in 1 .. k : g.recent[m] = PassedOn(g, r, n - k + m)
  /\ \A i \in 1 .. Len(r.submitted) : r.submitted[i].run = r.run => i > n - k \/ k = RecentLimit

(* The message at work was not submitted by this run lately.                  *)
WorkIsFresh(g, r) == g.working # NoNote =>
  \A i \in 1 .. Len(r.submitted) :
    r.submitted[i].run = r.run /\ r.submitted[i].note = g.working => Len(r.submitted) + 1 - i > RecentLimit

SubmissionsHold(g, r) ==
  /\ \A i \in 1 .. Len(r.submitted) : r.submitted[i].run <= r.run
  /\ RecentIsTrue(g, r)
  /\ WorkIsFresh(g, r)
  /\ \A i, j \in 1 .. Len(r.submitted) :
       i < j /\ r.submitted[i] = r.submitted[j] => j - i > RecentLimit

StoppedIsEmpty == ~gateway.on => gateway.payloads = <<>> /\ gateway.recent = <<>> /\ gateway.working = NoNote

DeliveryInv ==
  /\ DeliveryTypes /\ StoppedIsEmpty /\ SubmissionsHold(gateway, record)
  /\ AckedIsHeld /\ OkIsHeld /\ InflightIsTrue /\ OrderIsKept

-----------------------------------------------------------------------------
USE DEF Alive

(* Sequences as they move from one queue to the next.                         *)
LEMMA HeadJoins ==
  ASSUME NEW S, NEW a \in Seq(S), NEW b \in Seq(S), b # <<>>
  PROVE  /\ Head(b) \in S /\ Tail(b) \in Seq(S) /\ Len(Tail(b)) = Len(b) - 1
         /\ Append(a, Head(b)) \o Tail(b) = a \o b
<1>1. Head(b) \in S /\ Tail(b) \in Seq(S) /\ Len(Tail(b)) = Len(b) - 1 /\ Len(b) > 0
      /\ b = <<Head(b)>> \o Tail(b)
  BY HeadTailProperties, EmptySeq
<1>2. Append(a, Head(b)) = a \o <<Head(b)>>
  BY <1>1, AppendIsConcat
<1>3. <<Head(b)>> \in Seq(S)
  BY <1>1
<1>4. (a \o <<Head(b)>>) \o Tail(b) = a \o (<<Head(b)>> \o Tail(b))
  BY <1>1, <1>3, ConcatAssociative
<1> QED
  BY <1>1, <1>2, <1>4

LEMMA HeadMoves ==
  ASSUME NEW S, NEW a \in Seq(S), NEW b \in Seq(S), NEW c \in Seq(S), b # <<>>
  PROVE  /\ Head(b) \in S /\ Tail(b) \in Seq(S) /\ Len(Tail(b)) = Len(b) - 1
         /\ Append(a, Head(b)) \o Tail(b) \o c = a \o b \o c
<1>1. /\ Head(b) \in S /\ Tail(b) \in Seq(S) /\ Len(Tail(b)) = Len(b) - 1
      /\ Append(a, Head(b)) \o Tail(b) = a \o b
  BY HeadJoins
<1> QED
  BY <1>1

LEMMA NoteMoves ==
  ASSUME NEW a \in Seq(Notes), NEW b \in Seq(Notes), NEW c \in Seq(Notes), b # <<>>
  PROVE  (Append(a, Head(b)) \o Tail(b)) \o c = (a \o b) \o c
BY HeadMoves, SMTT(30)

LEMMA AppendAtEnd ==
  ASSUME NEW S, NEW a \in Seq(S), NEW b \in Seq(S), NEW x \in S
  PROVE  a \o Append(b, x) = Append(a \o b, x)
<1>1. Append(b, x) = b \o <<x>> /\ a \o b \in Seq(S) /\ <<x>> \in Seq(S)
  BY AppendIsConcat, ConcatProperties
<1>2. Append(a \o b, x) = (a \o b) \o <<x>>
  BY <1>1, AppendIsConcat
<1> QED
  BY <1>1, <1>2, ConcatAssociative

LEMMA ToSetOfAppend ==
  ASSUME NEW S, NEW a \in Seq(S), NEW x \in S
  PROVE  ToSet(Append(a, x)) = ToSet(a) \cup {x}
<1>1. Append(a, x) \in Seq(S) /\ Len(Append(a, x)) = Len(a) + 1
      /\ \A i \in 1 .. Len(a) : Append(a, x)[i] = a[i]
      /\ Append(a, x)[Len(a) + 1] = x
  BY AppendProperties
<1>2. DOMAIN a = 1 .. Len(a) /\ DOMAIN Append(a, x) = 1 .. Len(a) + 1 /\ Len(a) \in Nat
  BY <1>1, LenProperties
<1> QED
  BY <1>1, <1>2 DEF ToSet

LEMMA ToSetOfTail ==
  ASSUME NEW S, NEW a \in Seq(S), a # <<>>
  PROVE  ToSet(a) = ToSet(Tail(a)) \cup {Head(a)}
<1>1. Head(a) = a[1] /\ Tail(a) \in Seq(S) /\ Len(Tail(a)) = Len(a) - 1 /\ Len(a) > 0
      /\ \A i \in 1 .. Len(a) - 1 : Tail(a)[i] = a[i + 1]
  BY HeadTailProperties, EmptySeq
<1>2. DOMAIN a = 1 .. Len(a) /\ DOMAIN Tail(a) = 1 .. Len(a) - 1 /\ Len(a) \in Nat
  BY <1>1, LenProperties
<1>3. \A i \in 1 .. Len(a) : i = 1 \/ (i - 1 \in 1 .. Len(a) - 1 /\ a[i] = Tail(a)[i - 1])
  BY <1>1, <1>2
<1>4. \A i \in 1 .. Len(a) - 1 : i + 1 \in 1 .. Len(a)
  BY <1>2
<1>5. ToSet(a) \subseteq ToSet(Tail(a)) \cup {Head(a)}
  <2>1. ASSUME NEW i \in 1 .. Len(a) PROVE a[i] \in ToSet(Tail(a)) \cup {Head(a)}
    BY <1>1, <1>2, <1>3 DEF ToSet
  <2> QED
    BY <1>2, <2>1 DEF ToSet
<1>6. ToSet(Tail(a)) \cup {Head(a)} \subseteq ToSet(a)
  BY <1>1, <1>2, <1>4 DEF ToSet
<1> QED
  BY <1>5, <1>6

(* What became whole last is last in line.                                    *)
LEMMA LastOfTwo ==
  ASSUME NEW h \in Seq(Notes), NEW j \in Seq(Notes), NEW o \in Seq(Notes), NEW n \in Notes
  PROVE  Append((h \o j) \o o, n) = (h \o j) \o Append(o, n)
<1> DEFINE hj == h \o j
<1>1. hj \in Seq(Notes)
  BY ConcatProperties
<1> HIDE DEF hj
<1>2. hj \o Append(o, n) = Append(hj \o o, n)
  BY <1>1, AppendAtEnd
<1> QED
  BY <1>2 DEF hj

LEMMA LastOfOne ==
  ASSUME NEW h \in Seq(Notes), NEW j \in Seq(Notes), NEW o \in Seq(Notes), NEW n \in Notes, o = <<>>
  PROVE  Append((h \o j) \o o, n) = (h \o Append(j, n)) \o o
<1>1. h \o j \in Seq(Notes) /\ Append(j, n) \in Seq(Notes)
  BY ConcatProperties, AppendProperties
<1>3. h \o Append(j, n) = Append(h \o j, n)
  BY AppendAtEnd
<1>4. h \o Append(j, n) \in Seq(Notes)
  BY <1>1, ConcatProperties
<1>5. (h \o j) \o <<>> = h \o j /\ (h \o Append(j, n)) \o <<>> = h \o Append(j, n)
  BY <1>1, <1>4, ConcatEmptySeq
<1> QED
  BY <1>3, <1>5

-----------------------------------------------------------------------------
LEMMA SubmissionsSame ==
  ASSUME NEW g, NEW r, NEW h, NEW q, SubmissionsHold(g, r),
         h.recent = g.recent, h.working = g.working, q.submitted = r.submitted, q.run = r.run
  PROVE  SubmissionsHold(h, q)
BY DEF SubmissionsHold, RecentIsTrue, WorkIsFresh, PassedOn, CountOf

(* What is held stays held: whoever relied on it still does.                  *)
LEMMA HeldKeeps ==
  ASSUME DeliveryTypes, AckedIsHeld, OkIsHeld, Held(gateway, record) \cap Notes \subseteq Held(gateway', record')
  PROVE  /\ cloud'.acked = cloud.acked => AckedIsHeld'
         /\ socket'.worker = socket.worker /\ socket'.outcomes = socket.outcomes => OkIsHeld'
<1>1. cloud.acked \subseteq Notes /\ (socket.worker.note # NoNote => socket.worker.note \in Notes)
      /\ \A i \in 1 .. Len(socket.outcomes) : socket.outcomes[i].note \in Notes
  <2>1. cloud.acked \subseteq Notes
    BY DEF DeliveryTypes, CloudRecord
  <2>2. socket.worker \in Worker /\ socket.outcomes \in Seq(Fate)
    BY DEF DeliveryTypes, SocketRecord
  <2>3. \A i \in 1 .. Len(socket.outcomes) : socket.outcomes[i] \in Fate
    BY <2>2, ElementOfSeq
  <2> QED
    BY <2>1, <2>2, <2>3 DEF Worker, Fate
<1>2. cloud'.acked = cloud.acked => AckedIsHeld'
  BY <1>1 DEF AckedIsHeld, Held, Submitted
<1>3. ASSUME socket'.worker = socket.worker, socket'.outcomes = socket.outcomes PROVE OkIsHeld'
  BY <1>1, <1>3 DEF OkIsHeld
<1> QED
  BY <1>2, <1>3

LEMMA HeldSame ==
  ASSUME NEW g, NEW r, NEW h, NEW q, h.payloads = g.payloads, h.working = g.working,
         q.dropped = r.dropped, q.submitted = r.submitted
  PROVE  Held(h, q) = Held(g, r)
BY DEF Held, Submitted

LEMMA NewSocketType == NewSocket \in SocketRecord /\ NoSocket \in SocketRecord
<1>1. [n \in Notes |-> {}] \in [Notes -> SUBSET {1, 2}]
  OBVIOUS
<1>2. NewSocket \in SocketRecord
  BY <1>1 DEF NewSocket, SocketRecord, SocketStates, Worker, Pieces
<1> QED
  BY <1>2 DEF NoSocket, SocketRecord, SocketStates

LEMMA DeliveryInitInv == DeliveryInit => DeliveryInv
<1> SUFFICES ASSUME DeliveryInit PROVE DeliveryInv
  OBVIOUS
<1> USE DEF DeliveryInit, NoSocket, NewSocket, NewGateway
<1>1. DeliveryTypes
  BY NewSocketType DEF DeliveryTypes, CloudRecord, GatewayRecord, Record
<1>2. SubmissionsHold(gateway, record)
  BY LimitsAssumption DEF SubmissionsHold, RecentIsTrue, WorkIsFresh, PassedOn, CountOf
<1>3. socket.state = "None" /\ socket.outcomes = <<>> /\ socket.worker.note = NoNote /\ gateway.on
      /\ cloud.acked = {}
  OBVIOUS
<1> QED
  BY <1>1, <1>2, <1>3 DEF DeliveryInv, StoppedIsEmpty, AckedIsHeld, OkIsHeld, InflightIsTrue, OrderIsKept

LEMMA EndedIs ==
  ASSUME NEW s \in SocketRecord
  PROVE  /\ Ended(s) \in SocketRecord /\ Ended(s).state = "Draining"
         /\ Ended(s).worker = s.worker /\ Ended(s).outcomes = s.outcomes
<1> DEFINE empty == <<>>
<1>1. empty \in Seq(Notes) /\ Ended(s) = [s EXCEPT !.state = "Draining", !.outbox = empty]
  BY DEF Ended
<1> HIDE DEF empty
<1> QED
  BY <1>1 DEF SocketRecord, SocketStates

-----------------------------------------------------------------------------
(* The session.                                                               *)

LEMMA SocketFailsHolds ==
  ASSUME DeliveryInv, SocketFails, UNCHANGED gateway, cloud' \in CloudRecord, cloud'.acked = cloud.acked
  PROVE  DeliveryInv'
<1> USE DEF DeliveryInv, DeliveryTypes, SocketFails
<1>1. record' \in Record /\ record'.submitted = record.submitted /\ record'.run = record.run
      /\ record'.dropped = record.dropped
  BY SMTT(30) DEF Record
<1>2. socket' \in SocketRecord /\ socket'.state = "Draining" /\ socket'.worker = socket.worker
      /\ socket'.outcomes = socket.outcomes
  BY EndedIs
<1>3. SubmissionsHold(gateway, record)'
  BY <1>1, SubmissionsSame
<1>4. Held(gateway, record)' = Held(gateway, record)
  <2>1. gateway' = gateway
    OBVIOUS
  <2> QED
    BY <1>1, <2>1 DEF Held, Submitted
<1>5. AckedIsHeld' /\ OkIsHeld'
  BY <1>2, <1>4, HeldKeeps
<1> QED
  BY <1>1, <1>2, <1>3, <1>5 DEF StoppedIsEmpty, InflightIsTrue, OrderIsKept

LEMMA ConnectHolds ==
  ASSUME DeliveryInv, Connect
  PROVE  DeliveryInv'
<1> USE DEF DeliveryInv, DeliveryTypes, Connect
<1>1. record' \in Record /\ record'.submitted = record.submitted /\ record'.run = record.run
      /\ record'.dropped = record.dropped /\ record'.arrived = <<>> /\ record'.handled = <<>>
  <2> DEFINE empty == <<>>
  <2>1. empty \in Seq(Notes) /\ empty = <<>>
        /\ record' = [record EXCEPT !.arrived = empty, !.handled = empty, !.overtook = FALSE]
    OBVIOUS
  <2> HIDE DEF empty
  <2> QED
    BY <2>1 DEF Record
<1>2. socket' \in SocketRecord /\ socket'.worker.note = NoNote /\ socket'.outcomes = <<>>
      /\ socket'.jobs = <<>> /\ socket'.outbox = <<>> /\ socket'.inflight = 0
  BY NewSocketType DEF NewSocket
<1>3. SubmissionsHold(gateway, record)'
  BY <1>1, SubmissionsSame
<1>4. Held(gateway, record)' = Held(gateway, record)
  <2>1. gateway' = gateway
    OBVIOUS
  <2> QED
    BY <1>1, <2>1 DEF Held, Submitted
<1>5. AckedIsHeld' /\ OkIsHeld'
  BY <1>2, <1>4 DEF AckedIsHeld, OkIsHeld, Held, Submitted
<1> QED
  BY <1>1, <1>2, <1>3, <1>5 DEF StoppedIsEmpty, InflightIsTrue, OrderIsKept

(* What a whole event does to the queues: it is last in the queue, last in    *)
(* the outbox, or the session is over.                                        *)
LEMMA EnqueueIs ==
  ASSUME NEW s \in SocketRecord, NEW n \in Notes, NEW x, x = Enqueue(s, n)
  PROVE  /\ x \in SocketRecord /\ x.worker = s.worker /\ x.outcomes = s.outcomes
         /\ \/ /\ x.jobs = Append(s.jobs, n) /\ x.outbox = s.outbox
               /\ x.inflight = s.inflight + 1 /\ x.state = s.state
            \/ /\ x.jobs = s.jobs /\ x.outbox = Append(s.outbox, n)
               /\ x.inflight = s.inflight /\ x.state = s.state
            \/ x.state = "Draining"
<1> DEFINE jobs == Append(s.jobs, n)
           outbox == Append(s.outbox, n)
           inflight == s.inflight + 1
<1>4. inflight \in Int /\ jobs \in Seq(Notes) /\ outbox \in Seq(Notes) /\ jobs = Append(s.jobs, n)
      /\ outbox = Append(s.outbox, n)
  BY DEF SocketRecord
<1>1. CASE Len(s.jobs) < HandlerQueue
  <2>1. x = [s EXCEPT !.jobs = jobs, !.inflight = inflight]
    BY <1>1 DEF Enqueue
  <2> HIDE DEF jobs, outbox, inflight
  <2>2. x \in SocketRecord
    BY <1>4, <2>1 DEF SocketRecord
  <2>3. x.worker = s.worker /\ x.outcomes = s.outcomes /\ x.jobs = jobs /\ x.outbox = s.outbox
        /\ x.inflight = inflight /\ x.state = s.state
    BY <2>1 DEF SocketRecord
  <2> QED
    BY <1>4, <2>2, <2>3 DEF inflight
<1>2. CASE ~(Len(s.jobs) < HandlerQueue) /\ Len(s.outbox) < OutboxLimit
  <2>1. x = [s EXCEPT !.outbox = outbox]
    BY <1>2 DEF Enqueue
  <2> HIDE DEF jobs, outbox
  <2>2. x \in SocketRecord
    BY <1>4, <2>1 DEF SocketRecord
  <2>3. x.worker = s.worker /\ x.outcomes = s.outcomes /\ x.jobs = s.jobs /\ x.outbox = outbox
        /\ x.inflight = s.inflight /\ x.state = s.state
    BY <2>1 DEF SocketRecord
  <2> QED
    BY <1>4, <2>2, <2>3
<1>3. CASE ~(Len(s.jobs) < HandlerQueue) /\ ~(Len(s.outbox) < OutboxLimit)
  BY <1>3, EndedIs DEF Enqueue
<1> QED
  BY <1>1, <1>2, <1>3

LEMMA FrameHolds ==
  ASSUME DeliveryInv, NEW n \in Notes, NEW part \in {1, 2}, Frame(n, part)
  PROVE  DeliveryInv'
<1> DEFINE got == socket.parts[n] \cup {part}
           whole == got = PartsOf(n)
           kept == [socket EXCEPT !.parts[n] = IF whole THEN {} ELSE got]
           next == IF whole THEN Enqueue(kept, n) ELSE kept
<1>1. cloud' \in CloudRecord /\ cloud'.acked = cloud.acked /\ gateway' = gateway
      /\ socket.state \in {"Active", "Closing"}
  BY DEF Frame, CloudRecord, DeliveryInv, DeliveryTypes
<1>5. DeliveryTypes /\ socket \in SocketRecord /\ gateway \in GatewayRecord /\ record \in Record
      /\ StoppedIsEmpty /\ SubmissionsHold(gateway, record)
      /\ AckedIsHeld /\ OkIsHeld /\ InflightIsTrue /\ OrderIsKept
  BY DEF DeliveryInv, DeliveryTypes
<1>2. CASE socket.state = "Closing"
  BY <1>1, <1>2, SocketFailsHolds DEF Frame
<1>3. CASE socket.state = "Active"
  <2>1. /\ socket' = next
        /\ record' = [record EXCEPT
             !.arrived = IF whole /\ next.state = "Active" THEN Append(@, n) ELSE @,
             !.overtook = @ \/ (whole /\ socket.outbox # <<>> /\ next.jobs # socket.jobs),
             !.drops = IF next.state = "Draining" THEN @ + 1 ELSE @]
    BY <1>3 DEF Frame
  <2> HIDE DEF whole
  <2>2. kept \in SocketRecord /\ kept.worker = socket.worker /\ kept.outcomes = socket.outcomes
        /\ kept.jobs = socket.jobs /\ kept.outbox = socket.outbox /\ kept.inflight = socket.inflight
        /\ kept.state = "Active"
    <3>1. socket.parts \in [Notes -> SUBSET {1, 2}] /\ got \in SUBSET {1, 2}
      BY <1>5 DEF SocketRecord, Pieces
    <3>2. [socket.parts EXCEPT ![n] = IF whole THEN {} ELSE got] \in Pieces
      BY <3>1 DEF Pieces
    <3> QED
      BY <1>3, <1>5, <3>2 DEF SocketRecord
  <2> HIDE DEF kept
  <2>3. next \in SocketRecord /\ next.worker = socket.worker /\ next.outcomes = socket.outcomes
        /\ \/ ~whole /\ next = kept
           \/ /\ whole
              /\ \/ /\ next.jobs = Append(socket.jobs, n) /\ next.outbox = socket.outbox
                    /\ next.inflight = socket.inflight + 1 /\ next.state = "Active"
                 \/ /\ next.jobs = socket.jobs /\ next.outbox = Append(socket.outbox, n)
                    /\ next.inflight = socket.inflight /\ next.state = "Active"
                 \/ next.state = "Draining"
    BY <2>2, EnqueueIs, SMTT(30)
  <2> HIDE DEF next
  <2>4. /\ record' \in Record /\ record'.submitted = record.submitted /\ record'.run = record.run
        /\ record'.dropped = record.dropped /\ record'.handled = record.handled
        /\ record'.arrived = IF whole /\ next.state = "Active" THEN Append(record.arrived, n) ELSE record.arrived
        /\ record'.overtook = (record.overtook \/ (whole /\ socket.outbox # <<>> /\ next.jobs # socket.jobs))
    <3> DEFINE arrived == IF whole /\ next.state = "Active" THEN Append(record.arrived, n) ELSE record.arrived
               overtook == record.overtook \/ (whole /\ socket.outbox # <<>> /\ next.jobs # socket.jobs)
               drops == IF next.state = "Draining" THEN record.drops + 1 ELSE record.drops
    <3>1. arrived \in Seq(Notes) /\ drops \in Nat
      BY <1>5 DEF Record
    <3>2. overtook \in BOOLEAN
      BY <1>5 DEF Record
    <3>3. record' = [record EXCEPT !.arrived = arrived, !.overtook = overtook, !.drops = drops]
      BY <2>1
    <3> HIDE DEF arrived, overtook, drops
    <3>4. record' \in Record /\ record'.submitted = record.submitted /\ record'.run = record.run
          /\ record'.dropped = record.dropped /\ record'.handled = record.handled
          /\ record'.arrived = arrived /\ record'.overtook = overtook
      BY <1>5, <3>1, <3>2, <3>3 DEF Record
    <3> QED
      BY <3>4 DEF arrived, overtook
  <2>5. SubmissionsHold(gateway, record)'
    BY <1>1, <1>5, <2>4, SubmissionsSame
  <2>6. Held(gateway, record)' = Held(gateway, record)
    BY <1>1, <2>4, HeldSame
  <2>7. AckedIsHeld' /\ OkIsHeld'
    BY <1>1, <2>1, <2>3, <1>5, <2>6, HeldKeeps
  <2>8. socket.jobs \in Seq(Notes) /\ socket.outbox \in Seq(Notes) /\ record.handled \in Seq(Notes)
        /\ socket.outcomes \in Seq(Fate) /\ socket.inflight \in Int
    BY <1>5 DEF SocketRecord, Record
  <2>9. InflightIsTrue'
    <3>1. socket.inflight = Len(socket.jobs) + Len(socket.outcomes) + (IF socket.worker.note = NoNote THEN 0 ELSE 1)
      BY <1>3, <1>5 DEF InflightIsTrue
    <3>2. Len(Append(socket.jobs, n)) = Len(socket.jobs) + 1 /\ Len(socket.jobs) \in Nat
          /\ Len(socket.outcomes) \in Nat
      BY <2>8, AppendProperties, LenProperties
    <3>3. CASE ~whole /\ next = kept
      BY <2>1, <2>2, <3>1, <3>3 DEF InflightIsTrue
    <3>4. CASE next.jobs = Append(socket.jobs, n) /\ next.inflight = socket.inflight + 1
      <4>1. Len(next.jobs) = Len(socket.jobs) + 1
        BY <3>2, <3>4
      <4>2. next.inflight = Len(next.jobs) + Len(next.outcomes) + (IF next.worker.note = NoNote THEN 0 ELSE 1)
        <5> DEFINE hand == IF socket.worker.note = NoNote THEN 0 ELSE 1
                   out == Len(socket.outcomes)
        <5>1. hand = (IF next.worker.note = NoNote THEN 0 ELSE 1) /\ out = Len(next.outcomes) /\ hand \in Nat
          BY <2>3
        <5>2. socket.inflight = Len(socket.jobs) + out + hand
          BY <3>1
        <5> HIDE DEF hand, out
        <5>3. next.inflight = Len(next.jobs) + out + hand
          <6>1. Len(socket.jobs) \in Nat /\ out \in Nat
            BY <3>2 DEF out
          <6>2. hand \in Nat /\ next.inflight = socket.inflight + 1
            BY <3>4, <5>1
          <6> QED
            BY <4>1, <5>2, <6>1, <6>2
        <5> QED
          BY <5>1, <5>3
      <4> QED
        BY <2>1, <4>2 DEF InflightIsTrue
    <3>5. CASE next.jobs = socket.jobs /\ next.inflight = socket.inflight
      BY <2>1, <2>3, <3>1, <3>5 DEF InflightIsTrue
    <3>6. CASE next.state = "Draining"
      BY <2>1, <3>6 DEF InflightIsTrue
    <3> QED
      BY <2>3, <3>3, <3>4, <3>5, <3>6
  <2>10. OrderIsKept'
    <3> SUFFICES ASSUME next.state # "Draining", ~record'.overtook
                 PROVE  record'.arrived = record'.handled \o next.jobs \o next.outbox
      BY <2>1 DEF OrderIsKept
    <3>1. record.arrived = record.handled \o socket.jobs \o socket.outbox
      BY <1>3, <1>5, <2>4 DEF OrderIsKept
    <3>2. CASE ~whole
      BY <2>2, <2>3, <2>4, <3>1, <3>2
    <3>3. CASE whole /\ next.jobs = Append(socket.jobs, n) /\ next.outbox = socket.outbox /\ next.state = "Active"
      <4>1. next.jobs # socket.jobs
        BY <2>8, <3>3
      <4>2. socket.outbox = <<>>
        BY <2>4, <3>3, <4>1
      <4>3. Append((record.handled \o socket.jobs) \o socket.outbox, n)
              = (record.handled \o Append(socket.jobs, n)) \o socket.outbox
        BY <2>8, <4>2, LastOfOne
      <4> QED
        BY <2>4, <3>1, <3>3, <4>3
    <3>4. CASE whole /\ next.jobs = socket.jobs /\ next.outbox = Append(socket.outbox, n) /\ next.state = "Active"
      <4>1. Append((record.handled \o socket.jobs) \o socket.outbox, n)
              = (record.handled \o socket.jobs) \o Append(socket.outbox, n)
        BY <2>8, LastOfTwo
      <4> QED
        BY <2>4, <3>1, <3>4, <4>1
    <3> QED
      BY <2>3, <3>2, <3>3, <3>4
  <2> QED
    BY <1>1, <1>5, <2>1, <2>3, <2>4, <2>5, <2>7, <2>9, <2>10 DEF StoppedIsEmpty, DeliveryInv, DeliveryTypes
<1> QED
  BY <1>1, <1>2, <1>3

(* What one queue hands to the next keeps its place in the line.              *)
LEMMA LineMoves ==
  ASSUME NEW h \in Seq(Notes), NEW j \in Seq(Notes), NEW o \in Seq(Notes), o # <<>>
  PROVE  (h \o Append(j, Head(o))) \o Tail(o) = (h \o j) \o o
<1> DEFINE n == Head(o)
           t == Tail(o)
           hj == h \o j
<1>1. n \in Notes /\ t \in Seq(Notes) /\ hj \in Seq(Notes)
  BY HeadTailProperties, ConcatProperties
<1>2. h \o Append(j, n) = Append(hj, n)
  BY <1>1, AppendAtEnd
<1>3. Append(hj, n) \o t = hj \o o
  <2> HIDE DEF hj
  <2> QED BY <1>1, HeadJoins
<1> QED
  BY <1>2, <1>3

(* A step of the session alone: the gateway and what it submitted stay.       *)
LEMMA SessionStepHolds ==
  ASSUME DeliveryInv, UNCHANGED <<gateway, record>>, cloud' \in CloudRecord, socket' \in SocketRecord,
         AckedIsHeld', OkIsHeld', InflightIsTrue', OrderIsKept'
  PROVE  DeliveryInv'
<1>1. SubmissionsHold(gateway, record)'
  BY SubmissionsSame DEF DeliveryInv
<1> QED
  BY <1>1 DEF DeliveryInv, DeliveryTypes, StoppedIsEmpty

LEMMA FlushOutboxHolds ==
  ASSUME DeliveryInv, FlushOutbox
  PROVE  DeliveryInv'
<1>1. DeliveryTypes /\ socket \in SocketRecord /\ cloud \in CloudRecord /\ record \in Record
      /\ AckedIsHeld /\ OkIsHeld /\ InflightIsTrue /\ OrderIsKept
  BY DEF DeliveryInv, DeliveryTypes
<1>2. socket.outbox # <<>> /\ Alive /\ UNCHANGED <<cloud, gateway, record>>
  BY DEF FlushOutbox
<1>3. socket.jobs \in Seq(Notes) /\ socket.outbox \in Seq(Notes) /\ record.handled \in Seq(Notes)
      /\ socket.inflight \in Int /\ socket.outcomes \in Seq(Fate)
  BY <1>1 DEF SocketRecord, Record
<1> DEFINE jobs == Append(socket.jobs, Head(socket.outbox))
           outbox == Tail(socket.outbox)
           inflight == socket.inflight + 1
<1>4. jobs \in Seq(Notes) /\ outbox \in Seq(Notes) /\ inflight \in Int /\ Len(jobs) = Len(socket.jobs) + 1
  BY <1>2, <1>3, HeadTailProperties, AppendProperties
<1>5. socket' = [socket EXCEPT !.jobs = jobs, !.outbox = outbox, !.inflight = inflight]
  BY DEF FlushOutbox
<1>6. record.handled \o jobs \o outbox = record.handled \o socket.jobs \o socket.outbox
  BY <1>2, <1>3, LineMoves
<1> HIDE DEF jobs, outbox, inflight
<1>7. socket' \in SocketRecord
  BY <1>1, <1>4, <1>5 DEF SocketRecord
<1>8. socket'.jobs = jobs /\ socket'.outbox = outbox /\ socket'.inflight = inflight
      /\ socket'.state = socket.state /\ socket'.worker = socket.worker /\ socket'.outcomes = socket.outcomes
  BY <1>1, <1>5 DEF SocketRecord
<1>9. AckedIsHeld' /\ OkIsHeld'
  BY <1>1, <1>2, <1>8, HeldKeeps
<1>10. InflightIsTrue'
  <2> DEFINE hand == IF socket.worker.note = NoNote THEN 0 ELSE 1
             out == Len(socket.outcomes)
  <2>1. hand = (IF socket'.worker.note = NoNote THEN 0 ELSE 1) /\ out = Len(socket'.outcomes) /\ hand \in Nat
    BY <1>8
  <2>2. socket.inflight = Len(socket.jobs) + out + hand
    BY <1>1, <1>2 DEF InflightIsTrue
  <2>3. Len(socket.jobs) \in Nat /\ out \in Nat
    BY <1>3, LenProperties
  <2>5. hand \in Nat /\ Len(jobs) = Len(socket.jobs) + 1
    BY <1>4
  <2> HIDE DEF hand, out
  <2>4. inflight = Len(jobs) + out + hand
    BY <2>2, <2>3, <2>5 DEF inflight
  <2> QED
    BY <1>8, <2>1, <2>4 DEF InflightIsTrue
<1>11. OrderIsKept'
  BY <1>1, <1>2, <1>6, <1>8 DEF OrderIsKept
<1> QED
  BY <1>1, <1>2, <1>7, <1>9, <1>10, <1>11, SessionStepHolds

LEMMA WorkerForwardsHolds ==
  ASSUME DeliveryInv, WorkerForwards
  PROVE  DeliveryInv'
<1>1. DeliveryTypes /\ socket \in SocketRecord /\ cloud \in CloudRecord /\ record \in Record
      /\ gateway \in GatewayRecord /\ StoppedIsEmpty /\ SubmissionsHold(gateway, record)
      /\ AckedIsHeld /\ OkIsHeld /\ InflightIsTrue /\ OrderIsKept
  BY DEF DeliveryInv, DeliveryTypes
<1>2. socket.jobs # <<>> /\ socket.worker.note = NoNote /\ cloud' = cloud
  BY DEF WorkerForwards
<1>3. socket.jobs \in Seq(Notes) /\ socket.outbox \in Seq(Notes) /\ record.handled \in Seq(Notes)
      /\ socket.inflight \in Int /\ socket.outcomes \in Seq(Fate) /\ gateway.payloads \in Seq(Notes)
      /\ gateway.on \in BOOLEAN
  BY <1>1 DEF SocketRecord, Record, GatewayRecord
<1> DEFINE n == Head(socket.jobs)
           jobs == Tail(socket.jobs)
           worker == [note |-> n, ok |-> gateway.on]
           handled == Append(record.handled, n)
           payloads == Append(gateway.payloads, n)
<1>4. n \in Notes /\ n # NoNote /\ jobs \in Seq(Notes) /\ Len(jobs) = Len(socket.jobs) - 1
  BY <1>2, <1>3, HeadTailProperties, EmptySeq, NotesAssumption
<1>5. handled \in Seq(Notes) /\ payloads \in Seq(Notes) /\ ToSet(payloads) = ToSet(gateway.payloads) \cup {n}
  BY <1>3, <1>4, ToSetOfAppend
<1>6. handled \o jobs \o socket.outbox = record.handled \o socket.jobs \o socket.outbox
  BY <1>2, <1>3, NoteMoves
<1>7. worker \in Worker /\ worker.note = n /\ worker.ok = gateway.on
  BY <1>3, <1>4 DEF Worker
<1>8. /\ socket' = [socket EXCEPT !.jobs = jobs, !.worker = worker]
      /\ gateway' = IF gateway.on THEN [gateway EXCEPT !.payloads = payloads] ELSE gateway
      /\ record' = [record EXCEPT !.handled = handled]
  BY DEF WorkerForwards
<1> HIDE DEF n, jobs, worker, handled, payloads
<1>9. socket' \in SocketRecord
  BY <1>1, <1>4, <1>7, <1>8 DEF SocketRecord
<1>10. socket'.jobs = jobs /\ socket'.outbox = socket.outbox /\ socket'.inflight = socket.inflight
      /\ socket'.state = socket.state /\ socket'.worker = worker /\ socket'.outcomes = socket.outcomes
  BY <1>1, <1>8 DEF SocketRecord
<1>11. record' \in Record /\ record'.handled = handled /\ record'.arrived = record.arrived
       /\ record'.overtook = record.overtook /\ record'.submitted = record.submitted
       /\ record'.run = record.run /\ record'.dropped = record.dropped
  BY <1>1, <1>5, <1>8 DEF Record
<1>12. gateway' \in GatewayRecord /\ gateway'.on = gateway.on /\ gateway'.recent = gateway.recent
       /\ gateway'.working = gateway.working /\ (~gateway.on => gateway' = gateway)
       /\ (gateway.on => gateway'.payloads = payloads)
  BY <1>1, <1>5, <1>8 DEF GatewayRecord
<1>13. SubmissionsHold(gateway, record)'
  BY <1>1, <1>11, <1>12, SubmissionsSame
<1>14. Held(gateway, record) \subseteq Held(gateway', record') /\ (gateway.on => n \in Held(gateway', record'))
  BY <1>5, <1>11, <1>12 DEF Held, Submitted
<1>15. AckedIsHeld'
  BY <1>1, <1>2, <1>14, HeldKeeps
<1>16. OkIsHeld'
  BY <1>1, <1>7, <1>10, <1>14 DEF OkIsHeld
<1>17. InflightIsTrue'
  <2> SUFFICES ASSUME Alive'
               PROVE  socket.inflight = Len(jobs) + Len(socket.outcomes) + 1
    BY <1>4, <1>7, <1>10 DEF InflightIsTrue
  <2>1. socket.inflight = Len(socket.jobs) + Len(socket.outcomes) + 0
    BY <1>1, <1>2, <1>10 DEF InflightIsTrue
  <2>2. Len(socket.jobs) \in Nat /\ Len(socket.outcomes) \in Nat
    BY <1>3, LenProperties
  <2> QED
    BY <1>4, <2>1, <2>2
<1>18. OrderIsKept'
  BY <1>1, <1>6, <1>10, <1>11 DEF OrderIsKept
<1>19. StoppedIsEmpty'
  BY <1>1, <1>12 DEF StoppedIsEmpty
<1> QED
  BY <1>1, <1>2, <1>9, <1>11, <1>12, <1>13, <1>15, <1>16, <1>17, <1>18, <1>19 DEF DeliveryInv, DeliveryTypes

LEMMA WorkerReportsHolds ==
  ASSUME DeliveryInv, WorkerReports
  PROVE  DeliveryInv'
<1>1. DeliveryTypes /\ socket \in SocketRecord /\ cloud \in CloudRecord
      /\ AckedIsHeld /\ OkIsHeld /\ InflightIsTrue /\ OrderIsKept
  BY DEF DeliveryInv, DeliveryTypes
<1>2. socket.worker.note # NoNote /\ UNCHANGED <<cloud, gateway, record>>
  BY DEF WorkerReports
<1>3. socket.jobs \in Seq(Notes) /\ socket.inflight \in Int /\ socket.outcomes \in Seq(Fate)
      /\ socket.worker \in Worker
  BY <1>1 DEF SocketRecord
<1> DEFINE outcomes == Append(socket.outcomes, socket.worker)
           worker == [socket.worker EXCEPT !.note = NoNote]
<1>4. socket.worker \in Fate /\ worker \in Worker /\ worker.note = NoNote
  BY <1>2, <1>3 DEF Worker, Fate
<1>5. outcomes \in Seq(Fate) /\ Len(outcomes) = Len(socket.outcomes) + 1
      /\ \A i \in 1 .. Len(socket.outcomes) : outcomes[i] = socket.outcomes[i]
  BY <1>3, <1>4, AppendProperties
<1>15. outcomes[Len(socket.outcomes) + 1] = socket.worker
  BY <1>3, <1>4, AppendProperties
<1>6. socket' = [socket EXCEPT !.outcomes = outcomes, !.worker = worker]
  BY <1>1 DEF WorkerReports, SocketRecord
<1> HIDE DEF outcomes, worker
<1>7. socket' \in SocketRecord
  BY <1>1, <1>4, <1>5, <1>6 DEF SocketRecord
<1>8. socket'.jobs = socket.jobs /\ socket'.outbox = socket.outbox /\ socket'.inflight = socket.inflight
      /\ socket'.state = socket.state /\ socket'.worker = worker /\ socket'.outcomes = outcomes
  BY <1>1, <1>6 DEF SocketRecord
<1>9. AckedIsHeld'
  BY <1>1, <1>2, HeldKeeps
<1>10. Len(socket.jobs) \in Nat /\ Len(socket.outcomes) \in Nat
  BY <1>3, LenProperties
<1>11. Held(gateway, record)' = Held(gateway, record)
  BY <1>2 DEF Held, Submitted
<1>12. OkIsHeld'
  <2>1. ASSUME NEW i \in 1 .. Len(outcomes), outcomes[i].ok
        PROVE  outcomes[i].note \in Held(gateway, record)
    <3>1. i \in 1 .. Len(socket.outcomes) \/ i = Len(socket.outcomes) + 1
      BY <1>5, <1>10
    <3>2. CASE i \in 1 .. Len(socket.outcomes)
      <4>1. outcomes[i] = socket.outcomes[i]
        BY <1>5, <3>2
      <4> QED
        BY <1>1, <2>1, <3>2, <4>1 DEF OkIsHeld
    <3>3. CASE i = Len(socket.outcomes) + 1
      <4>1. outcomes[i] = socket.worker
        BY <1>15, <3>3, Zenon
      <4> QED
        BY <1>1, <1>2, <2>1, <4>1 DEF OkIsHeld
    <3> QED
      BY <3>1, <3>2, <3>3
  <2> QED
    BY <1>4, <1>8, <1>11, <2>1 DEF OkIsHeld
<1>13. InflightIsTrue'
  <2> SUFFICES ASSUME Alive'
               PROVE  socket.inflight = Len(socket.jobs) + Len(outcomes) + 0
    BY <1>4, <1>8 DEF InflightIsTrue
  <2>1. socket.inflight = Len(socket.jobs) + Len(socket.outcomes) + 1
    BY <1>1, <1>2, <1>8 DEF InflightIsTrue
  <2>2. Len(outcomes) = Len(socket.outcomes) + 1
    BY <1>5
  <2> DEFINE out == Len(socket.outcomes)
             all == Len(outcomes)
             queued == Len(socket.jobs)
  <2>3. out \in Nat /\ queued \in Nat /\ all = out + 1 /\ socket.inflight = queued + out + 1
    BY <1>10, <2>1, <2>2
  <2> HIDE DEF out, all, queued
  <2>4. socket.inflight = queued + all + 0
    BY <2>3
  <2> QED
    BY <2>4 DEF all, queued
<1>14. OrderIsKept'
  BY <1>1, <1>2, <1>8 DEF OrderIsKept
<1> QED
  BY <1>1, <1>2, <1>7, <1>9, <1>12, <1>13, <1>14, SessionStepHolds

LEMMA TakeOutcomeHolds ==
  ASSUME DeliveryInv, TakeOutcome
  PROVE  DeliveryInv'
<1>1. DeliveryTypes /\ socket \in SocketRecord /\ cloud \in CloudRecord /\ record \in Record
      /\ gateway \in GatewayRecord /\ StoppedIsEmpty /\ SubmissionsHold(gateway, record)
      /\ AckedIsHeld /\ OkIsHeld /\ InflightIsTrue /\ OrderIsKept
  BY DEF DeliveryInv, DeliveryTypes
<1>2. socket.outcomes # <<>> /\ Alive /\ gateway' = gateway
  BY DEF TakeOutcome
<1>3. socket.jobs \in Seq(Notes) /\ socket.inflight \in Int /\ socket.outcomes \in Seq(Fate)
  BY <1>1 DEF SocketRecord
<1> DEFINE o == Head(socket.outcomes)
           outcomes == Tail(socket.outcomes)
           inflight == socket.inflight - 1
           rest == [socket EXCEPT !.outcomes = outcomes, !.inflight = inflight]
<1>4. o \in Fate /\ outcomes \in Seq(Fate) /\ Len(outcomes) = Len(socket.outcomes) - 1
      /\ o = socket.outcomes[1] /\ 1 \in 1 .. Len(socket.outcomes) /\ inflight \in Int
      /\ \A i \in 1 .. Len(outcomes) : outcomes[i] = socket.outcomes[i + 1] /\ i + 1 \in 1 .. Len(socket.outcomes)
  <2>1. Len(socket.outcomes) \in Nat /\ Len(socket.outcomes) # 0
    BY <1>2, <1>3, LenProperties, EmptySeq
  <2>2. o \in Fate /\ outcomes \in Seq(Fate) /\ Len(outcomes) = Len(socket.outcomes) - 1
        /\ o = socket.outcomes[1] /\ \A i \in 1 .. Len(outcomes) : outcomes[i] = socket.outcomes[i + 1]
    BY <1>2, <1>3, HeadTailProperties
  <2> QED
    BY <1>3, <2>1, <2>2
<1>5. \/ /\ socket' = rest /\ record' = record
         /\ cloud' = IF socket.state = "Active" THEN Acknowledged(cloud, o) ELSE cloud
      \/ /\ socket' = Ended(rest) /\ record' = [record EXCEPT !.drops = @ + 1] /\ cloud' = cloud
  BY DEF TakeOutcome
<1>6. o.ok => o.note \in Held(gateway, record)
  BY <1>1, <1>4 DEF OkIsHeld
<1> HIDE DEF o, outcomes, inflight
<1>7. rest \in SocketRecord
  BY <1>1, <1>4 DEF SocketRecord
<1>8. rest.jobs = socket.jobs /\ rest.outbox = socket.outbox /\ rest.inflight = inflight
      /\ rest.state = socket.state /\ rest.worker = socket.worker /\ rest.outcomes = outcomes
  BY <1>1 DEF SocketRecord
<1> HIDE DEF rest
<1>9. /\ socket' \in SocketRecord /\ socket'.worker = socket.worker /\ socket'.outcomes = outcomes
      /\ (socket'.state = "Draining" \/ (socket' = rest /\ record' = record))
  BY <1>5, <1>7, <1>8, EndedIs
<1>10. /\ record' \in Record /\ record'.submitted = record.submitted /\ record'.run = record.run
       /\ record'.dropped = record.dropped
  BY <1>1, <1>5 DEF Record
<1>11. cloud' \in CloudRecord /\ cloud'.acked \subseteq cloud.acked \cup (IF o.ok THEN {o.note} ELSE {})
  <2>1. o.note \in Notes
    BY <1>4 DEF Fate
  <2>2. CASE cloud' = cloud
    BY <1>1, <2>2
  <2>3. CASE cloud' = [cloud EXCEPT !.waiting = @ \ {o.note}, !.acked = @ \union {o.note}] /\ o.ok
    BY <1>1, <2>1, <2>3 DEF CloudRecord
  <2> QED
    BY <1>5, <2>2, <2>3 DEF Acknowledged
<1>12. SubmissionsHold(gateway, record)'
  BY <1>1, <1>2, <1>10, SubmissionsSame
<1>13. Held(gateway, record)' = Held(gateway, record)
  BY <1>2, <1>10, HeldSame
<1>14. AckedIsHeld'
  <2>1. cloud.acked \subseteq Held(gateway, record)
    BY <1>1 DEF AckedIsHeld, Held, Submitted
  <2>2. cloud'.acked \subseteq Held(gateway, record)'
    BY <1>6, <1>11, <1>13, <2>1
  <2> QED
    BY <2>2 DEF AckedIsHeld, Held, Submitted
<1>15. OkIsHeld'
  BY <1>1, <1>4, <1>9, <1>13 DEF OkIsHeld
<1>16. InflightIsTrue'
  <2> SUFFICES ASSUME Alive'
               PROVE  socket'.inflight = Len(socket'.jobs) + Len(socket'.outcomes)
                                           + (IF socket'.worker.note = NoNote THEN 0 ELSE 1)
    BY DEF InflightIsTrue
  <2>1. socket' = rest
    BY <1>9
  <2> DEFINE hand == IF socket.worker.note = NoNote THEN 0 ELSE 1
             before == Len(socket.outcomes)
             after == Len(outcomes)
             queued == Len(socket.jobs)
  <2>2. before \in Nat /\ queued \in Nat /\ after = before - 1 /\ hand \in Nat
        /\ socket.inflight = queued + before + hand
    BY <1>1, <1>2, <1>3, <1>4, LenProperties DEF InflightIsTrue
  <2>3. hand = (IF rest.worker.note = NoNote THEN 0 ELSE 1) /\ after = Len(rest.outcomes)
        /\ queued = Len(rest.jobs)
    BY <1>8
  <2> HIDE DEF hand, before, after, queued
  <2>5. inflight = queued + after + hand
    BY <2>2 DEF inflight
  <2>4. rest.inflight = queued + after + hand
    BY <1>8, <2>5
  <2> QED
    BY <2>1, <2>3, <2>4
<1>17. OrderIsKept'
  BY <1>1, <1>2, <1>8, <1>9 DEF OrderIsKept
<1>18. StoppedIsEmpty'
  BY <1>1, <1>2 DEF StoppedIsEmpty
<1> QED
  BY <1>1, <1>2, <1>9, <1>10, <1>11, <1>12, <1>14, <1>15, <1>16, <1>17, <1>18 DEF DeliveryInv, DeliveryTypes

LEMMA CloseHolds ==
  ASSUME DeliveryInv, BeginClose \/ ClosedIdle \/ StreamFails \/ WorkerEnds
  PROVE  DeliveryInv'
<1>1. DeliveryTypes /\ socket \in SocketRecord /\ cloud \in CloudRecord /\ record \in Record
      /\ gateway \in GatewayRecord /\ StoppedIsEmpty /\ SubmissionsHold(gateway, record)
      /\ AckedIsHeld /\ OkIsHeld /\ InflightIsTrue /\ OrderIsKept
  BY DEF DeliveryInv, DeliveryTypes
<1>2. CASE BeginClose
  <2>1. gateway' = gateway /\ cloud' = cloud /\ socket' = [socket EXCEPT !.state = "Closing"]
        /\ record' = [record EXCEPT !.drops = @ + 1] /\ socket.state = "Active"
    BY <1>2 DEF BeginClose
  <2>2. socket' \in SocketRecord /\ socket'.jobs = socket.jobs /\ socket'.outbox = socket.outbox
        /\ socket'.inflight = socket.inflight /\ socket'.worker = socket.worker
        /\ socket'.outcomes = socket.outcomes
    BY <1>1, <2>1 DEF SocketRecord, SocketStates
  <2>3. record' \in Record /\ record'.submitted = record.submitted /\ record'.run = record.run
        /\ record'.dropped = record.dropped /\ record'.arrived = record.arrived
        /\ record'.handled = record.handled /\ record'.overtook = record.overtook
    <3> DEFINE drops == record.drops + 1
    <3>1. drops \in Nat /\ record' = [record EXCEPT !.drops = drops]
      BY <1>1, <2>1 DEF Record
    <3> HIDE DEF drops
    <3> QED
      BY <1>1, <3>1 DEF Record
  <2>4. SubmissionsHold(gateway, record)'
    BY <1>1, <2>1, <2>3, SubmissionsSame
  <2>5. Held(gateway, record)' = Held(gateway, record)
    <3>1. gateway' = gateway
      BY <2>1
    <3> QED
      BY <2>3, <3>1 DEF Held, Submitted
  <2>6. AckedIsHeld' /\ OkIsHeld'
    BY <1>1, <2>1, <2>2, <2>5, HeldKeeps
  <2>7. InflightIsTrue'
    BY <1>1, <2>1, <2>2 DEF InflightIsTrue
  <2>8. OrderIsKept'
    BY <1>1, <2>1, <2>2, <2>3 DEF OrderIsKept
  <2> QED
    BY <1>1, <2>1, <2>2, <2>3, <2>4, <2>6, <2>7, <2>8 DEF DeliveryInv, DeliveryTypes, StoppedIsEmpty
<1>3. CASE ClosedIdle
  <2>1. cloud' = cloud /\ gateway' = gateway /\ record' = record /\ socket' = Ended(socket)
    BY <1>3 DEF ClosedIdle
  <2>2. socket' \in SocketRecord /\ socket'.state = "Draining" /\ socket'.worker = socket.worker
        /\ socket'.outcomes = socket.outcomes
    BY <1>1, <2>1, EndedIs
  <2>3. AckedIsHeld' /\ OkIsHeld'
    <3>1. Held(gateway, record)' = Held(gateway, record)
      BY <2>1, HeldSame
    <3> QED
      BY <1>1, <2>1, <2>2, <3>1, HeldKeeps
  <2>4. InflightIsTrue' /\ OrderIsKept'
    BY <2>2 DEF InflightIsTrue, OrderIsKept
  <2> QED
    BY <1>1, <2>1, <2>2, <2>3, <2>4, SessionStepHolds
<1>4. CASE StreamFails
  BY <1>1, <1>4, SocketFailsHolds DEF StreamFails
<1>5. CASE WorkerEnds
  <2>1. cloud' = cloud /\ gateway' = gateway /\ record' = record /\ socket' = NoSocket
    BY <1>5 DEF WorkerEnds
  <2>2. socket' \in SocketRecord /\ socket'.state = "None" /\ socket'.worker.note = NoNote
        /\ socket'.outcomes = <<>>
    BY <2>1, NewSocketType DEF NoSocket, NewSocket
  <2>3. AckedIsHeld' /\ OkIsHeld'
    BY <1>1, <2>1, <2>2 DEF AckedIsHeld, OkIsHeld
  <2>4. InflightIsTrue' /\ OrderIsKept'
    BY <2>2 DEF InflightIsTrue, OrderIsKept
  <2> QED
    BY <1>1, <2>1, <2>2, <2>3, <2>4, SessionStepHolds
<1> QED
  BY <1>2, <1>3, <1>4, <1>5

-----------------------------------------------------------------------------
(* The gateway.                                                               *)

(* A step of the message loop: where the notes are that were held, the        *)
(* session is not concerned.                                                  *)
LEMMA GatewayStepHolds ==
  ASSUME DeliveryInv, cloud' = cloud, socket' = socket, gateway' \in GatewayRecord, record' \in Record,
         record'.arrived = record.arrived, record'.handled = record.handled,
         record'.overtook = record.overtook, StoppedIsEmpty', SubmissionsHold(gateway, record)',
         Held(gateway, record) \cap Notes \subseteq Held(gateway', record')
  PROVE  DeliveryInv'
<1>1. DeliveryTypes /\ socket \in SocketRecord /\ cloud \in CloudRecord
      /\ AckedIsHeld /\ OkIsHeld /\ InflightIsTrue /\ OrderIsKept
  BY DEF DeliveryInv, DeliveryTypes
<1>2. AckedIsHeld' /\ OkIsHeld'
  BY <1>1, HeldKeeps
<1>3. InflightIsTrue' /\ OrderIsKept'
  BY <1>1 DEF InflightIsTrue, OrderIsKept
<1> QED
  BY <1>1, <1>2, <1>3 DEF DeliveryInv, DeliveryTypes

(* recent as RecentMessages::insert leaves it: the last, with the new one.     *)
LEMMA RememberedIs ==
  ASSUME NEW recent \in Seq(Notes), NEW n \in Notes, Len(recent) <= RecentLimit
  PROVE  /\ Remembered(recent, n) \in Seq(Notes)
         /\ \/ /\ Len(recent) < RecentLimit /\ Len(Remembered(recent, n)) = Len(recent) + 1
               /\ \A m \in 1 .. Len(recent) : Remembered(recent, n)[m] = recent[m]
               /\ Remembered(recent, n)[Len(recent) + 1] = n
            \/ /\ Len(recent) = RecentLimit /\ Len(Remembered(recent, n)) = RecentLimit
               /\ \A m \in 1 .. RecentLimit : IF m = RecentLimit THEN Remembered(recent, n)[m] = n ELSE Remembered(recent, n)[m] = recent[m + 1]
<1> DEFINE all == Append(recent, n)
           more == Remembered(recent, n)
           k == Len(recent)
<1>1. all \in Seq(Notes) /\ Len(all) = k + 1 /\ \A m \in 1 .. k : all[m] = recent[m]
  BY AppendProperties
<1>2. all[k + 1] = n
  BY AppendProperties
<1>3. k \in Nat /\ RecentLimit \in Nat
  BY LenProperties, LimitsAssumption
<1>4. more = IF Len(all) > RecentLimit THEN Tail(all) ELSE all
  BY DEF Remembered
<1> HIDE DEF all
<1>5. CASE k < RecentLimit
  <2>1. more = all
    BY <1>1, <1>3, <1>4, <1>5
  <2> QED
    BY <1>1, <1>2, <1>5, <2>1
<1>6. CASE k = RecentLimit
  <2>1. more = Tail(all)
    BY <1>1, <1>3, <1>4, <1>6
  <2>2. all # <<>>
    BY <1>1, <1>3, EmptySeq
  <2>3. more \in Seq(Notes) /\ Len(more) = Len(all) - 1 /\ \A m \in 1 .. Len(all) - 1 : more[m] = all[m + 1]
    BY <1>1, <2>1, <2>2, HeadTailProperties
  <2>4. Len(more) = RecentLimit
    BY <1>1, <1>3, <1>6, <2>3
  <2>5. ASSUME NEW m \in 1 .. RecentLimit PROVE IF m = RecentLimit THEN more[m] = n ELSE more[m] = recent[m + 1]
    <3>1. more[m] = all[m + 1]
      BY <1>1, <1>3, <1>6, <2>3
    <3>2. m # RecentLimit => all[m + 1] = recent[m + 1]
      BY <1>1, <1>3, <1>6
    <3> QED
      BY <1>2, <1>6, <3>1, <3>2
  <2> QED
    BY <1>6, <2>3, <2>4, <2>5
<1> QED
  BY <1>3, <1>5, <1>6

(* Taking a message that is not among the recent ones: it is fresh, and it is *)
(* the last of the recent ones.                                               *)
LEMMA TakenHolds ==
  ASSUME NEW g \in GatewayRecord, NEW r \in Record, NEW h \in GatewayRecord, NEW n \in Notes,
         SubmissionsHold(g, r), g.working = NoNote, n \notin ToSet(g.recent),
         h.working = n, h.recent = Remembered(g.recent, n)
  PROVE  SubmissionsHold(h, r)
<1> DEFINE k == Len(g.recent)
           d == Len(r.submitted)
           l == Len(h.recent)
<1>1. g.recent \in Seq(Notes) /\ r.submitted \in Seq(Submission) /\ n # NoNote
  BY NotesAssumption DEF GatewayRecord, Record
<1>2. k \in Nat /\ d \in Nat /\ RecentLimit \in Nat
  BY <1>1, LenProperties, LimitsAssumption
<1>3. CountOf(g, r) = d /\ CountOf(h, r) = d + 1
  BY <1>1, <1>2 DEF CountOf
<1>4. /\ \A i \in 1 .. d : r.submitted[i].run <= r.run
      /\ \A i, j \in 1 .. d : i < j /\ r.submitted[i] = r.submitted[j] => j - i > RecentLimit
      /\ RecentIsTrue(g, r)
  BY DEF SubmissionsHold
<1>5. /\ k <= RecentLimit /\ k <= d
      /\ \A m \in 1 .. k : g.recent[m] = PassedOn(g, r, d - k + m)
      /\ \A i \in 1 .. d : r.submitted[i].run = r.run => i > d - k \/ k = RecentLimit
  BY <1>3, <1>4 DEF RecentIsTrue
<1>6. \A m \in 1 .. k : g.recent[m] = r.submitted[d - k + m].note
  <2>1. \A i \in 1 .. d : PassedOn(g, r, i) = r.submitted[i].note
    BY DEF PassedOn
  <2> HIDE DEF k, d
  <2>2. \A m \in 1 .. k : d - k + m \in 1 .. d
    BY <1>2, <1>5
  <2> QED
    BY <1>5, <2>1, <2>2
<1>7. \/ /\ k < RecentLimit /\ l = k + 1
         /\ \A m \in 1 .. k : h.recent[m] = g.recent[m]
         /\ h.recent[k + 1] = n
      \/ /\ k = RecentLimit /\ l = RecentLimit
         /\ \A m \in 1 .. RecentLimit : IF m = RecentLimit THEN h.recent[m] = n ELSE h.recent[m] = g.recent[m + 1]
  <2>1. g.recent \in Seq(Notes) /\ Len(g.recent) <= RecentLimit /\ n \in Notes
    BY <1>1, <1>5
  <2>2. \/ /\ Len(g.recent) < RecentLimit /\ Len(Remembered(g.recent, n)) = Len(g.recent) + 1
           /\ \A m \in 1 .. Len(g.recent) : Remembered(g.recent, n)[m] = g.recent[m]
           /\ Remembered(g.recent, n)[Len(g.recent) + 1] = n
        \/ /\ Len(g.recent) = RecentLimit /\ Len(Remembered(g.recent, n)) = RecentLimit
           /\ \A m \in 1 .. RecentLimit :
                IF m = RecentLimit THEN Remembered(g.recent, n)[m] = n
                ELSE Remembered(g.recent, n)[m] = g.recent[m + 1]
    BY <2>1, RememberedIs, Zenon
  <2> QED
    BY <2>2
<1>8. \A i \in 1 .. d : PassedOn(h, r, i) = r.submitted[i].note
  BY DEF PassedOn
<1>9. PassedOn(h, r, d + 1) = n
  BY <1>2 DEF PassedOn
<1> HIDE DEF k, d, l
<1>10. \A m \in 1 .. l : h.recent[m] = PassedOn(h, r, d + 1 - l + m)
  <2>1. CASE k < RecentLimit /\ l = k + 1 /\ (\A m \in 1 .. k : h.recent[m] = g.recent[m]) /\ h.recent[k + 1] = n
    <3>1. ASSUME NEW m \in 1 .. k PROVE h.recent[m] = PassedOn(h, r, d + 1 - l + m)
      <4>1. d + 1 - l + m = d - k + m /\ d - k + m \in 1 .. d
        BY <1>2, <1>5, <2>1
      <4> QED
        BY <1>6, <1>8, <2>1, <4>1
    <3>2. h.recent[k + 1] = PassedOn(h, r, d + 1 - l + (k + 1))
      <4>1. d + 1 - l + (k + 1) = d + 1
        BY <1>2, <2>1
      <4> QED
        BY <1>9, <2>1, <4>1
    <3>3. \A m \in 1 .. l : m \in 1 .. k \/ m = k + 1
      BY <1>2, <2>1
    <3> QED
      BY <3>1, <3>2, <3>3
  <2>2. CASE k = RecentLimit /\ l = RecentLimit
             /\ \A m \in 1 .. RecentLimit : IF m = RecentLimit THEN h.recent[m] = n ELSE h.recent[m] = g.recent[m + 1]
    <3>1. ASSUME NEW m \in 1 .. l PROVE h.recent[m] = PassedOn(h, r, d + 1 - l + m)
      <4>1. CASE m = RecentLimit
        <5>1. d + 1 - l + m = d + 1
          BY <1>2, <2>2, <4>1
        <5> QED
          BY <1>9, <2>2, <4>1, <5>1
      <4>2. CASE m # RecentLimit
        <5>1. m + 1 \in 1 .. k /\ d + 1 - l + m = d - k + (m + 1) /\ d - k + (m + 1) \in 1 .. d
          BY <1>2, <1>5, <2>2, <4>2
        <5>2. h.recent[m] = g.recent[m + 1]
          BY <2>2, <4>2
        <5> QED
          BY <1>6, <1>8, <5>1, <5>2
      <4> QED
        BY <4>1, <4>2
    <3> QED
      BY <3>1
  <2> QED
    BY <1>7, <2>1, <2>2
<1>11. l <= RecentLimit /\ l <= d + 1 /\ (l > 0 \/ l = RecentLimit)
  BY <1>2, <1>5, <1>7
<1>12. \A i \in 1 .. d : r.submitted[i].run = r.run => i > d + 1 - l \/ l = RecentLimit
  BY <1>2, <1>5, <1>7
<1>13. RecentIsTrue(h, r)
  <2>1. l = Len(h.recent) /\ d = Len(r.submitted)
    BY DEF l, d
  <2>2. CountOf(h, r) - Len(h.recent) = d + 1 - l
    BY <1>3, <2>1
  <2> QED
    BY <1>3, <1>10, <1>11, <1>12, <2>1, <2>2 DEF RecentIsTrue
<1>14. WorkIsFresh(h, r)
  <2>1. ASSUME NEW i \in 1 .. d, r.submitted[i].run = r.run, r.submitted[i].note = n
        PROVE  d + 1 - i > RecentLimit
    <3>1. ~(i > d - k)
      <4> SUFFICES ASSUME i > d - k PROVE FALSE
        OBVIOUS
      <4>1. i - (d - k) \in 1 .. k /\ d - k + (i - (d - k)) = i
        BY <1>2, <1>5
      <4>2. g.recent[i - (d - k)] = n
        BY <1>6, <2>1, <4>1
      <4>3. g.recent[i - (d - k)] \in ToSet(g.recent)
        BY <1>1, <4>1, LenProperties DEF ToSet, k
      <4> QED
        BY <4>2, <4>3
    <3> QED
      BY <1>2, <1>5, <2>1, <3>1
  <2> QED
    BY <2>1 DEF WorkIsFresh, d
<1> QED
  BY <1>4, <1>13, <1>14 DEF SubmissionsHold, d

LEMMA TakePayloadHolds ==
  ASSUME DeliveryInv, TakePayload
  PROVE  DeliveryInv'
<1>1. DeliveryTypes /\ gateway \in GatewayRecord /\ record \in Record
      /\ StoppedIsEmpty /\ SubmissionsHold(gateway, record)
  BY DEF DeliveryInv, DeliveryTypes
<1> DEFINE n == Head(gateway.payloads)
           payloads == Tail(gateway.payloads)
           recent == Remembered(gateway.recent, n)
<1>2. gateway.payloads \in Seq(Notes) /\ gateway.recent \in Seq(Notes) /\ record.submitted \in Seq(Submission)
  BY <1>1 DEF GatewayRecord, Record
<1>3. gateway.on /\ gateway.working = NoNote /\ gateway.payloads # <<>>
      /\ cloud' = cloud /\ socket' = socket /\ record' = record
      /\ gateway' = IF n \in ToSet(gateway.recent) THEN [gateway EXCEPT !.payloads = payloads]
                     ELSE [gateway EXCEPT !.payloads = payloads, !.working = n, !.recent = recent]
  BY DEF TakePayload
<1>4. n \in Notes /\ payloads \in Seq(Notes) /\ ToSet(gateway.payloads) = ToSet(payloads) \cup {n}
  BY <1>2, <1>3, HeadTailProperties, ToSetOfTail
<1>5. Len(gateway.recent) <= RecentLimit
  BY <1>1 DEF SubmissionsHold, RecentIsTrue
<1>6. recent \in Seq(Notes)
  BY <1>2, <1>4, <1>5, RememberedIs
<1> HIDE DEF n, payloads, recent
<1>7. CASE n \in ToSet(gateway.recent)
  <2>1. gateway' = [gateway EXCEPT !.payloads = payloads]
    BY <1>3, <1>7
  <2>2. gateway' \in GatewayRecord /\ gateway'.on = gateway.on /\ gateway'.recent = gateway.recent
        /\ gateway'.working = gateway.working /\ gateway'.payloads = payloads
    BY <1>1, <1>4, <2>1 DEF GatewayRecord
  <2>3. SubmissionsHold(gateway, record)'
    BY <1>1, <1>3, <2>2, SubmissionsSame
  <2>4. n \in Submitted(record)
    <3> DEFINE d == Len(record.submitted)
               k == Len(gateway.recent)
    <3>1. d \in Nat /\ k \in Nat /\ DOMAIN record.submitted = 1 .. d /\ DOMAIN gateway.recent = 1 .. k
      BY <1>2, LenProperties
    <3>2. CountOf(gateway, record) = d
      BY <1>3, <3>1 DEF CountOf
    <3>3. PICK m \in 1 .. k : gateway.recent[m] = n
      BY <1>7, <3>1 DEF ToSet
    <3>4. k <= d /\ gateway.recent[m] = PassedOn(gateway, record, d - k + m)
      BY <1>1, <3>2 DEF SubmissionsHold, RecentIsTrue
    <3>7. \A i \in 1 .. d : PassedOn(gateway, record, i) = record.submitted[i].note
      BY DEF PassedOn
    <3> HIDE DEF d, k
    <3>5. d - k + m \in 1 .. d
      BY <3>1, <3>4
    <3>6. gateway.recent[m] = record.submitted[d - k + m].note
      BY <3>4, <3>5, <3>7
    <3> QED
      BY <3>1, <3>3, <3>5, <3>6 DEF Submitted
  <2>5. Held(gateway, record) \cap Notes \subseteq Held(gateway', record')
    BY <1>3, <1>4, <2>2, <2>4 DEF Held, Submitted
  <2>6. StoppedIsEmpty'
    BY <1>3, <2>2 DEF StoppedIsEmpty
  <2> QED
    BY <1>1, <1>3, <2>2, <2>3, <2>5, <2>6, GatewayStepHolds
<1>8. CASE n \notin ToSet(gateway.recent)
  <2>1. gateway' = [gateway EXCEPT !.payloads = payloads, !.working = n, !.recent = recent]
    BY <1>3, <1>8
  <2>2. gateway' \in GatewayRecord /\ gateway'.on = gateway.on /\ gateway'.recent = recent
        /\ gateway'.working = n /\ gateway'.payloads = payloads
    BY <1>1, <1>4, <1>6, <2>1 DEF GatewayRecord
  <2>3. SubmissionsHold(gateway', record)
    BY <1>1, <1>3, <1>4, <1>8, <2>2, TakenHolds DEF recent
  <2>4. SubmissionsHold(gateway, record)'
    BY <1>3, <2>3
  <2>5. Held(gateway, record) \cap Notes \subseteq Held(gateway', record')
    BY <1>3, <1>4, <2>2, NotesAssumption DEF Held, Submitted
  <2>6. StoppedIsEmpty'
    BY <1>3, <2>2 DEF StoppedIsEmpty
  <2> QED
    BY <1>1, <1>3, <2>2, <2>4, <2>5, <2>6, GatewayStepHolds
<1> QED
  BY <1>7, <1>8

(* Submitting the message at work: it was fresh, so nothing alike is near.    *)
LEMMA SubmittedHolds ==
  ASSUME NEW g \in GatewayRecord, NEW r \in Record, NEW h \in GatewayRecord, NEW q \in Record,
         NEW x \in Submission, SubmissionsHold(g, r), g.working # NoNote,
         x.note = g.working, x.run = r.run, q.submitted = Append(r.submitted, x), q.run = r.run,
         h.working = NoNote, h.recent = g.recent
  PROVE  SubmissionsHold(h, q)
<1> DEFINE k == Len(g.recent)
           d == Len(r.submitted)
<1>1. g.recent \in Seq(Notes) /\ r.submitted \in Seq(Submission) /\ r.run \in Nat
  BY DEF GatewayRecord, Record
<1>2. k \in Nat /\ d \in Nat /\ RecentLimit \in Nat
  BY <1>1, LenProperties, LimitsAssumption
<1>3. q.submitted \in Seq(Submission) /\ Len(q.submitted) = d + 1
      /\ \A i \in 1 .. d : q.submitted[i] = r.submitted[i]
  BY <1>1, AppendProperties
<1>4. q.submitted[d + 1] = x
  BY <1>1, AppendProperties
<1>5. CountOf(g, r) = d + 1 /\ CountOf(h, q) = d + 1
  BY <1>2, <1>3 DEF CountOf
<1>6. /\ \A i \in 1 .. d : r.submitted[i].run <= r.run
      /\ \A i, j \in 1 .. d : i < j /\ r.submitted[i] = r.submitted[j] => j - i > RecentLimit
      /\ RecentIsTrue(g, r) /\ WorkIsFresh(g, r)
  BY DEF SubmissionsHold
<1>7. /\ k <= RecentLimit /\ k <= d + 1 /\ (k > 0 \/ k = RecentLimit)
      /\ \A m \in 1 .. k : g.recent[m] = PassedOn(g, r, d + 1 - k + m)
      /\ \A i \in 1 .. d : r.submitted[i].run = r.run => i > d + 1 - k \/ k = RecentLimit
  <2>1. k = Len(g.recent) /\ d = Len(r.submitted)
    OBVIOUS
  <2> HIDE DEF k, d
  <2>2. /\ k <= RecentLimit /\ k <= CountOf(g, r) /\ (k > 0 \/ k = RecentLimit)
        /\ \A m \in 1 .. k : g.recent[m] = PassedOn(g, r, CountOf(g, r) - k + m)
        /\ \A i \in 1 .. d : r.submitted[i].run = r.run => i > CountOf(g, r) - k \/ k = RecentLimit
    BY <1>6, <2>1 DEF RecentIsTrue
  <2> QED
    BY <1>2, <1>5, <2>2
<1>8. \A i \in 1 .. d : r.submitted[i].run = r.run /\ r.submitted[i].note = g.working => d + 1 - i > RecentLimit
  BY <1>6 DEF WorkIsFresh
<1>9. \A i \in 1 .. d + 1 : PassedOn(h, q, i) = PassedOn(g, r, i)
  <2>1. \A i \in 1 .. d : PassedOn(h, q, i) = q.submitted[i].note /\ PassedOn(g, r, i) = r.submitted[i].note
    BY <1>2, <1>3 DEF PassedOn
  <2>2. PassedOn(h, q, d + 1) = q.submitted[d + 1].note /\ PassedOn(g, r, d + 1) = g.working
    BY <1>2, <1>3 DEF PassedOn
  <2>3. ASSUME NEW i \in 1 .. d + 1 PROVE i \in 1 .. d \/ i = d + 1
    BY <1>2
  <2> QED
    BY <1>3, <1>4, <2>1, <2>2, <2>3
<1>10. k = Len(h.recent) /\ \A i \in 1 .. d + 1 : i \in 1 .. d \/ i = d + 1
  BY <1>2
<1> HIDE DEF k, d
<1>11. \A m \in 1 .. k : h.recent[m] = PassedOn(h, q, d + 1 - k + m)
  <2>1. \A m \in 1 .. k : d + 1 - k + m \in 1 .. d + 1
    BY <1>2, <1>7
  <2> QED
    BY <1>7, <1>9, <2>1
<1>12. \A i \in 1 .. d + 1 : q.submitted[i].run = q.run => i > d + 1 - k \/ k = RecentLimit
  <2> SUFFICES ASSUME NEW i \in 1 .. d + 1, q.submitted[i].run = q.run
               PROVE  i > d + 1 - k \/ k = RecentLimit
    OBVIOUS
  <2>1. CASE i \in 1 .. d
    BY <1>3, <1>7, <2>1
  <2>2. CASE i = d + 1
    BY <1>2, <1>7, <2>2
  <2> QED
    BY <1>10, <2>1, <2>2
<1>13. RecentIsTrue(h, q)
  <2>3. CountOf(h, q) = d + 1 /\ Len(h.recent) = k
    BY <1>5, <1>10
  <2>1. CountOf(h, q) - Len(h.recent) = d + 1 - k
    BY <1>2, <2>3
  <2> QED
    BY <1>3, <1>5, <1>7, <1>10, <1>11, <1>12, <2>1 DEF RecentIsTrue
<1>14. \A i \in 1 .. d + 1 : q.submitted[i].run <= q.run
  BY <1>1, <1>3, <1>4, <1>6, <1>10
<1>15. ASSUME NEW i \in 1 .. d + 1, NEW j \in 1 .. d + 1, i < j, q.submitted[i] = q.submitted[j]
       PROVE  j - i > RecentLimit
  <2>1. i \in 1 .. d
    BY <1>2, <1>15
  <2>2. CASE j \in 1 .. d
    BY <1>3, <1>6, <1>15, <2>1, <2>2
  <2>3. CASE j = d + 1
    <3>1. r.submitted[i] = x
      BY <1>3, <1>4, <1>15, <2>1, <2>3
    <3>2. r.submitted[i].run = r.run /\ r.submitted[i].note = g.working
      BY <3>1
    <3>3. d + 1 - i > RecentLimit
      BY <1>8, <2>1, <3>2
    <3> QED
      BY <1>2, <2>3, <3>3
  <2> QED
    BY <1>10, <2>2, <2>3
<1> QED
  BY <1>3, <1>13, <1>14, <1>15 DEF SubmissionsHold, WorkIsFresh

LEMMA FinishPayloadHolds ==
  ASSUME DeliveryInv, FinishPayload
  PROVE  DeliveryInv'
<1>1. DeliveryTypes /\ gateway \in GatewayRecord /\ record \in Record
      /\ StoppedIsEmpty /\ SubmissionsHold(gateway, record)
  BY DEF DeliveryInv, DeliveryTypes
<1> DEFINE x == [note |-> gateway.working, run |-> record.run]
           submitted == Append(record.submitted, x)
<1>2. gateway.working # NoNote /\ cloud' = cloud /\ socket' = socket
      /\ gateway' = [gateway EXCEPT !.working = NoNote] /\ record' = [record EXCEPT !.submitted = submitted]
  BY DEF FinishPayload
<1>3. gateway.working \in Notes /\ record.run \in Nat /\ record.submitted \in Seq(Submission)
  BY <1>1, <1>2 DEF GatewayRecord, Record
<1>4. x \in Submission /\ x.note = gateway.working /\ x.run = record.run
  BY <1>3 DEF Submission
<1> HIDE DEF x
<1>5. submitted \in Seq(Submission) /\ Len(submitted) = Len(record.submitted) + 1
      /\ \A i \in 1 .. Len(record.submitted) : submitted[i] = record.submitted[i]
  BY <1>3, <1>4, AppendProperties
<1>6. submitted[Len(record.submitted) + 1] = x
  BY <1>3, <1>4, AppendProperties
<1>7. submitted = Append(record.submitted, x)
  OBVIOUS
<1> HIDE DEF submitted
<1>8. gateway' \in GatewayRecord /\ gateway'.on = gateway.on /\ gateway'.recent = gateway.recent
      /\ gateway'.working = NoNote /\ gateway'.payloads = gateway.payloads
  BY <1>1, <1>2 DEF GatewayRecord
<1>9. record' \in Record /\ record'.submitted = submitted /\ record'.run = record.run
      /\ record'.dropped = record.dropped /\ record'.arrived = record.arrived
      /\ record'.handled = record.handled /\ record'.overtook = record.overtook
  BY <1>1, <1>2, <1>5 DEF Record
<1>10. SubmissionsHold(gateway', record')
  BY <1>1, <1>2, <1>4, <1>7, <1>8, <1>9, SubmittedHolds
<1>11. SubmissionsHold(gateway, record)'
  BY <1>10
<1>12. Submitted(record') = Submitted(record) \cup {gateway.working}
  <2> DEFINE d == Len(record.submitted)
  <2>1. d \in Nat /\ DOMAIN record.submitted = 1 .. d /\ DOMAIN submitted = 1 .. d + 1
    BY <1>3, <1>5, LenProperties
  <2>2. \A i \in 1 .. d : i \in 1 .. d + 1 /\ submitted[i] = record.submitted[i]
    BY <1>5, <2>1
  <2>3. d + 1 \in 1 .. d + 1 /\ submitted[d + 1].note = gateway.working
    BY <1>4, <1>6, <2>1
  <2>4. \A i \in 1 .. d + 1 : i \in 1 .. d \/ i = d + 1
    BY <2>1
  <2> HIDE DEF d
  <2>5. Submitted(record') \subseteq Submitted(record) \cup {gateway.working}
    BY <1>9, <2>1, <2>2, <2>3, <2>4 DEF Submitted
  <2>6. Submitted(record) \cup {gateway.working} \subseteq Submitted(record')
    BY <1>9, <2>1, <2>2, <2>3 DEF Submitted
  <2> QED
    BY <2>5, <2>6
<1>13. Held(gateway, record) \cap Notes \subseteq Held(gateway', record')
  BY <1>8, <1>9, <1>12 DEF Held
<1>14. StoppedIsEmpty'
  BY <1>1, <1>8 DEF StoppedIsEmpty
<1> QED
  BY <1>1, <1>2, <1>8, <1>9, <1>11, <1>13, <1>14, GatewayStepHolds

(* Stopping the gateway: nothing was submitted by the next run yet.           *)
LEMMA StopGatewayHolds ==
  ASSUME DeliveryInv, StopGateway
  PROVE  DeliveryInv'
<1>1. DeliveryTypes /\ gateway \in GatewayRecord /\ record \in Record /\ cloud \in CloudRecord
      /\ StoppedIsEmpty /\ SubmissionsHold(gateway, record) /\ AckedIsHeld
  BY DEF DeliveryInv, DeliveryTypes
<1> DEFINE dropped == record.dropped \union ToSet(gateway.payloads) \union ({gateway.working} \ {NoNote})
           run == record.run + 1
<1>2. cloud' = cloud /\ socket' = NoSocket /\ gateway' = [NewGateway EXCEPT !.on = FALSE]
      /\ record' = [record EXCEPT !.dropped = dropped, !.run = run]
  BY DEF StopGateway
<1>3. gateway.payloads \in Seq(Notes) /\ record.run \in Nat /\ record.submitted \in Seq(Submission)
      /\ gateway.working \in Notes \cup {NoNote} /\ record.dropped \in SUBSET Notes
  BY <1>1 DEF GatewayRecord, Record
<1>4. dropped \in SUBSET Notes /\ run \in Nat
  <2>1. ToSet(gateway.payloads) \subseteq Notes
    BY <1>3, ElementOfSeq, LenProperties DEF ToSet
  <2> QED
    BY <1>3, <2>1
<1>5. gateway' \in GatewayRecord /\ gateway'.payloads = <<>> /\ gateway'.recent = <<>>
      /\ gateway'.working = NoNote
  <2>1. NewGateway \in GatewayRecord /\ NewGateway.payloads = <<>> /\ NewGateway.recent = <<>>
        /\ NewGateway.working = NoNote
    BY DEF NewGateway, GatewayRecord
  <2>2. gateway' \in GatewayRecord /\ gateway'.payloads = NewGateway.payloads
        /\ gateway'.recent = NewGateway.recent /\ gateway'.working = NewGateway.working
    BY <1>2, <2>1 DEF GatewayRecord
  <2> QED
    BY <2>1, <2>2
<1> HIDE DEF dropped, run
<1>6. record' \in Record /\ record'.submitted = record.submitted /\ record'.run = run
      /\ record'.dropped = dropped
  BY <1>1, <1>2, <1>4 DEF Record
<1>7. SubmissionsHold(gateway, record)'
  <2>1. /\ \A i \in 1 .. Len(record.submitted) : record.submitted[i].run <= record.run
        /\ \A i, j \in 1 .. Len(record.submitted) :
             i < j /\ record.submitted[i] = record.submitted[j] => j - i > RecentLimit
    BY <1>1 DEF SubmissionsHold
  <2>2. \A i \in 1 .. Len(record.submitted) : record.submitted[i].run \in Nat
    <3>1. \A i \in 1 .. Len(record.submitted) : record.submitted[i] \in Submission
      BY <1>3, ElementOfSeq
    <3> QED
      BY <3>1 DEF Submission
  <2>3. \A i \in 1 .. Len(record.submitted) : record.submitted[i].run <= run /\ record.submitted[i].run # run
    BY <1>3, <2>1, <2>2 DEF run
  <2>4. Len(gateway'.recent) = 0 /\ Len(record.submitted) \in Nat
    BY <1>3, <1>5, LenProperties
  <2>5. RecentIsTrue(gateway', record')
    BY <1>5, <1>6, <2>3, <2>4, LimitsAssumption DEF RecentIsTrue, CountOf
  <2> QED
    BY <1>5, <1>6, <2>1, <2>3, <2>5 DEF SubmissionsHold, WorkIsFresh
<1>8. socket' \in SocketRecord /\ socket'.state = "None" /\ socket'.worker.note = NoNote
      /\ socket'.outcomes = <<>>
  BY <1>2, NewSocketType DEF NoSocket, NewSocket
<1>9. AckedIsHeld'
  <2>1. cloud.acked \subseteq Notes /\ cloud.acked \subseteq Held(gateway, record)
    BY <1>1 DEF CloudRecord, AckedIsHeld, Held, Submitted
  <2>2. cloud'.acked \subseteq record'.dropped \cup Submitted(record')
    BY <1>2, <1>6, <2>1, NotesAssumption DEF Held, Submitted, dropped
  <2> QED
    BY <2>2 DEF AckedIsHeld, Submitted
<1>10. OkIsHeld' /\ InflightIsTrue' /\ OrderIsKept'
  BY <1>8 DEF OkIsHeld, InflightIsTrue, OrderIsKept
<1>11. StoppedIsEmpty'
  BY <1>5 DEF StoppedIsEmpty
<1> QED
  BY <1>1, <1>2, <1>5, <1>6, <1>7, <1>8, <1>9, <1>10, <1>11 DEF DeliveryInv, DeliveryTypes

LEMMA StartGatewayHolds ==
  ASSUME DeliveryInv, StartGateway
  PROVE  DeliveryInv'
<1>1. DeliveryTypes /\ gateway \in GatewayRecord /\ record \in Record
      /\ StoppedIsEmpty /\ SubmissionsHold(gateway, record)
  BY DEF DeliveryInv, DeliveryTypes
<1>2. ~gateway.on /\ gateway' = NewGateway /\ cloud' = cloud /\ socket' = socket /\ record' = record
  BY DEF StartGateway
<1>3. gateway' \in GatewayRecord /\ gateway'.payloads = gateway.payloads /\ gateway'.recent = gateway.recent
      /\ gateway'.working = gateway.working /\ gateway'.on
  BY <1>1, <1>2 DEF NewGateway, GatewayRecord, StoppedIsEmpty
<1>4. SubmissionsHold(gateway, record)'
  BY <1>1, <1>2, <1>3, SubmissionsSame
<1>5. Held(gateway, record) \cap Notes \subseteq Held(gateway', record')
  BY <1>2, <1>3 DEF Held, Submitted
<1> QED
  BY <1>1, <1>2, <1>3, <1>4, <1>5, GatewayStepHolds DEF StoppedIsEmpty

LEMMA DeliveryStep == DeliveryInv /\ [DeliveryNext]_deliveryVars => DeliveryInv'
<1> SUFFICES ASSUME DeliveryInv, [DeliveryNext]_deliveryVars PROVE DeliveryInv'
  OBVIOUS
<1>1. CASE \E n \in Notes, part \in {1, 2} : Frame(n, part)
  BY <1>1, FrameHolds
<1>2. CASE Connect \/ FlushOutbox \/ WorkerForwards \/ WorkerReports \/ TakeOutcome
  BY <1>2, ConnectHolds, FlushOutboxHolds, WorkerForwardsHolds, WorkerReportsHolds, TakeOutcomeHolds
<1>3. CASE BeginClose \/ ClosedIdle \/ StreamFails \/ WorkerEnds
  BY <1>3, CloseHolds
<1>4. CASE TakePayload \/ FinishPayload \/ StopGateway \/ StartGateway
  BY <1>4, TakePayloadHolds, FinishPayloadHolds, StopGatewayHolds, StartGatewayHolds
<1>5. CASE UNCHANGED deliveryVars
  <2>1. cloud' = cloud /\ socket' = socket /\ gateway' = gateway /\ record' = record
    BY <1>5 DEF deliveryVars
  <2>2. SubmissionsHold(gateway, record)'
    BY <2>1 DEF DeliveryInv
  <2>3. AckedIsHeld' /\ OkIsHeld' /\ InflightIsTrue' /\ OrderIsKept'
    <3>1. DeliveryTypes /\ AckedIsHeld /\ OkIsHeld /\ InflightIsTrue /\ OrderIsKept
      BY DEF DeliveryInv
    <3>2. Held(gateway', record') = Held(gateway, record)
      BY <2>1
    <3>3. AckedIsHeld' /\ OkIsHeld'
      BY <2>1, <3>1, <3>2, HeldKeeps
    <3> QED
      BY <2>1, <3>1, <3>3 DEF InflightIsTrue, OrderIsKept
  <2> QED
    BY <2>1, <2>2, <2>3 DEF DeliveryInv, DeliveryTypes, StoppedIsEmpty
<1> QED
  BY <1>1, <1>2, <1>3, <1>4, <1>5 DEF DeliveryNext

(* Whatever the platform repeats and whichever connections, sessions and runs *)
(* of the gateway end: no run submits a message again that it may remember,   *)
(* what was acknowledged is held, submitted or was lost by a stop, the count  *)
(* a closing session waits for is the work that is out, and events are worked *)
(* on in the order of their arrival.                                          *)
THEOREM DeliveryCorrect == DeliverySpec => []DeliveryHolds
<1>1. DeliveryInit => DeliveryInv
  BY DeliveryInitInv
<1>2. DeliveryInv /\ [DeliveryNext]_deliveryVars => DeliveryInv'
  BY DeliveryStep
<1>3. DeliveryInv => DeliveryHolds
  <2> SUFFICES ASSUME DeliveryInv PROVE SubmittedOnce
    BY DEF DeliveryInv, DeliveryHolds
  <2>1. DOMAIN record.submitted = 1 .. Len(record.submitted)
    BY LenProperties DEF DeliveryInv, DeliveryTypes, Record
  <2> QED
    BY <2>1 DEF DeliveryInv, SubmissionsHold, SubmittedOnce
<1> QED
  BY <1>1, <1>2, <1>3, PTL DEF DeliverySpec
=============================================================================
