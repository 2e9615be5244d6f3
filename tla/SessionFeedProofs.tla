--------------------------- MODULE SessionFeedProofs --------------------------
(* SessionFeed for any number of clients, events and capacities: what a      *)
(* client shows is a state the session was in (FeedHolds).                   *)
EXTENDS SessionFeed, SequenceTheorems, TLAPS

-------------------------------------------------------------------------------
(* Types.                                                                    *)

Step == [turn : Nat, step : Nat, text : Nat]
View == [items : Nat, step : Step]
Glimpse == [items : Nat, step : Step, at : Nat]
Message == [kind : {"line", "start", "delta", "done", "end", "snapshot"},
            seq : Nat, line : Nat, step : Step]
Relay == [on : BOOLEAN, source : Seq(Message), lagged : BOOLEAN, ended : BOOLEAN,
          mark : Nat, step : Step, stepSeq : Nat, needs : BOOLEAN,
          held : Seq(Message), out : Seq(Message)]
Viewer == [on : BOOLEAN, items : Nat, gap : BOOLEAN, step : Step, at : Nat,
           stale : BOOLEAN]
Teller == [seq : Nat, items : Nat, step : Step, turns : Nat, count : Nat,
           reloads : Nat, lost : SUBSET (Nat \ {0})]

-------------------------------------------------------------------------------
(* T is what a load of the session told: the view behind each number.        *)

(* A step that is shown is the one told, but for the turn of a line lost.    *)
Excused(a, b, L) == a = b \/ (b.turn \in L /\ a.turn = b.turn)

(* An event takes the view a to the view b.                                  *)
MovesItems(e, a, b) ==
  /\ e.line = 0 => b.items = a.items
  /\ e.line > 0 => b.items = a.items + 1 /\ e.line = b.items
MovesStep(e, a, b, L) ==
  \/ e.kind = "line" /\ Excused(a, b, L)
  \/ e.kind = "start" /\ e.step = b /\ b.text = 0
  \/ /\ e.kind = "delta" /\ e.line = 0 /\ e.step = b /\ b.turn > 0 /\ a.turn = b.turn
     /\ b.turn \in L \/ b = [a EXCEPT !.text = @ + 1]
  \/ /\ e.kind = "done" /\ b.turn > 0 /\ a.turn = b.turn /\ e.step.turn = a.turn
     /\ b.turn \in L \/ b = [a EXCEPT !.step = @ + 1, !.text = 0]
  \/ e.kind = "end" /\ e.step.turn = a.turn /\ b = NoStep
Moves(e, a, b, L) == MovesItems(e, a, b) /\ MovesStep(e, a.step, b.step, L)

(* What the client makes of an event (See), and whether it fits.             *)
Shown(step, e) ==
  CASE e.kind = "delta" -> Extended(step, e)
    [] e.kind = "snapshot" -> e.step
    [] OTHER -> Checkpointed(step, e)
Seen(g, e) ==
  [items |-> IF e.line > 0 THEN e.line ELSE g.items, step |-> Shown(g.step, e), at |-> e.seq]
FitsIn(g, e) == e.seq > g.at /\ (e.line > 0 => e.line = g.items + 1)

TrueIn(g, T, L, m) ==
  g.at \in 0..m /\ g.items = T[g.at].items /\ Excused(g.step, T[g.at].step, L)

(* The client will see true views without a gap: f is what it shows before   *)
(* each event that is on its way.                                            *)
Trail(v, out, f, T, L, m) ==
  /\ f \in [0..Len(out) -> Glimpse]
  /\ f[0] = [items |-> v.items, step |-> v.step, at |-> v.at]
  /\ \A i \in 1..Len(out) : FitsIn(f[i - 1], out[i]) /\ f[i] = Seen(f[i - 1], out[i])
  /\ \A i \in 0..Len(out) : TrueIn(f[i], T, L, m)

(* The relay has taken the events up to this number; those it has not sent   *)
(* are deltas, folded into its step.                                         *)
Reached(r, w) == IF r.needs THEN r.stepSeq ELSE w.at
Ahead(r, w, T, L, m) ==
  /\ Reached(r, w) \in 0..m /\ r.mark <= Reached(r, w)
  /\ r.needs => /\ r.stepSeq > w.at /\ T[r.stepSeq].items = w.items
                /\ T[r.stepSeq].step.turn > 0
  /\ ~r.needs => r.step = w.step
  /\ Excused(r.step, T[Reached(r, w)].step, L)

(* What it holds and what it has not received comes next, without a gap.     *)
Held(r, k, T, L, m) ==
  \/ r.held = <<>>
  \/ /\ Len(r.held) = 1 /\ k + 1 <= m /\ r.held[1].seq = k + 1 /\ r.held[1].kind # "delta"
     /\ Moves(r.held[1], T[k], T[k + 1], L)
Sourced(r, k, T, L, m) ==
  ~r.lagged =>
    /\ k + Len(r.source) <= m
    /\ ~r.ended => k + Len(r.source) = m
    /\ \A i \in 1..Len(r.source) :
         r.source[i].seq = k + i /\ Moves(r.source[i], T[k + i - 1], T[k + i], L)

Relays(r, w, T, L, m) ==
  /\ Ahead(r, w, T, L, m)
  /\ Held(r, Reached(r, w), T, L, m)
  /\ Sourced(r, Reached(r, w) + Len(r.held), T, L, m)

IsLoad(T, L, m) == m \in Nat /\ L \in SUBSET (Nat \ {0}) /\ T \in [0..m -> View]
Holds(v, r, f, T, L, m) ==
  /\ IsLoad(T, L, m)
  /\ Trail(v, r.out, f, T, L, m)
  /\ r.on => Relays(r, f[Len(r.out)], T, L, m)
  /\ ~r.on => r = [NoRelay EXCEPT !.out = r.out]

-------------------------------------------------------------------------------
(* Steps that are shown.                                                     *)

(* What is shown is a step.                                                  *)
LEMMA ExtendedType ==
  ASSUME NEW x \in Step, NEW e \in Message
  PROVE  Extended(x, e) \in Step /\ Checkpointed(x, e) \in Step /\ Shown(x, e) \in Step
<1>1. NoStep \in Step /\ e.step \in Step
  BY DEF NoStep, Step, Message
<1>2. Extended(x, e) \in Step
  BY <1>1 DEF Extended, Step
<1>3. /\ [e.step EXCEPT !.text = 0] \in Step
      /\ [x EXCEPT !.step = @ + 1, !.text = 0] \in Step
  <2>1. x.step + 1 \in Nat /\ x.turn \in Nat
    BY DEF Step
  <2>2. [e.step EXCEPT !.text = 0] \in Step
    BY <1>1 DEF Step
  <2> DEFINE y == [x EXCEPT !.step = @ + 1]
  <2>3. y \in Step
    BY <2>1 DEF Step
  <2>4. [y EXCEPT !.text = 0] \in Step
    <3> HIDE DEF y
    <3> QED BY <2>3 DEF Step
  <2> QED BY <2>2, <2>4
<1>4. Checkpointed(x, e) \in Step
  BY <1>1, <1>3 DEF Checkpointed
<1> QED BY <1>1, <1>2, <1>4 DEF Shown

(* What is seen is a view with its number.                                   *)
LEMMA SeenType ==
  ASSUME NEW g \in Glimpse, NEW e \in Message
  PROVE  Seen(g, e) \in Glimpse
<1>1. g.step \in Step /\ g.items \in Nat /\ e.line \in Nat /\ e.seq \in Nat
  BY DEF Glimpse, Message
<1>2. Shown(g.step, e) \in Step
  BY <1>1, ExtendedType
<1> QED BY <1>1, <1>2 DEF Seen, Glimpse

(* An event shown on a step that was true shows a true step.                 *)
LEMMA MovesShown ==
  ASSUME NEW L \in SUBSET (Nat \ {0}), NEW x \in Step, NEW a \in Step, NEW b \in Step,
         NEW e \in Message, Excused(x, a, L), MovesStep(e, a, b, L)
  PROVE  /\ Excused(Shown(x, e), b, L) /\ e.kind # "snapshot"
         /\ e.kind = "delta" => Shown(x, e) = Extended(x, e)
         /\ e.kind # "delta" => Shown(x, e) = Checkpointed(x, e)
<1>1. x.turn = a.turn
  BY DEF Excused
<1>2. /\ e.kind # "snapshot"
      /\ e.kind = "delta" => Shown(x, e) = Extended(x, e)
      /\ e.kind # "delta" => Shown(x, e) = Checkpointed(x, e)
  BY DEF MovesStep, Shown
<1>3. CASE e.kind = "line" /\ Excused(a, b, L)
  <2>1. Shown(x, e) = x
    BY <1>2, <1>3 DEF Checkpointed
  <2> QED BY <1>2, <1>3, <2>1 DEF Excused
<1>4. CASE e.kind = "start" /\ e.step = b /\ b.text = 0
  <2>1. Shown(x, e) = [b EXCEPT !.text = 0]
    BY <1>2, <1>4 DEF Checkpointed
  <2>2. [b EXCEPT !.text = 0] = b
    BY <1>4 DEF Step
  <2> QED BY <1>2, <2>1, <2>2 DEF Excused
<1>5. CASE /\ e.kind = "delta" /\ e.line = 0 /\ e.step = b /\ b.turn > 0 /\ a.turn = b.turn
           /\ b.turn \in L \/ b = [a EXCEPT !.text = @ + 1]
  <2>1. Shown(x, e) = Extended(x, e)
    BY <1>2, <1>5
  <2>2. Extended(x, e).turn = b.turn
    BY <1>1, <1>5 DEF Extended, SameStep, Step
  <2>3. CASE b.turn \in L
    BY <1>2, <2>1, <2>2, <2>3 DEF Excused
  <2>4. CASE b.turn \notin L
    <3>1. x = a /\ b = [a EXCEPT !.text = @ + 1]
      BY <1>5, <2>4 DEF Excused
    <3>2. Extended(x, e) = b
      BY <1>5, <3>1 DEF Extended, SameStep, Step
    <3> QED BY <1>2, <2>1, <3>2 DEF Excused
  <2> QED BY <2>3, <2>4
<1>6. CASE /\ e.kind = "done" /\ b.turn > 0 /\ a.turn = b.turn /\ e.step.turn = a.turn
           /\ b.turn \in L \/ b = [a EXCEPT !.step = @ + 1, !.text = 0]
  <2>1. x # NoStep /\ x.turn = e.step.turn
    BY <1>1, <1>6 DEF NoStep
  <2>2. Shown(x, e) = [x EXCEPT !.step = @ + 1, !.text = 0]
    BY <1>2, <1>6, <2>1 DEF Checkpointed
  <2>3. [x EXCEPT !.step = @ + 1, !.text = 0].turn = b.turn
    BY <1>1, <1>6 DEF Step
  <2>4. CASE b.turn \in L
    BY <1>2, <2>2, <2>3, <2>4 DEF Excused
  <2>5. CASE b.turn \notin L
    BY <1>2, <1>6, <2>2, <2>5 DEF Excused
  <2> QED BY <2>4, <2>5
<1>7. CASE e.kind = "end" /\ e.step.turn = a.turn /\ b = NoStep
  <2>1. Shown(x, e) = NoStep
    BY <1>1, <1>2, <1>7 DEF Checkpointed
  <2> QED BY <1>2, <1>7, <2>1 DEF Excused
<1> QED BY <1>3, <1>4, <1>5, <1>6, <1>7 DEF MovesStep

-------------------------------------------------------------------------------
(* The trail: one more event on its way, and one that arrives.               *)

(* The relay sends one more event.                                           *)
LEMMA TrailGrows ==
  ASSUME NEW v, NEW out \in Seq(Message), NEW f, NEW T, NEW L, NEW m,
         Trail(v, out, f, T, L, m), NEW e \in Message,
         FitsIn(f[Len(out)], e), TrueIn(Seen(f[Len(out)], e), T, L, m)
  PROVE  \E g : /\ Trail(v, Append(out, e), g, T, L, m)
                /\ g[Len(Append(out, e))] = Seen(f[Len(out)], e)
<1> DEFINE n == Len(out)
           long == Append(out, e)
           g == [i \in 0..n + 1 |-> IF i <= n THEN f[i] ELSE Seen(f[n], e)]
<1>1. /\ n \in Nat /\ long \in Seq(Message) /\ Len(long) = n + 1 /\ long[n + 1] = e
      /\ \A i \in 1..n : long[i] = out[i]
  OBVIOUS
<1>2. /\ f \in [0..n -> Glimpse]
      /\ f[0] = [items |-> v.items, step |-> v.step, at |-> v.at]
      /\ \A i \in 1..n : FitsIn(f[i - 1], out[i]) /\ f[i] = Seen(f[i - 1], out[i])
      /\ \A i \in 0..n : TrueIn(f[i], T, L, m)
  BY DEF Trail
<1>3. /\ \A i \in 0..n : g[i] = f[i]
      /\ g[n + 1] = Seen(f[n], e)
  BY <1>1
<1>4. Seen(f[n], e) \in Glimpse
  BY <1>1, <1>2, SeenType
<1>5. g \in [0..n + 1 -> Glimpse]
  BY <1>1, <1>2, <1>4
<1> HIDE DEF g, long, n
<1>6. ASSUME NEW i \in 1..n + 1
      PROVE  FitsIn(g[i - 1], long[i]) /\ g[i] = Seen(g[i - 1], long[i])
  <2>1. CASE i = n + 1
    <3>1. g[i - 1] = f[n] /\ long[i] = e
      BY <1>1, <1>3, <2>1
    <3> QED BY <1>3, <2>1, <3>1 DEF n
  <2>2. CASE i # n + 1
    <3>1. i \in 1..n /\ i - 1 \in 0..n /\ i \in 0..n
      BY <1>1, <2>2
    <3> QED BY <1>1, <1>2, <1>3, <3>1
  <2> QED BY <2>1, <2>2
<1>7. ASSUME NEW i \in 0..n + 1 PROVE TrueIn(g[i], T, L, m)
  <2>1. CASE i = n + 1
    BY <1>3, <2>1 DEF n
  <2>2. CASE i # n + 1
    <3>1. i \in 0..n
      BY <1>1, <2>2
    <3> QED BY <1>2, <1>3, <3>1
  <2> QED BY <2>1, <2>2
<1>8. g[0] = f[0]
  BY <1>1, <1>3
<1>9. Trail(v, long, g, T, L, m)
  BY <1>1, <1>2, <1>5, <1>6, <1>7, <1>8 DEF Trail
<1>10. g[Len(long)] = Seen(f[n], e)
  BY <1>1, <1>3
<1> QED BY <1>9, <1>10 DEF long, n

(* The client sees the first one.                                            *)
LEMMA TrailArrives ==
  ASSUME NEW v, NEW out \in Seq(Message), out # <<>>, NEW f, NEW T, NEW L, NEW m,
         Trail(v, out, f, T, L, m), NEW u,
         [items |-> u.items, step |-> u.step, at |-> u.at] = f[1]
  PROVE  \E g : Trail(u, Tail(out), g, T, L, m) /\ g[Len(Tail(out))] = f[Len(out)]
<1> DEFINE n == Len(out)
           rest == Tail(out)
           g == [i \in 0..n - 1 |-> f[i + 1]]
<1>1. /\ n \in Nat \ {0} /\ rest \in Seq(Message) /\ Len(rest) = n - 1
      /\ \A i \in 1..n - 1 : rest[i] = out[i + 1]
  BY HeadTailProperties, EmptySeq
<1>2. /\ f \in [0..n -> Glimpse]
      /\ \A i \in 1..n : FitsIn(f[i - 1], out[i]) /\ f[i] = Seen(f[i - 1], out[i])
      /\ \A i \in 0..n : TrueIn(f[i], T, L, m)
  BY DEF Trail
<1>3. \A i \in 0..n - 1 : g[i] = f[i + 1] /\ i + 1 \in 0..n
  BY <1>1
<1>4. g \in [0..n - 1 -> Glimpse]
  BY <1>1, <1>2
<1> HIDE DEF g, rest, n
<1>5. ASSUME NEW i \in 1..n - 1
      PROVE  FitsIn(g[i - 1], rest[i]) /\ g[i] = Seen(g[i - 1], rest[i])
  <2>1. /\ i - 1 \in 0..n - 1 /\ i \in 0..n - 1 /\ i + 1 \in 1..n /\ (i - 1) + 1 = i
        /\ (i + 1) - 1 = i
    BY <1>1
  <2>2. g[i - 1] = f[i] /\ g[i] = f[i + 1] /\ rest[i] = out[i + 1]
    BY <1>1, <1>3, <2>1
  <2>3. FitsIn(f[(i + 1) - 1], out[i + 1]) /\ f[i + 1] = Seen(f[(i + 1) - 1], out[i + 1])
    BY <1>2, <2>1
  <2> QED BY <2>1, <2>2, <2>3
<1>6. \A i \in 0..n - 1 : TrueIn(g[i], T, L, m)
  BY <1>2, <1>3
<1>7. g[0] = f[1] /\ g[n - 1] = f[n]
  BY <1>1, <1>3
<1> QED BY <1>1, <1>4, <1>5, <1>6, <1>7 DEF Trail, rest, n

-------------------------------------------------------------------------------
(* The steps of a relay and of its client.                                   *)

(* What the relay has taken is true of the number it has got to.             *)
LEMMA FrontIsTrue ==
  ASSUME NEW r \in Relay, NEW w \in Glimpse, NEW T, NEW L, NEW m, IsLoad(T, L, m),
         Ahead(r, w, T, L, m), TrueIn(w, T, L, m)
  PROVE  /\ Reached(r, w) \in 0..m /\ Reached(r, w) >= w.at /\ w.at \in Nat
         /\ T[Reached(r, w)].items = w.items
         /\ Excused(r.step, T[Reached(r, w)].step, L)
BY DEF Ahead, Reached, TrueIn, Relay, Glimpse

(* A delta comes next for r, that has taken k events, and x is r behind it.  *)
DeltaNext(v, r, f, e, k, T, L, m) ==
  /\ r \in Relay /\ IsLoad(T, L, m) /\ Trail(v, r.out, f, T, L, m)
  /\ Ahead(r, f[Len(r.out)], T, L, m) /\ k = Reached(r, f[Len(r.out)])
  /\ e \in Message /\ e.kind = "delta" /\ k + 1 <= m /\ e.seq = k + 1
  /\ Moves(e, T[k], T[k + 1], L)
DeltaTaken(x, r, k, v, T, L, m) ==
  /\ x \in Relay
  /\ \E g : /\ Trail(v, x.out, g, T, L, m) /\ Ahead(x, g[Len(x.out)], T, L, m)
            /\ Reached(x, g[Len(x.out)]) = k + 1
  /\ x.on = r.on /\ x.source = r.source /\ x.held = r.held
  /\ x.lagged = r.lagged /\ x.ended = r.ended

(* One more delta is folded into the step.                                   *)
LEMMA DeltaHolds ==
  ASSUME NEW v, NEW r, NEW f, NEW e, NEW k, NEW T, NEW L, NEW m,
         DeltaNext(v, r, f, e, k, T, L, m), NEW x, x = WithDelta(r, e)
  PROVE  DeltaTaken(x, r, k, v, T, L, m)
<1> SUFFICES ASSUME r \in Relay, IsLoad(T, L, m), Trail(v, r.out, f, T, L, m),
                    Ahead(r, f[Len(r.out)], T, L, m), k = Reached(r, f[Len(r.out)]),
                    e \in Message, e.kind = "delta", k + 1 <= m, e.seq = k + 1,
                    Moves(e, T[k], T[k + 1], L)
             PROVE  /\ x \in Relay
                    /\ \E g : /\ Trail(v, x.out, g, T, L, m)
                              /\ Ahead(x, g[Len(x.out)], T, L, m)
                              /\ Reached(x, g[Len(x.out)]) = k + 1
                    /\ x.on = r.on /\ x.source = r.source /\ x.held = r.held
                    /\ x.lagged = r.lagged /\ x.ended = r.ended
  BY DEF DeltaNext, DeltaTaken
<1> DEFINE w == f[Len(r.out)]
           grown == [r EXCEPT !.step = Extended(@, e), !.stepSeq = e.seq]
           big == Extended(r.step, e)
<1>1. /\ r.out \in Seq(Message) /\ Len(r.out) \in Nat /\ r.step \in Step /\ e.step \in Step
      /\ m \in Nat /\ L \in SUBSET (Nat \ {0}) /\ T \in [0..m -> View]
      /\ e.line \in Nat /\ r.mark \in Nat
  BY DEF Relay, IsLoad, Message
<1>2. w \in Glimpse /\ TrueIn(w, T, L, m)
  BY <1>1 DEF Trail
<1>3. /\ k \in 0..m /\ k >= w.at /\ w.at \in Nat /\ k + 1 \in 0..m
      /\ T[k].items = w.items /\ Excused(r.step, T[k].step, L) /\ r.mark <= k
  <2>1. /\ k \in 0..m /\ k >= w.at /\ w.at \in Nat
        /\ T[k].items = w.items /\ Excused(r.step, T[k].step, L) /\ r.mark <= k
    BY <1>2, FrontIsTrue DEF Ahead
  <2> QED BY <1>1, <2>1
<1>4. T[k] \in View /\ T[k + 1] \in View /\ T[k].step \in Step /\ T[k + 1].step \in Step
  BY <1>1, <1>3 DEF View
<1>5. big \in Step /\ Excused(big, T[k + 1].step, L)
  <2>1. big \in Step
    BY <1>1, ExtendedType
  <2>2. MovesStep(e, T[k].step, T[k + 1].step, L)
    BY DEF Moves
  <2>3. Shown(r.step, e) = big
    BY DEF Shown
  <2>4. Excused(Shown(r.step, e), T[k + 1].step, L)
    BY <1>1, <1>3, <1>4, <2>2, MovesShown
  <2> QED BY <2>1, <2>3, <2>4
<1>6. e.line = 0 /\ T[k + 1].items = w.items /\ T[k + 1].step.turn > 0
  BY <1>3, <1>1 DEF Moves, MovesItems, MovesStep
<1>7. /\ grown \in Relay /\ grown.step = big /\ grown.stepSeq = k + 1
      /\ grown.on = r.on /\ grown.source = r.source /\ grown.held = r.held
      /\ grown.lagged = r.lagged /\ grown.ended = r.ended /\ grown.mark = r.mark
      /\ grown.out = r.out /\ grown.needs = r.needs
  BY <1>3, <1>5 DEF Relay, Message
<1> HIDE DEF grown, big
<1>8. CASE ~Room(grown)
  <2>1. x = [grown EXCEPT !.needs = TRUE]
    BY <1>8 DEF WithDelta, grown
  <2>2. /\ x \in Relay /\ x.step = big /\ x.stepSeq = k + 1 /\ x.needs /\ x.out = r.out
        /\ x.on = r.on /\ x.source = r.source /\ x.held = r.held
        /\ x.lagged = r.lagged /\ x.ended = r.ended /\ x.mark = r.mark
    BY <1>7, <2>1 DEF Relay
  <2>3. Reached(x, w) = k + 1
    BY <2>2 DEF Reached
  <2>4. Ahead(x, w, T, L, m)
    BY <1>1, <1>3, <1>5, <1>6, <2>2, <2>3 DEF Ahead
  <2> QED BY <2>2, <2>3, <2>4
<1>9. CASE Room(grown) /\ grown.needs
  <2> DEFINE y == [grown EXCEPT !.needs = FALSE]
             event == StepEvent(grown)
  <2>1. x = Put(y, event)
    BY <1>9 DEF WithDelta, grown
  <2>2. event \in Message /\ event.kind = "snapshot" /\ event.seq = k + 1
        /\ event.line = 0 /\ event.step = big
    BY <1>3, <1>5, <1>7 DEF StepEvent, Message
  <2>3. /\ x \in Relay /\ x.step = big /\ ~x.needs /\ x.out = Append(r.out, event)
        /\ x.on = r.on /\ x.source = r.source /\ x.held = r.held
        /\ x.lagged = r.lagged /\ x.ended = r.ended /\ x.mark = r.mark
    <3>1. Append(r.out, event) \in Seq(Message)
      BY <1>1, <2>2
    <3> HIDE DEF event
    <3>2. x = [y EXCEPT !.out = Append(r.out, event)]
      BY <1>7, <2>1 DEF Put, Relay
    <3>3. /\ y \in Relay /\ y.step = big /\ ~y.needs /\ y.on = r.on /\ y.source = r.source
          /\ y.held = r.held /\ y.lagged = r.lagged /\ y.ended = r.ended /\ y.mark = r.mark
      BY <1>7 DEF Relay
    <3> HIDE DEF y
    <3> QED BY <3>1, <3>2, <3>3 DEF Relay
  <2> HIDE DEF event
  <2>4. Seen(w, event) = [items |-> w.items, step |-> big, at |-> k + 1]
    BY <2>2 DEF Seen, Shown
  <2>5. FitsIn(w, event) /\ TrueIn(Seen(w, event), T, L, m)
    BY <1>3, <1>5, <1>6, <2>2, <2>4 DEF FitsIn, TrueIn
  <2>6. PICK g : Trail(v, x.out, g, T, L, m) /\ g[Len(x.out)] = Seen(w, event)
    <3>1. r.out \in Seq(Message) /\ event \in Message
      BY <1>1, <2>2
    <3>2. PICK g : /\ Trail(v, Append(r.out, event), g, T, L, m)
                   /\ g[Len(Append(r.out, event))] = Seen(w, event)
      BY <2>5, <3>1, TrailGrows
    <3> QED BY <2>3, <3>2
  <2>7. Reached(x, g[Len(x.out)]) = k + 1
    BY <2>3, <2>4, <2>6 DEF Reached
  <2>8. Ahead(x, g[Len(x.out)], T, L, m)
    BY <1>1, <1>3, <1>5, <2>3, <2>4, <2>6, <2>7 DEF Ahead
  <2> QED BY <2>3, <2>6, <2>7, <2>8
<1>10. CASE Room(grown) /\ ~grown.needs
  <2>1. x = Put(grown, e)
    BY <1>10 DEF WithDelta, grown
  <2>2. /\ x \in Relay /\ x.step = big /\ ~x.needs /\ x.out = Append(r.out, e)
        /\ x.on = r.on /\ x.source = r.source /\ x.held = r.held
        /\ x.lagged = r.lagged /\ x.ended = r.ended /\ x.mark = r.mark
    <3>1. Append(r.out, e) \in Seq(Message)
      BY <1>1
    <3>2. x = [grown EXCEPT !.out = Append(r.out, e)]
      BY <1>7, <2>1 DEF Put, Relay
    <3> QED BY <1>7, <1>10, <3>1, <3>2 DEF Relay
  <2>3. r.step = w.step /\ k = w.at
    BY <1>7, <1>10 DEF Ahead, Reached
  <2>4. Seen(w, e) = [items |-> w.items, step |-> big, at |-> k + 1]
    BY <1>6, <2>3 DEF Seen, Shown, big
  <2>5. FitsIn(w, e) /\ TrueIn(Seen(w, e), T, L, m)
    BY <1>3, <1>5, <1>6, <2>4 DEF FitsIn, TrueIn
  <2>6. PICK g : Trail(v, x.out, g, T, L, m) /\ g[Len(x.out)] = Seen(w, e)
    <3>1. r.out \in Seq(Message)
      BY <1>1
    <3>2. PICK g : /\ Trail(v, Append(r.out, e), g, T, L, m)
                   /\ g[Len(Append(r.out, e))] = Seen(w, e)
      BY <2>5, <3>1, TrailGrows
    <3> QED BY <2>2, <3>2
  <2>7. Reached(x, g[Len(x.out)]) = k + 1
    BY <2>2, <2>4, <2>6 DEF Reached
  <2>8. Ahead(x, g[Len(x.out)], T, L, m)
    BY <1>1, <1>3, <1>5, <2>2, <2>4, <2>6, <2>7 DEF Ahead
  <2> QED BY <2>2, <2>6, <2>7, <2>8
<1> QED BY <1>8, <1>9, <1>10

LEMMA SourceShrinks ==
  ASSUME NEW r \in Relay, NEW x \in Relay, NEW k \in Nat, NEW T, NEW L, NEW m \in Nat,
         r.source # <<>>, ~r.lagged, Sourced(r, k, T, L, m),
         x.source = Tail(r.source), x.lagged = r.lagged, x.ended = r.ended
  PROVE  /\ Head(r.source) \in Message /\ Head(r.source).seq = k + 1 /\ k + 1 <= m
         /\ Moves(Head(r.source), T[k], T[k + 1], L)
         /\ Sourced(x, k + 1, T, L, m)
<1> DEFINE s == r.source
           t == Tail(r.source)
<1>1. s \in Seq(Message) /\ s # <<>>
  BY DEF Relay
<1>2. /\ Head(s) \in Message /\ t \in Seq(Message) /\ Len(t) = Len(s) - 1
      /\ \A i \in 1..Len(t) : t[i] = s[i + 1]
  BY <1>1, HeadTailProperties
<1>3. Len(s) \in Nat \ {0} /\ Head(s) = s[1]
  BY <1>1, EmptySeq
<1>4. /\ k + Len(s) <= m /\ (~r.ended => k + Len(s) = m)
      /\ \A i \in 1..Len(s) : s[i].seq = k + i /\ Moves(s[i], T[k + i - 1], T[k + i], L)
  BY DEF Sourced
<1> HIDE DEF s, t
<1>5. s[1].seq = k + 1 /\ Moves(s[1], T[k], T[k + 1], L)
  <2>1. 1 \in 1..Len(s) /\ k + 1 - 1 = k
    BY <1>3
  <2> QED BY <1>4, <2>1
<1>6. ASSUME NEW i \in 1..Len(t)
      PROVE  t[i].seq = k + 1 + i /\ Moves(t[i], T[k + 1 + i - 1], T[k + 1 + i], L)
  <2>1. i + 1 \in 1..Len(s) /\ k + (i + 1) = k + 1 + i /\ k + (i + 1) - 1 = k + 1 + i - 1
    BY <1>2, <1>3
  <2>2. /\ s[i + 1].seq = k + (i + 1)
        /\ Moves(s[i + 1], T[k + (i + 1) - 1], T[k + (i + 1)], L)
    BY <1>4, <2>1
  <2> QED BY <1>2, <2>1, <2>2
<1>7. k + 1 <= m /\ k + 1 + Len(t) <= m /\ (~r.ended => k + 1 + Len(t) = m)
  BY <1>2, <1>3, <1>4
<1>8. Sourced(x, k + 1, T, L, m)
  BY <1>6, <1>7 DEF Sourced, t
<1> QED BY <1>2, <1>3, <1>5, <1>7, <1>8 DEF s

(* What Receive makes of a relay.                                            *)
Received(r) ==
  LET event == Head(r.source)
      rest == [r EXCEPT !.source = Tail(@)]
  IN  CASE event.seq <= rest.mark -> rest
        [] event.seq > rest.mark /\ event.kind = "delta" -> WithDelta(rest, event)
        [] OTHER -> [rest EXCEPT !.held = <<event>>]

(* The relay takes an event.                                                 *)
LEMMA ReceiveHolds ==
  ASSUME NEW v, NEW r \in Relay, NEW f, NEW T, NEW L, NEW m, Holds(v, r, f, T, L, m),
         r.on, ~r.lagged, r.held = <<>>, r.source # <<>>,
         NEW x, x = Received(r)
  PROVE  x \in Relay /\ x.on /\ x.ended = r.ended /\ \E g : Holds(v, x, g, T, L, m)
<1> DEFINE w == f[Len(r.out)]
           e == Head(r.source)
           rest == [r EXCEPT !.source = Tail(@)]
<1>0. PICK k : k = Reached(r, w)
  OBVIOUS
<1>1. /\ IsLoad(T, L, m) /\ Trail(v, r.out, f, T, L, m) /\ Ahead(r, w, T, L, m)
      /\ Sourced(r, k + Len(r.held), T, L, m)
  BY <1>0 DEF Holds, Relays
<1>2. m \in Nat /\ k \in 0..m /\ k \in Nat /\ r.mark <= k /\ r.mark \in Nat
  BY <1>0, <1>1 DEF Ahead, IsLoad, Relay
<1>3. Sourced(r, k, T, L, m)
  <2>1. k + Len(r.held) = k
    BY <1>2
  <2> QED BY <1>1, <2>1
<1>4. /\ rest \in Relay /\ rest.source = Tail(r.source) /\ rest.lagged = r.lagged
      /\ rest.ended = r.ended /\ rest.out = r.out /\ rest.mark = r.mark
      /\ rest.needs = r.needs /\ rest.step = r.step /\ rest.stepSeq = r.stepSeq
      /\ rest.on = r.on /\ rest.held = <<>>
  <2>1. Tail(r.source) \in Seq(Message)
    BY HeadTailProperties DEF Relay
  <2> QED BY <2>1 DEF Relay
<1>5. /\ e \in Message /\ e.seq = k + 1 /\ k + 1 <= m /\ Moves(e, T[k], T[k + 1], L)
      /\ Sourced(rest, k + 1, T, L, m)
  BY <1>2, <1>3, <1>4, SourceShrinks
<1>6. Reached(rest, w) = k /\ Ahead(rest, w, T, L, m)
  BY <1>0, <1>1, <1>4 DEF Ahead, Reached
<1>7. e.seq > rest.mark /\ ~(e.seq <= rest.mark)
  BY <1>2, <1>4, <1>5
<1>a. /\ e.kind = "delta" => x = WithDelta(rest, e)
      /\ e.kind # "delta" => x = [rest EXCEPT !.held = <<e>>]
  BY <1>7 DEF Received
<1> HIDE DEF e, rest
<1>8. CASE e.kind = "delta"
  <2>1. x = WithDelta(rest, e)
    BY <1>a, <1>8
  <2>2. Trail(v, rest.out, f, T, L, m) /\ Ahead(rest, f[Len(rest.out)], T, L, m)
        /\ k = Reached(rest, f[Len(rest.out)])
    BY <1>1, <1>4, <1>6
  <2>3. DeltaTaken(x, rest, k, v, T, L, m)
    <3>1. DeltaNext(v, rest, f, e, k, T, L, m)
      BY <1>1, <1>4, <1>5, <1>8, <2>2 DEF DeltaNext
    <3> QED BY <2>1, <3>1, DeltaHolds
  <2> USE DEF DeltaTaken
  <2>4. PICK g : /\ Trail(v, x.out, g, T, L, m) /\ Ahead(x, g[Len(x.out)], T, L, m)
                 /\ Reached(x, g[Len(x.out)]) = k + 1
    BY <2>3
  <2>5. Held(x, k + 1, T, L, m)
    BY <1>4, <2>3 DEF Held
  <2>6. Sourced(x, k + 1 + Len(x.held), T, L, m)
    <3>1. k + 1 + Len(x.held) = k + 1
      <4>1. x.held = <<>>
        BY <1>4, <2>3
      <4> QED BY <1>2, <4>1
    <3>2. Sourced(x, k + 1, T, L, m)
      BY <1>5, <2>3 DEF Sourced
    <3> QED BY <3>1, <3>2
  <2>7. Relays(x, g[Len(x.out)], T, L, m)
    BY <2>4, <2>5, <2>6 DEF Relays
  <2>8. x.on
    BY <1>4, <2>3
  <2>9. x \in Relay /\ x.ended = r.ended
    BY <1>4, <2>3
  <2> QED BY <1>1, <2>4, <2>7, <2>8, <2>9 DEF Holds
<1>9. CASE e.kind # "delta"
  <2>1. x = [rest EXCEPT !.held = <<e>>]
    BY <1>a, <1>9
  <2>2. /\ x \in Relay /\ x.source = rest.source /\ x.lagged = rest.lagged
        /\ x.ended = rest.ended /\ x.out = r.out /\ x.mark = r.mark
        /\ x.needs = r.needs /\ x.step = r.step /\ x.stepSeq = r.stepSeq
        /\ x.on = r.on /\ x.held = <<e>>
    <3>1. <<e>> \in Seq(Message)
      BY <1>5
    <3> QED BY <1>4, <2>1, <3>1 DEF Relay
  <2>3. Reached(x, w) = k /\ Ahead(x, w, T, L, m)
    BY <1>0, <1>1, <2>2 DEF Ahead, Reached
  <2>4. Held(x, k, T, L, m)
    BY <1>5, <1>9, <2>2 DEF Held
  <2>5. Sourced(x, k + Len(x.held), T, L, m)
    <3>1. k + Len(x.held) = k + 1
      BY <2>2
    <3>2. Sourced(x, k + 1, T, L, m)
      BY <1>5, <2>2 DEF Sourced
    <3> QED BY <3>1, <3>2
  <2>6. Relays(x, f[Len(x.out)], T, L, m)
    BY <2>2, <2>3, <2>4, <2>5 DEF Relays
  <2>7. Holds(v, x, f, T, L, m)
    BY <1>1, <2>2, <2>6 DEF Holds
  <2> QED BY <1>4, <2>2, <2>7
<1> QED BY <1>8, <1>9

(* Only a relay that runs holds an event, and only one.                      *)
LEMMA HeldIsOn ==
  ASSUME NEW v, NEW r \in Relay, NEW f, NEW T, NEW L, NEW m, Holds(v, r, f, T, L, m),
         r.held # <<>>
  PROVE  /\ r.on /\ Len(r.held) = 1 /\ r.held[1] \in Message /\ r.held = <<r.held[1]>>
         /\ Relays(r, f[Len(r.out)], T, L, m)
<1>1. r.on
  BY DEF Holds, NoRelay
<1>2. Relays(r, f[Len(r.out)], T, L, m)
  BY <1>1 DEF Holds
<1>3. Len(r.held) = 1
  BY <1>2 DEF Relays, Held
<1>4. r.held \in Seq(Message)
  BY DEF Relay
<1> QED BY <1>1, <1>2, <1>3, <1>4

(* The relay sends the step it owes.                                         *)
LEMMA FlushHolds ==
  ASSUME NEW v, NEW r \in Relay, NEW f, NEW T, NEW L, NEW m, Holds(v, r, f, T, L, m),
         r.held # <<>>, r.needs,
         NEW x, x = Put([r EXCEPT !.needs = FALSE], StepEvent(r))
  PROVE  x \in Relay /\ x.on /\ x.ended = r.ended /\ \E g : Holds(v, x, g, T, L, m)
<1> DEFINE w == f[Len(r.out)]
           k == r.stepSeq
           event == StepEvent(r)
<1>1. /\ IsLoad(T, L, m) /\ Trail(v, r.out, f, T, L, m) /\ Ahead(r, w, T, L, m)
      /\ Reached(r, w) = k /\ Held(r, k, T, L, m) /\ r.on
      /\ Sourced(r, k + Len(r.held), T, L, m)
  BY HeldIsOn DEF Holds, Relays, Reached
<1>2. /\ m \in Nat /\ k \in 0..m /\ r.mark <= k /\ k > w.at /\ T[k].items = w.items
      /\ Excused(r.step, T[k].step, L)
  BY <1>1 DEF Ahead, IsLoad
<1>3. /\ event \in Message /\ event.kind = "snapshot" /\ event.seq = k
      /\ event.line = 0 /\ event.step = r.step
  BY DEF StepEvent, Message, Relay
<1>4. /\ x \in Relay /\ x.step = r.step /\ ~x.needs /\ x.out = Append(r.out, event)
      /\ x.on = r.on /\ x.source = r.source /\ x.held = r.held
      /\ x.lagged = r.lagged /\ x.ended = r.ended /\ x.mark = r.mark
  <2> DEFINE y == [r EXCEPT !.needs = FALSE]
  <2>1. /\ y \in Relay /\ y.step = r.step /\ ~y.needs /\ y.on = r.on /\ y.source = r.source
        /\ y.held = r.held /\ y.lagged = r.lagged /\ y.ended = r.ended /\ y.mark = r.mark
        /\ y.out = r.out
    BY DEF Relay
  <2> HIDE DEF y, event
  <2>2. Append(r.out, event) \in Seq(Message)
    BY <1>3 DEF Relay
  <2>3. x = [y EXCEPT !.out = Append(r.out, event)]
    BY <2>1 DEF Put, Relay, y, event
  <2> QED BY <2>1, <2>2, <2>3 DEF Relay
<1> HIDE DEF event
<1>5. Seen(w, event) = [items |-> w.items, step |-> r.step, at |-> k]
  BY <1>3 DEF Seen, Shown
<1>6. FitsIn(w, event) /\ TrueIn(Seen(w, event), T, L, m)
  BY <1>2, <1>3, <1>5 DEF FitsIn, TrueIn
<1>7. PICK g : Trail(v, x.out, g, T, L, m) /\ g[Len(x.out)] = Seen(w, event)
  <2>1. r.out \in Seq(Message)
    BY DEF Relay
  <2>2. PICK g : /\ Trail(v, Append(r.out, event), g, T, L, m)
                 /\ g[Len(Append(r.out, event))] = Seen(w, event)
    BY <1>1, <1>3, <1>6, <2>1, TrailGrows
  <2> QED BY <1>4, <2>2
<1>8. Reached(x, g[Len(x.out)]) = k
  BY <1>4, <1>5, <1>7 DEF Reached
<1>9. Ahead(x, g[Len(x.out)], T, L, m)
  BY <1>2, <1>4, <1>5, <1>7, <1>8 DEF Ahead
<1>10. Held(x, k, T, L, m) /\ Sourced(x, k + Len(x.held), T, L, m)
  <2>1. Held(x, k, T, L, m)
    BY <1>1, <1>4 DEF Held
  <2>2. Sourced(x, k + Len(x.held), T, L, m)
    BY <1>1, <1>4 DEF Sourced
  <2> QED BY <2>1, <2>2
<1>11. Relays(x, g[Len(x.out)], T, L, m)
  BY <1>8, <1>9, <1>10 DEF Relays
<1> QED BY <1>1, <1>4, <1>7, <1>11 DEF Holds

(* What PassOn makes of a relay.                                             *)
Passed(r) ==
  LET event == r.held[1]
  IN  Put([r EXCEPT !.held = <<>>, !.step = Checkpointed(r.step, event)], event)

(* The relay sends the event it holds.                                       *)
LEMMA PassHolds ==
  ASSUME NEW v, NEW r \in Relay, NEW f, NEW T, NEW L, NEW m, Holds(v, r, f, T, L, m),
         r.held # <<>>, ~r.needs, NEW x, x = Passed(r)
  PROVE  x \in Relay /\ x.on /\ x.ended = r.ended /\ \E g : Holds(v, x, g, T, L, m)
<1> DEFINE e == r.held[1]
           w == f[Len(r.out)]
           k == w.at
           big == Checkpointed(r.step, e)
<1>1. /\ IsLoad(T, L, m) /\ Trail(v, r.out, f, T, L, m) /\ Ahead(r, w, T, L, m)
      /\ Reached(r, w) = k /\ Held(r, k, T, L, m) /\ r.on /\ Len(r.held) = 1
      /\ e \in Message /\ Sourced(r, k + Len(r.held), T, L, m)
  BY HeldIsOn DEF Holds, Relays, Reached
<1>2. /\ m \in Nat /\ L \in SUBSET (Nat \ {0}) /\ T \in [0..m -> View] /\ r.out \in Seq(Message)
      /\ Len(r.out) \in Nat /\ r.step \in Step
  BY <1>1 DEF IsLoad, Relay
<1>3. w \in Glimpse /\ TrueIn(w, T, L, m)
  BY <1>1, <1>2 DEF Trail
<1>4. /\ k \in 0..m /\ k + 1 \in 0..m /\ r.mark <= k /\ r.mark \in Nat /\ r.step = w.step
      /\ e.seq = k + 1 /\ e.kind # "delta"
      /\ Moves(e, T[k], T[k + 1], L) /\ T[k].items = w.items /\ Excused(r.step, T[k].step, L)
  <2>1. /\ k \in 0..m /\ k + 1 <= m /\ r.mark <= k /\ r.step = w.step
        /\ e.seq = k + 1 /\ e.kind # "delta"
        /\ Moves(e, T[k], T[k + 1], L) /\ T[k].items = w.items /\ Excused(r.step, T[k].step, L)
    BY <1>1, <1>3 DEF Ahead, Held, TrueIn
  <2> QED BY <1>2, <2>1 DEF Relay
<1>5. T[k] \in View /\ T[k + 1] \in View /\ T[k].step \in Step /\ T[k + 1].step \in Step
      /\ T[k + 1].items \in Nat /\ T[k].items \in Nat
  BY <1>2, <1>4 DEF View
<1>6. big \in Step /\ Shown(w.step, e) = big /\ Excused(big, T[k + 1].step, L)
  <2>1. big \in Step
    BY <1>1, <1>2, ExtendedType
  <2>2. MovesStep(e, T[k].step, T[k + 1].step, L)
    BY <1>4 DEF Moves
  <2>3. Excused(Shown(r.step, e), T[k + 1].step, L) /\ Shown(r.step, e) = big
    <3>1. /\ L \in SUBSET (Nat \ {0}) /\ r.step \in Step /\ e \in Message
          /\ Excused(r.step, T[k].step, L) /\ e.kind # "delta"
      BY <1>1, <1>2, <1>4
    <3>2. Excused(Shown(r.step, e), T[k + 1].step, L)
      BY <1>5, <2>2, <3>1, MovesShown
    <3>3. Shown(r.step, e) = Checkpointed(r.step, e)
      BY <2>2, <3>1 DEF Shown, MovesStep
    <3> QED BY <3>2, <3>3
  <2> QED BY <1>4, <2>1, <2>3
<1> HIDE DEF big
<1>7. /\ x \in Relay /\ x.step = big /\ ~x.needs /\ x.out = Append(r.out, e)
      /\ x.on = r.on /\ x.source = r.source /\ x.held = <<>>
      /\ x.lagged = r.lagged /\ x.ended = r.ended /\ x.mark = r.mark
  <2> DEFINE y == [r EXCEPT !.held = <<>>, !.step = Checkpointed(r.step, e)]
  <2>1. /\ y \in Relay /\ y.step = big /\ ~y.needs /\ y.on = r.on /\ y.source = r.source
        /\ y.held = <<>> /\ y.lagged = r.lagged /\ y.ended = r.ended /\ y.mark = r.mark
        /\ y.out = r.out
    <3>1. y = [[r EXCEPT !.held = <<>>] EXCEPT !.step = big]
      BY DEF big, Relay
    <3>2. [r EXCEPT !.held = <<>>] \in Relay
      <4>1. <<>> \in Seq(Message)
        OBVIOUS
      <4> QED BY <4>1 DEF Relay
    <3> QED BY <1>6, <3>1, <3>2 DEF Relay
  <2> HIDE DEF y
  <2>2. Append(r.out, e) \in Seq(Message)
    BY <1>1, <1>2
  <2>3. x = [y EXCEPT !.out = Append(r.out, e)]
    BY <2>1 DEF Passed, Put, y
  <2> QED BY <2>1, <2>2, <2>3 DEF Relay
<1>8. Seen(w, e) = [items |-> T[k + 1].items, step |-> big, at |-> k + 1]
  <2>1. (IF e.line > 0 THEN e.line ELSE w.items) = T[k + 1].items
    BY <1>1, <1>4 DEF Moves, MovesItems, Message
  <2> QED BY <1>4, <1>6, <2>1 DEF Seen
<1>9. FitsIn(w, e) /\ TrueIn(Seen(w, e), T, L, m)
  <2>1. e.seq > w.at
    BY <1>4
  <2>2. e.line > 0 => e.line = w.items + 1
    BY <1>4 DEF Moves, MovesItems
  <2>3. TrueIn(Seen(w, e), T, L, m)
    BY <1>4, <1>6, <1>8 DEF TrueIn
  <2> QED BY <2>1, <2>2, <2>3 DEF FitsIn
<1>10. PICK g : Trail(v, x.out, g, T, L, m) /\ g[Len(x.out)] = Seen(w, e)
  <2>1. PICK g : /\ Trail(v, Append(r.out, e), g, T, L, m)
                 /\ g[Len(Append(r.out, e))] = Seen(w, e)
    BY <1>1, <1>2, <1>9, TrailGrows
  <2> QED BY <1>7, <2>1
<1>11. Reached(x, g[Len(x.out)]) = k + 1
  BY <1>7, <1>8, <1>10 DEF Reached
<1>12. Ahead(x, g[Len(x.out)], T, L, m)
  <2>1. r.mark <= k + 1
    BY <1>4
  <2>2. x.step = g[Len(x.out)].step
    BY <1>7, <1>8, <1>10
  <2> QED BY <1>4, <1>6, <1>7, <1>11, <2>1, <2>2 DEF Ahead
<1>13. Held(x, k + 1, T, L, m) /\ Sourced(x, k + 1 + Len(x.held), T, L, m)
  <2>1. k + 1 + Len(x.held) = k + Len(r.held)
    BY <1>1, <1>4, <1>7
  <2>2. Sourced(x, k + Len(r.held), T, L, m)
    BY <1>1, <1>7 DEF Sourced
  <2> QED BY <1>7, <2>1, <2>2 DEF Held
<1>14. Relays(x, g[Len(x.out)], T, L, m)
  BY <1>11, <1>12, <1>13 DEF Relays
<1> QED BY <1>1, <1>7, <1>10, <1>14 DEF Holds

-------------------------------------------------------------------------------
(* The inductive invariant, in the words of the actor (a), of what it told   *)
(* (l), and of a client (v) and its relay (r).                               *)

Tells(a, l) ==
  /\ a \in Teller /\ l \in Seq(View) /\ a.seq = Len(l)
  /\ a.step = NoStep \/ a.step.turn > 0
  /\ \A i \in 1..Len(l) : l[i].items <= a.items
  /\ l # <<>> => /\ l[Len(l)].items = a.items
                 /\ Excused(a.step, l[Len(l)].step, a.lost)

(* T is what this load of the session told.                                  *)
Current(T, L, m, a, l) ==
  /\ m = Len(l) /\ L = a.lost
  /\ \A k \in 1..m : T[k] = l[k]
  /\ T[m].items = a.items /\ Excused(a.step, T[m].step, L)
Within(T, m, a) == \A k \in 0..m : T[k].items <= a.items
Follows(v, r, f, T, L, m, a, l) ==
  /\ Holds(v, r, f, T, L, m)
  /\ Within(T, m, a)
  /\ ~v.stale => Current(T, L, m, a, l)

ClientIs(v, r, a, l) ==
  /\ v \in Viewer /\ r \in Relay /\ ~v.gap
  /\ v.on => \E f, T, L, m : Follows(v, r, f, T, L, m, a, l)
  /\ ~v.on => r = NoRelay /\ v.items <= a.items
  /\ v.stale /\ r.on => r.ended

FeedInv ==
  /\ Tells(teller, told)
  /\ viewers \in [Clients -> Viewer] /\ relays \in [Clients -> Relay]
  /\ \A c \in Clients : ClientIs(viewers[c], relays[c], teller, told)

(* At first nobody is there.                                                 *)
LEMMA FeedInit_FeedInv ==
  ASSUME FeedInit
  PROVE  FeedInv
<1>1. NoStep \in Step
  BY DEF NoStep, Step
<1>2. NoRelay \in Relay /\ NoViewer \in Viewer /\ ~NoViewer.gap /\ ~NoViewer.on
      /\ NoViewer.items = 0 /\ ~NoViewer.stale
  BY <1>1 DEF NoRelay, NoViewer, Relay, Viewer
<1>3. teller \in Teller /\ teller.seq = 0 /\ teller.items = 0 /\ teller.step = NoStep
  BY <1>1 DEF FeedInit, Teller
<1>4. Tells(teller, told)
  BY <1>3 DEF FeedInit, Tells
<1>5. ASSUME NEW c \in Clients PROVE ClientIs(viewers[c], relays[c], teller, told)
  BY <1>2, <1>3 DEF FeedInit, ClientIs
<1> QED BY <1>2, <1>4, <1>5 DEF FeedInit, FeedInv

(* One client does something.                                                *)
LEMMA OneClient ==
  ASSUME FeedInv, NEW c \in Clients, teller' = teller, told' = told, NEW u, NEW x,
         viewers' = [viewers EXCEPT ![c] = u], relays' = [relays EXCEPT ![c] = x],
         ClientIs(u, x, teller, told)
  PROVE  FeedInv'
<1>1. u \in Viewer /\ x \in Relay
  BY DEF ClientIs
<1>2. viewers' \in [Clients -> Viewer] /\ relays' \in [Clients -> Relay]
  BY <1>1 DEF FeedInv
<1>3. ASSUME NEW d \in Clients PROVE ClientIs(viewers'[d], relays'[d], teller', told')
  <2>1. CASE d = c
    <3>1. viewers'[d] = u /\ relays'[d] = x
      BY <2>1 DEF FeedInv
    <3> QED BY <3>1
  <2>2. CASE d # c
    <3>1. viewers'[d] = viewers[d] /\ relays'[d] = relays[d]
      BY <2>2 DEF FeedInv
    <3>2. ClientIs(viewers[d], relays[d], teller, told)
      BY DEF FeedInv
    <3> QED BY <3>1, <3>2
  <2> QED BY <2>1, <2>2
<1>4. Tells(teller', told')
  BY DEF FeedInv
<1> QED BY <1>2, <1>3, <1>4 DEF FeedInv

(* A relay or its client takes a step, with what the load told as it is.     *)
LEMMA ClientStep ==
  ASSUME NEW v, NEW r, NEW a, NEW l, NEW f, NEW T, NEW L, NEW m, NEW u, NEW x, NEW g,
         ClientIs(v, r, a, l), Follows(v, r, f, T, L, m, a, l), Holds(u, x, g, T, L, m),
         u \in Viewer, x \in Relay, u.on, ~u.gap, u.stale = v.stale,
         x.on => r.on /\ x.ended = r.ended
  PROVE  ClientIs(u, x, a, l)
<1>1. Follows(u, x, g, T, L, m, a, l)
  BY DEF Follows
<1>2. u.stale /\ x.on => x.ended
  BY DEF ClientIs
<1> QED BY <1>1, <1>2 DEF ClientIs


(* A relay of nobody has nothing to do.                                      *)
LEMMA OnIsFollowed ==
  ASSUME FeedInv, NEW c \in Clients, relays[c] # NoRelay \/ viewers[c].on
  PROVE  /\ viewers[c].on /\ viewers[c] \in Viewer /\ relays[c] \in Relay /\ ~viewers[c].gap
         /\ ClientIs(viewers[c], relays[c], teller, told)
         /\ \E f, T, L, m : Follows(viewers[c], relays[c], f, T, L, m, teller, told)
BY DEF FeedInv, ClientIs

(* The relay alone moves on.                                                 *)
LEMMA RelayMoves ==
  ASSUME FeedInv, NEW c \in Clients, NEW f, NEW T, NEW L, NEW m,
         viewers[c].on, ClientIs(viewers[c], relays[c], teller, told),
         Follows(viewers[c], relays[c], f, T, L, m, teller, told),
         UNCHANGED <<teller, told, viewers>>, NEW x, NEW g,
         relays' = [relays EXCEPT ![c] = x], x \in Relay,
         x.on => relays[c].on /\ x.ended = relays[c].ended,
         Holds(viewers[c], x, g, T, L, m)
  PROVE  FeedInv'
<1> DEFINE v == viewers[c]
<1>1. v \in Viewer /\ ~v.gap
  BY DEF ClientIs
<1>2. ClientIs(v, x, teller, told)
  BY <1>1, ClientStep
<1>3. viewers' = [viewers EXCEPT ![c] = v]
  BY DEF FeedInv
<1> HIDE DEF v
<1> QED BY <1>2, <1>3, OneClient

(* The steps of one client, a lemma each.                                    *)
LEMMA Receive_FeedInv ==
  ASSUME FeedInv, NEW c \in Clients, Receive(c)
  PROVE  FeedInv'
<1> DEFINE r == relays[c]
           v == viewers[c]
           x == Received(r)
<1>1. /\ r.on /\ ~r.lagged /\ r.held = <<>> /\ r.source # <<>>
      /\ UNCHANGED <<teller, told, viewers>>
  BY DEF Receive
<1>2. relays' = [relays EXCEPT ![c] = x]
  BY DEF Receive, Received
<1>3. r # NoRelay
  BY <1>1 DEF NoRelay
<1>4. v.on /\ r \in Relay /\ ClientIs(v, r, teller, told)
  BY <1>3, OnIsFollowed
<1>5. PICK f, T, L, m : Follows(v, r, f, T, L, m, teller, told)
  BY <1>3, OnIsFollowed
<1>6. Holds(v, r, f, T, L, m)
  BY <1>5 DEF Follows
<1> HIDE DEF r, v, x
<1>7. x \in Relay /\ x.on /\ x.ended = r.ended /\ \E g : Holds(v, x, g, T, L, m)
  <2>1. x = Received(r)
    BY DEF x
  <2> QED BY <1>1, <1>4, <1>6, <2>1, ReceiveHolds
<1>8. PICK g : Holds(v, x, g, T, L, m)
  BY <1>7
<1> QED BY <1>1, <1>2, <1>4, <1>5, <1>7, <1>8, RelayMoves DEF r, v

LEMMA FlushStep_FeedInv ==
  ASSUME FeedInv, NEW c \in Clients, FlushStep(c)
  PROVE  FeedInv'
<1> DEFINE r == relays[c]
           v == viewers[c]
           x == Put([r EXCEPT !.needs = FALSE], StepEvent(r))
<1>1. r.held # <<>> /\ r.needs /\ UNCHANGED <<teller, told, viewers>>
  BY DEF FlushStep
<1>2. relays' = [relays EXCEPT ![c] = x]
  BY DEF FlushStep
<1>3. r # NoRelay
  BY <1>1 DEF NoRelay
<1>4. v.on /\ r \in Relay /\ ClientIs(v, r, teller, told)
  BY <1>3, OnIsFollowed
<1>5. PICK f, T, L, m : Follows(v, r, f, T, L, m, teller, told)
  BY <1>3, OnIsFollowed
<1>6. Holds(v, r, f, T, L, m)
  BY <1>5 DEF Follows
<1> HIDE DEF r, v
<1>7. x \in Relay /\ x.on /\ x.ended = r.ended /\ \E g : Holds(v, x, g, T, L, m)
  BY <1>1, <1>4, <1>6, FlushHolds
<1>8. r.on
  BY <1>1, <1>4, <1>6, HeldIsOn
<1> HIDE DEF x
<1>9. PICK g : Holds(v, x, g, T, L, m)
  BY <1>7
<1> QED BY <1>1, <1>2, <1>4, <1>5, <1>7, <1>8, <1>9, RelayMoves DEF r, v

LEMMA PassOn_FeedInv ==
  ASSUME FeedInv, NEW c \in Clients, PassOn(c)
  PROVE  FeedInv'
<1> DEFINE r == relays[c]
           v == viewers[c]
           x == Passed(r)
<1>1. r.held # <<>> /\ ~r.needs /\ UNCHANGED <<teller, told, viewers>>
  BY DEF PassOn
<1>2. relays' = [relays EXCEPT ![c] = x]
  BY DEF PassOn, Passed
<1>3. r # NoRelay
  BY <1>1 DEF NoRelay
<1>4. v.on /\ r \in Relay /\ ClientIs(v, r, teller, told)
  BY <1>3, OnIsFollowed
<1>5. PICK f, T, L, m : Follows(v, r, f, T, L, m, teller, told)
  BY <1>3, OnIsFollowed
<1>6. Holds(v, r, f, T, L, m)
  BY <1>5 DEF Follows
<1> HIDE DEF r, v
<1>7. x \in Relay /\ x.on /\ x.ended = r.ended /\ \E g : Holds(v, x, g, T, L, m)
  BY <1>1, <1>4, <1>6, PassHolds
<1>8. r.on
  BY <1>1, <1>4, <1>6, HeldIsOn
<1> HIDE DEF x
<1>9. PICK g : Holds(v, x, g, T, L, m)
  BY <1>7
<1> QED BY <1>1, <1>2, <1>4, <1>5, <1>7, <1>8, <1>9, RelayMoves DEF r, v

LEMMA EndRelay_FeedInv ==
  ASSUME FeedInv, NEW c \in Clients, EndRelay(c)
  PROVE  FeedInv'
<1> DEFINE r == relays[c]
           v == viewers[c]
           x == [NoRelay EXCEPT !.out = r.out]
<1>1. r.on /\ UNCHANGED <<teller, told, viewers>> /\ relays' = [relays EXCEPT ![c] = x]
  BY DEF EndRelay
<1>2. r # NoRelay
  BY <1>1 DEF NoRelay
<1>3. v.on /\ r \in Relay /\ ClientIs(v, r, teller, told)
  BY <1>2, OnIsFollowed
<1>4. PICK f, T, L, m : Follows(v, r, f, T, L, m, teller, told)
  BY <1>2, OnIsFollowed
<1>5. Holds(v, r, f, T, L, m)
  BY <1>4 DEF Follows
<1> HIDE DEF r, v
<1>6. x \in Relay /\ ~x.on /\ x.out = r.out
  <2>1. NoRelay \in Relay /\ r.out \in Seq(Message)
    BY <1>3 DEF Relay, NoRelay, NoStep, Step
  <2>2. ~NoRelay.on
    BY DEF NoRelay
  <2> QED BY <2>1, <2>2 DEF Relay
<1>7. Holds(v, x, f, T, L, m)
  BY <1>5, <1>6 DEF Holds
<1> HIDE DEF x
<1> QED BY <1>1, <1>3, <1>4, <1>6, <1>7, RelayMoves DEF r, v

(* What See makes of a viewer.                                               *)
Sees(v, event) ==
  [v EXCEPT
     !.at = event.seq,
     !.items = IF event.line > 0 THEN event.line ELSE v.items,
     !.gap = v.gap \/ (event.line > 0 /\ event.line # v.items + 1) \/ event.seq <= v.at,
     !.step = CASE event.kind = "delta" -> Extended(v.step, event)
                [] event.kind = "snapshot" -> event.step
                [] OTHER -> Checkpointed(v.step, event)]

LEMMA See_FeedInv ==
  ASSUME FeedInv, NEW c \in Clients, See(c)
  PROVE  FeedInv'
<1> DEFINE r == relays[c]
           v == viewers[c]
           e == Head(r.out)
           w == [items |-> v.items, step |-> v.step, at |-> v.at]
           x == [r EXCEPT !.out = Tail(@)]
           u == Sees(v, e)
<1>1. v.on /\ r.out # <<>> /\ UNCHANGED <<teller, told>>
  BY DEF See
<1>2. v \in Viewer /\ r \in Relay /\ ~v.gap /\ ClientIs(v, r, teller, told)
  BY <1>1, OnIsFollowed
<1>3. viewers' = [viewers EXCEPT ![c] = u] /\ relays' = [relays EXCEPT ![c] = x]
  BY DEF See, Sees
<1>4. PICK f, T, L, m : Follows(v, r, f, T, L, m, teller, told)
  BY <1>1, OnIsFollowed
<1>5. Holds(v, r, f, T, L, m)
  BY <1>4 DEF Follows
<1> HIDE DEF r, v
<1>6. /\ r.out \in Seq(Message) /\ e \in Message /\ Len(r.out) \in Nat \ {0} /\ e = r.out[1]
      /\ Tail(r.out) \in Seq(Message)
  <2>1. r.out \in Seq(Message)
    BY <1>2 DEF Relay
  <2> QED BY <1>1, <2>1, HeadTailProperties, EmptySeq
<1>7. Trail(v, r.out, f, T, L, m)
  BY <1>5 DEF Holds
<1>8. w \in Glimpse /\ f[0] = w /\ FitsIn(w, e) /\ f[1] = Seen(w, e) /\ Seen(w, e) \in Glimpse
  <2>1. w \in Glimpse
    BY <1>2 DEF Glimpse, Viewer
  <2>2. f[0] = w
    BY <1>7 DEF Trail
  <2>3. 1 \in 1..Len(r.out) /\ 1 - 1 = 0
    BY <1>6
  <2>4. FitsIn(w, e) /\ f[1] = Seen(w, e)
    BY <1>6, <1>7, <2>2, <2>3 DEF Trail
  <2> HIDE DEF w, e
  <2>5. Seen(w, e) \in Glimpse
    BY <1>6, <2>1, SeenType
  <2> QED BY <2>1, <2>2, <2>4, <2>5
<1>9. ~((e.line > 0 /\ e.line # v.items + 1) \/ e.seq <= v.at)
  BY <1>2, <1>6, <1>8 DEF FitsIn, Message, Viewer
<1>10. /\ u = [v EXCEPT !.at = e.seq, !.items = Seen(w, e).items, !.gap = FALSE,
                         !.step = Seen(w, e).step]
       /\ ~u.gap /\ e.seq = Seen(w, e).at
  <2> HIDE DEF e
  <2>1. /\ w.step = v.step /\ w.items = v.items /\ e.seq = Seen(w, e).at
        /\ Seen(w, e).items = (IF e.line > 0 THEN e.line ELSE v.items)
        /\ Seen(w, e).step = Shown(v.step, e)
    BY DEF Seen
  <2>2. Shown(v.step, e) = CASE e.kind = "delta" -> Extended(v.step, e)
                             [] e.kind = "snapshot" -> e.step
                             [] OTHER -> Checkpointed(v.step, e)
    BY DEF Shown
  <2> HIDE DEF w
  <2>3. ~u.gap
    BY <1>2, <1>9 DEF Sees, Viewer
  <2> QED BY <1>2, <2>1, <2>2, <2>3 DEF Sees, Viewer
<1> HIDE DEF w, e, u
<1>11. /\ u \in Viewer /\ u.on /\ ~u.gap /\ u.stale = v.stale /\ u.items = f[1].items
       /\ u.step = f[1].step /\ u.at = f[1].at
  <2>1. Seen(w, e).items \in Nat /\ Seen(w, e).step \in Step /\ Seen(w, e).at \in Nat
    BY <1>8 DEF Glimpse
  <2>2. u \in Viewer /\ u.on = v.on /\ u.stale = v.stale /\ u.items = Seen(w, e).items
        /\ u.step = Seen(w, e).step /\ u.at = Seen(w, e).at
    BY <1>2, <1>10, <2>1 DEF Viewer
  <2> QED BY <1>1, <1>8, <1>10, <2>2
<1>12. /\ x \in Relay /\ x.on = r.on /\ x.ended = r.ended /\ x.out = Tail(r.out)
       /\ x.held = r.held /\ x.source = r.source /\ x.lagged = r.lagged /\ x.mark = r.mark
       /\ x.step = r.step /\ x.stepSeq = r.stepSeq /\ x.needs = r.needs
  BY <1>2, <1>6 DEF Relay
<1>13. PICK g : Trail(u, Tail(r.out), g, T, L, m) /\ g[Len(Tail(r.out))] = f[Len(r.out)]
  <2>1. [items |-> u.items, step |-> u.step, at |-> u.at] = f[1]
    BY <1>8, <1>11 DEF Glimpse
  <2> QED BY <1>1, <1>6, <1>7, <2>1, TrailArrives
<1>14. Holds(u, x, g, T, L, m)
  <2>1. r.on => Relays(x, g[Len(x.out)], T, L, m)
    <3>1. SUFFICES ASSUME r.on PROVE Relays(x, g[Len(x.out)], T, L, m)
      OBVIOUS
    <3>2. Relays(r, f[Len(r.out)], T, L, m) /\ g[Len(x.out)] = f[Len(r.out)]
      BY <1>5, <1>12, <1>13, <3>1 DEF Holds
    <3> QED BY <1>12, <3>2 DEF Relays, Ahead, Held, Sourced, Reached
  <2>2. ~r.on => x = [NoRelay EXCEPT !.out = x.out]
    <3>1. SUFFICES ASSUME ~r.on PROVE x = [NoRelay EXCEPT !.out = x.out]
      OBVIOUS
    <3>2. r = [NoRelay EXCEPT !.out = r.out]
      BY <1>5, <3>1 DEF Holds
    <3> QED BY <1>12, <3>2 DEF NoRelay, Relay
  <2> QED BY <1>5, <1>12, <1>13, <2>1, <2>2 DEF Holds
<1> HIDE DEF x
<1>15. ClientIs(u, x, teller, told)
  BY <1>2, <1>4, <1>11, <1>12, <1>14, ClientStep
<1> QED BY <1>1, <1>3, <1>15, OneClient


LEMMA Leave_FeedInv ==
  ASSUME FeedInv, NEW c \in Clients, Leave(c)
  PROVE  FeedInv'
<1> DEFINE v == viewers[c]
           r == relays[c]
           u == [NoViewer EXCEPT !.items = v.items, !.gap = v.gap]
<1>1. /\ v.on /\ UNCHANGED <<teller, told>> /\ viewers' = [viewers EXCEPT ![c] = u]
      /\ relays' = [relays EXCEPT ![c] = NoRelay]
  BY DEF Leave
<1>2. v \in Viewer /\ r \in Relay /\ ~v.gap
  BY <1>1, OnIsFollowed
<1>3. PICK f, T, L, m : Follows(v, r, f, T, L, m, teller, told)
  BY <1>1, OnIsFollowed
<1> HIDE DEF v, r
<1>4. v.items <= teller.items
  <2>1. Trail(v, r.out, f, T, L, m) /\ IsLoad(T, L, m) /\ Within(T, m, teller)
    BY <1>3 DEF Follows, Holds
  <2>2. r.out \in Seq(Message)
    BY <1>2 DEF Relay
  <2>3. f[0].at \in 0..m /\ f[0].items = T[f[0].at].items /\ f[0].items = v.items
    BY <2>1, <2>2 DEF Trail, TrueIn
  <2> QED BY <2>1, <2>3 DEF Within
<1>5. NoStep \in Step
  BY DEF NoStep, Step
<1>6. NoRelay \in Relay /\ ~NoRelay.on
  BY <1>5 DEF NoRelay, Relay
<1>7. u \in Viewer /\ ~u.on /\ ~u.gap /\ ~u.stale /\ u.items = v.items
  <2>1. NoViewer \in Viewer /\ ~NoViewer.on /\ ~NoViewer.stale
    BY <1>5 DEF NoViewer, Viewer
  <2> QED BY <1>2, <2>1 DEF Viewer
<1> HIDE DEF u
<1>8. ClientIs(u, NoRelay, teller, told)
  BY <1>4, <1>6, <1>7 DEF ClientIs
<1> QED BY <1>1, <1>8, OneClient

LEMMA SubscribeFeed_FeedInv ==
  ASSUME FeedInv, NEW c \in Clients, SubscribeFeed(c)
  PROVE  FeedInv'
<1> DEFINE a == teller
           n == teller.seq
           v == viewers[c]
           behind == v.items
           cursor == IF behind < a.items THEN behind ELSE a.items
           x == [NoRelay EXCEPT !.on = TRUE, !.mark = n, !.step = a.step, !.stepSeq = n]
           u == [v EXCEPT !.on = TRUE, !.stale = FALSE, !.at = n, !.step = a.step,
                          !.items = behind + (a.items - cursor)]
           f == [i \in 0..0 |-> [items |-> a.items, step |-> a.step, at |-> n]]
           T == [k \in 0..n |-> IF k = 0 THEN [items |-> a.items, step |-> a.step]
                                 ELSE told[k]]
<1>1. /\ ~v.on /\ UNCHANGED <<teller, told>> /\ viewers' = [viewers EXCEPT ![c] = u]
      /\ relays' = [relays EXCEPT ![c] = x]
  BY DEF SubscribeFeed, Snapshot
<1>2. /\ a \in Teller /\ told \in Seq(View) /\ n = Len(told) /\ n \in Nat
      /\ a.step \in Step /\ a.items \in Nat /\ a.lost \in SUBSET (Nat \ {0})
      /\ \A i \in 1..n : told[i] \in View /\ told[i].items <= a.items
      /\ n > 0 => told[n].items = a.items /\ Excused(a.step, told[n].step, a.lost)
  BY DEF FeedInv, Tells, Teller
<1>3. v \in Viewer /\ ~v.gap /\ behind \in Nat /\ behind <= a.items
  BY <1>1 DEF FeedInv, ClientIs, Viewer
<1>4. behind + (a.items - cursor) = a.items
  BY <1>2, <1>3
<1>5. /\ u \in Viewer /\ u.on /\ ~u.gap /\ ~u.stale /\ u.items = a.items
      /\ u.step = a.step /\ u.at = n
  BY <1>2, <1>3, <1>4 DEF Viewer
<1>6. /\ x \in Relay /\ x.on /\ ~x.needs /\ x.mark = n /\ x.step = a.step /\ ~x.lagged
      /\ x.held = <<>> /\ x.source = <<>> /\ x.out = <<>> /\ ~x.ended
  <2>1. /\ NoRelay \in Relay /\ ~NoRelay.needs /\ ~NoRelay.lagged /\ NoRelay.held = <<>>
        /\ NoRelay.source = <<>> /\ NoRelay.out = <<>> /\ ~NoRelay.ended
    BY DEF Relay, NoRelay, NoStep, Step
  <2> QED BY <1>2, <2>1 DEF Relay
<1>7. IsLoad(T, a.lost, n)
  <2>1. [items |-> a.items, step |-> a.step] \in View
    BY <1>2 DEF View
  <2>2. T \in [0..n -> View]
    BY <1>2, <2>1
  <2> QED BY <1>2, <2>2 DEF IsLoad
<1>8. /\ \A k \in 1..n : T[k] = told[k]
      /\ n \in 0..n /\ T[n].items = a.items /\ Excused(a.step, T[n].step, a.lost)
      /\ \A k \in 0..n : T[k].items <= a.items
  BY <1>2 DEF Excused
<1>9. Current(T, a.lost, n, a, told) /\ Within(T, n, a)
  BY <1>2, <1>8 DEF Current, Within
<1>10. f[0] = [items |-> a.items, step |-> a.step, at |-> n] /\ f \in [0..0 -> Glimpse]
  BY <1>2 DEF Glimpse
<1> HIDE DEF a, n, v, x, u, f, T
<1>11. Trail(u, x.out, f, T, a.lost, n)
  <2>1. Len(x.out) = 0
    BY <1>6
  <2>2. TrueIn(f[0], T, a.lost, n)
    BY <1>8, <1>10 DEF TrueIn
  <2> QED BY <1>5, <1>10, <2>1, <2>2 DEF Trail
<1>12. Relays(x, f[0], T, a.lost, n)
  <2>1. Reached(x, f[0]) = n
    BY <1>6, <1>10 DEF Reached
  <2>2. Ahead(x, f[0], T, a.lost, n)
    BY <1>2, <1>6, <1>8, <1>10, <2>1 DEF Ahead
  <2>3. Held(x, n, T, a.lost, n)
    BY <1>6 DEF Held
  <2>4. Sourced(x, n + Len(x.held), T, a.lost, n)
    BY <1>2, <1>6 DEF Sourced
  <2> QED BY <2>1, <2>2, <2>3, <2>4 DEF Relays
<1>13. Holds(u, x, f, T, a.lost, n)
  <2>1. Len(x.out) = 0
    BY <1>6
  <2> QED BY <1>6, <1>7, <1>11, <1>12, <2>1 DEF Holds
<1>14. Follows(u, x, f, T, a.lost, n, a, told)
  BY <1>9, <1>13 DEF Follows
<1>15. ClientIs(u, x, a, told)
  BY <1>5, <1>6, <1>14 DEF ClientIs
<1> QED BY <1>1, <1>15, OneClient DEF a

(* A completion that could not be written excuses its turn; whatever was     *)
(* excused stays so.                                                         *)
LEMMA HoldsWithLost ==
  ASSUME NEW v, NEW r, NEW f, NEW T, NEW L, NEW m, Holds(v, r, f, T, L, m),
         NEW M \in SUBSET (Nat \ {0}), L \subseteq M
  PROVE  Holds(v, r, f, T, M, m)
<1>1. ASSUME NEW p, NEW q, Excused(p, q, L) PROVE Excused(p, q, M)
  BY <1>1 DEF Excused
<1>2. ASSUME NEW e, NEW p, NEW q, Moves(e, p, q, L) PROVE Moves(e, p, q, M)
  BY <1>1, <1>2 DEF Moves, MovesStep
<1>3. IsLoad(T, M, m)
  BY DEF Holds, IsLoad
<1>4. Trail(v, r.out, f, T, M, m)
  BY <1>1 DEF Holds, Trail, TrueIn
<1>5. ASSUME r.on PROVE Relays(r, f[Len(r.out)], T, M, m)
  <2> DEFINE w == f[Len(r.out)]
  <2>1. /\ Ahead(r, w, T, L, m) /\ Held(r, Reached(r, w), T, L, m)
        /\ Sourced(r, Reached(r, w) + Len(r.held), T, L, m)
    BY <1>5 DEF Holds, Relays
  <2> HIDE DEF w
  <2>2. Ahead(r, w, T, M, m)
    BY <1>1, <2>1 DEF Ahead
  <2>3. Held(r, Reached(r, w), T, M, m)
    BY <1>2, <2>1 DEF Held
  <2>4. Sourced(r, Reached(r, w) + Len(r.held), T, M, m)
    BY <1>2, <2>1 DEF Sourced
  <2> QED BY <2>2, <2>3, <2>4 DEF Relays, w
<1> QED BY <1>3, <1>4, <1>5 DEF Holds

(* The steps of the actor, a lemma each.                                     *)
LEMMA LoseDone_FeedInv ==
  ASSUME FeedInv, LoseDone
  PROVE  FeedInv'
<1> DEFINE turn == teller.step.turn
           L == teller.lost
           M == teller.lost \cup {turn}
           y == [teller.step EXCEPT !.step = @ + 1]
<1>1. /\ teller.step # NoStep /\ UNCHANGED <<told, relays, viewers>>
      /\ teller' = [teller EXCEPT !.step = NextStep, !.lost = M]
  BY DEF LoseDone, InTurn
<1>2. /\ Tells(teller, told) /\ teller \in Teller /\ teller.step \in Step /\ turn \in Nat \ {0}
      /\ L \in SUBSET (Nat \ {0})
  BY <1>1 DEF FeedInv, Tells, Teller, Step
<1>3. NextStep \in Step /\ NextStep.turn = turn
  <2>1. y \in Step /\ y.turn = turn
    BY <1>2 DEF Step
  <2>2. NextStep = [y EXCEPT !.text = 0]
    BY <1>2 DEF NextStep, Step
  <2> HIDE DEF y
  <2> QED BY <2>1, <2>2 DEF Step
<1>4. M \in SUBSET (Nat \ {0}) /\ L \subseteq M /\ turn \in M
  BY <1>2
<1> HIDE DEF M
<1>5. /\ teller' \in Teller /\ teller'.seq = teller.seq /\ teller'.items = teller.items
      /\ teller'.step = NextStep /\ teller'.lost = M
  BY <1>1, <1>2, <1>3, <1>4 DEF Teller
<1>6. ASSUME NEW q, Excused(teller.step, q, L) PROVE Excused(NextStep, q, M)
  BY <1>3, <1>4, <1>6 DEF Excused
<1>7. Tells(teller', told')
  BY <1>1, <1>2, <1>3, <1>5, <1>6 DEF Tells
<1>8. ASSUME NEW c \in Clients PROVE ClientIs(viewers[c], relays[c], teller', told)
  <2> DEFINE v == viewers[c]
             r == relays[c]
  <2>1. ClientIs(v, r, teller, told)
    BY DEF FeedInv
  <2> HIDE DEF v, r
  <2>2. ASSUME v.on PROVE \E f, T, N, m : Follows(v, r, f, T, N, m, teller', told)
    <3>1. PICK f, T, N, m : Follows(v, r, f, T, N, m, teller, told)
      BY <2>1, <2>2 DEF ClientIs
    <3>2. Within(T, m, teller')
      BY <1>5, <3>1 DEF Follows, Within
    <3>3. CASE v.stale
      <4>1. Follows(v, r, f, T, N, m, teller', told)
        BY <3>1, <3>2, <3>3 DEF Follows
      <4> QED BY <4>1
    <3>4. CASE ~v.stale
      <4>1. Current(T, N, m, teller, told) /\ N = L /\ Holds(v, r, f, T, N, m)
        BY <3>1, <3>4 DEF Follows, Current
      <4>2. Holds(v, r, f, T, M, m)
        BY <1>4, <4>1, HoldsWithLost
      <4>3. Current(T, M, m, teller', told)
        BY <1>5, <1>6, <4>1 DEF Current
      <4>4. Follows(v, r, f, T, M, m, teller', told)
        BY <3>2, <4>2, <4>3 DEF Follows
      <4> QED BY <4>4
    <3> QED BY <3>3, <3>4
  <2>3. ClientIs(v, r, teller', told)
    BY <1>5, <2>1, <2>2 DEF ClientIs
  <2> QED BY <2>3 DEF v, r
<1> QED BY <1>1, <1>7, <1>8 DEF FeedInv

LEMMA Reload_FeedInv ==
  ASSUME FeedInv, Reload
  PROVE  FeedInv'
<1> DEFINE V(c) == [viewers[c] EXCEPT !.stale = viewers[c].on]
           R(c) == IF relays[c].on THEN [relays[c] EXCEPT !.ended = TRUE] ELSE relays[c]
<1>1. /\ teller.step = NoStep /\ told' = <<>>
      /\ teller' = [teller EXCEPT !.seq = 0, !.reloads = @ + 1, !.lost = {}]
      /\ relays' = [c \in Clients |-> R(c)] /\ viewers' = [c \in Clients |-> V(c)]
  BY DEF Reload, InTurn
<1>2. Tells(teller', told')
  <2>1. teller \in Teller
    BY DEF FeedInv, Tells
  <2>2. teller' \in Teller /\ teller'.seq = 0 /\ teller'.step = NoStep
    <3>1. teller.reloads + 1 \in Nat /\ {} \in SUBSET (Nat \ {0})
      BY <2>1 DEF Teller
    <3> QED BY <1>1, <2>1, <3>1 DEF Teller
  <2> QED BY <1>1, <2>2 DEF Tells
<1>3. teller'.items = teller.items
  BY <1>1 DEF FeedInv, Tells, Teller
<1>4. ASSUME NEW c \in Clients PROVE ClientIs(V(c), R(c), teller', told')
  <2> DEFINE v == viewers[c]
             r == relays[c]
             u == V(c)
             x == R(c)
  <2>1. ClientIs(v, r, teller, told)
    BY DEF FeedInv
  <2>2. v \in Viewer /\ r \in Relay
    BY <2>1 DEF ClientIs
  <2>3. /\ u \in Viewer /\ u.on = v.on /\ u.gap = v.gap /\ u.stale = v.on /\ u.items = v.items
        /\ u.step = v.step /\ u.at = v.at
    BY <2>2 DEF Viewer
  <2>4. /\ x \in Relay /\ x.on = r.on /\ (r.on => x.ended) /\ (~r.on => x = r) /\ x.out = r.out
        /\ x.held = r.held /\ x.source = r.source /\ x.lagged = r.lagged /\ x.mark = r.mark
        /\ x.step = r.step /\ x.stepSeq = r.stepSeq /\ x.needs = r.needs
    BY <2>2 DEF Relay
  <2> HIDE DEF v, r, u, x
  <2>5. ASSUME v.on PROVE \E f, T, L, m : Follows(u, x, f, T, L, m, teller', told')
    <3>1. PICK f, T, L, m : Follows(v, r, f, T, L, m, teller, told)
      BY <2>1, <2>5 DEF ClientIs
    <3>2. Holds(v, r, f, T, L, m)
      BY <3>1 DEF Follows
    <3>3. Trail(u, x.out, f, T, L, m)
      BY <2>3, <2>4, <3>2 DEF Holds, Trail
    <3>4. x.on => Relays(x, f[Len(x.out)], T, L, m)
      BY <2>4, <3>2 DEF Holds, Relays, Ahead, Held, Sourced, Reached
    <3>5. Holds(u, x, f, T, L, m)
      BY <2>4, <3>2, <3>3, <3>4 DEF Holds
    <3>6. Within(T, m, teller')
      BY <1>3, <3>1 DEF Follows, Within
    <3>7. Follows(u, x, f, T, L, m, teller', told')
      BY <2>3, <2>5, <3>5, <3>6 DEF Follows
    <3> QED BY <3>7
  <2>6. ClientIs(u, x, teller', told')
    <3>1. CASE v.on
      BY <2>1, <2>3, <2>4, <2>5, <3>1 DEF ClientIs
    <3>2. CASE ~v.on
      <4>1. r = NoRelay /\ v.items <= teller.items /\ ~v.gap
        BY <2>1, <3>2 DEF ClientIs
      <4>2. ~r.on /\ x = NoRelay
        BY <2>4, <4>1 DEF NoRelay
      <4> QED BY <1>3, <2>3, <2>4, <3>2, <4>1, <4>2 DEF ClientIs
    <3> QED BY <2>3, <3>1, <3>2 DEF Viewer
  <2> QED BY <2>6 DEF u, x
<1>5. /\ viewers' \in [Clients -> Viewer] /\ relays' \in [Clients -> Relay]
      /\ \A c \in Clients : viewers'[c] = V(c) /\ relays'[c] = R(c)
  BY <1>1, <1>4 DEF ClientIs
<1> HIDE DEF V, R
<1> QED BY <1>2, <1>4, <1>5 DEF FeedInv


-------------------------------------------------------------------------------
(* The session tells something: the load has one view more.                  *)

Longer(T, m, b) == [k \in 0..m + 1 |-> IF k <= m THEN T[k] ELSE b]

(* A load with one view more is a load.                                      *)
LEMMA LoadGrows ==
  ASSUME NEW T, NEW L, NEW m, IsLoad(T, L, m), NEW b \in View
  PROVE  /\ IsLoad(Longer(T, m, b), L, m + 1)
         /\ \A k \in 0..m : Longer(T, m, b)[k] = T[k]
         /\ Longer(T, m, b)[m + 1] = b
<1>1. m \in Nat /\ T \in [0..m -> View]
  BY DEF IsLoad
<1>2. Longer(T, m, b) \in [0..m + 1 -> View]
  BY <1>1 DEF Longer
<1> QED BY <1>1, <1>2 DEF IsLoad, Longer

(* What was true of the shorter load is true of the longer one, but that the *)
(* source holds all of it.                                                   *)
LEMMA HoldsLonger ==
  ASSUME NEW v, NEW r \in Relay, NEW f, NEW T, NEW L, NEW m, Holds(v, r, f, T, L, m),
         NEW U, IsLoad(U, L, m + 1), \A k \in 0..m : U[k] = T[k]
  PROVE  /\ Trail(v, r.out, f, U, L, m + 1)
         /\ r.on => /\ Ahead(r, f[Len(r.out)], U, L, m + 1)
                    /\ Held(r, Reached(r, f[Len(r.out)]), U, L, m + 1)
                    /\ Reached(r, f[Len(r.out)]) \in 0..m
<1>1. m \in Nat /\ r.out \in Seq(Message)
  BY DEF Holds, IsLoad, Relay
<1>2. Trail(v, r.out, f, U, L, m + 1)
  <2>1. ASSUME NEW g, TrueIn(g, T, L, m) PROVE TrueIn(g, U, L, m + 1)
    BY <1>1, <2>1 DEF TrueIn
  <2> QED BY <2>1 DEF Holds, Trail
<1>3. ASSUME r.on
      PROVE  /\ Ahead(r, f[Len(r.out)], U, L, m + 1)
             /\ Held(r, Reached(r, f[Len(r.out)]), U, L, m + 1)
             /\ Reached(r, f[Len(r.out)]) \in 0..m
  <2> DEFINE w == f[Len(r.out)]
             k == Reached(r, w)
  <2>1. Ahead(r, w, T, L, m) /\ Held(r, k, T, L, m)
    BY <1>3 DEF Holds, Relays
  <2> HIDE DEF w
  <2>2. k \in 0..m /\ k \in 0..m + 1
    BY <1>1, <2>1 DEF Ahead
  <2>3. Ahead(r, w, U, L, m + 1)
    <3>1. r.needs => r.stepSeq = k
      BY DEF Reached
    <3>2. U[k] = T[k]
      BY <2>2
    <3> QED BY <2>1, <2>2, <3>1, <3>2 DEF Ahead
  <2>4. Held(r, k, U, L, m + 1)
    <3>1. CASE r.held = <<>>
      BY <3>1 DEF Held
    <3>2. CASE r.held # <<>>
      <4>1. /\ Len(r.held) = 1 /\ k + 1 <= m /\ r.held[1].seq = k + 1
            /\ r.held[1].kind # "delta" /\ Moves(r.held[1], T[k], T[k + 1], L)
        BY <2>1, <3>2 DEF Held
      <4>2. U[k] = T[k] /\ U[k + 1] = T[k + 1] /\ k + 1 <= m + 1
        BY <1>1, <2>2, <4>1
      <4> HIDE DEF k
      <4> QED BY <4>1, <4>2 DEF Held
    <3> QED BY <3>1, <3>2
  <2> QED BY <2>2, <2>3, <2>4 DEF w
<1> QED BY <1>2, <1>3

(* A relay that ended, or is not there, is told nothing.                     *)
LEMMA NotOffered ==
  ASSUME NEW v, NEW r \in Relay, NEW f, NEW T, NEW L, NEW m, Holds(v, r, f, T, L, m),
         ~r.on \/ r.ended, NEW b \in View
  PROVE  Holds(v, r, f, Longer(T, m, b), L, m + 1)
<1> DEFINE U == Longer(T, m, b)
<1>1. IsLoad(T, L, m) /\ m \in Nat
  BY DEF Holds, IsLoad
<1>2. IsLoad(U, L, m + 1) /\ \A k \in 0..m : U[k] = T[k]
  BY <1>1, LoadGrows
<1> HIDE DEF U
<1>3. /\ Trail(v, r.out, f, U, L, m + 1)
      /\ r.on => /\ Ahead(r, f[Len(r.out)], U, L, m + 1)
                 /\ Held(r, Reached(r, f[Len(r.out)]), U, L, m + 1)
                 /\ Reached(r, f[Len(r.out)]) \in 0..m
  BY <1>2, HoldsLonger
<1>4. ASSUME r.on PROVE Sourced(r, Reached(r, f[Len(r.out)]) + Len(r.held), U, L, m + 1)
  <2> DEFINE j == Reached(r, f[Len(r.out)]) + Len(r.held)
  <2>1. Sourced(r, j, T, L, m) /\ r.ended
    BY <1>4 DEF Holds, Relays
  <2>2. j \in Nat
    <3>1. Len(r.held) \in Nat
      BY DEF Relay
    <3> QED BY <1>1, <1>3, <1>4, <3>1
  <2>3. Len(r.source) \in Nat
    BY DEF Relay
  <2> HIDE DEF j
  <2>4. ASSUME ~r.lagged, NEW i \in 1..Len(r.source)
        PROVE  r.source[i].seq = j + i /\ Moves(r.source[i], U[j + i - 1], U[j + i], L)
    <3>1. j + Len(r.source) <= m /\ r.source[i].seq = j + i
          /\ Moves(r.source[i], T[j + i - 1], T[j + i], L)
      BY <2>1, <2>4 DEF Sourced
    <3>2. j + i - 1 \in 0..m /\ j + i \in 0..m
      BY <1>1, <2>2, <2>3, <3>1
    <3> QED BY <1>2, <3>1, <3>2
  <2>5. ~r.lagged => j + Len(r.source) <= m + 1
    BY <1>1, <2>1, <2>2, <2>3 DEF Sourced
  <2>6. Sourced(r, j, U, L, m + 1)
    BY <2>1, <2>4, <2>5 DEF Sourced
  <2> QED BY <2>6 DEF j
<1>5. r.on => Relays(r, f[Len(r.out)], U, L, m + 1)
  BY <1>3, <1>4 DEF Relays
<1>6. Holds(v, r, f, U, L, m + 1)
  BY <1>2, <1>3, <1>5 DEF Holds
<1> QED BY <1>6 DEF U

(* Any other keeps the event, or loses an older one and knows it.            *)
LEMMA OfferedHolds ==
  ASSUME NEW v, NEW r \in Relay, NEW f, NEW T, NEW L, NEW m, Holds(v, r, f, T, L, m),
         r.on, ~r.ended, NEW b \in View, NEW e \in Message, e.seq = m + 1,
         Moves(e, T[m], b, L)
  PROVE  /\ Offered(r, e) \in Relay /\ Offered(r, e).on /\ ~Offered(r, e).ended
         /\ Holds(v, Offered(r, e), f, Longer(T, m, b), L, m + 1)
<1> DEFINE U == Longer(T, m, b)
           x == Offered(r, e)
           j == Reached(r, f[Len(r.out)]) + Len(r.held)
           s == r.source
<1>1. IsLoad(T, L, m) /\ m \in Nat /\ s \in Seq(Message) /\ Len(s) \in Nat
  BY DEF Holds, IsLoad, Relay
<1>2. IsLoad(U, L, m + 1) /\ (\A k \in 0..m : U[k] = T[k]) /\ U[m + 1] = b
  BY <1>1, LoadGrows
<1> HIDE DEF U
<1>3. /\ Trail(v, r.out, f, U, L, m + 1)
      /\ Ahead(r, f[Len(r.out)], U, L, m + 1)
      /\ Held(r, Reached(r, f[Len(r.out)]), U, L, m + 1)
      /\ Reached(r, f[Len(r.out)]) \in 0..m
  BY <1>2, HoldsLonger
<1>4. Sourced(r, j, T, L, m) /\ j \in Nat
  <2>1. Len(r.held) \in Nat
    BY DEF Relay
  <2> QED BY <1>1, <1>3, <2>1 DEF Holds, Relays
<1> HIDE DEF j
<1>5. /\ x \in Relay /\ x.on /\ ~x.ended /\ x.out = r.out /\ x.held = r.held
      /\ x.mark = r.mark /\ x.step = r.step /\ x.stepSeq = r.stepSeq /\ x.needs = r.needs
      /\ x.lagged \/ (x.source = Append(s, e) /\ x.lagged = r.lagged)
  <2>1. CASE Len(s) < SourceCapacity
    <3>1. x = [r EXCEPT !.source = Append(s, e)]
      BY <2>1 DEF Offered
    <3>2. Append(s, e) \in Seq(Message)
      BY <1>1
    <3> HIDE DEF x
    <3> QED BY <3>1, <3>2 DEF Relay
  <2>2. CASE ~(Len(s) < SourceCapacity)
    <3>1. x = [r EXCEPT !.source = Append(Tail(s), e), !.lagged = TRUE]
      BY <2>2 DEF Offered
    <3>2. Append(Tail(s), e) \in Seq(Message)
      <4>1. s # <<>>
        BY <1>1, <2>2, FeedBoundsAssumption
      <4>2. Tail(s) \in Seq(Message)
        BY <1>1, <4>1, HeadTailProperties
      <4> QED BY <4>2
    <3> HIDE DEF x
    <3> QED BY <3>1, <3>2 DEF Relay
  <2> QED BY <2>1, <2>2
<1> HIDE DEF x
<1>6. Sourced(x, j, U, L, m + 1)
  <2>1. SUFFICES ASSUME ~x.lagged PROVE Sourced(x, j, U, L, m + 1)
    BY DEF Sourced
  <2>2. x.source = Append(s, e) /\ ~r.lagged
    BY <1>5, <2>1
  <2>3. /\ j + Len(s) = m
        /\ \A i \in 1..Len(s) : s[i].seq = j + i /\ Moves(s[i], T[j + i - 1], T[j + i], L)
    BY <1>4, <2>2 DEF Sourced
  <2>4. Len(x.source) = Len(s) + 1
    BY <1>1, <2>2
  <2>5. ASSUME NEW i \in 1..Len(x.source)
        PROVE  /\ x.source[i].seq = j + i
               /\ Moves(x.source[i], U[j + i - 1], U[j + i], L)
    <3>1. CASE i \in 1..Len(s)
      <4>1. x.source[i] = s[i]
        BY <1>1, <2>2, <3>1
      <4>2. j + i - 1 \in 0..m /\ j + i \in 0..m
        BY <1>1, <1>4, <2>3, <3>1
      <4> QED BY <1>2, <2>3, <3>1, <4>1, <4>2
    <3>2. CASE i = Len(s) + 1
      <4>1. x.source[i] = e
        BY <1>1, <2>2, <3>2
      <4>2. j + i = m + 1 /\ j + i - 1 = m /\ m \in 0..m
        <5> DEFINE n == Len(s)
        <5>1. n \in Nat /\ j \in Nat /\ m \in Nat /\ j + n = m /\ i = n + 1
          BY <1>1, <1>4, <2>3, <3>2
        <5> HIDE DEF n
        <5> QED BY <5>1
      <4>3. U[m] = T[m]
        BY <1>2, <4>2
      <4> QED BY <1>2, <4>1, <4>2, <4>3
    <3> QED BY <1>1, <2>4, <3>1, <3>2
  <2>6. j + Len(x.source) = m + 1
    BY <1>1, <1>4, <2>3, <2>4
  <2> QED BY <1>1, <2>5, <2>6 DEF Sourced
<1>7. Relays(x, f[Len(x.out)], U, L, m + 1)
  <2>1. Ahead(x, f[Len(x.out)], U, L, m + 1) /\ Reached(x, f[Len(x.out)]) = Reached(r, f[Len(r.out)])
    BY <1>3, <1>5 DEF Ahead, Reached
  <2>2. Held(x, Reached(x, f[Len(x.out)]), U, L, m + 1)
    BY <1>3, <1>5, <2>1 DEF Held
  <2>3. Sourced(x, Reached(x, f[Len(x.out)]) + Len(x.held), U, L, m + 1)
    BY <1>5, <1>6, <2>1 DEF j
  <2> QED BY <2>1, <2>2, <2>3 DEF Relays
<1>8. Holds(v, x, f, U, L, m + 1)
  BY <1>2, <1>3, <1>5, <1>7 DEF Holds
<1> QED BY <1>5, <1>8 DEF x, U


(* Whatever view the actor is known by, the event e takes it to b; then every *)
(* client is taken there.                                                    *)
Tellable(e, a, b) ==
  \A y \in View : y.items = a.items /\ Excused(a.step, y.step, a.lost) => Moves(e, y, b, a.lost)

LEMMA ClientHears ==
  ASSUME NEW v, NEW r, NEW a, NEW l, ClientIs(v, r, a, l), Tells(a, l),
         NEW b \in View, NEW z \in Teller, z.items = b.items, z.step = b.step, z.lost = a.lost,
         a.items <= b.items, NEW e \in Message, e.seq = a.seq + 1, Tellable(e, a, b)
  PROVE  ClientIs(v, Offered(r, e), z, Append(l, b))
<1> DEFINE ll == Append(l, b)
           x == Offered(r, e)
<1>1. /\ v \in Viewer /\ r \in Relay /\ ~v.gap /\ a \in Teller /\ l \in Seq(View)
      /\ a.seq = Len(l) /\ Len(l) \in Nat /\ a.items \in Nat /\ b.items \in Nat
  BY DEF ClientIs, Tells, Teller, View
<1>2. Len(ll) = Len(l) + 1 /\ ll[Len(l) + 1] = b /\ \A k \in 1..Len(l) : ll[k] = l[k]
  BY <1>1
<1> HIDE DEF ll
<1>3. CASE ~v.on
  <2>1. r = NoRelay /\ v.items <= a.items
    BY <1>3 DEF ClientIs
  <2>2. ~r.on /\ x = r
    BY <2>1 DEF NoRelay, Offered
  <2>3. v.items <= z.items
    BY <1>1, <2>1 DEF Viewer
  <2> HIDE DEF x
  <2> QED BY <1>1, <1>3, <2>1, <2>2, <2>3 DEF ClientIs, x, ll
<1>4. CASE v.on /\ v.stale
  <2>1. x = r
    BY <1>4 DEF ClientIs, Offered
  <2>2. PICK f, T, L, m : Follows(v, r, f, T, L, m, a, l)
    BY <1>4 DEF ClientIs
  <2>3. Within(T, m, z)
    <3>1. Within(T, m, a) /\ T \in [0..m -> View]
      BY <2>2 DEF Follows, Holds, IsLoad
    <3>2. ASSUME NEW k \in 0..m PROVE T[k].items <= z.items
      <4>1. T[k].items <= a.items /\ T[k].items \in Nat
        BY <3>1 DEF Within, View
      <4> QED BY <1>1, <4>1
    <3> QED BY <3>2 DEF Within
  <2>4. Follows(v, r, f, T, L, m, z, ll)
    BY <1>4, <2>2, <2>3 DEF Follows
  <2>5. ClientIs(v, r, z, ll)
    BY <1>1, <1>4, <2>4 DEF ClientIs
  <2> QED BY <2>1, <2>5 DEF ll
<1>5. CASE v.on /\ ~v.stale
  <2>1. PICK f, T, L, m : Follows(v, r, f, T, L, m, a, l)
    BY <1>5 DEF ClientIs
  <2>2. Holds(v, r, f, T, L, m) /\ Within(T, m, a) /\ Current(T, L, m, a, l)
    BY <1>5, <2>1 DEF Follows
  <2>3. IsLoad(T, L, m) /\ m = Len(l) /\ L = a.lost /\ m \in Nat /\ T \in [0..m -> View]
    BY <2>2 DEF Holds, Current, IsLoad
  <2> DEFINE U == Longer(T, m, b)
  <2>4. /\ IsLoad(U, L, m + 1) /\ U[m + 1] = b
        /\ \A k \in 0..m : U[k] = T[k]
    BY <2>3, LoadGrows
  <2>5. e.seq = m + 1 /\ Moves(e, T[m], b, L)
    <3>1. T[m] \in View /\ T[m].items = a.items /\ Excused(a.step, T[m].step, a.lost)
      BY <2>2, <2>3 DEF Current
    <3>2. Moves(e, T[m], b, a.lost)
      BY <3>1 DEF Tellable
    <3> QED BY <1>1, <2>3, <3>2
  <2>6. Holds(v, x, f, U, L, m + 1) /\ x \in Relay
    <3>1. CASE ~r.on \/ r.ended
      <4>1. x = r
        BY <3>1 DEF Offered
      <4> QED BY <1>1, <2>2, <3>1, <4>1, NotOffered
    <3>2. CASE r.on /\ ~r.ended
      BY <1>1, <2>2, <2>5, <3>2, OfferedHolds
    <3> QED BY <3>1, <3>2
  <2> HIDE DEF U, x
  <2>7. Current(U, L, m + 1, z, ll)
    <3>1. \A k \in 1..m + 1 : U[k] = ll[k]
      <4>1. ASSUME NEW k \in 1..m + 1 PROVE U[k] = ll[k]
        <5>1. CASE k = m + 1
          BY <1>2, <2>3, <2>4, <5>1
        <5>2. CASE k # m + 1
          <6>1. k \in 0..m /\ k \in 1..Len(l)
            BY <2>3, <5>2
          <6>2. T[k] = l[k]
            BY <2>2, <2>3, <6>1 DEF Current
          <6> QED BY <1>2, <2>4, <6>1, <6>2
        <5> QED BY <5>1, <5>2
      <4> QED BY <4>1
    <3> QED BY <1>2, <2>3, <2>4, <3>1 DEF Current, Excused
  <2>8. Within(U, m + 1, z)
    <3>1. ASSUME NEW k \in 0..m + 1 PROVE U[k].items <= z.items
      <4>1. CASE k = m + 1
        BY <1>1, <2>4, <4>1
      <4>2. CASE k # m + 1
        <5>1. k \in 0..m
          BY <2>3, <4>2
        <5>2. T[k] \in View /\ T[k].items <= a.items
          BY <2>2, <2>3, <5>1 DEF Within
        <5> QED BY <1>1, <2>4, <5>1, <5>2 DEF View
      <4> QED BY <4>1, <4>2
    <3> QED BY <3>1 DEF Within
  <2>9. Follows(v, x, f, U, L, m + 1, z, ll)
    BY <1>5, <2>6, <2>7, <2>8 DEF Follows
  <2>10. ClientIs(v, x, z, ll)
    BY <1>1, <1>5, <2>6, <2>9 DEF ClientIs
  <2> QED BY <2>10 DEF x, ll
<1> QED BY <1>3, <1>4, <1>5

(* What is told moves the view the actor is known by to the next one.        *)
LEMMA Tell_FeedInv ==
  ASSUME FeedInv, NEW kind, NEW next \in Teller, Tell(kind, next),
         Event(kind, next) \in Message, next.lost = teller.lost, teller.items <= next.items,
         next.step = NoStep \/ next.step.turn > 0,
         Tellable(Event(kind, next), teller, [items |-> next.items, step |-> next.step])
  PROVE  FeedInv'
<1> DEFINE e == Event(kind, next)
           b == [items |-> next.items, step |-> next.step]
           z == [next EXCEPT !.seq = teller.seq + 1, !.count = @ + 1]
<1>1. /\ teller' = z /\ told' = Append(told, b) /\ viewers' = viewers
      /\ relays' = [c \in Clients |-> Offered(relays[c], e)]
  BY DEF Tell
<1>2. /\ Tells(teller, told) /\ teller \in Teller /\ told \in Seq(View) /\ teller.seq = Len(told)
      /\ Len(told) \in Nat /\ teller.seq + 1 \in Nat /\ next.count + 1 \in Nat
      /\ teller.items \in Nat
  BY DEF FeedInv, Tells, Teller
<1>3. b \in View /\ b.items = next.items /\ b.step = next.step
  BY DEF View, Teller
<1>4. /\ z \in Teller /\ z.items = b.items /\ z.step = b.step /\ z.lost = teller.lost
      /\ z.seq = teller.seq + 1
  BY <1>2, <1>3 DEF Teller
<1>5. e.seq = teller.seq + 1
  BY DEF Event
<1>6. e \in Message /\ Tellable(e, teller, b) /\ teller.items <= b.items
      /\ (b.step = NoStep \/ b.step.turn > 0)
  BY <1>3
<1> HIDE DEF e, b, z
<1>7. Tells(z, Append(told, b))
  <2> DEFINE ll == Append(told, b)
  <2>1. /\ ll \in Seq(View) /\ Len(ll) = Len(told) + 1 /\ ll[Len(told) + 1] = b
        /\ \A k \in 1..Len(told) : ll[k] = told[k]
    BY <1>2, <1>3
  <2> HIDE DEF ll
  <2>2. ASSUME NEW i \in 1..Len(ll) PROVE ll[i].items <= z.items
    <3>1. CASE i = Len(told) + 1
      BY <1>3, <1>4, <2>1, <3>1 DEF View
    <3>2. CASE i # Len(told) + 1
      <4>1. i \in 1..Len(told)
        BY <1>2, <2>1, <3>2
      <4>2. told[i].items <= teller.items /\ told[i] \in View
        BY <1>2, <4>1 DEF Tells
      <4> QED BY <1>2, <1>3, <1>4, <1>6, <2>1, <4>1, <4>2 DEF View
    <3> QED BY <3>1, <3>2
  <2>3. Tells(z, ll)
    BY <1>2, <1>4, <1>6, <2>1, <2>2 DEF Tells, Excused
  <2> QED BY <2>3 DEF ll
<1>8. ASSUME NEW c \in Clients PROVE ClientIs(viewers[c], Offered(relays[c], e), z, Append(told, b))
  <2>1. ClientIs(viewers[c], relays[c], teller, told)
    BY DEF FeedInv
  <2> QED BY <1>2, <1>3, <1>4, <1>5, <1>6, <2>1, ClientHears
<1>9. \A c \in Clients : Offered(relays[c], e) \in Relay
  BY <1>8 DEF ClientIs
<1>10. relays' \in [Clients -> Relay] /\ viewers' \in [Clients -> Viewer]
  BY <1>1, <1>9 DEF FeedInv
<1>11. \A c \in Clients : ClientIs(viewers'[c], relays'[c], teller', told')
  BY <1>1, <1>8
<1>12. Tells(teller', told')
  BY <1>1, <1>7
<1> QED BY <1>10, <1>11, <1>12 DEF FeedInv


(* Only the line and the step of next matter to what is told.                *)
LEMMA EventType ==
  ASSUME Tells(teller, told), NEW kind \in {"line", "start", "delta", "done", "end"},
         NEW next \in Teller
  PROVE  Event(kind, next) \in Message
BY DEF Event, Message, Tells, Teller

(* The events, a lemma each.                                                 *)
LEMMA TellPrompt_FeedInv ==
  ASSUME FeedInv, TellPrompt
  PROVE  FeedInv'
<1> DEFINE next == [teller EXCEPT !.items = @ + 1]
           e == Event("line", next)
           b == [items |-> next.items, step |-> next.step]
<1>1. Tell("line", next)
  BY DEF TellPrompt
<1>2. Tells(teller, told) /\ teller \in Teller /\ (teller.step = NoStep \/ teller.step.turn > 0)
  BY DEF FeedInv, Tells
<1>3. /\ next \in Teller /\ next.items = teller.items + 1 /\ next.step = teller.step
      /\ next.lost = teller.lost /\ teller.items \in Nat
  BY <1>2 DEF Teller
<1> HIDE DEF next
<1>4. e \in Message
  BY <1>2, <1>3, EventType
<1>5. e.kind = "line" /\ e.line = next.items
  BY <1>3 DEF Event
<1> HIDE DEF e
<1>6. Tellable(e, teller, b)
  BY <1>3, <1>5 DEF Tellable, Moves, MovesItems, MovesStep, Excused
<1> QED BY <1>1, <1>2, <1>3, <1>4, <1>6, Tell_FeedInv DEF e

LEMMA TellLine_FeedInv ==
  ASSUME FeedInv, TellLine
  PROVE  FeedInv'
<1> DEFINE next == [teller EXCEPT !.items = @ + 1]
           e == Event("line", next)
           b == [items |-> next.items, step |-> next.step]
<1>1. Tell("line", next)
  BY DEF TellLine
<1>2. Tells(teller, told) /\ teller \in Teller /\ (teller.step = NoStep \/ teller.step.turn > 0)
  BY DEF FeedInv, Tells
<1>3. /\ next \in Teller /\ next.items = teller.items + 1 /\ next.step = teller.step
      /\ next.lost = teller.lost /\ teller.items \in Nat
  BY <1>2 DEF Teller
<1> HIDE DEF next
<1>4. e \in Message
  BY <1>2, <1>3, EventType
<1>5. e.kind = "line" /\ e.line = next.items
  BY <1>3 DEF Event
<1> HIDE DEF e
<1>6. Tellable(e, teller, b)
  BY <1>3, <1>5 DEF Tellable, Moves, MovesItems, MovesStep, Excused
<1> QED BY <1>1, <1>2, <1>3, <1>4, <1>6, Tell_FeedInv DEF e

LEMMA TellStart_FeedInv ==
  ASSUME FeedInv, TellStart
  PROVE  FeedInv'
<1> DEFINE first == [turn |-> teller.turns + 1, step |-> 1, text |-> 0]
           next == [teller EXCEPT !.turns = @ + 1, !.step = first]
           e == Event("start", next)
           b == [items |-> next.items, step |-> next.step]
<1>1. Tell("start", next)
  BY DEF TellStart
<1>2. Tells(teller, told) /\ teller \in Teller
  BY DEF FeedInv, Tells
<1>3. first \in Step /\ first.turn > 0 /\ first.text = 0
  BY <1>2 DEF Step, Teller
<1> HIDE DEF first
<1>4. /\ next \in Teller /\ next.items = teller.items /\ next.step = first
      /\ next.lost = teller.lost /\ teller.items \in Nat
  <2> DEFINE counted == [teller EXCEPT !.turns = @ + 1]
  <2>1. /\ counted \in Teller /\ counted.items = teller.items /\ counted.lost = teller.lost
        /\ teller.items \in Nat
    <3>1. teller.turns + 1 \in Nat
      BY <1>2 DEF Teller
    <3> QED BY <1>2, <3>1 DEF Teller
  <2>2. next = [counted EXCEPT !.step = first]
    BY <1>2 DEF Teller
  <2> HIDE DEF counted, next
  <2> QED BY <1>3, <2>1, <2>2 DEF Teller
<1> HIDE DEF next
<1>5. e \in Message
  BY <1>2, <1>4, EventType
<1>6. e.kind = "start" /\ e.line = 0 /\ e.step = first
  BY <1>4 DEF Event
<1> HIDE DEF e
<1>7. Tellable(e, teller, b)
  BY <1>3, <1>4, <1>6 DEF Tellable, Moves, MovesItems, MovesStep
<1> QED BY <1>1, <1>3, <1>4, <1>5, <1>7, Tell_FeedInv DEF e

LEMMA TellDelta_FeedInv ==
  ASSUME FeedInv, TellDelta
  PROVE  FeedInv'
<1> DEFINE grown == [teller.step EXCEPT !.text = @ + 1]
           next == [teller EXCEPT !.step.text = @ + 1]
           e == Event("delta", next)
           b == [items |-> next.items, step |-> next.step]
<1>1. Tell("delta", next) /\ teller.step # NoStep
  BY DEF TellDelta, InTurn
<1>2. /\ Tells(teller, told) /\ teller \in Teller /\ teller.step.turn > 0 /\ teller.step \in Step
      /\ teller.lost \in SUBSET (Nat \ {0})
  BY <1>1 DEF FeedInv, Tells, Teller
<1>3. grown \in Step /\ grown.turn = teller.step.turn
  BY <1>2 DEF Step
<1>4. /\ next \in Teller /\ next.items = teller.items /\ next.step = grown
      /\ next.lost = teller.lost /\ teller.items \in Nat
  <2>1. next = [teller EXCEPT !.step = grown]
    OBVIOUS
  <2> HIDE DEF next, grown
  <2> QED BY <1>2, <1>3, <2>1 DEF Teller
<1> HIDE DEF next
<1>5. e \in Message
  BY <1>2, <1>4, EventType
<1>6. e.kind = "delta" /\ e.line = 0 /\ e.step = grown
  BY <1>4 DEF Event
<1> HIDE DEF e
<1>7. ASSUME NEW y \in View, Excused(teller.step, y.step, teller.lost)
      PROVE  MovesStep(e, y.step, grown, teller.lost)
  <2>1. y.step.turn = grown.turn
    BY <1>3, <1>7 DEF Excused
  <2>2. grown.turn \in teller.lost \/ grown = [y.step EXCEPT !.text = @ + 1]
    BY <1>3, <1>7 DEF Excused
  <2> QED BY <1>2, <1>3, <1>6, <2>1, <2>2 DEF MovesStep
<1> HIDE DEF grown
<1>8. Tellable(e, teller, b)
  BY <1>4, <1>6, <1>7 DEF Tellable, Moves, MovesItems
<1> QED BY <1>1, <1>2, <1>3, <1>4, <1>5, <1>8, Tell_FeedInv DEF e

LEMMA TellDone_FeedInv ==
  ASSUME FeedInv, TellDone
  PROVE  FeedInv'
<1> DEFINE on == [teller.step EXCEPT !.step = @ + 1]
           next == [teller EXCEPT !.items = @ + 1, !.step = NextStep]
           e == Event("done", next)
           b == [items |-> next.items, step |-> next.step]
<1>1. Tell("done", next) /\ teller.step # NoStep
  BY DEF TellDone, InTurn
<1>2. /\ Tells(teller, told) /\ teller \in Teller /\ teller.step.turn > 0 /\ teller.step \in Step
      /\ teller.lost \in SUBSET (Nat \ {0}) /\ teller.items \in Nat
  BY <1>1 DEF FeedInv, Tells, Teller
<1>3. NextStep \in Step /\ NextStep.turn = teller.step.turn
  <2>1. on \in Step /\ on.turn = teller.step.turn
    BY <1>2 DEF Step
  <2>2. NextStep = [on EXCEPT !.text = 0]
    BY <1>2 DEF NextStep, Step
  <2> HIDE DEF on
  <2> QED BY <2>1, <2>2 DEF Step
<1>4. /\ next \in Teller /\ next.items = teller.items + 1 /\ next.step = NextStep
      /\ next.lost = teller.lost
  <2> DEFINE written == [teller EXCEPT !.items = @ + 1]
  <2>1. written \in Teller /\ written.items = teller.items + 1 /\ written.lost = teller.lost
    <3>1. teller.items + 1 \in Nat
      BY <1>2
    <3> QED BY <1>2, <3>1 DEF Teller
  <2>2. next = [written EXCEPT !.step = NextStep]
    BY <1>2 DEF Teller
  <2> HIDE DEF written, next
  <2> QED BY <1>3, <2>1, <2>2 DEF Teller
<1> HIDE DEF next
<1>5. e \in Message
  BY <1>2, <1>4, EventType
<1>6. e.kind = "done" /\ e.line = teller.items + 1 /\ e.step = teller.step
  BY <1>2, <1>4 DEF Event
<1> HIDE DEF e
<1>7. ASSUME NEW y \in View, Excused(teller.step, y.step, teller.lost)
      PROVE  MovesStep(e, y.step, NextStep, teller.lost)
  <2>1. y.step.turn = NextStep.turn
    BY <1>3, <1>7 DEF Excused
  <2>2. NextStep.turn \in teller.lost \/ NextStep = [y.step EXCEPT !.step = @ + 1, !.text = 0]
    BY <1>3, <1>7 DEF Excused, NextStep
  <2> QED BY <1>2, <1>3, <1>6, <2>1, <2>2 DEF MovesStep
<1>8. Tellable(e, teller, b)
  BY <1>2, <1>4, <1>6, <1>7 DEF Tellable, Moves, MovesItems
<1> QED BY <1>1, <1>2, <1>3, <1>4, <1>5, <1>8, Tell_FeedInv DEF e

LEMMA TellEnd_FeedInv ==
  ASSUME FeedInv, TellEnd
  PROVE  FeedInv'
<1> DEFINE next == [teller EXCEPT !.step = NoStep]
           e == Event("end", next)
           b == [items |-> next.items, step |-> next.step]
<1>1. Tell("end", next)
  BY DEF TellEnd
<1>2. Tells(teller, told) /\ teller \in Teller
  BY DEF FeedInv, Tells
<1>3. /\ next \in Teller /\ next.items = teller.items /\ next.step = NoStep
      /\ next.lost = teller.lost /\ teller.items \in Nat
  BY <1>2 DEF Teller, NoStep, Step
<1> HIDE DEF next
<1>4. e \in Message
  BY <1>2, <1>3, EventType
<1>5. e.kind = "end" /\ e.line = 0 /\ e.step = teller.step
  BY <1>3 DEF Event
<1> HIDE DEF e
<1>6. Tellable(e, teller, b)
  BY <1>3, <1>5 DEF Tellable, Moves, MovesItems, MovesStep, Excused
<1> QED BY <1>1, <1>3, <1>4, <1>6, Tell_FeedInv DEF e

-------------------------------------------------------------------------------
(* What the invariant says of a client is what FeedHolds promises.           *)
LEMMA FeedInv_FeedHolds ==
  ASSUME FeedInv
  PROVE  FeedHolds
<1>1. ASSUME NEW c \in Clients
      PROVE  /\ ~viewers[c].gap
             /\ viewers[c].on /\ ~viewers[c].stale /\ viewers[c].at > 0 =>
                  /\ viewers[c].items = told[viewers[c].at].items
                  /\ \/ viewers[c].step = told[viewers[c].at].step
                     \/ told[viewers[c].at].step.turn \in teller.lost
             /\ /\ viewers[c].on /\ relays[c].on /\ ~relays[c].lagged /\ ~relays[c].ended
                /\ relays[c].source = <<>> /\ relays[c].held = <<>> /\ relays[c].out = <<>>
                => viewers[c].at = teller.seq \/ (relays[c].needs /\ teller.step # NoStep)
  <2> DEFINE v == viewers[c]
             r == relays[c]
  <2>1. ClientIs(v, r, teller, told) /\ v \in Viewer /\ r \in Relay /\ ~v.gap
    BY DEF FeedInv, ClientIs
  <2>2. teller.seq = Len(told)
    BY DEF FeedInv, Tells
  <2> HIDE DEF v, r
  <2>3. ASSUME v.on, ~v.stale, v.at > 0
        PROVE  v.items = told[v.at].items /\ (v.step = told[v.at].step \/ told[v.at].step.turn \in teller.lost)
    <3>1. PICK f, T, L, m : Follows(v, r, f, T, L, m, teller, told)
      BY <2>1, <2>3 DEF ClientIs
    <3>2. Trail(v, r.out, f, T, L, m) /\ Current(T, L, m, teller, told) /\ m \in Nat
      BY <2>3, <3>1 DEF Follows, Holds, IsLoad
    <3>3. f[0].at = v.at /\ f[0].items = v.items /\ f[0].step = v.step /\ TrueIn(f[0], T, L, m)
      <4>1. r.out \in Seq(Message)
        BY <2>1 DEF Relay
      <4> QED BY <3>2, <4>1 DEF Trail
    <3>4. v.at \in 1..m
      BY <2>3, <3>2, <3>3 DEF TrueIn
    <3>5. T[v.at] = told[v.at] /\ L = teller.lost
      BY <3>2, <3>4 DEF Current
    <3> QED BY <3>3, <3>5 DEF TrueIn, Excused
  <2>4. ASSUME v.on, r.on, ~r.lagged, ~r.ended, r.source = <<>>, r.held = <<>>, r.out = <<>>
        PROVE  v.at = teller.seq \/ (r.needs /\ teller.step # NoStep)
    <3>1. ~v.stale
      BY <2>1, <2>4 DEF ClientIs
    <3>2. PICK f, T, L, m : Follows(v, r, f, T, L, m, teller, told)
      BY <2>1, <2>4 DEF ClientIs
    <3>3. /\ Trail(v, r.out, f, T, L, m) /\ Current(T, L, m, teller, told) /\ m \in Nat
          /\ L \in SUBSET (Nat \ {0})
          /\ Ahead(r, f[0], T, L, m) /\ Sourced(r, Reached(r, f[0]) + 0, T, L, m)
      <4>1. Len(r.out) = 0 /\ Len(r.held) = 0
        BY <2>4
      <4>2. Follows(v, r, f, T, L, m, teller, told) /\ Relays(r, f[0], T, L, m)
        BY <2>4, <3>2, <4>1 DEF Follows, Holds
      <4> QED BY <3>1, <4>1, <4>2 DEF Follows, Holds, IsLoad, Relays
    <3>4. f[0].at = v.at
      BY <2>4, <3>3 DEF Trail
    <3>5. Reached(r, f[0]) = m
      <4>1. Reached(r, f[0]) \in 0..m
        BY <3>3 DEF Ahead
      <4>2. Reached(r, f[0]) + 0 + Len(r.source) = m
        BY <2>4, <3>3 DEF Sourced
      <4>3. Len(r.source) = 0
        BY <2>4
      <4> QED BY <3>3, <4>1, <4>2, <4>3
    <3>6. m = teller.seq
      BY <2>2, <3>3 DEF Current
    <3>7. CASE ~r.needs
      BY <3>4, <3>5, <3>6, <3>7 DEF Reached
    <3>8. CASE r.needs
      <4>1. T[m].step.turn > 0
        BY <3>3, <3>5, <3>8 DEF Ahead, Reached
      <4>2. teller.step.turn = T[m].step.turn
        BY <3>3 DEF Current, Excused
      <4>3. teller.step # NoStep
        BY <4>1, <4>2 DEF NoStep
      <4> QED BY <3>8, <4>3
    <3> QED BY <3>7, <3>8
  <2> QED BY <2>1, <2>3, <2>4 DEF v, r
<1> QED BY <1>1 DEF FeedHolds, ViewIsTrue, QuietIsCurrent, InTurn

(* Every step keeps the invariant.                                           *)
LEMMA FeedNext_FeedInv ==
  ASSUME FeedInv, [FeedNext]_feedVars
  PROVE  FeedInv'
<1>1. CASE UNCHANGED feedVars
  BY <1>1 DEF feedVars, FeedInv
<1>2. CASE FeedNext
  BY <1>2, TellPrompt_FeedInv, TellStart_FeedInv, TellDelta_FeedInv, TellDone_FeedInv,
     LoseDone_FeedInv, TellLine_FeedInv, TellEnd_FeedInv, Reload_FeedInv,
     SubscribeFeed_FeedInv, Receive_FeedInv, FlushStep_FeedInv, PassOn_FeedInv,
     EndRelay_FeedInv, See_FeedInv, Leave_FeedInv DEF FeedNext
<1> QED BY <1>1, <1>2

(* Whatever the number of clients, of events, of turns and of reloads, and   *)
(* whatever the capacities: a client's view is one the session was in, with  *)
(* no line missing or repeated, and a relay at rest has shown the newest.    *)
THEOREM FeedCorrect == FeedSpec => []FeedHolds
<1>1. FeedInit => FeedInv
  BY FeedInit_FeedInv
<1>2. FeedInv /\ [FeedNext]_feedVars => FeedInv'
  BY FeedNext_FeedInv
<1>3. FeedInv => FeedHolds
  BY FeedInv_FeedHolds
<1> QED BY <1>1, <1>2, <1>3, PTL DEF FeedSpec

===============================================================================
