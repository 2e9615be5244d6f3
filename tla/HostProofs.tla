-------------------------------- MODULE HostProofs ----------------------------
(* What the host promises its clients, for any number of them: the cache of  *)
(* results (HostRequests), the numbered events (HostEvents) and the runs of  *)
(* its jobs (Automation).                                                    *)
EXTENDS HostRequests, HostEvents, Automation, SequenceTheorems, FiniteSetTheorems,
        WellFoundedInduction, TLAPS

-----------------------------------------------------------------------------
(* HostRequests: a command runs once while its answer is kept.               *)

Runs == [conn : Connections, id : Ids, call : Calls, ok : BOOLEAN]
Entries == [conn : Connections, id : Ids, call : Calls, run : Nat, old : BOOLEAN]
Answers == [id : Ids, call : Calls,
            outcome : {"ok", "failed", "conflict", "invalid", "watching"}, run : Nat]
Work ==
  [pc : {"idle", "streaming", "closed"}]
    \cup [pc : {"running"}, req : Requests]
    \cup [pc : {"store", "answer"}, req : Requests, run : Nat, ok : BOOLEAN]

RequestTypes ==
  /\ inbox \in [Connections -> Seq(Requests)]
  /\ serving \in [Connections -> Work]
  /\ replies \in [Connections -> Seq(Answers)]
  /\ cache \subseteq Entries /\ IsFiniteSet(cache)
  /\ ran \in Seq(Runs)

(* A successful run of a command: what a retry must not repeat.               *)
Done(i) == ran[i].ok /\ ran[i].call \in Commands
RunOf(i, c, id) == ran[i].conn = c /\ ran[i].id = id

IsRun(i, c, r, ok) ==
  i \in 1..Len(ran) /\ RunOf(i, c, r.id) /\ ran[i].call = r.call /\ ran[i].ok = ok

(* What is kept, and what is about to be kept or answered, was run so.        *)
CacheIsRun == \A e \in cache : IsRun(e.run, e.conn, e, TRUE)

Ran(c) == serving[c].pc \in {"store", "answer"}
ServedIsRun ==
  \A c \in Connections : Ran(c) =>
    /\ IsRun(serving[c].run, c, serving[c].req, serving[c].ok)
    /\ serving[c].pc = "store" => serving[c].ok = TRUE

(* A command's result is kept, or about to be, until it is forgotten.         *)
InCache(i) == \E e \in cache : e.run = i
InStore(i) == \E c \in Connections : serving[c].pc = "store" /\ serving[c].run = i
Remembered == \A i \in 1..Len(ran) : Done(i) => i \in forgotten \/ InCache(i) \/ InStore(i)

(* A command runs only when no earlier result of its id is remembered.        *)
Running(c) == serving[c].pc = "running" /\ serving[c].req.call \in Commands
RunningIsNew ==
  \A c \in Connections : Running(c) =>
    \A i \in 1..Len(ran) : Done(i) /\ RunOf(i, c, serving[c].req.id) => i \in forgotten

(* Every run that an answer reports has happened.                             *)
AnswersAreRun ==
  \A c \in Connections : \A i \in 1..Len(replies[c]) :
    replies[c][i].outcome = "ok" => IsRun(replies[c][i].run, c, replies[c][i], TRUE)

RequestsInv ==
  /\ RequestTypes /\ CacheIsRun /\ ServedIsRun /\ Remembered /\ RunningIsNew /\ AnswersAreRun
  /\ RunsOnce /\ CacheBounded

-----------------------------------------------------------------------------
LEMMA RequestsInitially == RequestsInit => RequestsInv
<1> SUFFICES ASSUME RequestsInit PROVE RequestsInv
  OBVIOUS
<1>1. IsFiniteSet({}) /\ Cardinality({}) = 0
  BY FS_EmptySet
<1>2. Len(ran) = 0 /\ \A c \in Connections : Len(replies[c]) = 0 /\ serving[c].pc = "idle"
  BY EmptySeq DEF RequestsInit, Idle
<1>3. RequestTypes
  BY <1>1, EmptySeq DEF RequestsInit, RequestTypes, Work, Idle
<1>4. CacheIsRun /\ CacheBounded
  BY <1>1, RequestBoundsAssumption DEF RequestsInit, CacheIsRun, CacheBounded
<1>5. ServedIsRun /\ RunningIsNew
  BY <1>2 DEF ServedIsRun, Ran, RunningIsNew, Running
<1>6. Remembered /\ RunsOnce
  BY <1>2 DEF Remembered, RunsOnce
<1>7. AnswersAreRun
  BY <1>2 DEF AnswersAreRun
<1> QED BY <1>3, <1>4, <1>5, <1>6, <1>7 DEF RequestsInv

(* A request taken from an inbox leaves an inbox.                             *)
LEMMA TakeInbox ==
  ASSUME RequestTypes, NEW c \in Connections, inbox[c] # <<>>
  PROVE  /\ [inbox EXCEPT ![c] = Tail(@)] \in [Connections -> Seq(Requests)]
         /\ inbox[c][1] \in Requests
<1>1. inbox[c] \in Seq(Requests)
  BY DEF RequestTypes
<1>2. Tail(inbox[c]) \in Seq(Requests) /\ Len(inbox[c]) \in Nat \ {0}
  BY <1>1, HeadTailProperties
<1>3. inbox[c][1] \in Requests
  BY <1>1, <1>2
<1> QED BY <1>2, <1>3 DEF RequestTypes

(* An answer that is not a result, or is the result of a run it names, leaves *)
(* the answers what they are.                                                 *)
LEMMA AnswerKeeps ==
  ASSUME RequestTypes, AnswersAreRun, NEW c \in Connections, NEW r \in Requests,
         NEW outcome \in {"ok", "failed", "conflict", "invalid", "watching"}, NEW run \in Nat,
         Answer(c, r, outcome, run), UNCHANGED ran,
         outcome = "ok" => IsRun(run, c, r, TRUE)
  PROVE  replies' \in [Connections -> Seq(Answers)] /\ AnswersAreRun'
<1> DEFINE a == [id |-> r.id, call |-> r.call, outcome |-> outcome, run |-> run]
<1>1. a \in Answers /\ a.outcome = outcome /\ a.run = run /\ a.id = r.id /\ a.call = r.call
  BY DEF Answers, Requests
<1>2. replies \in [Connections -> Seq(Answers)] /\ replies' = [replies EXCEPT ![c] = Append(@, a)]
  BY DEF RequestTypes, Answer
<1> HIDE DEF a
<1>3. /\ Append(replies[c], a) \in Seq(Answers) /\ Len(replies[c]) \in Nat
      /\ Len(Append(replies[c], a)) = Len(replies[c]) + 1
      /\ \A i \in 1..Len(replies[c]) : Append(replies[c], a)[i] = replies[c][i]
      /\ Append(replies[c], a)[Len(replies[c]) + 1] = a
  BY <1>1, <1>2, AppendProperties, LenProperties
<1>4. replies' \in [Connections -> Seq(Answers)] /\ replies'[c] = Append(replies[c], a)
      /\ \A d \in Connections : d # c => replies'[d] = replies[d]
  BY <1>2, <1>3
<1>5. ASSUME NEW d \in Connections, NEW i \in 1..Len(replies'[d]), replies'[d][i].outcome = "ok"
      PROVE  IsRun(replies[d][i].run, d, replies[d][i], TRUE)'
  <2>1. CASE d = c /\ i = Len(replies[c]) + 1
    <3>1. replies'[d][i] = a
      BY <1>3, <1>4, <2>1
    <3> QED BY <1>1, <1>5, <2>1, <3>1 DEF IsRun, RunOf
  <2>2. CASE ~(d = c /\ i = Len(replies[c]) + 1)
    <3>1. i \in 1..Len(replies[d]) /\ replies'[d][i] = replies[d][i]
      BY <1>3, <1>4, <2>2
    <3> QED BY <1>5, <3>1 DEF AnswersAreRun, IsRun, RunOf
  <2> QED BY <2>1, <2>2
<1>6. AnswersAreRun'
  BY <1>5 DEF AnswersAreRun
<1> QED BY <1>4, <1>6

(* A step that runs nothing and serves nothing else keeps what the runs say.  *)
LEMMA RunsKept ==
  ASSUME RequestsInv, RequestTypes', AnswersAreRun', UNCHANGED <<cache, ran, forgotten>>,
         \A c \in Connections : Ran(c)' \/ Running(c)' => serving'[c] = serving[c],
         \A c \in Connections : serving[c].pc = "store" => serving'[c] = serving[c]
  PROVE  RequestsInv'
<1>1. CacheIsRun' /\ CacheBounded' /\ RunsOnce'
  BY DEF RequestsInv, CacheIsRun, CacheBounded, RunsOnce, IsRun, RunOf
<1>2. ServedIsRun'
  BY DEF RequestsInv, ServedIsRun, Ran, IsRun, RunOf
<1>3. Remembered'
  BY DEF RequestsInv, Remembered, Done, InCache, InStore
<1>4. RunningIsNew'
  BY DEF RequestsInv, RunningIsNew, Running, Done, RunOf
<1> QED BY <1>1, <1>2, <1>3, <1>4 DEF RequestsInv

(* The lookup of a command forgets what it drops.                             *)
LEMMA LookUpKeeps ==
  ASSUME RequestsInv, NEW c \in Connections, NEW r \in Requests, LookUp(c, r),
         serving' \in [Connections -> Work],
         \A d \in Connections : d # c => serving'[d] = serving[d],
         \/ serving'[c] = serving[c]
         \/ serving'[c] = [pc |-> "running", req |-> r] /\ EntryOf(c, r.id) = {},
         replies' \in [Connections -> Seq(Answers)], AnswersAreRun'
  PROVE  RequestsInv'
<1>a. /\ RequestTypes /\ CacheIsRun /\ ServedIsRun /\ Remembered /\ RunningIsNew /\ RunsOnce
      /\ CacheBounded
  BY DEF RequestsInv
<1>1. /\ cache' = Kept /\ forgotten' = forgotten \cup {e.run : e \in cache \ Kept} /\ ran' = ran
      /\ Kept = {e \in cache : ~e.old} /\ serving[c].pc = "idle"
      /\ inbox' = [inbox EXCEPT ![c] = Tail(@)] /\ inbox[c] # <<>>
  BY DEF LookUp, Forget, Kept
<1>2. cache' \subseteq cache /\ IsFiniteSet(cache') /\ Cardinality(cache') <= Cardinality(cache)
      /\ Cardinality(cache) \in Nat /\ Cardinality(cache') \in Nat
  <2>1. cache' \subseteq cache
    BY <1>1
  <2> QED BY <1>a, <2>1, FS_Subset, FS_CardinalityType DEF RequestTypes
<1>3. RequestTypes'
  BY <1>a, <1>1, <1>2, TakeInbox DEF RequestTypes
<1>4. CacheIsRun' /\ CacheBounded' /\ RunsOnce'
  BY <1>a, <1>1, <1>2, RequestBoundsAssumption DEF CacheIsRun, CacheBounded, RunsOnce, IsRun, RunOf
<1>5. ServedIsRun'
  <2>1. ASSUME NEW d \in Connections, Ran(d)' PROVE Ran(d) /\ serving'[d] = serving[d]
    BY <1>1, <2>1 DEF Ran
  <2> QED BY <1>a, <1>1, <2>1 DEF ServedIsRun, Ran, IsRun, RunOf
<1>6. ASSUME NEW i \in 1..Len(ran), InCache(i)
      PROVE  InCache(i)' \/ i \in forgotten'
  <2>1. PICK e \in cache : e.run = i
    BY <1>6 DEF InCache
  <2>2. CASE e \in Kept
    BY <1>1, <2>1, <2>2 DEF InCache
  <2>3. CASE e \notin Kept
    BY <1>1, <2>1, <2>3
  <2> QED BY <2>2, <2>3
<1>7. Remembered'
  <2>1. ASSUME NEW i \in 1..Len(ran), InStore(i) PROVE InStore(i)'
    <3>1. PICK d \in Connections : serving[d].pc = "store" /\ serving[d].run = i
      BY <2>1 DEF InStore
    <3>2. serving'[d] = serving[d]
      BY <1>1, <3>1
    <3> QED BY <3>1, <3>2 DEF InStore
  <2> QED BY <1>a, <1>1, <1>6, <2>1 DEF Remembered, Done
<1>8. RunningIsNew'
  <2>1. ASSUME NEW d \in Connections, Running(d)', NEW i \in 1..Len(ran), Done(i),
               RunOf(i, d, serving'[d].req.id)
        PROVE  i \in forgotten'
    <3>1. CASE serving'[d] = serving[d]
      BY <1>a, <1>1, <2>1, <3>1 DEF RunningIsNew, Running
    <3>2. CASE serving'[d] # serving[d]
      <4>1. d = c /\ serving'[c].req = r /\ EntryOf(c, r.id) = {}
        BY <3>2
      <4>2. CASE i \in forgotten
        BY <1>1, <4>2
      <4>3. CASE InCache(i)
        <5>1. PICK e \in cache : e.run = i
          BY <4>3 DEF InCache
        <5>2. e.conn = c /\ e.id = r.id
          BY <1>a, <2>1, <4>1, <5>1 DEF CacheIsRun, IsRun, RunOf
        <5>3. e \notin Kept
          BY <4>1, <5>1, <5>2 DEF EntryOf
        <5> QED BY <1>1, <5>1, <5>3
      <4>4. CASE InStore(i)
        <5>1. PICK f \in Connections : serving[f].pc = "store" /\ serving[f].run = i
          BY <4>4 DEF InStore
        <5>2. ran[i].conn = f
          BY <1>a, <5>1 DEF ServedIsRun, Ran, IsRun, RunOf
        <5> QED BY <1>1, <2>1, <4>1, <5>1, <5>2 DEF RunOf
      <4> QED BY <1>a, <2>1, <4>2, <4>3, <4>4 DEF Remembered
    <3> QED BY <3>1, <3>2
  <2> QED BY <1>1, <2>1 DEF RunningIsNew, Done, RunOf, Running
<1> QED BY <1>3, <1>4, <1>5, <1>7, <1>8 DEF RequestsInv

-----------------------------------------------------------------------------
LEMMA RunStep ==
  ASSUME RequestsInv, NEW c \in Connections, NEW ok \in BOOLEAN, Run(c, ok)
  PROVE  RequestsInv'
<1>a. /\ RequestTypes /\ CacheIsRun /\ ServedIsRun /\ Remembered /\ RunningIsNew /\ RunsOnce
      /\ CacheBounded /\ AnswersAreRun
  BY DEF RequestsInv
<1> DEFINE n == Len(ran) + 1
           req == serving[c].req
           new == [conn |-> c, id |-> req.id, call |-> req.call, ok |-> ok]
           next == [pc |-> IF ok /\ req.call \in Commands THEN "store" ELSE "answer",
                    req |-> req, run |-> n, ok |-> ok]
<1>1. /\ serving[c].pc = "running" /\ req \in Requests
      /\ ran' = Append(ran, new) /\ serving' = [serving EXCEPT ![c] = next]
      /\ UNCHANGED <<inbox, replies, cache, forgotten>>
  BY <1>a DEF Run, RequestTypes, Work
<1>2. new \in Runs /\ new.ok = ok /\ new.call = req.call /\ new.conn = c /\ new.id = req.id
  BY <1>1 DEF Runs, Requests
<1>3. /\ ran' \in Seq(Runs) /\ Len(ran) \in Nat /\ Len(ran') = n /\ ran'[n] = new
      /\ \A i \in 1..Len(ran) : ran'[i] = ran[i]
  BY <1>a, <1>1, <1>2, AppendProperties, LenProperties DEF RequestTypes
<1>4. next \in Work /\ next.run = n /\ next.req = req /\ next.ok = ok
      /\ next.pc \in {"store", "answer"}
      /\ (next.pc = "store" <=> ok /\ req.call \in Commands)
  BY <1>1, <1>3 DEF Work
<1> HIDE DEF n, req, new, next
<1>n. n = Len(ran) + 1
  BY DEF n
<1>5. /\ serving' \in [Connections -> Work] /\ serving'[c] = next
      /\ \A d \in Connections : d # c => serving'[d] = serving[d]
  BY <1>a, <1>1, <1>4 DEF RequestTypes
<1>6. RequestTypes' /\ CacheBounded'
  BY <1>a, <1>1, <1>3, <1>5 DEF RequestTypes, CacheBounded
<1>7. CacheIsRun' /\ AnswersAreRun'
  BY <1>a, <1>1, <1>3, <1>n DEF CacheIsRun, AnswersAreRun, IsRun, RunOf
<1>8. ServedIsRun'
  <2>1. ASSUME NEW d \in Connections, Ran(d)'
        PROVE  /\ IsRun(serving[d].run, d, serving[d].req, serving[d].ok)'
               /\ serving'[d].pc = "store" => serving'[d].ok = TRUE
    <3>1. CASE d = c
      BY <1>2, <1>3, <1>4, <1>5, <1>n, <3>1 DEF IsRun, RunOf
    <3>2. CASE d # c
      BY <1>a, <1>3, <1>5, <1>n, <2>1, <3>2 DEF ServedIsRun, Ran, IsRun, RunOf
    <3> QED BY <3>1, <3>2
  <2> QED BY <2>1 DEF ServedIsRun
<1>9. Remembered'
  <2>1. ASSUME NEW i \in 1..Len(ran'), Done(i)'
        PROVE  i \in forgotten' \/ InCache(i)' \/ InStore(i)'
    <3>1. CASE i = n
      BY <1>2, <1>3, <1>4, <1>5, <2>1, <3>1 DEF InStore, Done
    <3>2. CASE i # n
      <4>1. i \in 1..Len(ran) /\ Done(i)
        BY <1>3, <1>n, <2>1, <3>2 DEF Done
      <4>2. InStore(i) => InStore(i)'
        BY <1>1, <1>5 DEF InStore
      <4> QED BY <1>a, <1>1, <4>1, <4>2 DEF Remembered, InCache
    <3> QED BY <3>1, <3>2
  <2> QED BY <2>1 DEF Remembered
<1>10. RunningIsNew'
  <2>1. ASSUME NEW d \in Connections, Running(d)', NEW i \in 1..Len(ran'), Done(i)',
               RunOf(i, d, serving[d].req.id)'
        PROVE  i \in forgotten'
    <3>1. d # c /\ serving'[d] = serving[d]
      BY <1>4, <1>5, <2>1 DEF Running
    <3>2. i # n
      BY <1>2, <1>3, <2>1, <3>1 DEF RunOf
    <3>3. i \in 1..Len(ran) /\ ran'[i] = ran[i]
      BY <1>3, <1>n, <3>2
    <3>4. Running(d) /\ Done(i) /\ RunOf(i, d, serving[d].req.id)
      BY <2>1, <3>1, <3>3 DEF Running, Done, RunOf
    <3> QED BY <1>a, <1>1, <3>3, <3>4 DEF RunningIsNew
  <2> QED BY <2>1 DEF RunningIsNew, Running, Done, RunOf
<1>11. RunsOnce'
  <2>1. ASSUME NEW i \in 1..Len(ran'), NEW j \in 1..Len(ran'), i < j,
               ran'[i].ok, ran'[i].call \in Commands, ran'[j].call \in Commands,
               ran'[i].conn = ran'[j].conn, ran'[i].id = ran'[j].id
        PROVE  i \in forgotten'
    <3>1. i \in 1..Len(ran) /\ ran'[i] = ran[i]
      BY <1>3, <1>n, <2>1
    <3>2. CASE j = n
      <4>1. Running(c)
        BY <1>1, <1>2, <1>3, <2>1, <3>2 DEF Running, req
      <4>2. Done(i) /\ RunOf(i, c, serving[c].req.id)
        BY <1>2, <1>3, <2>1, <3>1, <3>2 DEF Done, RunOf, req
      <4> QED BY <1>a, <1>1, <3>1, <4>1, <4>2 DEF RunningIsNew
    <3>3. CASE j # n
      <4>1. j \in 1..Len(ran) /\ ran'[j] = ran[j]
        BY <1>3, <1>n, <3>3
      <4> QED BY <1>a, <1>1, <2>1, <3>1, <4>1 DEF RunsOnce
    <3> QED BY <3>2, <3>3
  <2> QED BY <2>1 DEF RunsOnce
<1> QED BY <1>6, <1>7, <1>8, <1>9, <1>10, <1>11 DEF RequestsInv

(* A full cache loses one entry before it takes another.                      *)
LEMMA VictimsMakeRoom ==
  ASSUME RequestTypes, CacheBounded, NEW victims \in Victims, NEW same, NEW new
  PROVE  /\ IsFiniteSet(((cache \ victims) \ same) \cup {new})
         /\ Cardinality(((cache \ victims) \ same) \cup {new}) <= CacheLimit
         /\ victims \subseteq cache
<1> DEFINE rest == (cache \ victims) \ same
<1>1. IsFiniteSet(cache) /\ Cardinality(cache) \in Nat /\ Cardinality(cache) <= CacheLimit
      /\ CacheLimit \in Nat \ {0}
  BY FS_CardinalityType, RequestBoundsAssumption DEF RequestTypes, CacheBounded
<1>2. IsFiniteSet(cache \ victims) /\ Cardinality(cache \ victims) < CacheLimit
      /\ Cardinality(cache \ victims) \in Nat /\ victims \subseteq cache
  <2>1. CASE Cardinality(cache) >= CacheLimit
    <3>1. PICK e \in cache : victims = {e}
      BY <2>1 DEF Victims
    <3>2. IsFiniteSet(cache \ {e}) /\ Cardinality(cache \ {e}) = Cardinality(cache) - 1
      BY <1>1, FS_RemoveElement
    <3> QED BY <1>1, <3>1, <3>2, FS_CardinalityType
  <2>2. CASE ~(Cardinality(cache) >= CacheLimit)
    <3>1. victims = {} /\ cache \ victims = cache
      BY <2>2 DEF Victims
    <3> QED BY <1>1, <2>2, <3>1
  <2> QED BY <2>1, <2>2
<1>3. IsFiniteSet(rest) /\ Cardinality(rest) <= Cardinality(cache \ victims)
      /\ Cardinality(rest) \in Nat
  <2>1. rest \subseteq cache \ victims
    OBVIOUS
  <2> QED BY <1>2, <2>1, FS_Subset, FS_CardinalityType
<1> HIDE DEF rest
<1>4. IsFiniteSet(rest \cup {new})
      /\ Cardinality(rest \cup {new}) \in {Cardinality(rest), Cardinality(rest) + 1}
  BY <1>3, FS_AddElement
<1> QED BY <1>1, <1>2, <1>3, <1>4 DEF rest

LEMMA StoreStep ==
  ASSUME RequestsInv, NEW c \in Connections, Store(c)
  PROVE  RequestsInv'
<1>a. /\ RequestTypes /\ CacheIsRun /\ ServedIsRun /\ Remembered /\ RunningIsNew /\ RunsOnce
      /\ CacheBounded /\ AnswersAreRun
  BY DEF RequestsInv
<1> DEFINE s == serving[c]
           same == {e \in cache : e.conn = c /\ e.id = s.req.id}
           new == [conn |-> c, id |-> s.req.id, call |-> s.req.call, run |-> s.run, old |-> FALSE]
           next == [s EXCEPT !.pc = "answer"]
<1>1. PICK victims \in Victims :
        /\ cache' = ((cache \ victims) \ same) \cup {new}
        /\ forgotten' = forgotten \cup {e.run : e \in victims \cup same}
  BY DEF Store, Forget
<1>2. /\ s.pc = "store" /\ serving' = [serving EXCEPT ![c] = next]
      /\ UNCHANGED <<inbox, replies, ran>>
  BY <1>a DEF Store, RequestTypes
<1>3. s \in [pc : {"store", "answer"}, req : Requests, run : Nat, ok : BOOLEAN]
  BY <1>a, <1>2 DEF RequestTypes, Work
<1>4. /\ next \in Work /\ next.pc = "answer" /\ next.run = s.run /\ next.req = s.req
      /\ next.ok = s.ok
  BY <1>3 DEF Work
<1>5. new \in Entries /\ new.run = s.run /\ new.conn = c /\ new.id = s.req.id /\ new.call = s.req.call
  BY <1>3 DEF Entries, Requests
<1>6. victims \subseteq cache /\ IsFiniteSet(cache') /\ Cardinality(cache') <= CacheLimit
  BY <1>a, <1>1, VictimsMakeRoom
<1>7. \A e \in cache : e \in cache' \/ e.run \in forgotten'
  BY <1>1
<1>8. cache' \subseteq cache \cup {new} /\ new \in cache' /\ forgotten \subseteq forgotten'
  BY <1>1
<1>9. IsRun(s.run, c, s.req, s.ok) /\ s.ok = TRUE
  BY <1>a, <1>2, <1>3 DEF ServedIsRun, Ran
<1> HIDE DEF next, new, same
<1>10. /\ serving' \in [Connections -> Work] /\ serving'[c] = next
       /\ \A d \in Connections : d # c => serving'[d] = serving[d]
  BY <1>a, <1>2, <1>4 DEF RequestTypes
<1>11. RequestTypes' /\ CacheBounded' /\ AnswersAreRun' /\ RunsOnce'
  BY <1>a, <1>2, <1>5, <1>6, <1>8, <1>10
     DEF RequestTypes, CacheBounded, AnswersAreRun, RunsOnce, IsRun, RunOf
<1>12. CacheIsRun'
  BY <1>a, <1>2, <1>5, <1>8, <1>9 DEF CacheIsRun, IsRun, RunOf
<1>13. ServedIsRun'
  BY <1>a, <1>2, <1>4, <1>9, <1>10 DEF ServedIsRun, Ran, IsRun, RunOf
<1>14. Remembered'
  <2>1. ASSUME NEW i \in 1..Len(ran), Done(i)
        PROVE  i \in forgotten' \/ InCache(i)' \/ InStore(i)'
    <3>1. CASE i \in forgotten
      BY <1>8, <3>1
    <3>2. CASE InCache(i)
      BY <1>7, <3>2 DEF InCache
    <3>3. CASE InStore(i)
      BY <1>5, <1>8, <1>10, <3>3 DEF InStore, InCache
    <3> QED BY <1>a, <2>1, <3>1, <3>2, <3>3 DEF Remembered
  <2> QED BY <1>2, <2>1 DEF Remembered, Done
<1>15. RunningIsNew'
  BY <1>a, <1>2, <1>4, <1>8, <1>10 DEF RunningIsNew, Running, Done, RunOf
<1> QED BY <1>11, <1>12, <1>13, <1>14, <1>15 DEF RequestsInv

LEMMA ExpireStep ==
  ASSUME RequestsInv, Expire
  PROVE  RequestsInv'
<1>a. /\ RequestTypes /\ CacheIsRun /\ ServedIsRun /\ Remembered /\ RunningIsNew /\ RunsOnce
      /\ CacheBounded /\ AnswersAreRun
  BY DEF RequestsInv
<1> DEFINE aged(e) == [e EXCEPT !.old = TRUE]
<1>1. cache' = {aged(e) : e \in cache} /\ UNCHANGED <<inbox, serving, replies, ran, forgotten>>
  BY DEF Expire
<1>2. \A e \in cache :
        /\ aged(e) \in Entries /\ aged(e).run = e.run /\ aged(e).conn = e.conn
        /\ aged(e).id = e.id /\ aged(e).call = e.call
  BY <1>a DEF RequestTypes, Entries
<1>3. IsFiniteSet(cache') /\ Cardinality(cache') <= CacheLimit
  <2> DEFINE f == [e \in cache |-> aged(e)]
  <2>1. f \in Surjection(cache, cache')
    BY <1>1 DEF Surjection
  <2>2. IsFiniteSet(cache') /\ Cardinality(cache') <= Cardinality(cache)
    BY <1>a, <2>1, FS_Surjection DEF RequestTypes
  <2> QED BY <1>a, <2>2, FS_CardinalityType, RequestBoundsAssumption DEF RequestTypes, CacheBounded
<1> HIDE DEF aged
<1>4. RequestTypes' /\ CacheBounded'
  BY <1>a, <1>1, <1>2, <1>3 DEF RequestTypes, CacheBounded
<1>5. CacheIsRun'
  BY <1>a, <1>1, <1>2 DEF CacheIsRun, IsRun, RunOf
<1>6. Remembered'
  BY <1>a, <1>1, <1>2 DEF Remembered, Done, InCache, InStore
<1>7. ServedIsRun' /\ RunningIsNew' /\ AnswersAreRun' /\ RunsOnce'
  BY <1>a, <1>1
     DEF ServedIsRun, Ran, IsRun, RunningIsNew, Running, Done, RunOf, AnswersAreRun, RunsOnce
<1> QED BY <1>4, <1>5, <1>6, <1>7 DEF RequestsInv

-----------------------------------------------------------------------------
LEMMA RequestsStep ==
  ASSUME RequestsInv, [RequestsNext]_requestVars
  PROVE  RequestsInv'
<1> USE DEF requestVars
<1>a. RequestTypes /\ AnswersAreRun /\ CacheIsRun /\ ServedIsRun
  BY DEF RequestsInv
<1>s. ASSUME NEW c \in Connections, NEW w \in [pc : {"idle", "streaming", "closed"}],
             serving' = [serving EXCEPT ![c] = w], serving[c].pc # "store",
             UNCHANGED <<cache, ran, forgotten>>, RequestTypes', AnswersAreRun'
      PROVE  RequestsInv'
  BY <1>a, <1>s, RunsKept DEF RequestTypes, Ran, Running
<1>1. CASE Expire
  BY <1>1, ExpireStep
<1>2. ASSUME NEW c \in Connections, NEW r \in Requests, Send(c, r)
      PROVE  RequestsInv'
  <2>1. inbox' \in [Connections -> Seq(Requests)]
    BY <1>2, <1>a DEF Send, RequestTypes
  <2>2. RequestTypes' /\ AnswersAreRun'
    BY <1>2, <1>a, <2>1 DEF Send, RequestTypes, AnswersAreRun, IsRun, RunOf
  <2> QED BY <1>2, <2>2, RunsKept DEF Send
<1>3. ASSUME NEW c \in Connections, TakeRefused(c)
      PROVE  RequestsInv'
  <2>1. inbox' \in [Connections -> Seq(Requests)] /\ inbox[c][1] \in Requests
    BY <1>3, <1>a, TakeInbox DEF TakeRefused
  <2>2. replies' \in [Connections -> Seq(Answers)] /\ AnswersAreRun'
    BY <1>3, <1>a, <2>1, AnswerKeeps DEF TakeRefused
  <2>3. RequestTypes'
    BY <1>3, <1>a, <2>1, <2>2 DEF TakeRefused, RequestTypes
  <2> QED BY <1>3, <2>2, <2>3, RunsKept DEF TakeRefused
<1>4. ASSUME NEW c \in Connections, TakeWatch(c)
      PROVE  RequestsInv'
  <2>1. inbox' \in [Connections -> Seq(Requests)] /\ inbox[c][1] \in Requests
    BY <1>4, <1>a, TakeInbox DEF TakeWatch
  <2>2. replies' \in [Connections -> Seq(Answers)] /\ AnswersAreRun'
    BY <1>4, <1>a, <2>1, AnswerKeeps DEF TakeWatch
  <2>3. /\ serving[c].pc = "idle" /\ UNCHANGED <<cache, ran, forgotten>>
        /\ \/ serving' = [serving EXCEPT ![c] = [pc |-> "streaming"]]
           \/ serving' = serving
    BY <1>4 DEF TakeWatch
  <2>4. RequestTypes'
    <3>1. [pc |-> "streaming"] \in Work /\ serving \in [Connections -> Work]
      BY <1>a DEF RequestTypes, Work
    <3>2. serving' \in [Connections -> Work]
      BY <2>3, <3>1
    <3> QED BY <1>a, <2>1, <2>2, <2>3, <3>2 DEF RequestTypes
  <2>5. CASE serving' = serving
    BY <2>2, <2>3, <2>4, <2>5, RunsKept
  <2>6. CASE serving' = [serving EXCEPT ![c] = [pc |-> "streaming"]]
    BY <1>s, <2>2, <2>3, <2>4, <2>6
  <2> QED BY <2>3, <2>5, <2>6
<1>5. ASSUME NEW c \in Connections, Close(c)
      PROVE  RequestsInv'
  <2>1. RequestTypes' /\ AnswersAreRun'
    BY <1>5, <1>a DEF Close, RequestTypes, AnswersAreRun, IsRun, RunOf, Work
  <2> QED BY <1>5, <1>s, <2>1 DEF Close
<1>6. ASSUME NEW c \in Connections, BeginQuery(c)
      PROVE  RequestsInv'
  <2>1. inbox' \in [Connections -> Seq(Requests)] /\ inbox[c][1] \in Requests
    BY <1>6, <1>a, TakeInbox DEF BeginQuery
  <2> DEFINE w == [pc |-> "running", req |-> inbox[c][1]]
  <2>2. /\ serving' = [serving EXCEPT ![c] = w] /\ serving[c].pc = "idle"
        /\ UNCHANGED <<replies, cache, ran, forgotten>>
        /\ w.req.call \notin Commands /\ w.pc = "running"
    BY <1>6, CallsAssumption DEF BeginQuery
  <2>3. w \in Work
    BY <2>1 DEF Work
  <2> HIDE DEF w
  <2>4. RequestTypes' /\ AnswersAreRun'
    BY <1>a, <2>1, <2>2, <2>3 DEF RequestTypes, AnswersAreRun, IsRun, RunOf
  <2> QED BY <1>a, <2>2, <2>4, RunsKept DEF RequestTypes, Ran, Running
<1>7. ASSUME NEW c \in Connections, Miss(c)
      PROVE  RequestsInv'
  <2>1. PICK r \in Requests :
          /\ LookUp(c, r) /\ EntryOf(c, r.id) = {}
          /\ serving' = [serving EXCEPT ![c] = [pc |-> "running", req |-> r]]
          /\ UNCHANGED replies
    BY <1>7 DEF Miss
  <2>2. serving' \in [Connections -> Work]
    BY <1>a, <2>1 DEF RequestTypes, Work
  <2>a. ran' = ran /\ replies' = replies
    BY <2>1 DEF LookUp
  <2>b. replies' \in [Connections -> Seq(Answers)]
    BY <1>a, <2>a DEF RequestTypes
  <2>c. AnswersAreRun'
    BY <1>a, <2>a DEF AnswersAreRun, IsRun, RunOf
  <2>3. AnswersAreRun' /\ replies' \in [Connections -> Seq(Answers)]
    BY <2>b, <2>c
  <2>4. /\ serving'[c] = [pc |-> "running", req |-> r]
        /\ \A d \in Connections : d # c => serving'[d] = serving[d]
    BY <1>a, <2>1 DEF RequestTypes
  <2> QED BY <2>1, <2>2, <2>3, <2>4, LookUpKeeps
<1>8. ASSUME NEW c \in Connections, Hit(c)
      PROVE  RequestsInv'
  <2>0. PICK r \in Requests : \E e \in EntryOf(c, r.id) :
          LookUp(c, r) /\ e.call = r.call /\ Answer(c, r, "ok", e.run) /\ UNCHANGED serving
    BY <1>8 DEF Hit
  <2>1. PICK e \in EntryOf(c, r.id) :
          LookUp(c, r) /\ e.call = r.call /\ Answer(c, r, "ok", e.run) /\ UNCHANGED serving
    BY <2>0
  <2>2. e \in cache /\ e.conn = c /\ e.id = r.id /\ e.run \in Nat
    BY <1>a, <2>1 DEF EntryOf, Kept, RequestTypes, Entries
  <2>3. IsRun(e.run, c, r, TRUE)
    BY <1>a, <2>1, <2>2 DEF CacheIsRun, IsRun
  <2>4. UNCHANGED ran
    BY <2>1 DEF LookUp
  <2>5. replies' \in [Connections -> Seq(Answers)] /\ AnswersAreRun'
    BY <1>a, <2>1, <2>2, <2>3, <2>4, AnswerKeeps
  <2> QED BY <1>a, <2>1, <2>5, LookUpKeeps DEF RequestTypes
<1>9. ASSUME NEW c \in Connections, Conflict(c)
      PROVE  RequestsInv'
  <2>1. PICK r \in Requests : LookUp(c, r) /\ Answer(c, r, "conflict", 0) /\ UNCHANGED serving
    BY <1>9 DEF Conflict
  <2>2. UNCHANGED ran
    BY <2>1 DEF LookUp
  <2>3. replies' \in [Connections -> Seq(Answers)] /\ AnswersAreRun'
    BY <1>a, <2>1, <2>2, AnswerKeeps
  <2> QED BY <1>a, <2>1, <2>3, LookUpKeeps DEF RequestTypes
<1>10. ASSUME NEW c \in Connections, Reply(c)
       PROVE  RequestsInv'
  <2> DEFINE s == serving[c]
             o == IF s.ok THEN "ok" ELSE "failed"
  <2>1. s.pc = "answer" /\ Answer(c, s.req, o, s.run) /\ serving' = [serving EXCEPT ![c] = Idle]
        /\ UNCHANGED <<inbox, cache, ran, forgotten>>
    BY <1>10 DEF Reply
  <2>2. s \in [pc : {"store", "answer"}, req : Requests, run : Nat, ok : BOOLEAN]
    BY <1>a, <2>1 DEF RequestTypes, Work
  <2>3. IsRun(s.run, c, s.req, s.ok)
    BY <1>a, <2>1 DEF ServedIsRun, Ran
  <2>4. s.req \in Requests /\ s.run \in Nat /\ o \in {"ok", "failed"} /\ (o = "ok" => s.ok = TRUE)
    BY <2>2
  <2> HIDE DEF s, o
  <2>5. replies' \in [Connections -> Seq(Answers)] /\ AnswersAreRun'
    <3>1. o = "ok" => IsRun(s.run, c, s.req, TRUE)
      BY <2>3, <2>4
    <3>2. UNCHANGED ran /\ o \in {"ok", "failed", "conflict", "invalid", "watching"}
      BY <2>1, <2>4
    <3> QED BY <1>a, <2>1, <2>4, <3>1, <3>2, AnswerKeeps
  <2>6. RequestTypes'
    BY <1>a, <2>1, <2>5 DEF RequestTypes, Work, Idle
  <2> QED BY <1>s, <2>1, <2>5, <2>6 DEF Idle, s
<1>11. CASE UNCHANGED requestVars
  <2>1. RequestTypes'
    BY <1>11, <1>a DEF RequestTypes
  <2>2. AnswersAreRun'
    BY <1>11, <1>a DEF AnswersAreRun, IsRun, RunOf
  <2> QED BY <1>11, <2>1, <2>2, RunsKept
<1> QED
  BY <1>1, <1>2, <1>3, <1>4, <1>5, <1>6, <1>7, <1>8, <1>9, <1>10, <1>11, RunStep, StoreStep
     DEF RequestsNext

(* A retry never repeats a command whose result is kept, an answer is the     *)
(* result of a run of the very request it answers, and the cache stays in its *)
(* bound: for every number of connections, ids and calls.                     *)
THEOREM RequestsCorrect == RequestsSpec => []RequestsHold
<1>1. RequestsInv /\ [RequestsNext]_requestVars => RequestsInv'
  BY RequestsStep
<1>2. RequestsInv => RequestsHold
  BY DEF RequestsInv, RequestsHold, AnswersBelong, AnswersAreRun, IsRun, RunOf
<1> QED BY RequestsInitially, <1>1, <1>2, PTL DEF RequestsSpec

-----------------------------------------------------------------------------
(* HostEvents: places in a history, pages, and what a feed has not seen.     *)

(* A set of places has a first one and a last one.                           *)
LEMMA FirstPlace ==
  ASSUME NEW S \in SUBSET Nat, S # {}
  PROVE  \E i \in S : \A j \in S : i <= j
<1> DEFINE R == OpToRel(<, Nat)
<1>1. IsWellFoundedOn(R, Nat)
  BY NatLessThanWellFounded
<1>2. PICK i \in S : \A j \in S : ~(<<j, i>> \in R)
  BY <1>1, WFMin
<1>3. \A j \in S : ~(j < i)
  BY <1>2 DEF OpToRel
<1>4. \A j \in S : i <= j
  <2> HIDE DEF R
  <2> QED BY <1>3
<1> QED BY <1>4

LEMMA LastPlace ==
  ASSUME NEW n \in Nat, NEW S \in SUBSET (1..n), S # {}
  PROVE  Max(S) \in S /\ \A j \in S : j <= Max(S)
<1> DEFINE T == {n - i : i \in S}
<1>0. PICK s \in S : TRUE
  OBVIOUS
<1>1. T \in SUBSET Nat /\ n - s \in T
  OBVIOUS
<1>2. PICK k \in T : \A j \in T : k <= j
  BY <1>1, FirstPlace
<1>3. PICK i \in S : k = n - i
  OBVIOUS
<1>4. ASSUME NEW j \in S PROVE i >= j
  <2>1. n - j \in T
    OBVIOUS
  <2>2. n - i <= n - j
    BY <2>1, <1>2, <1>3
  <2> QED BY <2>2
<1> QED BY <1>3, <1>4 DEF Max

-----------------------------------------------------------------------------
(* A page: the first places of those after the cursor.                       *)

LEMMA PagePlaces ==
  ASSUME NEW start, NEW filter, NEW limit \in Nat \ {0}, history \in Seq(Nat)
  PROVE  LET all == After(start, filter)
             page == Page(start, filter, limit)
         IN  /\ all \subseteq 1..Len(history) /\ page \subseteq all
             /\ \A i \in page : \A j \in all : j <= i => j \in page
             /\ all # {} => page # {}
             /\ Cardinality(all) <= limit => page = all
             /\ Cardinality(all) > limit => all # {}
<1> DEFINE all == After(start, filter)
           page == Page(start, filter, limit)
           upto(i) == {j \in all : j <= i}
<1>1. Len(history) \in Nat /\ all \subseteq 1..Len(history)
  BY DEF After
<1>2. IsFiniteSet(all)
  <2>1. IsFiniteSet(1..Len(history))
    BY <1>1, FS_Interval
  <2> HIDE DEF all
  <2> QED BY <1>1, <2>1, FS_Subset
<1>3. ASSUME NEW i PROVE upto(i) \in SUBSET all /\ IsFiniteSet(upto(i))
  BY <1>2, FS_Subset
<1>4. page = {i \in all : Cardinality(upto(i)) <= limit}
  BY DEF Page
<1>5. \A i : Cardinality(upto(i)) \in Nat
  BY <1>3, FS_CardinalityType
<1>6. ASSUME NEW i \in page, NEW j \in all, j <= i PROVE j \in page
  <2>1. upto(j) \in SUBSET upto(i)
    BY <1>1, <1>4, <1>6
  <2>2. Cardinality(upto(j)) <= Cardinality(upto(i))
    BY <2>1, <1>3, FS_Subset
  <2>3. Cardinality(upto(i)) <= limit
    BY <1>4
  <2>4. Cardinality(upto(j)) <= limit
    <3> HIDE DEF upto
    <3> QED BY <2>2, <2>3, <1>5
  <2> QED BY <2>4, <1>4
<1>7. ASSUME all # {} PROVE page # {}
  <2>1. PICK i \in all : \A j \in all : i <= j
    <3>1. all \in SUBSET Nat
      BY <1>1
    <3> HIDE DEF all
    <3> QED BY <3>1, <1>7, FirstPlace
  <2>2. upto(i) = {i}
    BY <2>1, <1>1
  <2>3. Cardinality(upto(i)) = 1
    BY <2>2, FS_Singleton
  <2>4. Cardinality(upto(i)) <= limit
    <3> HIDE DEF upto
    <3> QED BY <2>3
  <2> QED BY <2>4, <1>4
<1>8. ASSUME Cardinality(all) <= limit PROVE page = all
  <2>1. ASSUME NEW i \in all PROVE Cardinality(upto(i)) <= limit
    <3>1. Cardinality(upto(i)) <= Cardinality(all)
      BY <1>2, <1>3, FS_Subset
    <3>2. Cardinality(all) \in Nat
      BY <1>2, FS_CardinalityType
    <3> HIDE DEF upto, all
    <3> QED BY <3>1, <3>2, <1>5, <1>8
  <2> QED BY <2>1, <1>4
<1>9. ASSUME Cardinality(all) > limit PROVE all # {}
  <2> SUFFICES ASSUME all = {} PROVE FALSE
    OBVIOUS
  <2>1. Cardinality(all) = 0
    BY FS_EmptySet
  <2> HIDE DEF all
  <2> QED BY <1>9, <2>1
<1>10. page \subseteq all
  BY <1>4
<1> HIDE DEF all, page, upto
<1>11. \A i \in page : \A j \in all : j <= i => j \in page
  BY <1>6
<1>12. /\ all \subseteq 1..Len(history) /\ page \subseteq all
       /\ \A i \in page : \A j \in all : j <= i => j \in page
       /\ all # {} => page # {}
       /\ Cardinality(all) <= limit => page = all
       /\ Cardinality(all) > limit => all # {}
  BY <1>1, <1>7, <1>8, <1>9, <1>10, <1>11
<1> QED BY <1>12 DEF all, page


-----------------------------------------------------------------------------
(* The invariant: types, and what a feed has behind its cursor.              *)

Feed(n) ==
  [state : {"off", "opened", "live"}, filter : Names \cup {AnyName},
   cursor : 0..n, since : 0..n, more : BOOLEAN, truncated : BOOLEAN,
   queue : Seq(1..n), lagged : BOOLEAN, seen : SUBSET (1..n)]

LEMMA HubTypes ==
  HubTypeOK <=> /\ log \in Seq(Names) /\ history \in Seq(Numbers)
                /\ sending \in [Publishers -> 0..Len(log)]
                /\ feeds \in [Subscribers -> Feed(Len(log))]
BY DEF HubTypeOK, Feed, Numbers

(* A feed that is only opened begins at its cursor; pages that are left out   *)
(* lie behind an event that was read.                                        *)
FeedBegins(s) ==
  /\ feeds[s].state = "opened" =>
       feeds[s].since = feeds[s].cursor /\ ~feeds[s].truncated
  /\ feeds[s].more => feeds[s].cursor # 0

(* All that was asked for up to the cursor was seen.                          *)
Asked(s, q) == q > feeds[s].since /\ Passes(feeds[s].filter, q)
ReadBehind(s) ==
  feeds[s].state = "live" /\ ~feeds[s].truncated =>
    \A q \in Numbers : Asked(s, q) /\ q <= feeds[s].cursor => q \in feeds[s].seen

FeedMissesNothing(s) ==
  Complete(s) => \A q \in Numbers : Asked(s, q) => q \in feeds[s].seen \cup OnTheWay(s)

HubInv ==
  /\ HubTypeOK /\ HistoryIsTail
  /\ \A s \in Subscribers : FeedBegins(s) /\ ReadBehind(s) /\ FeedMissesNothing(s)

LEMMA HubInvHolds == HubInv => HubHolds
BY DEF HubInv, HubHolds, NothingMissed, FeedMissesNothing, Asked

LEMMA HubStarts == HubInit => HubInv
<1> SUFFICES ASSUME HubInit PROVE HubInv
  OBVIOUS
<1>1. Len(log) = 0 /\ Numbers = {} /\ history = <<>>
  BY DEF HubInit, Numbers
<1>2. NoFeed \in Feed(0)
  BY DEF NoFeed, Feed
<1>3. HubTypeOK
  BY <1>1, <1>2, HubTypes DEF HubInit
<1>4. HistoryIsTail
  BY <1>1, HubBoundsAssumption DEF HistoryIsTail
<1>5. \A s \in Subscribers : FeedBegins(s) /\ ReadBehind(s) /\ FeedMissesNothing(s)
  BY <1>1 DEF HubInit, NoFeed, FeedBegins, ReadBehind, FeedMissesNothing, Complete
<1> QED BY <1>3, <1>4, <1>5 DEF HubInv

(* The history keeps the newest numbers.                                     *)
LEMMA HistoryMoves ==
  ASSUME HubTypeOK, HistoryIsTail, NEW name, log' = Append(log, name),
         history' = Trim(Append(history, NextSeq))
  PROVE  HistoryIsTail' /\ history' \in Seq(1..Len(log) + 1)
<1> DEFINE long == Append(history, NextSeq)
<1>1. /\ log \in Seq(Names) /\ history \in Seq(1..Len(log)) /\ Len(log) \in Nat
      /\ HistoryLimit \in Nat \ {0}
  BY HubBoundsAssumption DEF HubTypeOK, Numbers
<1>2. Len(log') = Len(log) + 1
  BY <1>1
<1>3. /\ long \in Seq(1..Len(log) + 1) /\ Len(long) = Len(history) + 1
      /\ \A i \in 1..Len(long) : long[i] = Len(log) + 1 - Len(long) + i
  <2>1. long \in Seq(1..Len(log) + 1) /\ Len(long) = Len(history) + 1
    BY <1>1 DEF NextSeq
  <2>2. long[Len(history) + 1] = Len(log) + 1
    BY <1>1 DEF NextSeq
  <2>3. \A i \in 1..Len(history) : long[i] = history[i]
    BY <1>1
  <2> HIDE DEF long
  <2>4. \A i \in 1..Len(history) : history[i] = Len(log) - Len(history) + i
    BY DEF HistoryIsTail
  <2>5. Len(history) \in Nat
    BY <1>1
  <2>6. \A i \in 1..Len(long) : i \in 1..Len(history) \/ i = Len(history) + 1
    BY <2>1, <2>5
  <2>7. ASSUME NEW i \in 1..Len(long) PROVE long[i] = Len(log) + 1 - Len(long) + i
    <3>1. CASE i \in 1..Len(history)
      <4>1. long[i] = Len(log) - Len(history) + i
        BY <2>3, <2>4, <3>1
      <4> QED BY <1>1, <2>1, <2>5, <4>1
    <3>2. CASE i = Len(history) + 1
      BY <1>1, <2>1, <2>2, <2>5, <3>2
    <3> QED BY <2>6, <3>1, <3>2
  <2> QED BY <2>1, <2>7
<1> HIDE DEF long
<1>4. CASE Len(long) > HistoryLimit
  <2>1. history' = Tail(long)
    BY <1>4 DEF Trim, long
  <2>2. /\ Len(history') = Len(long) - 1 /\ history' \in Seq(1..Len(log) + 1)
        /\ \A i \in 1..Len(history') : history'[i] = long[i + 1]
    BY <1>1, <1>3, <2>1
  <2>3. Len(history) = HistoryLimit /\ Len(log) >= HistoryLimit
    BY <1>1, <1>3, <1>4 DEF HistoryIsTail
  <2>4. \A i \in 1..Len(history') : history'[i] = Len(log') - Len(history') + i
    BY <1>1, <1>2, <1>3, <2>2
  <2>5. Len(history') = IF Len(log') < HistoryLimit THEN Len(log') ELSE HistoryLimit
    BY <1>1, <1>2, <1>3, <2>2, <2>3
  <2> QED BY <2>2, <2>4, <2>5 DEF HistoryIsTail
<1>5. CASE ~(Len(long) > HistoryLimit)
  <2>1. history' = long
    BY <1>5 DEF Trim, long
  <2>2. Len(history) = Len(log) /\ Len(log) < HistoryLimit
    BY <1>1, <1>3, <1>5 DEF HistoryIsTail
  <2>3. Len(history') = IF Len(log') < HistoryLimit THEN Len(log') ELSE HistoryLimit
    BY <1>1, <1>2, <1>3, <2>1, <2>2
  <2>4. \A i \in 1..Len(history') : history'[i] = Len(log') - Len(history') + i
    BY <1>2, <1>3, <2>1
  <2> QED BY <1>3, <2>1, <2>3, <2>4 DEF HistoryIsTail
<1> QED BY <1>4, <1>5


-----------------------------------------------------------------------------
(* A page of a feed.                                                         *)

(* What is not truncated is all in the history.                              *)
LEMMA TurnReads ==
  ASSUME HubTypeOK, HistoryIsTail, NEW s \in Subscribers, NEW limit \in Nat \ {0},
         NEW feed, feed = Turned(feeds[s], limit)
  PROVE  /\ feed \in Feed(Len(log)) /\ feed.state = "live"
         /\ feed.filter = feeds[s].filter /\ feed.queue = feeds[s].queue
         /\ feed.lagged = feeds[s].lagged
         /\ feed.truncated = (feeds[s].truncated \/
              (feeds[s].cursor # 0 /\ feeds[s].cursor + 1 < Oldest(feeds[s].cursor)))
         /\ feeds[s].seen \subseteq feed.seen
         /\ feed.more => feed.cursor # 0
         /\ \A q \in Numbers :
              /\ q > feeds[s].cursor /\ Passes(feed.filter, q)
              /\ \E i \in 1..Len(history) : history[i] = q
              /\ q <= feed.cursor \/ ~feed.more
              => q \in feed.seen
<1> DEFINE old == feeds[s]
           all == After(old.cursor, old.filter)
           page == Page(old.cursor, old.filter, limit)
<1>1. /\ old \in Feed(Len(log)) /\ history \in Seq(Numbers) /\ Len(log) \in Nat
      /\ history \in Seq(Nat) /\ Len(history) \in Nat
  BY HubTypes DEF Numbers
<1>2. /\ all \subseteq 1..Len(history) /\ page \subseteq all
      /\ \A i \in page : \A j \in all : j <= i => j \in page
      /\ all # {} => page # {}
      /\ Cardinality(all) <= limit => page = all
      /\ Cardinality(all) > limit => all # {}
  BY <1>1, PagePlaces
<1>3. /\ feed.state = "live" /\ feed.filter = old.filter /\ feed.queue = old.queue
      /\ feed.lagged = old.lagged
      /\ feed.truncated = (old.truncated \/
           (old.cursor # 0 /\ old.cursor + 1 < Oldest(old.cursor)))
      /\ feed.more = (Cardinality(all) > limit)
      /\ feed.cursor = PageEnd(page, old.cursor)
      /\ feed.seen = old.seen \cup {history[i] : i \in page}
      /\ feed.since = IF old.cursor = 0 /\ old.since = 0 /\ history # <<>>
                        THEN history[1] - 1 ELSE old.since
      /\ DOMAIN feed = DOMAIN old
  BY <1>1 DEF Turned, Feed
<1>4. \A i \in 1..Len(history) : history[i] \in 1..Len(log)
  BY <1>1 DEF Numbers
<1>5. ASSUME page # {}
      PROVE  /\ Max(page) \in page /\ (\A j \in page : j <= Max(page))
             /\ feed.cursor = history[Max(page)]
  <2>1. page \in SUBSET (1..Len(history))
    BY <1>2
  <2> HIDE DEF page
  <2> QED BY <1>1, <1>3, <1>5, <2>1, LastPlace DEF PageEnd
<1>6. feed.cursor \in 0..Len(log)
  <2>1. CASE page = {}
    BY <1>1, <1>3, <2>1 DEF PageEnd, Feed
  <2>2. CASE page # {}
    BY <1>1, <1>2, <1>4, <1>5, <2>2
  <2> QED BY <2>1, <2>2
<1>7. feed.since \in 0..Len(log)
  <2>1. CASE history = <<>>
    BY <1>1, <1>3, <2>1 DEF Feed
  <2>2. CASE history # <<>>
    <3>1. history[1] \in 1..Len(log)
      BY <1>1, <1>4, <2>2
    <3> QED BY <1>1, <1>3, <3>1 DEF Feed
  <2> QED BY <2>1, <2>2
<1>8. feed.seen \in SUBSET (1..Len(log))
  BY <1>1, <1>2, <1>3, <1>4, SMTT(30) DEF Feed
<1>9. feed \in Feed(Len(log))
  <2>1. feed = [feed EXCEPT !.state = "live"]
    BY <1>1, <1>3 DEF Turned, Feed
  <2>2. feed = [state |-> "live", filter |-> old.filter, cursor |-> feed.cursor,
                since |-> feed.since, more |-> feed.more, truncated |-> feed.truncated,
                queue |-> old.queue, lagged |-> old.lagged, seen |-> feed.seen]
    BY <1>1 DEF Turned, Feed
  <2>3. feed.more \in BOOLEAN /\ feed.truncated \in BOOLEAN
    <3> HIDE DEF all
    <3> QED BY <1>3
  <2> QED BY <1>1, <1>6, <1>7, <1>8, <2>2, <2>3 DEF Feed
<1>10. ASSUME feed.more PROVE feed.cursor # 0
  <2>1. page # {}
    <3> HIDE DEF all, page
    <3> QED BY <1>2, <1>3, <1>10
  <2> QED BY <1>1, <1>2, <1>4, <1>5, <2>1
<1>11. ASSUME NEW q \in Numbers, q > old.cursor, Passes(feed.filter, q),
              NEW i \in 1..Len(history), history[i] = q, q <= feed.cursor \/ ~feed.more
       PROVE  q \in feed.seen
  <2>1. i \in all
    BY <1>3, <1>11 DEF After
  <2>2. CASE ~feed.more
    <3>1. Cardinality(all) <= limit
      <4>1. IsFiniteSet(all)
        <5>1. IsFiniteSet(1..Len(history))
          BY <1>1, FS_Interval
        <5> HIDE DEF all
        <5> QED BY <1>2, <5>1, FS_Subset
      <4>2. Cardinality(all) \in Nat
        BY <4>1, FS_CardinalityType
      <4>3. ~(Cardinality(all) > limit)
        BY <1>3, <2>2
      <4> HIDE DEF all
      <4> QED BY <4>2, <4>3
    <3> QED BY <1>2, <1>3, <1>11, <2>1, <3>1
  <2>3. CASE q <= feed.cursor
    <3>1. page # {}
      BY <1>1, <1>2, <2>1
    <3>2. history[i] <= history[Max(page)] /\ Max(page) \in 1..Len(history)
      BY <1>2, <1>5, <1>11, <2>3, <3>1
    <3>3. i <= Max(page)
      <4> HIDE DEF page
      <4>1. history[i] = Len(log) - Len(history) + i
        BY DEF HistoryIsTail
      <4>2. history[Max(page)] = Len(log) - Len(history) + Max(page)
        BY <3>2 DEF HistoryIsTail
      <4> QED BY <1>1, <3>2, <4>1, <4>2
    <3>4. i \in page
      BY <1>2, <1>5, <2>1, <3>1, <3>3
    <3> QED BY <1>3, <1>11, <3>4
  <2> QED BY <1>11, <2>2, <2>3
<1> HIDE DEF all, page
<1> QED BY <1>3, <1>9, <1>10, <1>11


-----------------------------------------------------------------------------
(* The steps.                                                                *)

(* A step of the subscriber that leaves all other feeds alone.                *)
LEMMA OneFeed ==
  ASSUME HubInv, NEW s \in Subscribers, NEW feed \in Feed(Len(log)),
         feeds' = [feeds EXCEPT ![s] = feed], UNCHANGED <<log, history, sending>>,
         FeedBegins(s)', ReadBehind(s)', FeedMissesNothing(s)'
  PROVE  HubInv'
<1>1. HubTypeOK'
  <2>1. /\ log' \in Seq(Names) /\ history' \in Seq(Numbers')
        /\ sending' \in [Publishers -> 0..Len(log')]
        /\ feeds' \in [Subscribers -> Feed(Len(log'))]
    BY HubTypes DEF HubInv, Numbers
  <2>2. (HubTypeOK <=> /\ log \in Seq(Names) /\ history \in Seq(Numbers)
                       /\ sending \in [Publishers -> 0..Len(log)]
                       /\ feeds \in [Subscribers -> Feed(Len(log))])'
    BY HubTypes, PTL
  <2> QED BY <2>1, <2>2
<1>2. HistoryIsTail'
  BY DEF HubInv, HistoryIsTail
<1>3. ASSUME NEW t \in Subscribers
      PROVE  (FeedBegins(t) /\ ReadBehind(t) /\ FeedMissesNothing(t))'
  <2>1. CASE t = s
    BY <2>1
  <2>2. CASE t # s
    <3>1. feeds'[t] = feeds[t]
      BY <2>2, HubTypes DEF HubInv
    <3>2. FeedBegins(t) /\ ReadBehind(t) /\ FeedMissesNothing(t)
      BY DEF HubInv
    <3> QED BY <3>1, <3>2 DEF FeedBegins, ReadBehind, FeedMissesNothing, Complete, Asked,
                              Passes, OnTheWay, Numbers
  <2> QED BY <2>1, <2>2
<1> QED BY <1>1, <1>2, <1>3 DEF HubInv

(* A page of a feed whose history reaches back to its cursor closes the gap.  *)
LEMMA TurnStep ==
  ASSUME HubInv, NEW s \in Subscribers, NEW limit \in PageLimits,
         feeds[s].state = "opened" \/ (feeds[s].state = "live" /\ feeds[s].more),
         feeds' = [feeds EXCEPT ![s] = Turned(@, limit)],
         UNCHANGED <<log, history, sending>>
  PROVE  HubInv'
<1> DEFINE old == feeds[s]
           feed == Turned(feeds[s], limit)
<1>1. /\ old \in Feed(Len(log)) /\ history \in Seq(Numbers) /\ Len(log) \in Nat
      /\ feeds \in [Subscribers -> Feed(Len(log))] /\ limit \in Nat \ {0}
      /\ Len(history) \in Nat
  BY HubTypes, HubBoundsAssumption DEF HubInv, Numbers
<1>2. /\ FeedBegins(s) /\ ReadBehind(s) /\ HubTypeOK /\ HistoryIsTail
  BY DEF HubInv
<1>3. /\ feed \in Feed(Len(log)) /\ feed.state = "live"
      /\ feed.filter = old.filter
      /\ feed.truncated = (old.truncated \/
           (old.cursor # 0 /\ old.cursor + 1 < Oldest(old.cursor)))
      /\ old.seen \subseteq feed.seen
      /\ feed.more => feed.cursor # 0
      /\ \A q \in Numbers :
           /\ q > old.cursor /\ Passes(feed.filter, q)
           /\ \E i \in 1..Len(history) : history[i] = q
           /\ q <= feed.cursor \/ ~feed.more
           => q \in feed.seen
  BY <1>1, <1>2, TurnReads
<1>4. feed.since = IF old.cursor = 0 /\ old.since = 0 /\ history # <<>>
                     THEN history[1] - 1 ELSE old.since
  BY <1>1 DEF Turned, Feed
<1> HIDE DEF feed
<1>5. feeds' = [feeds EXCEPT ![s] = feed] /\ feeds'[s] = feed
  BY <1>1 DEF feed
(* What is asked for is in the history or was seen before.                    *)
<1>6. ASSUME ~feed.truncated, NEW q \in Numbers, q > feed.since, Passes(feed.filter, q)
      PROVE  q \in feed.seen \/ (q > old.cursor /\ \E i \in 1..Len(history) : history[i] = q)
  <2>1. q \in Nat /\ q \in 1..Len(log) /\ old.cursor \in Nat /\ old.since \in Nat
    BY <1>1 DEF Numbers, Feed
  <2>2. CASE q <= old.cursor
    <3>1. old.since = feed.since
      BY <1>4, <2>1, <2>2
    <3>2. old.state = "live"
      BY <1>2, <1>6, <2>1, <2>2, <3>1 DEF FeedBegins
    <3>3. q \in old.seen
      BY <1>2, <1>3, <1>6, <2>2, <3>1, <3>2 DEF ReadBehind, Asked
    <3> QED BY <1>3, <3>3
  <2>3. CASE q > old.cursor
    <3>1. history # <<>> /\ Len(history) >= 1
      BY <1>1, <1>2, <2>1, HubBoundsAssumption DEF HistoryIsTail
    <3>2. q >= history[1]
      <4>1. history[1] \in Nat
        BY <1>1, <3>1 DEF Numbers
      <4>2. CASE old.cursor # 0
        <5>1. Oldest(old.cursor) = history[1]
          BY <3>1 DEF Oldest
        <5>2. ~(old.cursor + 1 < history[1])
          BY <1>3, <1>6, <4>2, <5>1
        <5> QED BY <2>1, <2>3, <4>1, <5>2
      <4>3. CASE old.cursor = 0
        <5>1. old.since = 0
          <6>1. old.state = "opened"
            BY <1>2, <4>3 DEF FeedBegins
          <6> QED BY <1>2, <4>3, <6>1 DEF FeedBegins
        <5> QED BY <1>4, <1>6, <2>1, <3>1, <4>1, <4>3, <5>1
      <4> QED BY <4>2, <4>3
    <3>3. history[1] = Len(log) - Len(history) + 1
      BY <1>1, <1>2, <3>1 DEF HistoryIsTail
    <3> DEFINE i == q - (Len(log) - Len(history))
    <3>4. i \in 1..Len(history)
      BY <1>1, <2>1, <3>2, <3>3
    <3>5. history[i] = q
      <4>1. history[i] = Len(log) - Len(history) + i
        BY <1>2, <3>4 DEF HistoryIsTail
      <4> QED BY <1>1, <2>1, <4>1
    <3> QED BY <2>3, <3>4, <3>5
  <2> QED BY <2>1, <2>2, <2>3
<1>7. FeedBegins(s)'
  BY <1>3, <1>5 DEF FeedBegins
<1>8. ReadBehind(s)'
  BY <1>3, <1>5, <1>6 DEF ReadBehind, Asked, Passes, Numbers
<1>9. FeedMissesNothing(s)'
  BY <1>3, <1>5, <1>6 DEF FeedMissesNothing, Complete, Asked, Passes, Numbers
<1> QED BY <1>3, <1>5, <1>7, <1>8, <1>9, OneFeed


LEMMA FeedGrows ==
  ASSUME NEW n \in Nat
  PROVE  Feed(n) \subseteq Feed(n + 1)
<1>1. 1..n \subseteq 1..(n + 1) /\ 0..n \subseteq 0..(n + 1)
  OBVIOUS
<1>2. ASSUME NEW q \in Seq(1..n) PROVE q \in Seq(1..(n + 1))
  <2>1. Len(q) \in Nat /\ q \in [1..Len(q) -> 1..n]
    OBVIOUS
  <2>2. q \in [1..Len(q) -> 1..(n + 1)]
    BY <1>1, <2>1
  <2> QED BY <2>1, <2>2
<1>3. Seq(1..n) \subseteq Seq(1..(n + 1))
  BY <1>2
<1>4. SUBSET (1..n) \subseteq SUBSET (1..(n + 1))
  BY <1>1
<1> QED BY <1>1, <1>3, <1>4 DEF Feed

LEMMA NumberStep ==
  ASSUME HubInv, NEW p \in Publishers, NEW name \in Names, Number(p, name)
  PROVE  HubInv'
<1>1. /\ log \in Seq(Names) /\ history \in Seq(Numbers) /\ Len(log) \in Nat
      /\ sending \in [Publishers -> 0..Len(log)]
      /\ feeds \in [Subscribers -> Feed(Len(log))] /\ HubTypeOK /\ HistoryIsTail
  BY HubTypes DEF HubInv
<1>2. /\ log' = Append(log, name) /\ history' = Trim(Append(history, NextSeq))
      /\ sending' = [sending EXCEPT ![p] = NextSeq] /\ feeds' = feeds /\ sending[p] = 0
  BY DEF Number
<1>3. /\ log' \in Seq(Names) /\ Len(log') = Len(log) + 1
      /\ Numbers' = Numbers \cup {NextSeq} /\ NextSeq = Len(log) + 1
      /\ \A q \in Numbers : log'[q] = log[q]
  BY <1>1, <1>2 DEF Numbers, NextSeq
<1>4. HistoryIsTail' /\ history' \in Seq(Numbers')
  <2>1. HistoryIsTail' /\ history' \in Seq(1..Len(log) + 1)
    BY <1>1, <1>2, HistoryMoves
  <2> QED BY <1>3, <2>1 DEF Numbers
<1>5. sending' \in [Publishers -> 0..Len(log')]
  BY <1>1, <1>2, <1>3
<1>6. feeds' \in [Subscribers -> Feed(Len(log'))]
  <2>1. Feed(Len(log)) \subseteq Feed(Len(log'))
    BY <1>1, <1>3, FeedGrows
  <2> QED BY <1>1, <1>2, <2>1
<1>7. HubTypeOK'
  <2>1. (HubTypeOK <=> /\ log \in Seq(Names) /\ history \in Seq(Numbers)
                       /\ sending \in [Publishers -> 0..Len(log)]
                       /\ feeds \in [Subscribers -> Feed(Len(log))])'
    BY HubTypes, PTL
  <2> QED BY <1>3, <1>4, <1>5, <1>6, <2>1
<1>8. ASSUME NEW s \in Subscribers
      PROVE  (FeedBegins(s) /\ ReadBehind(s) /\ FeedMissesNothing(s))'
  <2>1. FeedBegins(s) /\ ReadBehind(s) /\ FeedMissesNothing(s)
    BY DEF HubInv
  <2>2. FeedBegins(s)'
    BY <1>2, <2>1 DEF FeedBegins
  <2>3. \A q \in Numbers : Asked(s, q)' <=> Asked(s, q)
    BY <1>2, <1>3 DEF Asked, Passes
  <2>4. ReadBehind(s)'
    <3>1. feeds[s].cursor \in 0..Len(log)
      BY <1>1 DEF Feed
    <3>2. ~(NextSeq <= feeds[s].cursor)
      BY <1>1, <1>3, <3>1
    <3> QED BY <1>2, <1>3, <2>1, <2>3, <3>2 DEF ReadBehind
  <2>5. OnTheWay(s) \cap Numbers \subseteq OnTheWay(s)' /\ NextSeq \in OnTheWay(s)'
    <3>1. 0 \notin Numbers
      BY DEF Numbers
    <3>2. \A r \in Publishers : sending[r] \in Numbers => sending'[r] = sending[r]
      BY <1>1, <1>2, <3>1
    <3>3. sending'[p] = NextSeq
      BY <1>1, <1>2
    <3> QED BY <1>2, <3>2, <3>3 DEF OnTheWay
  <2>6. FeedMissesNothing(s)'
    BY <1>2, <1>3, <2>1, <2>3, <2>5 DEF FeedMissesNothing, Complete
  <2> QED BY <2>2, <2>4, <2>6
<1> QED BY <1>4, <1>7, <1>8 DEF HubInv

LEMMA BroadcastStep ==
  ASSUME HubInv, NEW p \in Publishers, Broadcast(p)
  PROVE  HubInv'
<1>1. /\ log \in Seq(Names) /\ history \in Seq(Numbers) /\ Len(log) \in Nat
      /\ sending \in [Publishers -> 0..Len(log)]
      /\ feeds \in [Subscribers -> Feed(Len(log))] /\ HubTypeOK /\ HistoryIsTail
  BY HubTypes DEF HubInv
<1>2. /\ log' = log /\ history' = history /\ sending' = [sending EXCEPT ![p] = 0]
      /\ feeds' = [s \in Subscribers |-> Push(feeds[s], sending[p])]
      /\ sending[p] \in 1..Len(log) /\ Numbers' = Numbers
  BY <1>1 DEF Broadcast, Numbers
<1>3. ASSUME NEW s \in Subscribers
      PROVE  /\ feeds'[s] \in Feed(Len(log))
             /\ feeds'[s] = [feeds[s] EXCEPT !.queue = feeds'[s].queue,
                                             !.lagged = feeds'[s].lagged]
             /\ feeds[s].lagged => feeds'[s].lagged
             /\ feeds[s].state # "off" /\ ~feeds'[s].lagged =>
                  feeds'[s].queue = Append(feeds[s].queue, sending[p])
  <2>1. feeds[s] \in Feed(Len(log)) /\ feeds'[s] = Push(feeds[s], sending[p])
    BY <1>1, <1>2
  <2>2. CASE feeds[s].state = "off"
    BY <2>1, <2>2 DEF Push, Feed
  <2>3. CASE feeds[s].state # "off" /\ Len(feeds[s].queue) < BroadcastCapacity
    <3>1. feeds'[s] = [feeds[s] EXCEPT !.queue = Append(feeds[s].queue, sending[p])]
      BY <2>1, <2>3 DEF Push
    <3>2. Append(feeds[s].queue, sending[p]) \in Seq(1..Len(log))
      BY <1>2, <2>1 DEF Feed
    <3> QED BY <2>1, <3>1, <3>2 DEF Feed
  <2>4. CASE feeds[s].state # "off" /\ ~(Len(feeds[s].queue) < BroadcastCapacity)
    <3>1. feeds'[s] = [feeds[s] EXCEPT !.queue = Append(Tail(feeds[s].queue), sending[p]),
                                       !.lagged = TRUE]
      BY <2>1, <2>4 DEF Push
    <3>2. Append(Tail(feeds[s].queue), sending[p]) \in Seq(1..Len(log))
      <4>1. feeds[s].queue \in Seq(1..Len(log)) /\ feeds[s].queue # <<>>
        BY <2>1, <2>4, HubBoundsAssumption DEF Feed
      <4>2. Tail(feeds[s].queue) \in Seq(1..Len(log))
        BY <4>1, HeadTailProperties
      <4>3. sending[p] \in 1..Len(log)
        BY <1>2
      <4> QED BY <4>2, <4>3
    <3> QED BY <2>1, <3>1, <3>2 DEF Feed
  <2> QED BY <2>2, <2>3, <2>4
<1>4. HubTypeOK'
  <2>1. /\ sending' \in [Publishers -> 0..Len(log')]
        /\ feeds' \in [Subscribers -> Feed(Len(log'))]
        /\ log' \in Seq(Names) /\ history' \in Seq(Numbers')
    <3>1. feeds' \in [Subscribers -> Feed(Len(log))]
      <4>1. DOMAIN feeds' = Subscribers /\ feeds' = [s \in Subscribers |-> feeds'[s]]
        BY <1>2
      <4> QED BY <1>3, <4>1
    <3> QED BY <1>1, <1>2, <3>1
  <2>2. (HubTypeOK <=> /\ log \in Seq(Names) /\ history \in Seq(Numbers)
                       /\ sending \in [Publishers -> 0..Len(log)]
                       /\ feeds \in [Subscribers -> Feed(Len(log))])'
    BY HubTypes, PTL
  <2> QED BY <2>1, <2>2
<1>5. HistoryIsTail'
  BY <1>1, <1>2 DEF HistoryIsTail
<1>6. ASSUME NEW s \in Subscribers
      PROVE  (FeedBegins(s) /\ ReadBehind(s) /\ FeedMissesNothing(s))'
  <2>1. FeedBegins(s) /\ ReadBehind(s) /\ FeedMissesNothing(s)
    BY DEF HubInv
  <2>2. /\ feeds[s] \in Feed(Len(log)) /\ feeds'[s].state = feeds[s].state
        /\ feeds'[s].filter = feeds[s].filter /\ feeds'[s].cursor = feeds[s].cursor
        /\ feeds'[s].since = feeds[s].since /\ feeds'[s].more = feeds[s].more
        /\ feeds'[s].truncated = feeds[s].truncated /\ feeds'[s].seen = feeds[s].seen
    BY <1>1, <1>3, ZenonT(40) DEF Feed
  <2>3. FeedBegins(s)' /\ ReadBehind(s)'
    BY <1>2, <2>1, <2>2 DEF FeedBegins, ReadBehind, Asked, Passes
  <2>4. FeedMissesNothing(s)'
    <3> SUFFICES ASSUME Complete(s)', NEW q \in Numbers, Asked(s, q)'
                 PROVE  q \in (feeds[s].seen \cup OnTheWay(s))'
      BY <1>2 DEF FeedMissesNothing
    <3>1. /\ feeds'[s].queue = Append(feeds[s].queue, sending[p])
          /\ Complete(s) /\ Asked(s, q)
      BY <1>2, <1>3, <2>2 DEF Complete, Asked, Passes
    <3>2. q \in feeds[s].seen \cup OnTheWay(s)
      BY <2>1, <3>1 DEF FeedMissesNothing
    <3>3. CASE q \in feeds[s].seen
      BY <2>2, <3>3
    <3>4. CASE \E i \in 1..Len(feeds[s].queue) : feeds[s].queue[i] = q
      <4>1. PICK i \in 1..Len(feeds[s].queue) : feeds[s].queue[i] = q
        BY <3>4
      <4>2. feeds[s].queue \in Seq(1..Len(log))
        BY <2>2 DEF Feed
      <4>3. i \in 1..Len(feeds'[s].queue) /\ feeds'[s].queue[i] = q
        BY <3>1, <4>1, <4>2
      <4> QED BY <4>3 DEF OnTheWay
    <3>5. CASE \E r \in Publishers : sending[r] = q
      <4>1. PICK r \in Publishers : sending[r] = q
        BY <3>5
      <4>2. CASE r = p
        <5>1. feeds[s].queue \in Seq(1..Len(log))
          BY <2>2 DEF Feed
        <5>2. /\ Len(feeds[s].queue) + 1 \in 1..Len(feeds'[s].queue)
              /\ feeds'[s].queue[Len(feeds[s].queue) + 1] = q
          BY <3>1, <4>1, <4>2, <5>1
        <5> QED BY <5>2 DEF OnTheWay
      <4>3. CASE r # p
        <5>1. sending'[r] = q
          BY <1>1, <1>2, <4>1, <4>3
        <5> QED BY <4>1, <5>1 DEF OnTheWay
      <4> QED BY <4>2, <4>3
    <3> QED BY <3>2, <3>3, <3>4, <3>5 DEF OnTheWay
  <2> QED BY <2>3, <2>4
<1> QED BY <1>4, <1>5, <1>6 DEF HubInv


LEMMA OpenStep ==
  ASSUME HubInv, NEW s \in Subscribers, NEW filter \in Names \cup {AnyName},
         OpenFeed(s, filter)
  PROVE  HubInv'
<1> DEFINE feed == [NoFeed EXCEPT !.state = "opened", !.filter = filter,
                      !.cursor = feeds[s].cursor, !.since = feeds[s].cursor]
<1>1. feeds \in [Subscribers -> Feed(Len(log))] /\ Len(log) \in Nat
  BY HubTypes DEF HubInv
<1>2. feeds' = [feeds EXCEPT ![s] = feed] /\ UNCHANGED <<log, history, sending>>
  BY DEF OpenFeed
<1>3. feed \in Feed(Len(log))
  <2>1. feeds[s].cursor \in 0..Len(log) /\ 0 \in 0..Len(log)
    BY <1>1 DEF Feed
  <2>2. <<>> \in Seq(1..Len(log))
    OBVIOUS
  <2> QED BY <2>1, <2>2 DEF Feed, NoFeed
<1>4. feeds'[s] = feed
  BY <1>1, <1>2
<1>5. FeedBegins(s)' /\ ReadBehind(s)' /\ FeedMissesNothing(s)'
  BY <1>4 DEF FeedBegins, ReadBehind, FeedMissesNothing, Complete, NoFeed
<1> QED BY <1>2, <1>3, <1>5, OneFeed

LEMMA ForwardStep ==
  ASSUME HubInv, NEW s \in Subscribers, Forward(s)
  PROVE  HubInv'
<1> DEFINE old == feeds[s]
           q0 == old.queue[1]
           feed == [old EXCEPT !.queue = Tail(@),
                               !.seen = IF Passes(old.filter, q0) THEN @ \cup {q0} ELSE @]
<1>1. /\ feeds \in [Subscribers -> Feed(Len(log))] /\ Len(log) \in Nat
      /\ old \in Feed(Len(log))
  BY HubTypes DEF HubInv
<1>2. feeds' = [feeds EXCEPT ![s] = feed] /\ UNCHANGED <<log, history, sending>>
  BY <1>1 DEF Forward
<1>3. old.queue \in Seq(1..Len(log)) /\ Len(old.queue) > 0 /\ q0 \in 1..Len(log)
  BY <1>1 DEF Forward, Feed
<1>4. Tail(old.queue) \in Seq(1..Len(log))
  <2>1. old.queue # <<>>
    BY DEF Forward
  <2> QED BY <1>3, <2>1, HeadTailProperties
<1>5. /\ feed \in Feed(Len(log)) /\ feed.state = old.state /\ feed.filter = old.filter
      /\ feed.cursor = old.cursor /\ feed.since = old.since /\ feed.more = old.more
      /\ feed.truncated = old.truncated /\ feed.lagged = old.lagged
      /\ feed.queue = Tail(old.queue) /\ old.seen \subseteq feed.seen
      /\ Passes(old.filter, q0) => q0 \in feed.seen
  BY <1>1, <1>3, <1>4 DEF Feed
<1>6. feeds'[s] = feed
  BY <1>1, <1>2
<1> HIDE DEF feed
<1>7. FeedBegins(s) /\ ReadBehind(s) /\ FeedMissesNothing(s)
  BY DEF HubInv
<1>8. FeedBegins(s)' /\ ReadBehind(s)'
  BY <1>2, <1>5, <1>6, <1>7 DEF FeedBegins, ReadBehind, Asked, Passes, Numbers
<1>9. FeedMissesNothing(s)'
  <2> SUFFICES ASSUME Complete(s)', NEW q \in Numbers, Asked(s, q)'
               PROVE  q \in (feeds[s].seen \cup OnTheWay(s))'
    BY <1>2 DEF FeedMissesNothing, Numbers
  <2>1. Complete(s) /\ Asked(s, q)
    BY <1>2, <1>5, <1>6 DEF Complete, Asked, Passes
  <2>2. q \in old.seen \cup OnTheWay(s)
    BY <1>7, <2>1 DEF FeedMissesNothing
  <2>3. CASE q \in old.seen \/ \E r \in Publishers : sending[r] = q
    BY <1>2, <1>5, <1>6, <2>3 DEF OnTheWay
  <2>4. CASE \E i \in 1..Len(old.queue) : old.queue[i] = q
    <3>1. PICK i \in 1..Len(old.queue) : old.queue[i] = q
      BY <2>4
    <3>2. CASE i = 1
      BY <1>5, <1>6, <2>1, <3>1, <3>2 DEF Asked
    <3>3. CASE i # 1
      <4>1. old.queue # <<>> /\ i - 1 \in 1..Len(old.queue) - 1
        BY <1>3, <3>1, <3>3
      <4>2. /\ Len(Tail(old.queue)) = Len(old.queue) - 1
            /\ \A k \in 1..Len(Tail(old.queue)) : Tail(old.queue)[k] = old.queue[k + 1]
        BY <1>3, <4>1, HeadTailProperties
      <4>3. i - 1 \in 1..Len(Tail(old.queue)) /\ Tail(old.queue)[i - 1] = q
        BY <3>1, <4>1, <4>2
      <4> QED BY <1>5, <1>6, <4>3 DEF OnTheWay
    <3> QED BY <3>2, <3>3
  <2> QED BY <2>2, <2>3, <2>4 DEF OnTheWay
<1> QED BY <1>2, <1>5, <1>8, <1>9, OneFeed

LEMMA HangUpStep ==
  ASSUME HubInv, NEW s \in Subscribers, HangUp(s)
  PROVE  HubInv'
<1> DEFINE feed == [NoFeed EXCEPT !.cursor = feeds[s].cursor]
<1>1. feeds \in [Subscribers -> Feed(Len(log))] /\ Len(log) \in Nat
  BY HubTypes DEF HubInv
<1>2. feeds' = [feeds EXCEPT ![s] = feed] /\ UNCHANGED <<log, history, sending>>
  BY DEF HangUp
<1>3. feed \in Feed(Len(log))
  <2>1. feeds[s].cursor \in 0..Len(log) /\ 0 \in 0..Len(log)
    BY <1>1 DEF Feed
  <2>2. <<>> \in Seq(1..Len(log))
    OBVIOUS
  <2> QED BY <2>1, <2>2 DEF Feed, NoFeed
<1>4. feeds'[s] = feed
  BY <1>1, <1>2
<1>5. FeedBegins(s)' /\ ReadBehind(s)' /\ FeedMissesNothing(s)'
  BY <1>4 DEF FeedBegins, ReadBehind, FeedMissesNothing, Complete, NoFeed
<1> QED BY <1>2, <1>3, <1>5, OneFeed

LEMMA HubStep == HubInv /\ [HubNext]_hubVars => HubInv'
<1> SUFFICES ASSUME HubInv, [HubNext]_hubVars PROVE HubInv'
  OBVIOUS
<1>1. ASSUME NEW p \in Publishers, NEW n \in Names, Number(p, n) PROVE HubInv'
  BY <1>1, NumberStep
<1>2. ASSUME NEW p \in Publishers, Broadcast(p) PROVE HubInv'
  BY <1>2, BroadcastStep
<1>3. ASSUME NEW s \in Subscribers, NEW f \in Names \cup {AnyName}, OpenFeed(s, f)
      PROVE  HubInv'
  BY <1>3, OpenStep
<1>4. ASSUME NEW s \in Subscribers, NEW l \in PageLimits, Replay(s, l) \/ ReadMore(s, l)
      PROVE  HubInv'
  BY <1>4, TurnStep DEF Replay, ReadMore
<1>5. ASSUME NEW s \in Subscribers, Forward(s) \/ HangUp(s) PROVE HubInv'
  BY <1>5, ForwardStep, HangUpStep
<1>6. CASE UNCHANGED hubVars
  <2>1. (HubTypeOK <=> /\ log \in Seq(Names) /\ history \in Seq(Numbers)
                       /\ sending \in [Publishers -> 0..Len(log)]
                       /\ feeds \in [Subscribers -> Feed(Len(log))])'
    BY HubTypes, PTL
  <2>2. HubTypeOK' /\ HistoryIsTail'
    BY <1>6, <2>1, HubTypes DEF HubInv, hubVars, HistoryIsTail, Numbers
  <2> QED BY <1>6, <2>2 DEF HubInv, hubVars, FeedBegins, ReadBehind, FeedMissesNothing,
                            Complete, Asked, Passes, OnTheWay, Numbers
<1> QED BY <1>1, <1>2, <1>3, <1>4, <1>5, <1>6 DEF HubNext

(* A subscriber that read all its pages, was told of no truncation and did   *)
(* not lag misses nothing, and the history is the newest events in order,    *)
(* for any number of publishers, subscribers and events.                     *)
THEOREM HubCorrect == HubSpec => []HubHolds
BY HubStarts, HubStep, HubInvHolds, PTL DEF HubSpec

-------------------------------------------------------------------------------
(* Automation: AutomationHolds for any number of jobs, runs, sessions, turns   *)
(* and incidents.                                                              *)

(* What the variables are; the configuration of the jobs plays no part.        *)
Places == {"none", "resolve", "write", "queued", "prompt", "wait", "watch", "ended", "append",
           "deliver", "done", "gone"}
Histories == [runs : Seq(RunIds), once : [OnceJobs -> {0} \cup Rooms]]
AutoRun == [pc : Places, job : Jobs \cup {NoRun.job}, caller : BOOLEAN, sess : {0} \cup Rooms,
            turn : Nat, heard : Seq(Nat), copy : Histories]
AutoRoom == [exists : BOOLEAN, turn : Nat, asks : BOOLEAN, compacting : BOOLEAN]
ScopeFields(a) ==
  a = [exists |-> a.exists, loaded |-> a.loaded, jobs |-> a.jobs, edit |-> a.edit,
       forget |-> a.forget, removing |-> a.removing, revived |-> a.revived, up |-> a.up]
SpentFields(a) ==
  a = [runs |-> a.runs, sessions |-> a.sessions, turns |-> a.turns, incidents |-> a.incidents,
       dropped |-> a.dropped, gaveUp |-> a.gaveUp, made |-> a.made]

AutoTypes ==
  /\ ScopeFields(scope) /\ SpentFields(spent)
  /\ past \in Histories /\ saved \in Histories
  /\ asked \subseteq [job : Jobs, scheduled : BOOLEAN]
  /\ runs \in [RunIds -> AutoRun]
  /\ queues \in [Rooms -> {0} \cup RunIds]
  /\ rooms \in [Rooms -> AutoRoom]
  /\ spent.runs \in 0..MaxRuns /\ spent.sessions \in Rooms /\ spent.turns \in Nat
  /\ spent.incidents \in Nat
  /\ spent.made \in [OnceJobs -> SUBSET (1..spent.sessions)]

(* Numbers of runs, sessions and turns that are still to come are not in use.  *)
NumbersAreNew ==
  /\ \A r \in RunIds : r > spent.runs => runs[r].pc = "none"
  /\ \A r \in RunIds : runs[r].sess <= spent.sessions /\ runs[r].turn <= spent.turns
  /\ \A s \in Rooms : rooms[s].turn <= spent.turns

(* A history is of runs that are over, each once, and binds jobs to sessions   *)
(* that no run has to itself.                                                  *)
Over == {"deliver", "done", "gone"}
Alone(s) == \E r \in RunIds : runs[r].sess = s /\ runs[r].job \in EveryJobs
HistoryHolds(h) ==
  /\ IsInjective(h.runs)
  /\ \A i \in 1..Len(h.runs) : runs[h.runs[i]].pc \in Over
  /\ \A j \in OnceJobs : h.once[j] = 0 \/ (~Alone(h.once[j]) /\ h.once[j] <= spent.sessions)
Pasts == {past, saved} \cup {runs[r].copy : r \in RunIds}
PastsHold == \A h \in Pasts : HistoryHolds(h)

(* Which sessions the runs work in: one that holds the queue alone, and a run  *)
(* with a session of its own has it to itself.                                 *)
AtWork == {"prompt", "wait", "watch"}
SessionsHold ==
  /\ \A r \in RunIds : runs[r].pc \in AtWork \cup {"write", "queued"} => runs[r].sess # 0
  /\ \A r \in RunIds : runs[r].pc \in AtWork /\ runs[r].job \notin EveryJobs =>
       queues[runs[r].sess] = r
  /\ \A r, q \in RunIds : r # q /\ runs[r].job \in EveryJobs /\ runs[r].sess # 0 =>
       runs[q].sess # runs[r].sess
  /\ ~Alone(Home)

(* A turn is of one session; what runs heard of is over; and a run whose turn  *)
(* is not over watches it, unless it gave up.                                  *)
TurnsHold ==
  /\ \A s, z \in Rooms : s # z /\ rooms[s].turn # 0 => rooms[z].turn # rooms[s].turn
  /\ \A r \in RunIds : \A i \in 1..Len(runs[r].heard) :
       /\ runs[r].heard[i] \in 1..spent.turns
       /\ \A s \in Rooms : rooms[s].turn # runs[r].heard[i]
  /\ \A r \in RunIds \ spent.gaveUp, s \in Rooms :
       runs[r].turn # 0 /\ rooms[s].turn = runs[r].turn => runs[r].pc = "watch" /\ runs[r].sess = s

(* The sessions made for a job that still exist are the one it is bound to;    *)
(* without a configuration there are none, and nothing is at work.             *)
BindingsHold ==
  /\ \A j \in OnceJobs : \A s \in spent.made[j] : rooms[s].exists => s = past.once[j]
  /\ ~scope.loaded => /\ \A j \in OnceJobs : spent.made[j] = {}
                      /\ past = NoHistory /\ listed = {}
  /\ (scope.removing \/ ~scope.exists) /\ ~scope.revived => ~scope.loaded

AutoInv ==
  /\ AutoTypes /\ NumbersAreNew /\ PastsHold /\ SessionsHold /\ TurnsHold /\ BindingsHold
  /\ RunsAccounted /\ NoSharedTurn

-------------------------------------------------------------------------------
(* What a step does to the records.                                            *)
LEMMA SpentIs ==
  ASSUME NEW a, SpentFields(a), NEW v, NEW n
  PROVE  /\ n = [a EXCEPT !.runs = v] =>
              /\ SpentFields(n) /\ n.runs = v /\ n.sessions = a.sessions /\ n.turns = a.turns
              /\ n.incidents = a.incidents /\ n.dropped = a.dropped /\ n.gaveUp = a.gaveUp
              /\ n.made = a.made
         /\ n = [a EXCEPT !.sessions = v] =>
              /\ SpentFields(n) /\ n.runs = a.runs /\ n.sessions = v /\ n.turns = a.turns
              /\ n.incidents = a.incidents /\ n.dropped = a.dropped /\ n.gaveUp = a.gaveUp
              /\ n.made = a.made
         /\ n = [a EXCEPT !.turns = v] =>
              /\ SpentFields(n) /\ n.runs = a.runs /\ n.sessions = a.sessions /\ n.turns = v
              /\ n.incidents = a.incidents /\ n.dropped = a.dropped /\ n.gaveUp = a.gaveUp
              /\ n.made = a.made
         /\ n = [a EXCEPT !.incidents = v] =>
              /\ SpentFields(n) /\ n.runs = a.runs /\ n.sessions = a.sessions /\ n.turns = a.turns
              /\ n.incidents = v /\ n.dropped = a.dropped /\ n.gaveUp = a.gaveUp
              /\ n.made = a.made
         /\ n = [a EXCEPT !.dropped = v] =>
              /\ SpentFields(n) /\ n.runs = a.runs /\ n.sessions = a.sessions /\ n.turns = a.turns
              /\ n.incidents = a.incidents /\ n.dropped = v /\ n.gaveUp = a.gaveUp
              /\ n.made = a.made
         /\ n = [a EXCEPT !.gaveUp = v] =>
              /\ SpentFields(n) /\ n.runs = a.runs /\ n.sessions = a.sessions /\ n.turns = a.turns
              /\ n.incidents = a.incidents /\ n.dropped = a.dropped /\ n.gaveUp = v
              /\ n.made = a.made
         /\ n = [a EXCEPT !.made = v] =>
              /\ SpentFields(n) /\ n.runs = a.runs /\ n.sessions = a.sessions /\ n.turns = a.turns
              /\ n.incidents = a.incidents /\ n.dropped = a.dropped /\ n.gaveUp = a.gaveUp
              /\ n.made = v
<1> DEFINE Spent(b, c, d, e, f, g, h) ==
             [runs |-> b, sessions |-> c, turns |-> d, incidents |-> e, dropped |-> f,
              gaveUp |-> g, made |-> h]
<1>1. /\ [a EXCEPT !.runs = v] = Spent(v, a.sessions, a.turns, a.incidents, a.dropped, a.gaveUp, a.made)
      /\ [a EXCEPT !.sessions = v] = Spent(a.runs, v, a.turns, a.incidents, a.dropped, a.gaveUp, a.made)
      /\ [a EXCEPT !.turns = v] = Spent(a.runs, a.sessions, v, a.incidents, a.dropped, a.gaveUp, a.made)
      /\ [a EXCEPT !.incidents = v] = Spent(a.runs, a.sessions, a.turns, v, a.dropped, a.gaveUp, a.made)
      /\ [a EXCEPT !.dropped = v] = Spent(a.runs, a.sessions, a.turns, a.incidents, v, a.gaveUp, a.made)
      /\ [a EXCEPT !.gaveUp = v] = Spent(a.runs, a.sessions, a.turns, a.incidents, a.dropped, v, a.made)
      /\ [a EXCEPT !.made = v] = Spent(a.runs, a.sessions, a.turns, a.incidents, a.dropped, a.gaveUp, v)
  BY DEF SpentFields
<1>2. ASSUME NEW b, NEW c, NEW d, NEW e, NEW f, NEW g, NEW h
      PROVE  LET w == Spent(b, c, d, e, f, g, h) IN
             /\ SpentFields(w) /\ w.runs = b /\ w.sessions = c /\ w.turns = d
             /\ w.incidents = e /\ w.dropped = f /\ w.gaveUp = g /\ w.made = h
  BY DEF SpentFields
<1> HIDE DEF Spent
<1> QED
  BY <1>1, <1>2

LEMMA CountIs ==
  ASSUME SpentFields(spent)
  PROVE  /\ Count("incidents") = [spent EXCEPT !.incidents = spent.incidents + 1]
         /\ Count("runs") = [spent EXCEPT !.runs = spent.runs + 1]
         /\ Count("sessions") = [spent EXCEPT !.sessions = spent.sessions + 1]
         /\ Count("turns") = [spent EXCEPT !.turns = spent.turns + 1]
  BY DEF Count

(* A run that has not begun.                                                   *)
LEMMA NoRunIs ==
  /\ NoRun = [pc |-> "none", job |-> NoRun.job, caller |-> FALSE, sess |-> 0, turn |-> 0,
              heard |-> <<>>, copy |-> NoHistory]
  /\ NoRun \in AutoRun /\ NoHistory \in Histories
  /\ NoHistory.runs = <<>> /\ Len(NoHistory.runs) = 0
  /\ \A j \in OnceJobs : NoHistory.once[j] = 0
<1>1. NoRun = [pc |-> "none", job |-> NoRun.job, caller |-> FALSE, sess |-> 0, turn |-> 0,
               heard |-> <<>>, copy |-> NoHistory]
  BY DEF NoRun
<1>2. <<>> \in Seq(RunIds) /\ <<>> \in Seq(Nat) /\ Len(<<>>) = 0
  BY EmptySeq
<1>3. NoHistory.runs = <<>> /\ (\A j \in OnceJobs : NoHistory.once[j] = 0) /\ NoHistory \in Histories
  BY <1>2 DEF NoHistory, Histories
<1>4. NoRun \in AutoRun
  <2> DEFINE j == NoRun.job
             c == NoHistory
             e == <<>>
             no == FALSE
  <2>1. j \in Jobs \cup {NoRun.job} /\ c \in Histories /\ e \in Seq(Nat) /\ no \in BOOLEAN
    BY <1>2, <1>3
  <2>2. NoRun = [pc |-> "none", job |-> j, caller |-> no, sess |-> 0, turn |-> 0, heard |-> e, copy |-> c]
    BY <1>1
  <2> HIDE DEF j, c, e, no
  <2> QED
    BY <2>1, <2>2 DEF AutoRun, Places
<1> QED
  BY <1>1, <1>2, <1>3, <1>4

(* The runs after a step of one of them.                                       *)
RunMoves(r) ==
  runs' \in [RunIds -> AutoRun] /\ \A q \in RunIds \ {r} : runs'[q] = runs[q]

-------------------------------------------------------------------------------
(* What keeps each part of the invariant.                                      *)

(* Sessions that a run has to itself: the new ones, and the ones it had.       *)
NobodyAlone ==
  \A q \in RunIds :
    runs'[q].job \in EveryJobs /\ runs'[q].sess \in 1..spent.sessions =>
      runs[q].sess = runs'[q].sess /\ runs[q].job \in EveryJobs
StaysOver == \A q \in RunIds : runs[q].pc \in Over => runs'[q].pc \in Over
HistoryAgain(h) ==
  /\ IsInjective(h.runs)
  /\ \A i \in 1..Len(h.runs) : runs'[h.runs[i]].pc \in Over
  /\ \A j \in OnceJobs :
       h.once[j] = 0 \/ ((\A r \in RunIds : ~(runs'[r].sess = h.once[j] /\ runs'[r].job \in EveryJobs))
                         /\ h.once[j] <= spent'.sessions)

LEMMA HistoryStays ==
  ASSUME AutoTypes, NEW h \in Histories, HistoryHolds(h), spent'.sessions \in Nat,
         spent.sessions <= spent'.sessions, NobodyAlone, StaysOver
  PROVE  HistoryAgain(h)
<1>1. \A i \in 1..Len(h.runs) : h.runs[i] \in RunIds
  BY DEF Histories
<1>2. \A i \in 1..Len(h.runs) : runs'[h.runs[i]].pc \in Over
  BY <1>1 DEF StaysOver, HistoryHolds
<1>3. ASSUME NEW j \in OnceJobs, h.once[j] # 0
      PROVE  /\ \A r \in RunIds : ~(runs'[r].sess = h.once[j] /\ runs'[r].job \in EveryJobs)
             /\ h.once[j] <= spent'.sessions
  <2>1. h.once[j] \in Rooms /\ Rooms \subseteq Nat \ {0} /\ spent.sessions \in Nat
    BY <1>3 DEF Histories, Rooms, AutoTypes
  <2>2. ~Alone(h.once[j]) /\ h.once[j] <= spent.sessions
    BY <1>3 DEF HistoryHolds
  <2>3. PICK s \in Nat \ {0} : s = h.once[j]
    BY <2>1
  <2>4. s \in 1..spent.sessions /\ s <= spent'.sessions
    BY <2>1, <2>2, <2>3
  <2>5. ASSUME NEW r \in RunIds, runs'[r].sess = s, runs'[r].job \in EveryJobs
        PROVE  FALSE
    <3>1. runs[r].sess = s /\ runs[r].job \in EveryJobs
      BY <2>4, <2>5 DEF NobodyAlone
    <3> QED
      BY <2>2, <2>3, <3>1 DEF Alone
  <2> QED
    BY <2>3, <2>4, <2>5
<1> QED
  BY <1>2, <1>3 DEF HistoryAgain, HistoryHolds

LEMMA PastsStay ==
  ASSUME \A h \in Pasts' : HistoryAgain(h)
  PROVE  PastsHold'
  BY DEF PastsHold, HistoryHolds, HistoryAgain, Alone

LEMMA PastsAgain ==
  ASSUME AutoTypes, PastsHold, spent'.sessions \in Nat, spent.sessions <= spent'.sessions,
         NobodyAlone, StaysOver, NEW h \in Pasts \cup {NoHistory}
  PROVE  HistoryAgain(h)
<1>1. CASE h \in Pasts
  <2>1. h \in Histories
    BY <1>1 DEF AutoTypes, Pasts, AutoRun
  <2> QED
    BY <1>1, <2>1, HistoryStays DEF PastsHold
<1>2. CASE h = NoHistory
  <2>1. DOMAIN h.runs = {} /\ Len(h.runs) = 0 /\ \A j \in OnceJobs : h.once[j] = 0
    BY <1>2, NoRunIs
  <2> QED
    BY <2>1 DEF HistoryAgain, IsInjective
<1> QED
  BY <1>1, <1>2

(* A step that begins at most one turn, in session z, or ends the one there.   *)
LEMMA TurnsStep ==
  ASSUME AutoTypes, AutoTypes', NumbersAreNew, TurnsHold, NEW z \in Rooms,
         \A s \in Rooms \ {z} : rooms'[s].turn = rooms[s].turn,
         rooms'[z].turn \in {0, rooms[z].turn, spent.turns + 1},
         spent.turns <= spent'.turns,
         \A q \in RunIds : \A i \in 1..Len(runs'[q].heard) :
           \E k \in 1..Len(runs[q].heard) : runs'[q].heard[i] = runs[q].heard[k],
         \A q \in RunIds \ spent'.gaveUp :
           \/ runs'[q].turn = 0
           \/ /\ runs'[q].turn = runs[q].turn /\ q \notin spent.gaveUp
              /\ \/ runs'[q].pc = runs[q].pc /\ runs'[q].sess = runs[q].sess
                 \/ \A s \in Rooms : rooms[s].turn # runs[q].turn
           \/ runs'[q].pc = "watch" /\ runs'[q].sess = z /\ runs'[q].turn = rooms'[z].turn
  PROVE  TurnsHold'
<1>1. /\ spent.turns \in Nat /\ spent'.turns \in Nat
      /\ \A s \in Rooms : rooms[s].turn \in 0..spent.turns /\ rooms'[s].turn \in Nat
      /\ \A q \in RunIds : runs[q].turn \in 0..spent.turns /\ runs'[q].turn \in Nat
      /\ \A q \in RunIds : Len(runs[q].heard) \in Nat /\ Len(runs'[q].heard) \in Nat
  <2>1. spent.turns \in Nat /\ spent'.turns \in Nat
    BY DEF AutoTypes
  <2>2. \A s \in Rooms : rooms[s].turn \in 0..spent.turns /\ rooms'[s].turn \in Nat
    BY <2>1 DEF AutoTypes, AutoRoom, NumbersAreNew
  <2>3. \A q \in RunIds : runs[q].turn \in 0..spent.turns /\ runs'[q].turn \in Nat
    BY <2>1 DEF AutoTypes, AutoRun, NumbersAreNew
  <2>4. \A q \in RunIds : Len(runs[q].heard) \in Nat /\ Len(runs'[q].heard) \in Nat
    BY DEF AutoTypes, AutoRun
  <2> QED
    BY <2>1, <2>2, <2>3, <2>4
<1>2. ASSUME NEW s \in Rooms, NEW y \in Rooms, s # y, rooms'[s].turn # 0
      PROVE  rooms'[y].turn # rooms'[s].turn
  BY <1>1, <1>2 DEF TurnsHold
<1>3. ASSUME NEW r \in RunIds, NEW i \in 1..Len(runs'[r].heard)
      PROVE  /\ runs'[r].heard[i] \in 1..spent'.turns
             /\ \A s \in Rooms : rooms'[s].turn # runs'[r].heard[i]
  <2>1. PICK k \in 1..Len(runs[r].heard) : runs'[r].heard[i] = runs[r].heard[k]
    OBVIOUS
  <2>2. runs[r].heard[k] \in 1..spent.turns /\ \A s \in Rooms : rooms[s].turn # runs[r].heard[k]
    BY DEF TurnsHold
  <2> QED
    BY <1>1, <2>1, <2>2, SMTT(30)
<1>4. ASSUME NEW r \in RunIds \ spent'.gaveUp, NEW s \in Rooms, runs'[r].turn # 0,
             rooms'[s].turn = runs'[r].turn
      PROVE  runs'[r].pc = "watch" /\ runs'[r].sess = s
  <2>1. CASE /\ runs'[r].turn = runs[r].turn /\ r \notin spent.gaveUp
             /\ \/ runs'[r].pc = runs[r].pc /\ runs'[r].sess = runs[r].sess
                \/ \A x \in Rooms : rooms[x].turn # runs[r].turn
    <3>1. rooms[s].turn = runs[r].turn
      BY <1>1, <1>4, <2>1
    <3> QED
      BY <1>4, <2>1, <3>1 DEF TurnsHold
  <2>2. CASE runs'[r].pc = "watch" /\ runs'[r].sess = z /\ runs'[r].turn = rooms'[z].turn
    BY <1>2, <1>4, <2>2
  <2> QED
    BY <1>4, <2>1, <2>2
<1> QED
  BY <1>2, <1>3, <1>4 DEF TurnsHold

LEMMA NoShareStays ==
  ASSUME NoSharedTurn, spent.gaveUp \subseteq spent'.gaveUp,
         \A q \in RunIds : runs'[q].turn \in {0, runs[q].turn}
  PROVE  NoSharedTurn'
  BY DEF NoSharedTurn

LEMMA NumbersStay ==
  ASSUME AutoTypes, AutoTypes', NumbersAreNew,
         spent.sessions <= spent'.sessions, spent.turns <= spent'.turns,
         spent'.runs = spent.runs,
         \A q \in RunIds : /\ runs[q].pc = "none" => runs'[q].pc = "none"
                           /\ runs'[q].sess \in {0, runs[q].sess} \/ runs'[q].sess <= spent'.sessions
                           /\ runs'[q].turn \in {0, runs[q].turn} \/ runs'[q].turn <= spent'.turns,
         \A s \in Rooms : rooms'[s].turn = rooms[s].turn \/ rooms'[s].turn <= spent'.turns
  PROVE  NumbersAreNew'
<1>1. spent.sessions \in Nat /\ spent'.sessions \in Nat /\ spent.turns \in Nat /\ spent'.turns \in Nat
  BY DEF AutoTypes, Rooms
<1>2. \A q \in RunIds : runs[q].sess \in Nat /\ runs[q].turn \in Nat
  BY DEF AutoTypes, AutoRun, Rooms
<1>3. \A s \in Rooms : rooms[s].turn \in Nat
  BY DEF AutoTypes, AutoRoom
<1> QED
  BY <1>1, <1>2, <1>3 DEF NumbersAreNew

(* A step of run r, in the sessions and queues.                                *)
LEMMA SessionsStep ==
  ASSUME AutoTypes, SessionsHold, NEW r \in RunIds, RunMoves(r),
         runs'[r].pc \in AtWork \cup {"write", "queued"} => runs'[r].sess # 0,
         runs'[r].pc \in AtWork /\ runs'[r].job \notin EveryJobs => queues'[runs'[r].sess] = r,
         \A q \in RunIds \ {r} :
           runs[q].pc \in AtWork /\ runs[q].job \notin EveryJobs =>
             queues'[runs[q].sess] = queues[runs[q].sess],
         \/ runs'[r].sess = 0
         \/ runs'[r].sess = runs[r].sess /\ runs'[r].job = runs[r].job
         \/ runs'[r].job \notin EveryJobs /\ ~Alone(runs'[r].sess)
         \/ runs'[r].sess # Home /\ \A q \in RunIds : runs[q].sess # runs'[r].sess
  PROVE  SessionsHold'
<1>1. \A q \in RunIds \ {r} : runs'[q] = runs[q]
  BY DEF RunMoves
<1>2. \A q \in RunIds : runs'[q].pc \in AtWork \cup {"write", "queued"} => runs'[q].sess # 0
  BY <1>1 DEF SessionsHold
<1>3. \A q \in RunIds : runs'[q].pc \in AtWork /\ runs'[q].job \notin EveryJobs =>
        queues'[runs'[q].sess] = q
  BY <1>1 DEF SessionsHold
<1>4. ASSUME NEW q \in RunIds, NEW p \in RunIds, q # p, runs'[q].job \in EveryJobs, runs'[q].sess # 0
      PROVE  runs'[p].sess # runs'[q].sess
  BY <1>1, <1>4 DEF SessionsHold, Alone
<1>5. ASSUME NEW q \in RunIds, runs'[q].sess = Home, runs'[q].job \in EveryJobs
      PROVE  FALSE
  BY <1>1, <1>5 DEF SessionsHold, Alone, Home
<1> QED
  BY <1>2, <1>3, <1>4, <1>5 DEF SessionsHold, Alone

LEMMA SessionsStay ==
  ASSUME SessionsHold, runs' = runs, queues' = queues
  PROVE  SessionsHold'
  BY DEF SessionsHold, Alone

-------------------------------------------------------------------------------
(* The steps that leave the runs alone.                                        *)

(* What is said of a step that moves no run; it may begin a turn, in z.        *)
RunsRest(z) ==
  /\ runs' = runs /\ queues' = queues /\ listed' = listed
  /\ spent'.runs = spent.runs /\ spent'.sessions = spent.sessions /\ spent'.gaveUp = spent.gaveUp
  /\ \A s \in Rooms \ {z} : rooms'[s].turn = rooms[s].turn
  /\ \/ rooms'[z].turn = rooms[z].turn /\ spent'.turns = spent.turns
     \/ rooms'[z].turn = spent.turns + 1 /\ spent'.turns = spent.turns + 1
  /\ \A i \in 1..Len(past.runs) : past.runs[i] \in ToSet(past'.runs) \cup spent'.dropped
  /\ spent.dropped \subseteq spent'.dropped

LEMMA ToSetIs ==
  ASSUME NEW q, NEW k
  PROVE  k \in ToSet(q) <=> \E i \in 1..Len(q) : q[i] = k
  BY SMTT(30) DEF ToSet

LEMMA RestHolds ==
  ASSUME AutoInv, AutoTypes', NEW z \in Rooms, RunsRest(z), BindingsHold',
         past' \in Pasts \cup {NoHistory} \/ HistoryAgain(past'),
         saved' \in Pasts \cup {NoHistory} \/ HistoryAgain(saved')
  PROVE  AutoInv'
<1>1. /\ spent.sessions \in Nat /\ spent'.sessions \in Nat /\ spent.sessions <= spent'.sessions
      /\ spent.turns \in Nat /\ spent'.turns \in Nat /\ spent.turns <= spent'.turns
      /\ spent'.sessions = spent.sessions /\ spent'.runs = spent.runs
  BY DEF AutoInv, AutoTypes, RunsRest, Rooms
<1>2. NobodyAlone /\ StaysOver
  BY DEF RunsRest, NobodyAlone, StaysOver
<1>3. \A h \in Pasts \cup {NoHistory} : HistoryAgain(h)
  BY <1>1, <1>2, PastsAgain DEF AutoInv
<1>4. PastsHold'
  <2>1. \A r \in RunIds : runs'[r].copy \in Pasts
    BY DEF RunsRest, Pasts
  <2>2. \A h \in Pasts' : h = past' \/ h = saved' \/ \E r \in RunIds : h = runs'[r].copy
    BY DEF Pasts
  <2>3. \A h \in Pasts' : HistoryAgain(h)
    BY <1>3, <2>1, <2>2
  <2> QED
    BY <2>3, PastsStay
<1>5. NumbersAreNew'
  <2>1. \A s \in Rooms : rooms'[s].turn = rooms[s].turn \/ rooms'[s].turn <= spent'.turns
    BY <1>1 DEF RunsRest
  <2>2. \A q \in RunIds : /\ runs[q].pc = "none" => runs'[q].pc = "none"
                          /\ runs'[q].sess \in {0, runs[q].sess}
                          /\ runs'[q].turn \in {0, runs[q].turn}
    BY DEF RunsRest
  <2> QED
    BY <1>1, <2>1, <2>2, NumbersStay DEF AutoInv
<1>6. SessionsHold'
  BY SessionsStay DEF AutoInv, RunsRest
<1>7. TurnsHold'
  <2>1. \A s \in Rooms \ {z} : rooms'[s].turn = rooms[s].turn
    BY DEF RunsRest
  <2>2. rooms'[z].turn \in {0, rooms[z].turn, spent.turns + 1}
    BY DEF RunsRest
  <2>3. \A q \in RunIds : \A i \in 1..Len(runs'[q].heard) :
          \E k \in 1..Len(runs[q].heard) : runs'[q].heard[i] = runs[q].heard[k]
    BY DEF RunsRest
  <2>4. \A q \in RunIds \ spent'.gaveUp :
          /\ runs'[q].turn = runs[q].turn /\ q \notin spent.gaveUp
          /\ runs'[q].pc = runs[q].pc /\ runs'[q].sess = runs[q].sess
    BY DEF RunsRest
  <2> QED
    BY <1>1, <2>1, <2>2, <2>3, <2>4, TurnsStep DEF AutoInv
<1>8. NoSharedTurn'
  BY NoShareStays DEF AutoInv, RunsRest
<1>9. RunsAccounted'
  <2>1. HistoryAgain(past')
    BY <1>3
  <2>2. listed' = {r \in RunIds : runs'[r].pc \notin {"none", "append", "deliver", "done", "gone"}}
    BY DEF AutoInv, RunsAccounted, RunsRest
  <2>3. IsInjective(past'.runs)
    BY <2>1 DEF HistoryAgain
  <2>4. ASSUME NEW r \in RunIds, runs'[r].pc \in {"deliver", "done"}
        PROVE  r \in ToSet(past'.runs) \cup spent'.dropped
    <3>1. r \in ToSet(past.runs) \cup spent.dropped
      BY <2>4 DEF AutoInv, RunsAccounted, RunsRest
    <3> QED
      BY <3>1, ToSetIs DEF RunsRest
  <2> QED
    BY <2>2, <2>3, <2>4 DEF RunsAccounted
<1> QED
  BY <1>4, <1>5, <1>6, <1>7, <1>8, <1>9 DEF AutoInv

(* The scope after a step: what of it matters.                                 *)
ScopeIs(loaded, removing, exists, revived) ==
  /\ scope'.loaded = loaded /\ scope'.removing = removing /\ scope'.exists = exists
  /\ scope'.revived = revived

LEMMA ScopeStays ==
  ASSUME NEW a, ScopeFields(a), NEW v, NEW n
  PROVE  /\ n = [a EXCEPT !.edit = v] =>
              /\ ScopeFields(n) /\ n.loaded = a.loaded /\ n.removing = a.removing
              /\ n.exists = a.exists /\ n.revived = a.revived
         /\ n = [a EXCEPT !.forget = v] =>
              /\ ScopeFields(n) /\ n.loaded = a.loaded /\ n.removing = a.removing
              /\ n.exists = a.exists /\ n.revived = a.revived
         /\ n = [a EXCEPT !.up = v] =>
              /\ ScopeFields(n) /\ n.loaded = a.loaded /\ n.removing = a.removing
              /\ n.exists = a.exists /\ n.revived = a.revived
         /\ n = [a EXCEPT !.exists = v] =>
              /\ ScopeFields(n) /\ n.loaded = a.loaded /\ n.removing = a.removing
              /\ n.exists = v /\ n.revived = a.revived
<1> DEFINE Scoped(b, c, d, e, f, g, h, i) ==
             [exists |-> b, loaded |-> c, jobs |-> d, edit |-> e, forget |-> f, removing |-> g,
              revived |-> h, up |-> i]
<1>1. /\ [a EXCEPT !.edit = v] = Scoped(a.exists, a.loaded, a.jobs, v, a.forget, a.removing, a.revived, a.up)
      /\ [a EXCEPT !.forget = v] = Scoped(a.exists, a.loaded, a.jobs, a.edit, v, a.removing, a.revived, a.up)
      /\ [a EXCEPT !.up = v] = Scoped(a.exists, a.loaded, a.jobs, a.edit, a.forget, a.removing, a.revived, v)
      /\ [a EXCEPT !.exists = v] = Scoped(v, a.loaded, a.jobs, a.edit, a.forget, a.removing, a.revived, a.up)
  BY DEF ScopeFields
<1>2. ASSUME NEW b, NEW c, NEW d, NEW e, NEW f, NEW g, NEW h, NEW i
      PROVE  LET w == Scoped(b, c, d, e, f, g, h, i) IN
             /\ ScopeFields(w) /\ w.loaded = c /\ w.removing = g /\ w.exists = b /\ w.revived = h
  BY DEF ScopeFields
<1> HIDE DEF Scoped
<1> QED
  BY <1>1, <1>2

(* The scope and what is remembered of it do not change.                       *)
ScopeRests ==
  /\ ScopeFields(scope') /\ scope'.loaded = scope.loaded /\ scope'.removing = scope.removing
  /\ scope'.exists = scope.exists /\ scope'.revived = scope.revived

LEMMA BindingsRest ==
  ASSUME BindingsHold, ScopeRests, past' = past, listed' = listed, spent'.made = spent.made,
         \A s \in Rooms : rooms'[s].exists => rooms[s].exists,
         spent.made \in [OnceJobs -> SUBSET Rooms]
  PROVE  BindingsHold'
<1>1. \A j \in OnceJobs : \A s \in spent'.made[j] : rooms'[s].exists => s = past'.once[j]
  BY DEF BindingsHold
<1>2. ~scope'.loaded => /\ \A j \in OnceJobs : spent'.made[j] = {}
                        /\ past' = NoHistory /\ listed' = {}
  BY DEF BindingsHold, ScopeRests
<1>3. (scope'.removing \/ ~scope'.exists) /\ ~scope'.revived => ~scope'.loaded
  BY DEF BindingsHold, ScopeRests
<1> QED
  BY <1>1, <1>2, <1>3 DEF BindingsHold

LEMMA MadeIs ==
  ASSUME AutoTypes
  PROVE  spent.made \in [OnceJobs -> SUBSET Rooms]
<1>1. 1..spent.sessions \subseteq Rooms
  <2>1. spent.sessions \in 1..MaxSessions /\ MaxSessions \in Nat
    BY AutomationBoundsAssumption DEF AutoTypes, Rooms
  <2> QED
    BY <2>1 DEF Rooms
<1> QED
  BY <1>1 DEF AutoTypes

(* A step that counts an incident.                                             *)
Counted ==
  /\ SpentFields(spent') /\ spent'.runs = spent.runs /\ spent'.sessions = spent.sessions
  /\ spent'.turns = spent.turns /\ spent'.dropped = spent.dropped
  /\ spent'.gaveUp = spent.gaveUp /\ spent'.made = spent.made
  /\ spent'.incidents \in Nat

LEMMA CountsIncident ==
  ASSUME AutoTypes, spent' = Count("incidents") \/ spent' = spent
  PROVE  Counted
<1>1. SpentFields(spent) /\ spent.incidents \in Nat
  BY DEF AutoTypes
<1>2. Count("incidents") = [spent EXCEPT !.incidents = spent.incidents + 1]
  BY <1>1, CountIs
<1> DEFINE v == spent.incidents + 1
<1>3. v \in Nat
  BY <1>1
<1> HIDE DEF v
<1>4. CASE spent' = [spent EXCEPT !.incidents = v]
  <2>1. /\ SpentFields(spent') /\ spent'.runs = spent.runs /\ spent'.sessions = spent.sessions
        /\ spent'.turns = spent.turns /\ spent'.incidents = v /\ spent'.dropped = spent.dropped
        /\ spent'.gaveUp = spent.gaveUp /\ spent'.made = spent.made
    BY <1>1, <1>4, SpentIs
  <2> QED
    BY <1>3, <1>4, <2>1 DEF Counted
<1>5. CASE spent' = spent
  BY <1>1, <1>5 DEF Counted
<1> QED
  BY <1>2, <1>4, <1>5 DEF v

(* A step that leaves the history alone and no run moves.                      *)
LEMMA PastRests ==
  ASSUME AutoInv, past' = past, saved' = saved, asked' \subseteq [job : Jobs, scheduled : BOOLEAN],
         runs' = runs, queues' = queues, listed' = listed,
         ScopeRests, Counted, NEW z \in Rooms, rooms' \in [Rooms -> AutoRoom],
         \A s \in Rooms : rooms'[s].turn = rooms[s].turn /\ (rooms'[s].exists => rooms[s].exists)
  PROVE  AutoInv'
<1>1. AutoTypes'
  BY DEF AutoInv, AutoTypes, ScopeRests, Counted
<1>2. BindingsHold'
  BY BindingsRest, MadeIs DEF AutoInv, Counted
<1>3. RunsRest(z)
  <2>1. ASSUME NEW i \in 1..Len(past.runs)
        PROVE  past.runs[i] \in ToSet(past'.runs) \cup spent'.dropped
    BY ToSetIs
  <2> QED
    BY <2>1 DEF RunsRest, Counted
<1> QED
  BY <1>1, <1>2, <1>3, RestHolds DEF Pasts

LEMMA HomeIs == Home \in Rooms /\ Rooms \subseteq Nat \ {0}
  BY AutomationBoundsAssumption DEF Home, Rooms

LEMMA EditBeginHolds == ASSUME AutoInv, EditBegin PROVE AutoInv'
<1>1. PICK e : scope' = [scope EXCEPT !.edit = e]
  BY DEF EditBegin
<1>2. ScopeRests
  BY <1>1, ScopeStays, SMTT(30) DEF AutoInv, AutoTypes, ScopeRests
<1>3. Counted
  BY CountsIncident DEF AutoInv, EditBegin
<1> QED
  BY <1>2, <1>3, PastRests, HomeIs DEF EditBegin, AutoInv, AutoTypes

LEMMA EditFailsHolds == ASSUME AutoInv, EditFails PROVE AutoInv'
<1>1. PICK e : scope' = [scope EXCEPT !.edit = e]
  BY DEF EditFails
<1>2. ScopeRests
  BY <1>1, ScopeStays DEF AutoInv, AutoTypes, ScopeRests
<1>3. Counted
  BY CountsIncident DEF AutoInv, EditFails
<1> QED
  BY <1>2, <1>3, PastRests, HomeIs DEF EditFails, AutoInv, AutoTypes

LEMMA ShutdownHolds == ASSUME AutoInv, Shutdown PROVE AutoInv'
<1>1. PICK e : scope' = [scope EXCEPT !.up = e]
  BY DEF Shutdown
<1>2. ScopeRests
  BY <1>1, ScopeStays DEF AutoInv, AutoTypes, ScopeRests
<1>3. Counted
  BY CountsIncident DEF AutoInv, Shutdown
<1> QED
  BY <1>2, <1>3, PastRests, HomeIs DEF Shutdown, AutoInv, AutoTypes

(* The rooms after a step in one of them.                                      *)
LEMMA RoomIs ==
  ASSUME AutoTypes, NEW s \in Rooms, NEW v \in BOOLEAN, NEW t \in Nat,
         \/ rooms' = [rooms EXCEPT ![s].exists = v] /\ (v => rooms[s].exists)
         \/ rooms' = [rooms EXCEPT ![s].asks = v]
         \/ rooms' = [rooms EXCEPT ![s].compacting = v]
  PROVE  /\ rooms' \in [Rooms -> AutoRoom]
         /\ \A y \in Rooms : rooms'[y].turn = rooms[y].turn /\ (rooms'[y].exists => rooms[y].exists)
  BY DEF AutoTypes, AutoRoom

LEMMA RoomStepHolds ==
  ASSUME AutoInv, NEW s \in Rooms, NEW v \in BOOLEAN,
         \/ rooms' = [rooms EXCEPT ![s].exists = v] /\ (v => rooms[s].exists)
         \/ rooms' = [rooms EXCEPT ![s].asks = v]
         \/ rooms' = [rooms EXCEPT ![s].compacting = v]
         \/ rooms' = rooms,
         spent' = Count("incidents") \/ spent' = spent,
         asked' \subseteq [job : Jobs, scheduled : BOOLEAN],
         UNCHANGED <<scope, past, saved, listed, runs, queues>>
  PROVE  AutoInv'
<1>1. Counted /\ ScopeRests
  BY CountsIncident DEF AutoInv, AutoTypes, ScopeRests
<1>2. /\ rooms' \in [Rooms -> AutoRoom]
      /\ \A y \in Rooms : rooms'[y].turn = rooms[y].turn /\ (rooms'[y].exists => rooms[y].exists)
  BY RoomIs DEF AutoInv, AutoTypes
<1> QED
  BY <1>1, <1>2, PastRests

LEMMA QuietStepsHold ==
  ASSUME AutoInv, \/ \E a \in asked : Refuse(a)
                  \/ \E j \in Jobs : TakeDueJob(j) \/ RunNow(j)
                  \/ \E s \in Rooms : Ask(s) \/ DeleteSession(s)
                  \/ CompactHome \/ CompactionEnds
                  \/ \E r \in RunIds : Deny(r)
  PROVE  AutoInv'
<1> DEFINE no == FALSE
           yes == TRUE
<1>0. no \in BOOLEAN /\ yes \in BOOLEAN /\ ~no
  OBVIOUS
<1>1. ASSUME NEW a \in asked, Refuse(a) PROVE AutoInv'
  BY <1>0, <1>1, RoomStepHolds, HomeIs DEF Refuse, AutoInv, AutoTypes
<1>2. ASSUME NEW j \in Jobs, NEW b \in BOOLEAN, AskFor(j, b) PROVE AutoInv'
  BY <1>0, <1>2, RoomStepHolds, HomeIs DEF AskFor
<1>3. ASSUME NEW j \in Jobs, TakeDueJob(j) \/ RunNow(j) PROVE AutoInv'
  BY <1>2, <1>3 DEF TakeDueJob, RunNow
<1>4. ASSUME NEW s \in Rooms, Ask(s) PROVE AutoInv'
  <2>1. rooms' = [rooms EXCEPT ![s].asks = yes]
    BY <1>4 DEF Ask
  <2> HIDE DEF yes
  <2> QED
    BY <1>0, <1>4, <2>1, RoomStepHolds DEF Ask, AutoInv, AutoTypes
<1>5. ASSUME NEW s \in Rooms, DeleteSession(s) PROVE AutoInv'
  <2>1. rooms' = [rooms EXCEPT ![s].exists = no]
    BY <1>5 DEF DeleteSession
  <2> HIDE DEF no
  <2> QED
    BY <1>0, <1>5, <2>1, RoomStepHolds DEF DeleteSession, AutoInv, AutoTypes
<1>6. ASSUME CompactHome PROVE AutoInv'
  <2>1. rooms' = [rooms EXCEPT ![Home].compacting = yes]
    BY <1>6 DEF CompactHome
  <2> HIDE DEF yes
  <2> QED
    BY <1>0, <1>6, <2>1, RoomStepHolds, HomeIs DEF CompactHome, AutoInv, AutoTypes
<1>7. ASSUME CompactionEnds PROVE AutoInv'
  <2>1. rooms' = [rooms EXCEPT ![Home].compacting = no]
    BY <1>7 DEF CompactionEnds
  <2> HIDE DEF no
  <2> QED
    BY <1>0, <1>7, <2>1, RoomStepHolds, HomeIs DEF CompactionEnds, AutoInv, AutoTypes
<1>8. ASSUME NEW r \in RunIds, Deny(r) PROVE AutoInv'
  <2>1. runs[r].sess \in Rooms
    BY <1>8 DEF Deny, AutoInv, SessionsHold, AtWork, AutoTypes, AutoRun
  <2>2. PICK s \in Rooms : s = runs[r].sess
    BY <2>1
  <2>3. rooms' = [rooms EXCEPT ![s].asks = no]
    BY <1>8, <2>2 DEF Deny
  <2> HIDE DEF no
  <2> QED
    BY <1>0, <1>8, <2>3, RoomStepHolds DEF Deny, AutoInv, AutoTypes
<1> QED
  BY <1>1, <1>3, <1>4, <1>5, <1>6, <1>7, <1>8

(* The steps that change what is known of runs, and of the project.            *)
LEMMA KnownRests ==
  ASSUME AutoInv, past' \in Histories, saved' \in Histories, ScopeFields(scope'), SpentFields(spent'),
         spent'.runs = spent.runs, spent'.sessions = spent.sessions, spent'.turns = spent.turns,
         spent'.incidents \in Nat, spent'.gaveUp = spent.gaveUp,
         spent'.made \in [OnceJobs -> SUBSET (1..spent.sessions)],
         spent.dropped \subseteq spent'.dropped,
         UNCHANGED <<listed, asked, starting, runs, queues, rooms>>,
         past' \in Pasts \cup {NoHistory} \/ HistoryAgain(past'),
         saved' \in Pasts \cup {NoHistory} \/ HistoryAgain(saved'),
         \A i \in 1..Len(past.runs) : past.runs[i] \in ToSet(past'.runs) \cup spent'.dropped,
         BindingsHold'
  PROVE  AutoInv'
<1>1. AutoTypes'
  BY DEF AutoInv, AutoTypes
<1>2. RunsRest(Home)
  BY DEF RunsRest
<1> QED
  BY <1>1, <1>2, RestHolds, HomeIs

LEMMA EditApplyHolds == ASSUME AutoInv, EditApply PROVE AutoInv'
<1> DEFINE jobs == IF scope.loaded THEN Edited(scope.edit)
                   ELSE [j \in Jobs |-> IF scope.edit = <<"add", j>> THEN "on" ELSE "absent"]
           edit == <<>>
           yes == TRUE
           revived == scope.revived \/ ~scope.loaded
           forget == IF scope.edit[1] = "delete" THEN scope.forget \cup {scope.edit[2]}
                     ELSE scope.forget
<1>1. scope' = [scope EXCEPT !.jobs = jobs, !.edit = edit, !.loaded = yes, !.revived = revived,
                             !.forget = forget]
  BY DEF EditApply
<1>2. yes /\ (~scope.loaded => revived) /\ (scope.loaded => (revived <=> scope.revived))
  OBVIOUS
<1>3. ScopeFields(scope) /\ SpentFields(spent)
  BY DEF AutoInv, AutoTypes
<1> HIDE DEF jobs, edit, yes, revived, forget
<1>4. /\ ScopeFields(scope') /\ scope'.loaded = yes /\ scope'.removing = scope.removing
      /\ scope'.exists = scope.exists /\ scope'.revived = revived
  <2>1. PICK a : a = scope
    OBVIOUS
  <2>2. PICK n : n = [a EXCEPT !.jobs = jobs, !.edit = edit, !.loaded = yes, !.revived = revived,
                               !.forget = forget]
    OBVIOUS
  <2>3. n = [exists |-> a.exists, loaded |-> yes, jobs |-> jobs, edit |-> edit,
             forget |-> forget, removing |-> a.removing, revived |-> revived, up |-> a.up]
    BY <1>3, <2>1, <2>2 DEF ScopeFields
  <2>4. /\ ScopeFields(n) /\ n.loaded = yes /\ n.removing = a.removing
        /\ n.exists = a.exists /\ n.revived = revived
    BY <2>3 DEF ScopeFields
  <2> QED
    BY <1>1, <2>1, <2>2, <2>4
<1>5. past' = past \/ (~scope.loaded /\ past' = NoHistory /\ past = NoHistory)
  BY DEF EditApply, AutoInv, BindingsHold
<1>6. past' = past
  BY <1>5
<1>7. UNCHANGED <<saved, listed, asked, starting, runs, queues, rooms, spent>>
  BY DEF EditApply
<1>8. BindingsHold'
  <2>1. \A j \in OnceJobs : \A s \in spent'.made[j] : rooms'[s].exists => s = past'.once[j]
    BY <1>6, <1>7 DEF AutoInv, BindingsHold
  <2>2. scope'.loaded
    BY <1>2, <1>4
  <2>3. ~((scope'.removing \/ ~scope'.exists) /\ ~scope'.revived)
    BY <1>2, <1>4 DEF AutoInv, BindingsHold
  <2> QED
    BY <2>1, <2>2, <2>3 DEF BindingsHold
<1>9. \A i \in 1..Len(past.runs) : past.runs[i] \in ToSet(past'.runs) \cup spent'.dropped
  BY <1>6, ToSetIs
<1>10. /\ past' \in Histories /\ saved' \in Histories /\ past' \in Pasts /\ saved' \in Pasts
       /\ spent'.incidents \in Nat
       /\ spent'.made \in [OnceJobs -> SUBSET (1..spent.sessions)]
  BY <1>6, <1>7 DEF AutoInv, AutoTypes, Pasts
<1> QED
  BY <1>3, <1>4, <1>7, <1>8, <1>9, <1>10, KnownRests

LEMMA DeleteProjectHolds == ASSUME AutoInv, DeleteProject PROVE AutoInv'
<1> DEFINE no == FALSE
<1>1. scope' = [scope EXCEPT !.exists = no]
  BY DEF DeleteProject
<1> HIDE DEF no
<1>2. /\ ScopeFields(scope') /\ scope'.loaded = scope.loaded /\ scope'.removing = scope.removing
      /\ scope'.exists = no /\ scope'.revived = scope.revived
  BY <1>1, ScopeStays, SMTT(30) DEF AutoInv, AutoTypes
<1>3. UNCHANGED <<past, saved, listed, asked, starting, runs, queues, rooms, spent>>
  BY DEF DeleteProject
<1>4. BindingsHold'
  <2>1. \A j \in OnceJobs : \A s \in spent'.made[j] : rooms'[s].exists => s = past'.once[j]
    BY <1>3 DEF AutoInv, BindingsHold
  <2>2. ~scope'.loaded => /\ \A j \in OnceJobs : spent'.made[j] = {}
                          /\ past' = NoHistory /\ listed' = {}
    BY <1>2, <1>3 DEF AutoInv, BindingsHold
  <2>3. (scope'.removing \/ ~scope'.exists) /\ ~scope'.revived => ~scope'.loaded
    BY <1>2 DEF DeleteProject, AutoInv, BindingsHold
  <2> QED
    BY <2>1, <2>2, <2>3 DEF BindingsHold
<1>5. \A i \in 1..Len(past.runs) : past.runs[i] \in ToSet(past'.runs) \cup spent'.dropped
  BY <1>3, ToSetIs
<1>6. /\ past' \in Histories /\ saved' \in Histories /\ past' \in Pasts /\ saved' \in Pasts
      /\ spent'.incidents \in Nat /\ SpentFields(spent)
      /\ spent'.made \in [OnceJobs -> SUBSET (1..spent.sessions)]
  BY <1>3 DEF AutoInv, AutoTypes, Pasts
<1> QED
  BY <1>2, <1>3, <1>4, <1>5, <1>6, KnownRests

LEMMA RemoveConfigHolds == ASSUME AutoInv, RemoveProjectConfig PROVE AutoInv'
<1> DEFINE d == spent.dropped \cup {r \in RunIds : runs[r].pc # "none"}
           m == [j \in OnceJobs |-> {}]
           no == FALSE
           yes == TRUE
           jobs == [j \in Jobs |-> "absent"]
<1>1. /\ spent' = [spent EXCEPT !.dropped = d, !.made = m]
      /\ scope' = [scope EXCEPT !.loaded = no, !.removing = yes, !.jobs = jobs]
  BY DEF RemoveProjectConfig
<1>2. /\ m \in [OnceJobs -> SUBSET (1..spent.sessions)] /\ \A j \in OnceJobs : m[j] = {}
      /\ spent.dropped \subseteq d /\ ~no /\ \A r \in RunIds : runs[r].pc # "none" => r \in d
  OBVIOUS
<1>3. ScopeFields(scope) /\ SpentFields(spent)
  BY DEF AutoInv, AutoTypes
<1> HIDE DEF d, m, no, yes, jobs
<1>4. /\ SpentFields(spent') /\ spent'.runs = spent.runs /\ spent'.sessions = spent.sessions
      /\ spent'.turns = spent.turns /\ spent'.incidents = spent.incidents /\ spent'.dropped = d
      /\ spent'.gaveUp = spent.gaveUp /\ spent'.made = m
  <2>1. PICK a : a = spent
    OBVIOUS
  <2>2. PICK n : n = [a EXCEPT !.dropped = d, !.made = m]
    OBVIOUS
  <2>3. n = [runs |-> a.runs, sessions |-> a.sessions, turns |-> a.turns,
             incidents |-> a.incidents, dropped |-> d, gaveUp |-> a.gaveUp, made |-> m]
    BY <1>3, <2>1, <2>2 DEF SpentFields
  <2>4. /\ SpentFields(n) /\ n.runs = a.runs /\ n.sessions = a.sessions /\ n.turns = a.turns
        /\ n.incidents = a.incidents /\ n.dropped = d /\ n.gaveUp = a.gaveUp /\ n.made = m
    BY <2>3 DEF SpentFields
  <2> QED
    BY <1>1, <2>1, <2>2, <2>4
<1>5. ScopeFields(scope') /\ scope'.loaded = no
  <2>1. PICK a : a = scope
    OBVIOUS
  <2>2. PICK n : n = [a EXCEPT !.loaded = no, !.removing = yes, !.jobs = jobs]
    OBVIOUS
  <2>3. n = [exists |-> a.exists, loaded |-> no, jobs |-> jobs, edit |-> a.edit,
             forget |-> a.forget, removing |-> yes, revived |-> a.revived, up |-> a.up]
    BY <1>3, <2>1, <2>2 DEF ScopeFields
  <2>4. ScopeFields(n) /\ n.loaded = no
    BY <2>3 DEF ScopeFields
  <2> QED
    BY <1>1, <2>1, <2>2, <2>4
<1>6. /\ past' = NoHistory /\ saved' = NoHistory /\ listed = {}
      /\ UNCHANGED <<listed, asked, starting, runs, queues, rooms>>
  BY DEF RemoveProjectConfig
<1>7. BindingsHold'
  BY <1>2, <1>4, <1>5, <1>6 DEF BindingsHold
<1>8. ASSUME NEW i \in 1..Len(past.runs)
      PROVE  past.runs[i] \in ToSet(past'.runs) \cup spent'.dropped
  <2>1. past.runs[i] \in RunIds /\ runs[past.runs[i]].pc \in Over
    BY DEF AutoInv, AutoTypes, Histories, PastsHold, Pasts, HistoryHolds
  <2> QED
    BY <1>2, <1>4, <2>1 DEF Over
<1>9. past' \in Histories /\ saved' \in Histories /\ spent'.incidents \in Nat
  BY <1>4, <1>6, NoRunIs DEF AutoInv, AutoTypes
<1> QED
  BY <1>2, <1>4, <1>5, <1>6, <1>7, <1>8, <1>9, KnownRests

LEMMA UserPromptHolds == ASSUME AutoInv, UserPrompt PROVE AutoInv'
<1>1. /\ SpentFields(spent) /\ spent.turns \in Nat /\ spent.incidents \in Nat
      /\ rooms \in [Rooms -> AutoRoom]
      /\ spent.sessions \in Rooms /\ spent.runs \in 0..MaxRuns
  BY DEF AutoInv, AutoTypes
<1> DEFINE t == spent.turns + 1
           e == spent.incidents + 1
<1>2. t \in Nat /\ e \in Nat
  BY <1>1
<1>3. rooms' = [rooms EXCEPT ![Home].turn = t]
  BY DEF UserPrompt
<1>4. PICK c : c = [spent EXCEPT !.incidents = e]
  OBVIOUS
<1>5. spent' = [c EXCEPT !.turns = c.turns + 1]
  BY <1>1, <1>4, CountIs DEF UserPrompt
<1> HIDE DEF e
<1>6. /\ SpentFields(c) /\ c.runs = spent.runs /\ c.sessions = spent.sessions
      /\ c.turns = spent.turns /\ c.incidents = e /\ c.dropped = spent.dropped
      /\ c.gaveUp = spent.gaveUp /\ c.made = spent.made
  BY <1>1, <1>4, SpentIs
<1>7. c.turns + 1 = t
  BY <1>6
<1> HIDE DEF t
<1>8. spent' = [c EXCEPT !.turns = t]
  BY <1>5, <1>7
<1>9. /\ SpentFields(spent') /\ spent'.runs = spent.runs /\ spent'.sessions = spent.sessions
      /\ spent'.turns = t /\ spent'.incidents = e /\ spent'.dropped = spent.dropped
      /\ spent'.gaveUp = spent.gaveUp /\ spent'.made = spent.made
  <2>1. /\ SpentFields(spent') /\ spent'.runs = c.runs /\ spent'.sessions = c.sessions
        /\ spent'.turns = t /\ spent'.incidents = c.incidents /\ spent'.dropped = c.dropped
        /\ spent'.gaveUp = c.gaveUp /\ spent'.made = c.made
    BY <1>6, <1>8, SpentIs
  <2> QED
    BY <1>6, <2>1
<1>10. UNCHANGED <<scope, past, saved, listed, asked, starting, runs, queues>>
  BY DEF UserPrompt
<1>11. /\ rooms' \in [Rooms -> AutoRoom] /\ rooms'[Home].turn = t
       /\ \A s \in Rooms \ {Home} : rooms'[s].turn = rooms[s].turn
       /\ \A s \in Rooms : rooms'[s].exists => rooms[s].exists
  BY <1>1, <1>2, <1>3, HomeIs DEF AutoRoom
<1>12. AutoTypes'
  <2>1. \A x : x = spent' => AutoTypes'
    BY <1>2, <1>9, <1>10, <1>11 DEF AutoInv, AutoTypes
  <2> QED
    BY <2>1
<1>13. ScopeRests
  BY <1>10 DEF ScopeRests, AutoInv, AutoTypes
<1>14. BindingsHold'
  BY <1>9, <1>10, <1>11, <1>13, BindingsRest, MadeIs DEF AutoInv
<1>15. RunsRest(Home)
  <2>1. \A i \in 1..Len(past.runs) : past.runs[i] \in ToSet(past'.runs) \cup spent'.dropped
    BY <1>10, ToSetIs
  <2> QED
    BY <1>9, <1>10, <1>11, <2>1 DEF RunsRest, t
<1>16. past' \in Pasts /\ saved' \in Pasts
  BY <1>10 DEF Pasts
<1> QED
  BY <1>12, <1>14, <1>15, <1>16, RestHolds, HomeIs

(* remove_job_state keeps, in their order, the runs of other jobs.             *)
LEMMA ForgottenIs ==
  ASSUME AutoTypes, NEW j \in OnceJobs \cup Jobs, NEW f \in InOrder(OthersOf(j)), NEW h, h = Forgotten(j, f)
  PROVE  /\ h \in Histories
         /\ Len(h.runs) \in Nat
         /\ \A i \in 1..Len(h.runs) : f[i] \in 1..Len(past.runs) /\ h.runs[i] = past.runs[f[i]]
         /\ \A i, k \in 1..Len(h.runs) : f[i] = f[k] => i = k
         /\ DOMAIN h.runs = 1..Len(h.runs)
         /\ \A k \in OthersOf(j) : \E i \in 1..Len(h.runs) : h.runs[i] = past.runs[k]
         /\ \A k \in OnceJobs : h.once[k] = IF k = j THEN 0 ELSE past.once[k]
<1>1. past.runs \in Seq(RunIds) /\ past.once \in [OnceJobs -> {0} \cup Rooms]
  BY DEF AutoTypes, Histories
<1>2. Len(past.runs) \in Nat /\ \A i \in 1..Len(past.runs) : past.runs[i] \in RunIds
  BY <1>1
<1> DEFINE n == Cardinality(OthersOf(j))
           q == [i \in 1..n |-> past.runs[f[i]]]
           b == [k \in OnceJobs |-> IF k = j THEN 0 ELSE past.once[k]]
<1>3. n \in Nat
  <2>1. OthersOf(j) \subseteq 1..Len(past.runs)
    BY DEF OthersOf
  <2>2. IsFiniteSet(1..Len(past.runs))
    <3>1. PICK m \in Nat : m = Len(past.runs)
      BY <1>2
    <3>2. 1 \in Int /\ m \in Int
      OBVIOUS
    <3>3. IsFiniteSet(1..m)
      BY <3>2, FS_Interval
    <3> QED
      BY <3>1, <3>3
  <2>3. IsFiniteSet(OthersOf(j))
    BY <2>1, <2>2, FS_Subset
  <2> QED
    BY <2>3, FS_CardinalityType
<1>4. /\ f \in [1..n -> OthersOf(j)] /\ \A i, k \in 1..n : f[i] = f[k] => i = k
      /\ \A k \in OthersOf(j) : \E i \in 1..n : f[i] = k
  BY DEF InOrder, Bijection, Injection, Surjection, IsInjective
<1>5. OthersOf(j) \subseteq 1..Len(past.runs)
  BY DEF OthersOf
<1>6. h.runs = q /\ h.once = b /\ h = [runs |-> q, once |-> b]
  BY DEF Forgotten
<1> HIDE DEF n
<1>7. \A i \in 1..n : f[i] \in 1..Len(past.runs) /\ past.runs[f[i]] \in RunIds
  BY <1>2, <1>4, <1>5
<1>8. q \in Seq(RunIds) /\ Len(q) = n /\ DOMAIN q = 1..n /\ \A i \in 1..n : q[i] = past.runs[f[i]]
  <2>1. q \in [1..n -> RunIds]
    BY <1>7
  <2> QED
    BY <1>3, <2>1
<1>9. b \in [OnceJobs -> {0} \cup Rooms]
      /\ \A k \in OnceJobs : b[k] = IF k = j THEN 0 ELSE past.once[k]
  BY <1>1
<1> HIDE DEF q, b
<1>10. h \in Histories
  BY <1>6, <1>8, <1>9 DEF Histories
<1> QED
  BY <1>3, <1>4, <1>6, <1>7, <1>8, <1>9, <1>10

LEMMA RemoveJobHolds == ASSUME AutoInv, NEW j \in Jobs, RemoveJobState(j) PROVE AutoInv'
<1>1. ScopeRests /\ UNCHANGED <<listed, asked, starting, runs, queues, rooms>>
  <2> DEFINE g == scope.forget \ {j}
  <2>1. scope' = [scope EXCEPT !.forget = g]
    BY DEF RemoveJobState
  <2> HIDE DEF g
  <2>2. /\ ScopeFields(scope') /\ scope'.loaded = scope.loaded /\ scope'.removing = scope.removing
        /\ scope'.exists = scope.exists /\ scope'.revived = scope.revived
    <3>1. ScopeFields(scope)
      BY DEF AutoInv, AutoTypes
    <3> QED
      BY <2>1, <3>1, ScopeStays
  <2> QED
    BY <2>2 DEF ScopeRests, RemoveJobState
<1>2. AutoTypes /\ SpentFields(spent) /\ spent.made \in [OnceJobs -> SUBSET (1..spent.sessions)]
      /\ spent.incidents \in Nat
  BY DEF AutoInv, AutoTypes
<1>3. CASE ~scope.loaded
  <2>1. UNCHANGED <<past, saved, spent>>
    BY <1>3 DEF RemoveJobState
  <2>2. BindingsHold'
    BY <1>1, <2>1, BindingsRest, MadeIs DEF AutoInv
  <2>3. \A i \in 1..Len(past.runs) : past.runs[i] \in ToSet(past'.runs) \cup spent'.dropped
    BY <2>1, ToSetIs
  <2>4. past' \in Histories /\ saved' \in Histories /\ past' \in Pasts /\ saved' \in Pasts
    BY <1>2, <2>1 DEF AutoTypes, Pasts
  <2> QED
    BY <1>1, <1>2, <2>1, <2>2, <2>3, <2>4, KnownRests DEF ScopeRests
<1>4. CASE scope.loaded
  <2>1. PICK f \in InOrder(OthersOf(j)) : past' = Forgotten(j, f)
    BY <1>4 DEF RemoveJobState
  <2> DEFINE Like(h) ==
        /\ h \in Histories
        /\ Len(h.runs) \in Nat
        /\ \A i \in 1..Len(h.runs) : f[i] \in 1..Len(past.runs) /\ h.runs[i] = past.runs[f[i]]
        /\ \A i, k \in 1..Len(h.runs) : f[i] = f[k] => i = k
        /\ DOMAIN h.runs = 1..Len(h.runs)
        /\ \A k \in OthersOf(j) : \E i \in 1..Len(h.runs) : h.runs[i] = past.runs[k]
        /\ \A k \in OnceJobs : h.once[k] = IF k = j THEN 0 ELSE past.once[k]
  <2>2. /\ past' \in Histories
        /\ Len(past'.runs) \in Nat
        /\ \A i \in 1..Len(past'.runs) : f[i] \in 1..Len(past.runs) /\ past'.runs[i] = past.runs[f[i]]
        /\ \A i, k \in 1..Len(past'.runs) : f[i] = f[k] => i = k
        /\ DOMAIN past'.runs = 1..Len(past'.runs)
        /\ \A k \in OthersOf(j) : \E i \in 1..Len(past'.runs) : past'.runs[i] = past.runs[k]
        /\ \A k \in OnceJobs : past'.once[k] = IF k = j THEN 0 ELSE past.once[k]
    <3>1. ASSUME NEW h, h = Forgotten(j, f) PROVE Like(h)
      BY <1>2, <3>1, ForgottenIs
    <3> HIDE DEF Like
    <3>2. PICK h : h = past'
      OBVIOUS
    <3>3. Like(h)
      BY <2>1, <3>1, <3>2
    <3> QED
      BY <3>2, <3>3 DEF Like
  <2> HIDE DEF Like
  <2>3. saved' = past'
    BY <1>4 DEF RemoveJobState
  <2> DEFINE d == spent.dropped \cup RunsOf(j)
             m == [k \in OnceJobs |-> IF k = j THEN {} ELSE spent.made[k]]
  <2>4. /\ m \in [OnceJobs -> SUBSET (1..spent.sessions)]
        /\ \A k \in OnceJobs : m[k] = IF k = j THEN {} ELSE spent.made[k]
    BY <1>2
  <2>5. spent' = [spent EXCEPT !.dropped = d, !.made = m]
    BY <1>4 DEF RemoveJobState
  <2> HIDE DEF d, m
  <2>6. /\ SpentFields(spent') /\ spent'.runs = spent.runs /\ spent'.sessions = spent.sessions
        /\ spent'.turns = spent.turns /\ spent'.incidents = spent.incidents /\ spent'.dropped = d
        /\ spent'.gaveUp = spent.gaveUp /\ spent'.made = m
    <3>1. PICK a : a = spent
      OBVIOUS
    <3>2. PICK n : n = [a EXCEPT !.dropped = d, !.made = m]
      OBVIOUS
    <3>3. n = [runs |-> a.runs, sessions |-> a.sessions, turns |-> a.turns,
               incidents |-> a.incidents, dropped |-> d, gaveUp |-> a.gaveUp, made |-> m]
      BY <1>2, <3>1, <3>2 DEF SpentFields
    <3>4. /\ SpentFields(n) /\ n.runs = a.runs /\ n.sessions = a.sessions /\ n.turns = a.turns
          /\ n.incidents = a.incidents /\ n.dropped = d /\ n.gaveUp = a.gaveUp /\ n.made = m
      BY <3>3 DEF SpentFields
    <3> QED
      BY <2>5, <3>1, <3>2, <3>4
  <2>7. HistoryHolds(past)
    BY DEF AutoInv, PastsHold, Pasts
  <2>8. DOMAIN past.runs = 1..Len(past.runs)
    BY <1>2 DEF AutoTypes, Histories
  <2>9. IsInjective(past'.runs)
    <3>1. ASSUME NEW i \in 1..Len(past'.runs), NEW k \in 1..Len(past'.runs),
                 past'.runs[i] = past'.runs[k]
          PROVE  i = k
      <4>1. f[i] \in DOMAIN past.runs /\ f[k] \in DOMAIN past.runs
            /\ past.runs[f[i]] = past.runs[f[k]]
        BY <2>2, <2>8, <3>1
      <4>2. f[i] = f[k]
        BY <2>7, <4>1 DEF HistoryHolds, IsInjective
      <4> QED
        BY <2>2, <4>2
    <3> QED
      BY <2>2, <3>1 DEF IsInjective
  <2>10. HistoryAgain(past')
    <3>1. \A i \in 1..Len(past'.runs) : runs'[past'.runs[i]].pc \in Over
      BY <1>1, <2>2, <2>7 DEF HistoryHolds
    <3>2. ASSUME NEW k \in OnceJobs, past'.once[k] # 0
          PROVE  /\ \A r \in RunIds : ~(runs'[r].sess = past'.once[k] /\ runs'[r].job \in EveryJobs)
                 /\ past'.once[k] <= spent'.sessions
      <4>1. past'.once[k] = past.once[k]
        BY <2>2, <3>2
      <4> QED
        BY <1>1, <2>6, <2>7, <3>2, <4>1 DEF HistoryHolds, Alone
    <3> QED
      BY <2>9, <3>1, <3>2 DEF HistoryAgain
  <2>11. ASSUME NEW i \in 1..Len(past.runs)
         PROVE  past.runs[i] \in ToSet(past'.runs) \cup spent'.dropped
    <3>1. CASE runs[past.runs[i]].job = j
      BY <2>6, <3>1 DEF RunsOf, d
    <3>2. CASE runs[past.runs[i]].job # j
      <4>1. i \in OthersOf(j)
        BY <3>2 DEF OthersOf
      <4>2. PICK k \in 1..Len(past'.runs) : past'.runs[k] = past.runs[i]
        BY <2>2, <4>1
      <4> QED
        BY <4>2, ToSetIs
    <3> QED
      BY <3>1, <3>2
  <2>12. BindingsHold'
    <3>1. ASSUME NEW k \in OnceJobs, NEW s \in spent'.made[k], rooms'[s].exists
          PROVE  s = past'.once[k]
      BY <1>1, <2>2, <2>4, <2>6, <3>1 DEF AutoInv, BindingsHold
    <3>2. scope'.loaded
      BY <1>1, <1>4 DEF ScopeRests
    <3>3. (scope'.removing \/ ~scope'.exists) /\ ~scope'.revived => ~scope'.loaded
      BY <1>1 DEF ScopeRests, AutoInv, BindingsHold
    <3> QED
      BY <3>1, <3>2, <3>3 DEF BindingsHold
  <2>13. spent.dropped \subseteq spent'.dropped
    BY <2>6 DEF d
  <2> QED
    BY <1>1, <1>2, <2>2, <2>3, <2>4, <2>6, <2>10, <2>11, <2>12, <2>13, KnownRests DEF ScopeRests
<1> QED
  BY <1>3, <1>4

-------------------------------------------------------------------------------
(* The steps of one run.                                                       *)

RunGoes(r, p, s, t, h, c) ==
  /\ RunMoves(r) /\ runs'[r].pc = p /\ runs'[r].sess = s /\ runs'[r].turn = t
  /\ runs'[r].heard = h /\ runs'[r].copy = c /\ runs'[r].job = runs[r].job

LEMMA GoIs ==
  ASSUME AutoTypes, NEW r \in RunIds, NEW p \in Places, Go(r, p)
  PROVE  RunGoes(r, p, runs[r].sess, runs[r].turn, runs[r].heard, runs[r].copy)
<1>1. runs \in [RunIds -> AutoRun]
  BY DEF AutoTypes
<1>2. runs' = [runs EXCEPT ![r].pc = p]
  BY DEF Go
<1> QED
  BY <1>1, <1>2 DEF RunGoes, RunMoves, AutoRun

LEMMA EndIs ==
  ASSUME AutoTypes, NEW r \in RunIds, End(r)
  PROVE  RunGoes(r, "ended", runs[r].sess, runs[r].turn, <<>>, runs[r].copy)
<1>1. runs \in [RunIds -> AutoRun]
  BY DEF AutoTypes
<1> DEFINE p == "ended"
           e == <<>>
<1>2. runs' = [runs EXCEPT ![r].pc = p, ![r].heard = e]
  BY DEF End
<1>3. p \in Places /\ e \in Seq(Nat)
  BY EmptySeq DEF Places
<1> HIDE DEF p, e
<1>4. RunGoes(r, p, runs[r].sess, runs[r].turn, e, runs[r].copy)
  BY <1>1, <1>2, <1>3 DEF RunGoes, RunMoves, AutoRun
<1> QED
  BY <1>4 DEF p, e

LEMMA SpawnIs ==
  ASSUME AutoTypes, NEW r \in RunIds, NEW s \in Rooms, Spawn(r, s)
  PROVE  RunGoes(r, "queued", s, runs[r].turn, runs[r].heard, NoHistory)
<1>1. runs \in [RunIds -> AutoRun]
  BY DEF AutoTypes
<1> DEFINE p == "queued"
           e == NoHistory
<1>2. runs' = [runs EXCEPT ![r].pc = p, ![r].sess = s, ![r].copy = e]
  BY DEF Spawn
<1>3. p \in Places /\ e \in Histories
  BY NoRunIs DEF Places
<1> HIDE DEF p, e
<1>4. RunGoes(r, p, s, runs[r].turn, runs[r].heard, e)
  BY <1>1, <1>2, <1>3, ZenonT(40) DEF RunGoes, RunMoves, AutoRun
<1> QED
  BY <1>4 DEF p, e

(* What is said of a step of run r; it may begin a turn, in z.                 *)
Knowledge(r) ==
  /\ runs[r].pc \in Over => runs'[r].pc \in Over
  /\ runs'[r].job \in EveryJobs /\ runs'[r].sess \in 1..spent.sessions =>
       runs[r].sess = runs'[r].sess /\ runs[r].job \in EveryJobs
  /\ past' \in Pasts \cup {NoHistory} \/ HistoryAgain(past')
  /\ saved' \in Pasts \cup {NoHistory} \/ HistoryAgain(saved')
  /\ runs'[r].copy \in Pasts \cup {NoHistory} \/ HistoryAgain(runs'[r].copy)
Turning(r, z) ==
  /\ \A s \in Rooms \ {z} : rooms'[s].turn = rooms[s].turn
  /\ \/ rooms'[z].turn = rooms[z].turn /\ spent'.turns = spent.turns
     \/ rooms'[z].turn = spent.turns + 1 /\ spent'.turns = spent.turns + 1
  /\ \A i \in 1..Len(runs'[r].heard) :
       \E k \in 1..Len(runs[r].heard) : runs'[r].heard[i] = runs[r].heard[k]
  /\ spent.gaveUp \subseteq spent'.gaveUp
  /\ \/ r \in spent'.gaveUp
     \/ runs'[r].turn = 0
     \/ /\ runs'[r].turn = runs[r].turn
        /\ \/ runs'[r].pc = runs[r].pc /\ runs'[r].sess = runs[r].sess
           \/ \A s \in Rooms : rooms[s].turn # runs[r].turn
     \/ runs'[r].pc = "watch" /\ runs'[r].sess = z /\ runs'[r].turn = rooms'[z].turn
Accounts(r) ==
  /\ r \in listed' <=> runs'[r].pc \notin {"none", "append", "deliver", "done", "gone"}
  /\ listed' \subseteq RunIds /\ \A q \in RunIds \ {r} : q \in listed' <=> q \in listed
  /\ runs'[r].pc \in {"deliver", "done"} => r \in ToSet(past'.runs) \cup spent'.dropped
  /\ \A i \in 1..Len(past.runs) : past.runs[i] \in ToSet(past'.runs) \cup spent'.dropped
  /\ spent.dropped \subseteq spent'.dropped

LEMMA MoveHolds ==
  ASSUME AutoInv, AutoTypes', NEW r \in RunIds, NEW z \in Rooms, RunMoves(r),
         spent.sessions <= spent'.sessions,
         NumbersAreNew', SessionsHold', BindingsHold', NoSharedTurn',
         Knowledge(r), Turning(r, z), Accounts(r)
  PROVE  AutoInv'
<1>1. /\ spent.sessions \in Nat /\ spent'.sessions \in Nat /\ spent.sessions <= spent'.sessions
      /\ spent.turns \in Nat /\ spent'.turns \in Nat /\ spent.turns <= spent'.turns
  BY DEF AutoInv, AutoTypes, Turning, Rooms
<1>2. \A q \in RunIds \ {r} : runs'[q] = runs[q]
  BY DEF RunMoves
<1>3. NobodyAlone /\ StaysOver
  BY <1>2 DEF NobodyAlone, StaysOver, Knowledge
<1>4. \A h \in Pasts \cup {NoHistory} : HistoryAgain(h)
  BY <1>1, <1>3, PastsAgain DEF AutoInv
<1>5. HistoryAgain(past') /\ HistoryAgain(saved') /\ HistoryAgain(runs'[r].copy)
  BY <1>4 DEF Knowledge
<1>6. PastsHold'
  <2>1. \A q \in RunIds \ {r} : runs'[q].copy \in Pasts
    BY <1>2 DEF Pasts
  <2>2. \A h \in Pasts' : h = past' \/ h = saved' \/ \E q \in RunIds : h = runs'[q].copy
    BY DEF Pasts
  <2>3. \A h \in Pasts' : HistoryAgain(h)
    BY <1>4, <1>5, <2>1, <2>2
  <2> QED
    BY <2>3, PastsStay
<1>7. TurnsHold'
  <2>1. \A s \in Rooms \ {z} : rooms'[s].turn = rooms[s].turn
    BY DEF Turning
  <2>2. rooms'[z].turn \in {0, rooms[z].turn, spent.turns + 1}
    BY DEF Turning
  <2>3. \A q \in RunIds : \A i \in 1..Len(runs'[q].heard) :
          \E k \in 1..Len(runs[q].heard) : runs'[q].heard[i] = runs[q].heard[k]
    BY <1>2, SMTT(30) DEF Turning
  <2>4. \A q \in RunIds \ spent'.gaveUp :
           \/ runs'[q].turn = 0
           \/ /\ runs'[q].turn = runs[q].turn /\ q \notin spent.gaveUp
              /\ \/ runs'[q].pc = runs[q].pc /\ runs'[q].sess = runs[q].sess
                 \/ \A s \in Rooms : rooms[s].turn # runs[q].turn
           \/ runs'[q].pc = "watch" /\ runs'[q].sess = z /\ runs'[q].turn = rooms'[z].turn
    BY <1>2 DEF Turning
  <2> QED
    BY <1>1, <2>1, <2>2, <2>3, <2>4, TurnsStep DEF AutoInv
<1>8. RunsAccounted'
  <2>1. listed' = {q \in RunIds : runs'[q].pc \notin {"none", "append", "deliver", "done", "gone"}}
    BY <1>2 DEF AutoInv, RunsAccounted, Accounts
  <2>2. IsInjective(past'.runs)
    BY <1>5 DEF HistoryAgain
  <2>3. ASSUME NEW q \in RunIds, runs'[q].pc \in {"deliver", "done"}
        PROVE  q \in ToSet(past'.runs) \cup spent'.dropped
    <3>1. CASE q = r
      BY <2>3, <3>1 DEF Accounts
    <3>2. CASE q # r
      <4>1. q \in ToSet(past.runs) \cup spent.dropped
        BY <1>2, <2>3, <3>2 DEF AutoInv, RunsAccounted
      <4> QED
        BY <4>1, ToSetIs DEF Accounts
    <3> QED
      BY <3>1, <3>2
  <2> QED
    BY <2>1, <2>2, <2>3 DEF RunsAccounted
<1> QED
  BY <1>6, <1>7, <1>8 DEF AutoInv

(* A step that only moves a run on.                                            *)
Spends(r) ==
  /\ SpentFields(spent') /\ spent'.runs = spent.runs /\ spent'.sessions = spent.sessions
  /\ spent'.turns = spent.turns /\ spent'.incidents \in Nat /\ spent'.dropped = spent.dropped
  /\ spent'.made = spent.made /\ spent'.gaveUp \in {spent.gaveUp, spent.gaveUp \cup {r}}
Going(r, p, s, h, c) ==
  /\ RunGoes(r, p, s, runs[r].turn, h, c)
  /\ p \in Places \ (Over \cup {"none"}) /\ runs[r].pc \notin Over \cup {"none"}
  /\ s = runs[r].sess \/ (s \in Rooms /\ s <= spent.sessions)
  /\ \A i \in 1..Len(h) : \E k \in 1..Len(runs[r].heard) : h[i] = runs[r].heard[k]
  /\ c \in {runs[r].copy, NoHistory}
Queueing(r, p, s) ==
  /\ p \in AtWork \cup {"write", "queued"} => s # 0
  /\ p \in AtWork /\ runs[r].job \notin EveryJobs => queues'[s] = r
  /\ \A q \in RunIds \ {r} :
       runs[q].pc \in AtWork /\ runs[q].job \notin EveryJobs =>
         queues'[runs[q].sess] = queues[runs[q].sess]
  /\ s = runs[r].sess \/ (runs[r].job \notin EveryJobs /\ ~Alone(s))

LEMMA GoHolds ==
  ASSUME AutoInv, NEW r \in RunIds, NEW p, NEW s, NEW h, NEW c,
         Going(r, p, s, h, c), Queueing(r, p, s), Spends(r),
         UNCHANGED <<scope, past, asked>>, saved' \in Pasts,
         queues' \in [Rooms -> {0} \cup RunIds],
         rooms' \in [Rooms -> AutoRoom],
         \A y \in Rooms : rooms'[y].turn = rooms[y].turn /\ (rooms'[y].exists => rooms[y].exists),
         listed' = IF p = "append" THEN listed \ {r} ELSE listed,
         \/ r \in spent'.gaveUp
         \/ runs[r].turn = 0
         \/ p = runs[r].pc /\ s = runs[r].sess
         \/ \A y \in Rooms : rooms[y].turn # runs[r].turn,
         runs[r].pc = "append" => p = "append"
  PROVE  AutoInv'
<1>1. runs' \in [RunIds -> AutoRun] /\ \A q \in RunIds \ {r} : runs'[q] = runs[q]
  BY DEF Going, RunGoes, RunMoves
<1>2. /\ runs'[r].pc = p /\ runs'[r].sess = s /\ runs'[r].turn = runs[r].turn
      /\ runs'[r].heard = h /\ runs'[r].copy = c /\ runs'[r].job = runs[r].job
  BY DEF Going, RunGoes
<1>3. saved' \in Histories
  BY DEF AutoInv, AutoTypes, Pasts, AutoRun
<1>4. AutoTypes'
  BY <1>1, <1>3 DEF AutoInv, AutoTypes, Spends
<1>5. /\ spent.sessions \in Nat /\ spent'.sessions = spent.sessions /\ spent.turns \in Nat
      /\ spent'.turns = spent.turns /\ spent'.runs = spent.runs
  BY DEF AutoInv, AutoTypes, Spends, Rooms
<1>6. NumbersAreNew'
  <2>1. \A q \in RunIds : /\ runs[q].pc = "none" => runs'[q].pc = "none"
                          /\ runs'[q].sess \in {0, runs[q].sess} \/ runs'[q].sess <= spent'.sessions
                          /\ runs'[q].turn \in {0, runs[q].turn} \/ runs'[q].turn <= spent'.turns
    BY <1>1, <1>2, <1>5 DEF Going
  <2>2. /\ spent.sessions <= spent'.sessions /\ spent.turns <= spent'.turns
        /\ \A y \in Rooms : rooms'[y].turn = rooms[y].turn \/ rooms'[y].turn <= spent'.turns
    BY <1>5
  <2> QED
    BY <1>4, <1>5, <2>1, <2>2, NumbersStay DEF AutoInv
<1>7. SessionsHold'
  <2>1. RunMoves(r)
    BY DEF Going, RunGoes
  <2>2. /\ runs'[r].pc \in AtWork \cup {"write", "queued"} => runs'[r].sess # 0
        /\ runs'[r].pc \in AtWork /\ runs'[r].job \notin EveryJobs => queues'[runs'[r].sess] = r
        /\ \A q \in RunIds \ {r} :
             runs[q].pc \in AtWork /\ runs[q].job \notin EveryJobs =>
               queues'[runs[q].sess] = queues[runs[q].sess]
        /\ \/ runs'[r].sess = runs[r].sess /\ runs'[r].job = runs[r].job
           \/ runs'[r].job \notin EveryJobs /\ ~Alone(runs'[r].sess)
    BY <1>2 DEF Queueing
  <2> QED
    BY <2>1, <2>2, SessionsStep DEF AutoInv
<1>8. BindingsHold'
  <2>1. \A j \in OnceJobs : \A y \in spent'.made[j] : rooms'[y].exists => y = past'.once[j]
    <3>1. \A j \in OnceJobs : spent.made[j] \subseteq Rooms
      BY MadeIs DEF AutoInv
    <3> QED
      BY <3>1 DEF AutoInv, BindingsHold, Spends
  <2>2. ~scope'.loaded => /\ \A j \in OnceJobs : spent'.made[j] = {}
                          /\ past' = NoHistory /\ listed' = {}
    BY DEF AutoInv, BindingsHold, Spends
  <2>3. (scope'.removing \/ ~scope'.exists) /\ ~scope'.revived => ~scope'.loaded
    BY DEF AutoInv, BindingsHold
  <2> QED
    BY <2>1, <2>2, <2>3 DEF BindingsHold
<1>9. NoSharedTurn'
  <2>1. spent.gaveUp \subseteq spent'.gaveUp
    BY DEF Spends
  <2>2. \A q \in RunIds : runs'[q].turn \in {0, runs[q].turn}
    BY <1>1, <1>2
  <2> QED
    BY <2>1, <2>2, NoShareStays DEF AutoInv
<1>10. Knowledge(r)
  <2>1. runs'[r].job \in EveryJobs => runs[r].sess = runs'[r].sess /\ runs[r].job \in EveryJobs
    BY <1>2 DEF Queueing
  <2>2. past' \in Pasts /\ runs'[r].copy \in Pasts \cup {NoHistory}
    BY <1>2 DEF Going, Pasts
  <2> QED
    BY <2>1, <2>2 DEF Knowledge, Going
<1>11. Turning(r, Home)
  <2>1. spent.gaveUp \subseteq spent'.gaveUp
    BY DEF Spends
  <2> QED
    BY <1>2, <1>5, <2>1, HomeIs DEF Turning, Going
<1>12. Accounts(r)
  <2>1. listed = {q \in RunIds : runs[q].pc \notin {"none", "append", "deliver", "done", "gone"}}
    BY DEF AutoInv, RunsAccounted
  <2>2. \A i \in 1..Len(past.runs) : past.runs[i] \in ToSet(past'.runs) \cup spent'.dropped
    BY ToSetIs
  <2>3. runs'[r].pc \notin Over \cup {"none"} /\ runs[r].pc \notin Over \cup {"none"}
    BY <1>2 DEF Going
  <2>4. r \in listed' <=> runs'[r].pc \notin {"none", "append", "deliver", "done", "gone"}
    BY <1>2, <2>1, <2>3 DEF Over
  <2>5. listed' \subseteq RunIds /\ \A q \in RunIds \ {r} : q \in listed' <=> q \in listed
    BY <2>1
  <2>6. runs'[r].pc \notin {"deliver", "done"}
    BY <2>3 DEF Over
  <2> QED
    BY <2>2, <2>4, <2>5, <2>6 DEF Accounts, Spends
<1>13. RunMoves(r) /\ spent.sessions <= spent'.sessions
  BY <1>5 DEF Going, RunGoes
<1> QED
  BY <1>4, <1>6, <1>7, <1>8, <1>9, <1>10, <1>11, <1>12, <1>13, MoveHolds, HomeIs

LEMMA NotWatching ==
  ASSUME AutoInv, NEW r \in RunIds, runs[r].pc # "watch"
  PROVE  \/ r \in spent.gaveUp \/ runs[r].turn = 0
         \/ \A y \in Rooms : rooms[y].turn # runs[r].turn
  BY DEF AutoInv, TurnsHold

LEMMA CountedSpends ==
  ASSUME AutoTypes, NEW r, spent' = Count("incidents") \/ spent' = spent
  PROVE  Spends(r)
<1>1. Counted
  BY CountsIncident
<1> QED
  BY <1>1 DEF Counted, Spends

LEMMA GaveUpSpends ==
  ASSUME AutoTypes, NEW r,
         \/ spent' = [Count("incidents") EXCEPT !.gaveUp = @ \cup {r}]
         \/ spent' = [spent EXCEPT !.gaveUp = @ \cup {r}]
  PROVE  Spends(r) /\ r \in spent'.gaveUp
<1> DEFINE e == spent.incidents + 1
           g == spent.gaveUp \cup {r}
<1>1. SpentFields(spent) /\ spent.incidents \in Nat /\ e \in Nat
  BY DEF AutoTypes
<1>2. PICK c : c = IF spent' = [spent EXCEPT !.gaveUp = @ \cup {r}] THEN spent
                   ELSE [spent EXCEPT !.incidents = e]
  OBVIOUS
<1>3. Count("incidents") = [spent EXCEPT !.incidents = e]
  BY <1>1, CountIs
<1>4. spent' = [c EXCEPT !.gaveUp = c.gaveUp \cup {r}]
  BY <1>2, <1>3
<1> HIDE DEF e
<1>5. /\ SpentFields(c) /\ c.runs = spent.runs /\ c.sessions = spent.sessions
      /\ c.turns = spent.turns /\ c.incidents \in Nat /\ c.dropped = spent.dropped
      /\ c.gaveUp = spent.gaveUp /\ c.made = spent.made
  <2>1. CASE c = [spent EXCEPT !.incidents = e]
    <3>1. c.incidents = e /\ SpentFields(c) /\ c.runs = spent.runs /\ c.sessions = spent.sessions
          /\ c.turns = spent.turns /\ c.dropped = spent.dropped
          /\ c.gaveUp = spent.gaveUp /\ c.made = spent.made
      BY <1>1, <2>1, SpentIs, SMTT(30)
    <3> QED
      BY <1>1, <3>1
  <2> QED
    BY <1>1, <1>2, <2>1
<1>6. c.gaveUp \cup {r} = g /\ r \in g
  BY <1>5
<1> HIDE DEF g
<1>7. spent' = [c EXCEPT !.gaveUp = g]
  BY <1>4, <1>6
<1>8. /\ SpentFields(spent') /\ spent'.runs = c.runs /\ spent'.sessions = c.sessions
      /\ spent'.turns = c.turns /\ spent'.incidents = c.incidents /\ spent'.dropped = c.dropped
      /\ spent'.gaveUp = g /\ spent'.made = c.made
  BY <1>5, <1>7, SpentIs
<1> QED
  BY <1>5, <1>6, <1>8 DEF Spends, g

(* A run whose session and queue stay as they are.                             *)
LEMMA QueueStays ==
  ASSUME AutoInv, NEW r \in RunIds, NEW p, queues' = queues,
         p \notin AtWork \cup {"write", "queued"} \/ (p \in AtWork /\ runs[r].pc \in AtWork)
  PROVE  Queueing(r, p, runs[r].sess)
  BY DEF AutoInv, SessionsHold, Queueing

LEMMA RoomsStay ==
  ASSUME AutoInv
  PROVE  /\ rooms \in [Rooms -> AutoRoom] /\ queues \in [Rooms -> {0} \cup RunIds]
         /\ saved \in Pasts /\ AutoTypes
  BY DEF AutoInv, AutoTypes, Pasts

LEMMA HeardStays ==
  ASSUME AutoTypes, NEW r \in RunIds
  PROVE  /\ \A i \in 1..Len(runs[r].heard) :
              \E k \in 1..Len(runs[r].heard) : runs[r].heard[i] = runs[r].heard[k]
         /\ \A h : h = <<>> => \A i \in 1..Len(h) :
              \E k \in 1..Len(runs[r].heard) : h[i] = runs[r].heard[k]
         /\ runs[r].heard # <<>> => \A i \in 1..Len(Tail(runs[r].heard)) :
              \E k \in 1..Len(runs[r].heard) : Tail(runs[r].heard)[i] = runs[r].heard[k]
<1>1. runs[r].heard \in Seq(Nat)
  BY DEF AutoTypes, AutoRun
<1>2. PICK h \in Seq(Nat) : h = runs[r].heard
  BY <1>1
<1>3. ASSUME h # <<>>, NEW i \in 1..Len(Tail(h))
      PROVE  \E k \in 1..Len(h) : Tail(h)[i] = h[k]
  <2>1. /\ Len(h) \in Nat /\ Len(Tail(h)) = Len(h) - 1
        /\ \A k \in 1..Len(Tail(h)) : Tail(h)[k] = h[k + 1]
    BY <1>3, HeadTailProperties, LenProperties
  <2>2. i + 1 \in 1..Len(h)
    BY <2>1
  <2> QED
    BY <2>1, <2>2
<1>4. ASSUME NEW q, q = <<>> PROVE Len(q) = 0
  BY <1>4
<1> QED
  BY <1>2, <1>3, <1>4

LEMMA TakeQueueHolds == ASSUME AutoInv, NEW r \in RunIds, TakeQueue(r) PROVE AutoInv'
<1>1. /\ runs[r].pc = "queued" /\ Go(r, "prompt")
      /\ UNCHANGED <<scope, past, saved, listed, asked, starting, rooms, spent>>
      /\ runs[r].job \in EveryJobs \/ queues[runs[r].sess] = 0
      /\ queues' = IF runs[r].job \in EveryJobs THEN queues ELSE [queues EXCEPT ![runs[r].sess] = r]
  BY DEF TakeQueue, OwnQueue
<1>2. runs[r].sess \in Rooms
  BY <1>1 DEF AutoInv, SessionsHold, AutoTypes, AutoRun
<1>3. Going(r, "prompt", runs[r].sess, runs[r].heard, runs[r].copy)
  BY <1>1, GoIs, HeardStays DEF Going, Over, Places, AutoInv
<1>4. queues' \in [Rooms -> {0} \cup RunIds]
  BY <1>1, <1>2 DEF AutoInv, AutoTypes
<1>5. Queueing(r, "prompt", runs[r].sess)
  <2>1. runs[r].sess # 0
    BY <1>2, HomeIs
  <2>2. runs[r].job \notin EveryJobs => queues'[runs[r].sess] = r
    BY <1>1, <1>2 DEF AutoInv, AutoTypes
  <2>3. ASSUME NEW q \in RunIds \ {r}, runs[q].pc \in AtWork /\ runs[q].job \notin EveryJobs
        PROVE  queues'[runs[q].sess] = queues[runs[q].sess]
    <3>1. queues[runs[q].sess] = q /\ q # 0
      BY <2>3 DEF AutoInv, SessionsHold, RunIds
    <3>2. CASE runs[r].job \in EveryJobs
      BY <1>1, <3>2
    <3>3. CASE runs[r].job \notin EveryJobs
      <4>1. runs[q].sess # runs[r].sess
        BY <1>1, <3>1, <3>3
      <4> QED
        BY <1>1, <1>2, <3>3, <4>1 DEF AutoInv, AutoTypes
    <3> QED
      BY <3>2, <3>3
  <2> QED
    BY <2>1, <2>2, <2>3 DEF Queueing
<1>6. /\ Spends(r) /\ saved' \in Pasts /\ rooms' \in [Rooms -> AutoRoom]
      /\ runs[r].pc # "watch" /\ "prompt" # "append" /\ spent'.gaveUp = spent.gaveUp
  BY <1>1, CountedSpends, RoomsStay
<1> QED
  BY <1>1, <1>3, <1>4, <1>5, <1>6, NotWatching, GoHolds

LEMMA BusyHolds == ASSUME AutoInv, NEW r \in RunIds, Busy(r) PROVE AutoInv'
<1>1. /\ runs[r].pc = "prompt" /\ Go(r, "wait")
      /\ UNCHANGED <<scope, past, saved, listed, asked, starting, queues, rooms, spent>>
  BY DEF Busy
<1>2. Going(r, "wait", runs[r].sess, runs[r].heard, runs[r].copy)
  BY <1>1, GoIs, HeardStays DEF Going, Over, Places, AutoInv
<1>3. Queueing(r, "wait", runs[r].sess)
  BY <1>1, QueueStays DEF AtWork
<1>4. /\ Spends(r) /\ saved' \in Pasts /\ rooms' \in [Rooms -> AutoRoom]
      /\ queues' \in [Rooms -> {0} \cup RunIds]
      /\ runs[r].pc # "watch" /\ spent'.gaveUp = spent.gaveUp
  BY <1>1, CountedSpends, RoomsStay
<1> QED
  BY <1>1, <1>2, <1>3, <1>4, NotWatching, GoHolds

LEMMA HeardIs ==
  ASSUME AutoTypes, NEW r \in RunIds, NEW p \in Places, NEW h \in Seq(Nat),
         runs' = [runs EXCEPT ![r].pc = p, ![r].heard = h]
  PROVE  RunGoes(r, p, runs[r].sess, runs[r].turn, h, runs[r].copy)
<1>1. runs \in [RunIds -> AutoRun]
  BY DEF AutoTypes
<1> QED
  BY <1>1, ZenonT(40) DEF RunGoes, RunMoves, AutoRun

LEMMA HeardTail ==
  ASSUME AutoTypes, NEW r \in RunIds, NEW p \in Places, runs[r].heard # <<>>,
         \/ runs' = [runs EXCEPT ![r].pc = p, ![r].heard = Tail(@)]
         \/ p = runs[r].pc /\ runs' = [runs EXCEPT ![r].heard = Tail(@)]
  PROVE  RunGoes(r, p, runs[r].sess, runs[r].turn, Tail(runs[r].heard), runs[r].copy)
<1>1. runs \in [RunIds -> AutoRun]
  BY DEF AutoTypes
<1> DEFINE h == Tail(runs[r].heard)
<1>2. h \in Seq(Nat)
  BY HeadTailProperties DEF AutoTypes, AutoRun
<1>3. \/ runs' = [runs EXCEPT ![r].pc = p, ![r].heard = h]
      \/ p = runs[r].pc /\ runs' = [runs EXCEPT ![r].heard = h]
  <2>1. CASE runs' = [runs EXCEPT ![r].pc = p, ![r].heard = Tail(@)]
    BY <1>1, <2>1 DEF AutoRun
  <2>2. CASE p = runs[r].pc /\ runs' = [runs EXCEPT ![r].heard = Tail(@)]
    BY <1>1, <2>2
  <2> QED
    BY <2>1, <2>2
<1> HIDE DEF h
<1>4. RunGoes(r, p, runs[r].sess, runs[r].turn, h, runs[r].copy)
  <2>1. CASE runs' = [runs EXCEPT ![r].pc = p, ![r].heard = h]
    BY <1>2, <2>1, HeardIs
  <2>2. CASE p = runs[r].pc /\ runs' = [runs EXCEPT ![r].heard = h]
    BY <1>1, <1>2, <2>2, ZenonT(40) DEF RunGoes, RunMoves, AutoRun
  <2> QED
    BY <1>3, <2>1, <2>2
<1> QED
  BY <1>4 DEF h

LEMMA WakeHolds == ASSUME AutoInv, NEW r \in RunIds, Wake(r) PROVE AutoInv'
<1>1. /\ runs[r].pc = "wait" /\ runs[r].heard # <<>>
      /\ runs' = [runs EXCEPT ![r].pc = "prompt", ![r].heard = Tail(@)]
      /\ UNCHANGED <<scope, past, saved, listed, asked, starting, queues, rooms, spent>>
  BY DEF Wake
<1>2. "prompt" \in Places \ (Over \cup {"none"}) /\ runs[r].pc \notin Over \cup {"none"}
  BY <1>1 DEF Places, Over
<1>3. RunGoes(r, "prompt", runs[r].sess, runs[r].turn, Tail(runs[r].heard), runs[r].copy)
  BY <1>1, <1>2, HeardTail DEF AutoInv
<1>4. Going(r, "prompt", runs[r].sess, Tail(runs[r].heard), runs[r].copy)
  BY <1>1, <1>2, <1>3, HeardStays DEF Going, AutoInv
<1>5. Queueing(r, "prompt", runs[r].sess)
  BY <1>1, QueueStays DEF AtWork
<1>6. /\ Spends(r) /\ saved' \in Pasts /\ rooms' \in [Rooms -> AutoRoom]
      /\ queues' \in [Rooms -> {0} \cup RunIds]
      /\ runs[r].pc # "watch" /\ spent'.gaveUp = spent.gaveUp
  BY <1>1, CountedSpends, RoomsStay
<1> QED
  BY <1>1, <1>4, <1>5, <1>6, NotWatching, GoHolds

LEMMA HearEndHolds == ASSUME AutoInv, NEW r \in RunIds, HearEnd(r) PROVE AutoInv'
<1>1. /\ runs[r].pc = "watch" /\ runs[r].heard # <<>>
      /\ UNCHANGED <<scope, past, saved, listed, asked, starting, queues, rooms, spent>>
  BY DEF HearEnd
<1>2. /\ Spends(r) /\ saved' \in Pasts /\ rooms' \in [Rooms -> AutoRoom]
      /\ queues' \in [Rooms -> {0} \cup RunIds] /\ spent'.gaveUp = spent.gaveUp
  BY <1>1, CountedSpends, RoomsStay
<1>3. CASE runs[r].heard[1] = runs[r].turn
  <2>1. Going(r, "ended", runs[r].sess, <<>>, runs[r].copy)
    <3>1. End(r)
      BY <1>3 DEF HearEnd
    <3>2. "ended" \in Places \ (Over \cup {"none"}) /\ runs[r].pc \notin Over \cup {"none"}
      BY <1>1 DEF Places, Over
    <3>3. \A h : h = <<>> => \A i \in 1..Len(h) :
              \E k \in 1..Len(runs[r].heard) : h[i] = runs[r].heard[k]
      BY HeardStays DEF AutoInv
    <3>4. RunGoes(r, "ended", runs[r].sess, runs[r].turn, <<>>, runs[r].copy)
      BY <3>1, EndIs DEF AutoInv
    <3> QED
      BY <3>2, <3>3, <3>4 DEF Going
  <2>2. Queueing(r, "ended", runs[r].sess)
    BY <1>1, QueueStays DEF AtWork
  <2>3. \A y \in Rooms : rooms[y].turn # runs[r].turn
    <3>1. 1 \in 1..Len(runs[r].heard)
      <4>1. runs[r].heard \in Seq(Nat)
        BY DEF AutoInv, AutoTypes, AutoRun
      <4>2. Len(runs[r].heard) \in Nat \ {0}
        BY <1>1, <4>1, EmptySeq
      <4> QED
        BY <4>2
    <3> QED
      BY <1>3, <3>1 DEF AutoInv, TurnsHold
  <2> QED
    BY <1>1, <1>2, <2>1, <2>2, <2>3, GoHolds
<1>4. CASE runs[r].heard[1] # runs[r].turn
  <2>1. "watch" \in Places \ (Over \cup {"none"}) /\ runs[r].pc \notin Over \cup {"none"}
    BY <1>1 DEF Places, Over
  <2>2. RunGoes(r, "watch", runs[r].sess, runs[r].turn, Tail(runs[r].heard), runs[r].copy)
    BY <1>1, <1>4, <2>1, HeardTail DEF HearEnd, AutoInv
  <2>3. Going(r, "watch", runs[r].sess, Tail(runs[r].heard), runs[r].copy)
    BY <1>1, <2>1, <2>2, HeardStays DEF Going, AutoInv
  <2>4. Queueing(r, "watch", runs[r].sess)
    BY <1>1, QueueStays DEF AtWork
  <2> QED
    BY <1>1, <1>2, <2>3, <2>4, GoHolds
<1> QED
  BY <1>3, <1>4

LEMMA CancelledIs ==
  ASSUME AutoTypes, NEW s \in Rooms, NEW t, rooms' = Cancelled(s, t) \/ rooms' = rooms
  PROVE  /\ rooms' \in [Rooms -> AutoRoom]
         /\ \A y \in Rooms : rooms'[y].turn = rooms[y].turn /\ (rooms'[y].exists => rooms[y].exists)
<1> DEFINE no == FALSE
<1>1. no \in BOOLEAN
  OBVIOUS
<1>2. CASE rooms' = rooms
  BY <1>2 DEF AutoTypes
<1>3. CASE rooms' = Cancelled(s, t) /\ rooms' # rooms
  <2>1. rooms' = [rooms EXCEPT ![s].asks = no]
    BY <1>3 DEF Cancelled
  <2> HIDE DEF no
  <2> QED
    BY <1>1, <2>1 DEF AutoTypes, AutoRoom
<1> QED
  BY <1>2, <1>3

(* A run at work that ends in the way of End.                                  *)
LEMMA EndHolds ==
  ASSUME AutoInv, NEW r \in RunIds, End(r), runs[r].pc \notin Over \cup {"none", "append"},
         UNCHANGED <<scope, past, saved, listed, asked, queues>>, Spends(r), r \in spent'.gaveUp,
         rooms' \in [Rooms -> AutoRoom],
         \A y \in Rooms : rooms'[y].turn = rooms[y].turn /\ (rooms'[y].exists => rooms[y].exists)
  PROVE  AutoInv'
<1>1. Going(r, "ended", runs[r].sess, <<>>, runs[r].copy)
  <2>1. "ended" \in Places \ (Over \cup {"none"})
    BY DEF Places, Over
  <2>2. \A h : h = <<>> => \A i \in 1..Len(h) :
            \E k \in 1..Len(runs[r].heard) : h[i] = runs[r].heard[k]
    BY HeardStays DEF AutoInv
  <2>3. RunGoes(r, "ended", runs[r].sess, runs[r].turn, <<>>, runs[r].copy)
    BY EndIs DEF AutoInv
  <2> QED
    BY <2>1, <2>2, <2>3 DEF Going
<1>2. Queueing(r, "ended", runs[r].sess)
  BY QueueStays DEF AtWork
<1>3. saved' \in Pasts /\ queues' \in [Rooms -> {0} \cup RunIds]
  BY RoomsStay
<1> QED
  BY <1>1, <1>2, <1>3, GoHolds

LEMMA GivingUpHolds ==
  ASSUME AutoInv, NEW r \in RunIds, Timeout(r) \/ GiveUp(r) \/ Stop(r)
  PROVE  AutoInv'
<1>1. ASSUME Timeout(r) PROVE AutoInv'
  <2>1. /\ runs[r].pc = "watch" /\ rooms' = Cancelled(runs[r].sess, runs[r].turn) /\ End(r)
        /\ spent' = [Count("incidents") EXCEPT !.gaveUp = @ \cup {r}]
        /\ UNCHANGED <<scope, past, saved, listed, asked, queues>>
    BY <1>1 DEF Timeout
  <2>2. runs[r].sess \in Rooms
    BY <2>1 DEF AutoInv, SessionsHold, AtWork, AutoTypes, AutoRun
  <2>3. Spends(r) /\ r \in spent'.gaveUp
    BY <2>1, GaveUpSpends DEF AutoInv
  <2>4. /\ rooms' \in [Rooms -> AutoRoom]
        /\ \A y \in Rooms : rooms'[y].turn = rooms[y].turn /\ (rooms'[y].exists => rooms[y].exists)
    BY <2>1, <2>2, CancelledIs DEF AutoInv
  <2> QED
    BY <2>1, <2>3, <2>4, EndHolds DEF Over
<1>2. ASSUME GiveUp(r) PROVE AutoInv'
  <2>1. /\ runs[r].pc \in {"prompt", "wait", "watch"} /\ rooms' = rooms /\ End(r)
        /\ \/ spent' = [Count("incidents") EXCEPT !.gaveUp = @ \cup {r}]
           \/ spent' = [spent EXCEPT !.gaveUp = @ \cup {r}]
        /\ UNCHANGED <<scope, past, saved, listed, asked, queues>>
    BY <1>2 DEF GiveUp
  <2>2. Spends(r) /\ r \in spent'.gaveUp
    BY <2>1, GaveUpSpends DEF AutoInv
  <2> QED
    BY <2>1, <2>2, RoomsStay, EndHolds DEF Over
<1>3. ASSUME Stop(r) PROVE AutoInv'
  <2>1. /\ runs[r].pc \in {"queued", "wait", "watch"} /\ End(r)
        /\ rooms' = Cancelled(runs[r].sess, runs[r].turn) \/ rooms' = rooms
        /\ spent' = [spent EXCEPT !.gaveUp = @ \cup {r}]
        /\ UNCHANGED <<scope, past, saved, listed, asked, queues>>
    BY <1>3 DEF Stop
  <2>2. runs[r].sess \in Rooms
    BY <2>1 DEF AutoInv, SessionsHold, AtWork, AutoTypes, AutoRun
  <2>3. Spends(r) /\ r \in spent'.gaveUp
    BY <2>1, GaveUpSpends DEF AutoInv
  <2>4. /\ rooms' \in [Rooms -> AutoRoom]
        /\ \A y \in Rooms : rooms'[y].turn = rooms[y].turn /\ (rooms'[y].exists => rooms[y].exists)
    BY <2>1, <2>2, CancelledIs DEF AutoInv
  <2> QED
    BY <2>1, <2>3, <2>4, EndHolds DEF Over
<1> QED
  BY <1>1, <1>2, <1>3

LEMMA ClearActiveHolds == ASSUME AutoInv, NEW r \in RunIds, ClearActive(r) PROVE AutoInv'
<1>1. /\ runs[r].pc = "ended" /\ Go(r, "append") /\ listed' = listed \ {r}
      /\ UNCHANGED <<scope, past, saved, asked, starting, queues, rooms, spent>>
  BY DEF ClearActive
<1>2. Going(r, "append", runs[r].sess, runs[r].heard, runs[r].copy)
  BY <1>1, GoIs, HeardStays DEF Going, Over, Places, AutoInv
<1>3. Queueing(r, "append", runs[r].sess)
  BY <1>1, QueueStays DEF AtWork
<1>4. /\ Spends(r) /\ saved' \in Pasts /\ rooms' \in [Rooms -> AutoRoom]
      /\ queues' \in [Rooms -> {0} \cup RunIds]
      /\ runs[r].pc # "watch" /\ spent'.gaveUp = spent.gaveUp
  BY <1>1, CountedSpends, RoomsStay
<1> QED
  BY <1>1, <1>2, <1>3, <1>4, NotWatching, GoHolds

LEMMA StartFailsHolds == ASSUME AutoInv, NEW r \in RunIds, StartFails(r) PROVE AutoInv'
<1>1. /\ runs[r].pc \in {"resolve", "write"}
      /\ runs' = [runs EXCEPT ![r].pc = "ended", ![r].copy = NoHistory]
      /\ spent' = Count("incidents") \/ spent' = spent
      /\ UNCHANGED <<scope, past, saved, listed, asked, starting, queues, rooms>>
  BY DEF StartFails
<1>2. RunGoes(r, "ended", runs[r].sess, runs[r].turn, runs[r].heard, NoHistory)
  <2> DEFINE p == "ended"
             e == NoHistory
  <2>1. runs \in [RunIds -> AutoRun]
    BY DEF AutoInv, AutoTypes
  <2>2. runs' = [runs EXCEPT ![r].pc = p, ![r].copy = e]
    BY <1>1
  <2>3. p \in Places /\ e \in Histories
    BY NoRunIs DEF Places
  <2> HIDE DEF p, e
  <2>4. RunGoes(r, p, runs[r].sess, runs[r].turn, runs[r].heard, e)
    BY <2>1, <2>2, <2>3, ZenonT(40) DEF RunGoes, RunMoves, AutoRun
  <2> QED
    BY <2>4 DEF p, e
<1>3. Going(r, "ended", runs[r].sess, runs[r].heard, NoHistory)
  BY <1>1, <1>2, HeardStays DEF Going, Over, Places, AutoInv
<1>4. Queueing(r, "ended", runs[r].sess)
  BY <1>1, QueueStays DEF AtWork
<1>5. /\ Spends(r) /\ saved' \in Pasts /\ rooms' \in [Rooms -> AutoRoom]
      /\ queues' \in [Rooms -> {0} \cup RunIds] /\ runs[r].pc # "watch" /\ runs[r].pc # "append"
  BY <1>1, CountedSpends, RoomsStay
<1>6. spent.gaveUp \subseteq spent'.gaveUp
  BY <1>5 DEF Spends
<1> QED
  BY <1>1, <1>3, <1>4, <1>5, <1>6, NotWatching, GoHolds

(* The end of a start that found its session.                                  *)
LEMMA SpawnHolds ==
  ASSUME AutoInv, NEW r \in RunIds, NEW s \in Rooms, Spawn(r, s),
         runs[r].pc \in {"resolve", "write"}, s <= spent.sessions,
         s = runs[r].sess \/ (runs[r].job \notin EveryJobs /\ ~Alone(s)),
         saved' \in Pasts, UNCHANGED <<scope, past, listed, asked, queues, rooms, spent>>
  PROVE  AutoInv'
<1>1. RunGoes(r, "queued", s, runs[r].turn, runs[r].heard, NoHistory)
  BY SpawnIs DEF AutoInv
<1>2. Going(r, "queued", s, runs[r].heard, NoHistory)
  BY <1>1, HeardStays DEF Going, Over, Places, AutoInv
<1>3. Queueing(r, "queued", s)
  BY HomeIs DEF Queueing, AtWork
<1>4. /\ Spends(r) /\ rooms' \in [Rooms -> AutoRoom]
      /\ queues' \in [Rooms -> {0} \cup RunIds] /\ runs[r].pc # "watch" /\ runs[r].pc # "append"
      /\ spent'.gaveUp = spent.gaveUp
  BY CountedSpends, RoomsStay
<1> QED
  BY <1>2, <1>3, <1>4, NotWatching, GoHolds

LEMMA ResolveExistingHolds == ASSUME AutoInv, NEW r \in RunIds, ResolveExisting(r) PROVE AutoInv'
<1>1. PICK j : j = runs[r].job
  OBVIOUS
<1>2. PICK s : s = IF j \in FixedJobs THEN Home ELSE IF j \in OnceJobs THEN BoundTo(j) ELSE 0
  OBVIOUS
<1>3. /\ runs[r].pc = "resolve" /\ Exists(s) /\ Spawn(r, s)
      /\ UNCHANGED <<scope, past, saved, listed, asked, queues, rooms, spent>>
  BY <1>1, <1>2 DEF ResolveExisting
<1>4. s # 0
  BY <1>3 DEF Exists
<1>5. HistoryHolds(past) /\ past \in Histories /\ spent.sessions \in Rooms /\ ~Alone(Home)
  BY DEF AutoInv, AutoTypes, PastsHold, Pasts, SessionsHold
<1>6. s \in Rooms /\ s <= spent.sessions /\ j \notin EveryJobs /\ ~Alone(s)
  <2>1. CASE j \in FixedJobs
    <3>1. s = Home /\ 1 <= spent.sessions
      <4>1. spent.sessions \in Nat \ {0}
        BY <1>5, HomeIs
      <4> QED
        BY <1>2, <2>1, <4>1
    <3> QED
      BY <1>5, <2>1, <3>1, HomeIs, JobsAssumption DEF Home
  <2>2. CASE j \notin FixedJobs /\ j \in OnceJobs
    <3>1. s = past.once[j]
      BY <1>2, <2>2 DEF BoundTo
    <3> QED
      BY <1>4, <1>5, <2>2, <3>1, JobsAssumption DEF HistoryHolds, Histories
  <2> QED
    BY <1>2, <1>4, <2>1, <2>2
<1>7. saved' \in Pasts
  BY <1>3 DEF Pasts
<1> QED
  BY <1>1, <1>3, <1>6, <1>7, SpawnHolds

LEMMA WriteBindingHolds == ASSUME AutoInv, NEW r \in RunIds, WriteBinding(r) PROVE AutoInv'
<1>1. /\ runs[r].pc = "write" /\ saved' = runs[r].copy /\ Spawn(r, runs[r].sess)
      /\ UNCHANGED <<scope, past, listed, asked, queues, rooms, spent>>
  BY DEF WriteBinding
<1>2. runs[r].sess \in Rooms /\ runs[r].sess <= spent.sessions
  BY <1>1 DEF AutoInv, SessionsHold, NumbersAreNew, AutoTypes, AutoRun
<1>3. saved' \in Pasts
  BY <1>1 DEF Pasts
<1> QED
  BY <1>1, <1>2, <1>3, SpawnHolds

(* A prompt: the turn that runs, or a new one.                                 *)
LEMMA PromptedIs ==
  ASSUME AutoInv, NEW s \in Rooms, Prompted(s)
  PROVE  /\ rooms' \in [Rooms -> AutoRoom] /\ \A y \in Rooms \ {s} : rooms'[y].turn = rooms[y].turn
         /\ \A y \in Rooms : rooms'[y].exists => rooms[y].exists
         /\ \/ rooms'[s].turn = rooms[s].turn /\ spent'.turns = spent.turns /\ rooms[s].turn # 0
            \/ rooms'[s].turn = spent.turns + 1 /\ spent'.turns = spent.turns + 1
         /\ rooms'[s].turn \in 1..spent'.turns
         /\ SpentFields(spent') /\ spent'.runs = spent.runs /\ spent'.sessions = spent.sessions
         /\ spent'.incidents = spent.incidents /\ spent'.dropped = spent.dropped
         /\ spent'.gaveUp = spent.gaveUp /\ spent'.made = spent.made
         /\ spent'.turns \in Nat /\ spent.turns <= spent'.turns
<1>1. /\ SpentFields(spent) /\ spent.turns \in Nat /\ rooms \in [Rooms -> AutoRoom]
      /\ rooms[s].turn \in 0..spent.turns
  BY DEF AutoInv, AutoTypes, NumbersAreNew, AutoRoom
<1>2. CASE rooms[s].turn # 0
  BY <1>1, <1>2 DEF Prompted
<1>3. CASE rooms[s].turn = 0
  <2> DEFINE t == spent.turns + 1
  <2>1. t \in Nat /\ t \in 1..t /\ spent.turns <= t
    BY <1>1
  <2>2. rooms' = [rooms EXCEPT ![s].turn = t] /\ spent' = [spent EXCEPT !.turns = t]
    BY <1>1, <1>3, CountIs DEF Prompted
  <2> HIDE DEF t
  <2>3. /\ SpentFields(spent') /\ spent'.runs = spent.runs /\ spent'.sessions = spent.sessions
        /\ spent'.turns = t /\ spent'.incidents = spent.incidents /\ spent'.dropped = spent.dropped
        /\ spent'.gaveUp = spent.gaveUp /\ spent'.made = spent.made
    BY <1>1, <2>2, SpentIs
  <2>4. /\ rooms' \in [Rooms -> AutoRoom] /\ rooms'[s].turn = t
        /\ \A y \in Rooms \ {s} : rooms'[y].turn = rooms[y].turn
        /\ \A y \in Rooms : rooms'[y].exists => rooms[y].exists
    BY <1>1, <2>1, <2>2 DEF AutoRoom
  <2> QED
    BY <2>1, <2>3, <2>4 DEF t
<1> QED
  BY <1>2, <1>3

LEMMA WatchIs ==
  ASSUME AutoTypes, NEW r \in RunIds, NEW p \in Places, NEW t \in Nat,
         runs' = [runs EXCEPT ![r].pc = p, ![r].turn = t]
  PROVE  RunGoes(r, p, runs[r].sess, t, runs[r].heard, runs[r].copy)
<1>1. runs \in [RunIds -> AutoRun]
  BY DEF AutoTypes
<1> QED
  BY <1>1, ZenonT(40) DEF RunGoes, RunMoves, AutoRun

LEMMA PromptHolds == ASSUME AutoInv, NEW r \in RunIds, Prompt(r) PROVE AutoInv'
<1>1. PICK s : s = runs[r].sess
  OBVIOUS
<1>2. /\ runs[r].pc = "prompt" /\ Prompted(s)
      /\ runs' = [runs EXCEPT ![r].pc = "watch", ![r].turn = rooms'[s].turn]
      /\ UNCHANGED <<scope, past, saved, listed, asked, starting, queues>>
  BY <1>1 DEF Prompt
<1>3. s \in Rooms
  BY <1>1, <1>2 DEF AutoInv, SessionsHold, AtWork, AutoTypes, AutoRun
<1>4. /\ rooms' \in [Rooms -> AutoRoom] /\ \A y \in Rooms \ {s} : rooms'[y].turn = rooms[y].turn
      /\ \A y \in Rooms : rooms'[y].exists => rooms[y].exists
      /\ \/ rooms'[s].turn = rooms[s].turn /\ spent'.turns = spent.turns /\ rooms[s].turn # 0
         \/ rooms'[s].turn = spent.turns + 1 /\ spent'.turns = spent.turns + 1
      /\ rooms'[s].turn \in 1..spent'.turns
      /\ SpentFields(spent') /\ spent'.runs = spent.runs /\ spent'.sessions = spent.sessions
      /\ spent'.incidents = spent.incidents /\ spent'.dropped = spent.dropped
      /\ spent'.gaveUp = spent.gaveUp /\ spent'.made = spent.made
      /\ spent'.turns \in Nat /\ spent.turns <= spent'.turns
  BY <1>2, <1>3, PromptedIs
<1>5. PICK t : t = rooms'[s].turn
  OBVIOUS
<1>6. t \in Nat /\ t \in 1..spent'.turns
  BY <1>4, <1>5
<1>7. RunGoes(r, "watch", runs[r].sess, t, runs[r].heard, runs[r].copy)
  <2>1. "watch" \in Places
    BY DEF Places
  <2>2. runs' = [runs EXCEPT ![r].pc = "watch", ![r].turn = t]
    BY <1>2, <1>5
  <2> QED
    BY <1>6, <2>1, <2>2, WatchIs DEF AutoInv
<1>8. /\ runs' \in [RunIds -> AutoRun] /\ \A q \in RunIds \ {r} : runs'[q] = runs[q]
      /\ runs'[r].pc = "watch" /\ runs'[r].sess = s /\ runs'[r].turn = t /\ RunMoves(r)
      /\ runs'[r].heard = runs[r].heard /\ runs'[r].copy = runs[r].copy /\ runs'[r].job = runs[r].job
  BY <1>1, <1>7 DEF RunGoes, RunMoves
<1>9. AutoTypes'
  BY <1>2, <1>4, <1>8 DEF AutoInv, AutoTypes
<1>10. spent.sessions \in Nat /\ spent.turns \in Nat
  BY DEF AutoInv, AutoTypes, Rooms
<1>11. NumbersAreNew'
  <2>1. \A q \in RunIds : /\ runs[q].pc = "none" => runs'[q].pc = "none"
                          /\ runs'[q].sess \in {0, runs[q].sess} \/ runs'[q].sess <= spent'.sessions
                          /\ runs'[q].turn \in {0, runs[q].turn} \/ runs'[q].turn <= spent'.turns
    BY <1>1, <1>2, <1>6, <1>8
  <2>2. \A y \in Rooms : rooms'[y].turn = rooms[y].turn \/ rooms'[y].turn <= spent'.turns
    BY <1>4
  <2>3. spent.sessions <= spent'.sessions
    BY <1>4, <1>10
  <2> QED
    BY <1>4, <1>9, <2>1, <2>2, <2>3, NumbersStay DEF AutoInv
<1>12. SessionsHold'
  <2>1. runs[r].pc \in AtWork /\ runs[r].sess # 0
    BY <1>2 DEF AtWork, AutoInv, SessionsHold
  <2>2. /\ runs'[r].sess # 0
        /\ runs'[r].job \notin EveryJobs => queues'[runs'[r].sess] = r
        /\ runs'[r].sess = runs[r].sess /\ runs'[r].job = runs[r].job
    BY <1>1, <1>2, <1>8, <2>1 DEF AutoInv, SessionsHold
  <2>3. \A q \in RunIds \ {r} :
           runs[q].pc \in AtWork /\ runs[q].job \notin EveryJobs =>
             queues'[runs[q].sess] = queues[runs[q].sess]
    BY <1>2
  <2> QED
    BY <1>8, <2>2, <2>3, SessionsStep DEF AutoInv
<1>13. BindingsHold'
  <2>1. ScopeRests
    BY <1>2 DEF ScopeRests, AutoInv, AutoTypes
  <2> QED
    BY <1>2, <1>4, <2>1, BindingsRest, MadeIs DEF AutoInv
<1>14. ASSUME NEW q \in RunIds \ {r}, runs'[q].turn = t
       PROVE  q \in spent'.gaveUp
  <2>1. runs[q].turn = t
    BY <1>8, <1>14
  <2>2. runs[q].turn \in Nat /\ runs[q].turn <= spent.turns
    BY DEF AutoInv, NumbersAreNew, AutoTypes, AutoRun
  <2>3. rooms[s].turn = t /\ t # 0
    BY <1>4, <1>5, <1>6, <1>10, <2>1, <2>2
  <2>4. SUFFICES ASSUME q \notin spent.gaveUp PROVE FALSE
    BY <1>4
  <2>5. runs[q].pc = "watch" /\ runs[q].sess = s
    BY <1>3, <2>1, <2>3, <2>4 DEF AutoInv, TurnsHold
  <2>6. s # 0
    BY <1>3, HomeIs
  <2>7. runs[r].job \notin EveryJobs /\ runs[q].job \notin EveryJobs
    BY <1>1, <2>5, <2>6 DEF AutoInv, SessionsHold
  <2> QED
    BY <1>1, <1>2, <2>5, <2>7 DEF AutoInv, SessionsHold, AtWork
<1>15. NoSharedTurn'
  <2>1. ASSUME NEW p \in RunIds, NEW q \in RunIds, p # q, runs'[p].turn # 0,
               runs'[p].turn = runs'[q].turn
        PROVE  {p, q} \cap spent'.gaveUp # {}
    <3>1. CASE p = r
      BY <1>8, <1>14, <2>1, <3>1
    <3>2. CASE q = r
      BY <1>8, <1>14, <2>1, <3>2
    <3>3. CASE p # r /\ q # r
      BY <1>4, <1>8, <2>1, <3>3 DEF AutoInv, NoSharedTurn
    <3> QED
      BY <3>1, <3>2, <3>3
  <2> QED
    BY <2>1 DEF NoSharedTurn
<1>16. Knowledge(r)
  <2>1. past' \in Pasts /\ saved' \in Pasts /\ runs'[r].copy \in Pasts
    BY <1>2, <1>8 DEF Pasts
  <2>2. runs[r].pc \notin Over
    BY <1>2 DEF Over
  <2> QED
    BY <1>1, <1>8, <2>1, <2>2 DEF Knowledge
<1>17. Turning(r, s)
  <2>1. \A i \in 1..Len(runs'[r].heard) :
          \E k \in 1..Len(runs[r].heard) : runs'[r].heard[i] = runs[r].heard[k]
    BY <1>8
  <2>2. runs'[r].pc = "watch" /\ runs'[r].sess = s /\ runs'[r].turn = rooms'[s].turn
    BY <1>5, <1>8
  <2> QED
    BY <1>4, <2>1, <2>2 DEF Turning
<1>18. Accounts(r)
  <2>1. listed = {q \in RunIds : runs[q].pc \notin {"none", "append", "deliver", "done", "gone"}}
    BY DEF AutoInv, RunsAccounted
  <2>2. \A i \in 1..Len(past.runs) : past.runs[i] \in ToSet(past'.runs) \cup spent'.dropped
    BY <1>2, ToSetIs
  <2>3. r \in listed' /\ listed' = listed
    BY <1>2, <2>1
  <2> QED
    BY <1>4, <1>8, <2>1, <2>2, <2>3 DEF Accounts
<1>19. spent.sessions <= spent'.sessions
  BY <1>4, <1>10
<1> QED
  BY <1>3, <1>8, <1>9, <1>11, <1>12, <1>13, <1>15, <1>16, <1>17, <1>18, <1>19, MoveHolds

LEMMA BeginHolds ==
  ASSUME AutoInv, NEW a \in asked, NEW r \in RunIds, Begin(a, r)
  PROVE  AutoInv'
<1>1. /\ StillThere(a) /\ r = spent.runs + 1 /\ asked' = asked \ {a} /\ listed' = listed \cup {r}
      /\ spent' = Count("runs") /\ UNCHANGED <<scope, past, saved, queues, rooms>>
  BY DEF Begin
<1>2. /\ SpentFields(spent) /\ spent.runs \in Nat /\ r \in 1..MaxRuns /\ runs \in [RunIds -> AutoRun]
      /\ spent.sessions \in Nat /\ spent.turns \in Nat /\ MaxRuns \in Nat /\ AutoTypes
  BY AutomationBoundsAssumption DEF AutoInv, AutoTypes, RunIds, Rooms
<1>3. /\ SpentFields(spent') /\ spent'.runs = r /\ spent'.sessions = spent.sessions
      /\ spent'.turns = spent.turns /\ spent'.incidents = spent.incidents
      /\ spent'.dropped = spent.dropped /\ spent'.gaveUp = spent.gaveUp /\ spent'.made = spent.made
  <2>1. spent' = [spent EXCEPT !.runs = r]
    BY <1>1, <1>2, CountIs
  <2> QED
    BY <1>2, <2>1, SpentIs
<1>4. /\ runs' \in [RunIds -> AutoRun] /\ \A q \in RunIds \ {r} : runs'[q] = runs[q]
      /\ runs'[r].pc = "resolve" /\ runs'[r].sess = 0 /\ runs'[r].turn = 0
      /\ Len(runs'[r].heard) = 0 /\ runs'[r].copy = NoHistory
  <2> DEFINE b == ~a.scheduled
             p == "resolve"
             no == FALSE
             e == <<>>
             c == NoHistory
             x == NoRun.job
  <2>1. /\ a.job \in Jobs \cup {x} /\ b \in BOOLEAN /\ p \in Places /\ e \in Seq(Nat)
        /\ c \in Histories /\ Len(e) = 0 /\ no \in BOOLEAN
    BY NoRunIs, EmptySeq DEF AutoInv, AutoTypes, Places
  <2>2. NoRun = [pc |-> "none", job |-> x, caller |-> no, sess |-> 0, turn |-> 0, heard |-> e, copy |-> c]
    BY NoRunIs
  <2>3. PICK j : j = a.job
    OBVIOUS
  <2>4. PICK m : m = [NoRun EXCEPT !.pc = p, !.job = j, !.caller = b]
    OBVIOUS
  <2>5. runs' = [runs EXCEPT ![r] = m]
    BY <2>3, <2>4 DEF Begin
  <2> HIDE DEF b, p, no, e, c, x
  <2>6. m = [pc |-> p, job |-> j, caller |-> b, sess |-> 0, turn |-> 0, heard |-> e, copy |-> c]
    <3>1. PICK w : w = NoRun
      OBVIOUS
    <3>2. w = [pc |-> "none", job |-> x, caller |-> no, sess |-> 0, turn |-> 0, heard |-> e, copy |-> c]
      BY <2>2, <3>1
    <3>3. m = [w EXCEPT !.pc = p, !.job = j, !.caller = b]
      BY <2>4, <3>1
    <3> QED
      BY <3>2, <3>3
  <2>7. j \in Jobs \cup {NoRun.job}
    BY <2>1, <2>3 DEF x
  <2>8. m \in AutoRun
    BY <2>1, <2>6, <2>7 DEF AutoRun
  <2>9. m.pc = p /\ m.sess = 0 /\ m.turn = 0 /\ m.heard = e /\ m.copy = c
    BY <2>6
  <2> QED
    BY <1>2, <2>1, <2>5, <2>8, <2>9 DEF p, c
<1>5. asked' \subseteq [job : Jobs, scheduled : BOOLEAN]
  BY <1>1, <1>2 DEF AutoTypes
<1>6. AutoTypes'
  <2>1. r \in 0..MaxRuns
    BY <1>2
  <2> QED
    BY <1>1, <1>2, <1>3, <1>4, <1>5, <2>1 DEF AutoTypes
<1>7. runs[r].pc = "none"
  <2>1. r > spent.runs
    BY <1>1, <1>2
  <2> QED
    BY <2>1 DEF AutoInv, NumbersAreNew
<1>8. NumbersAreNew'
  <2>1. ASSUME NEW q \in RunIds, q > spent'.runs PROVE runs'[q].pc = "none"
    <3>1. q # r /\ q > spent.runs
      BY <1>1, <1>2, <1>3, <2>1 DEF RunIds
    <3> QED
      BY <1>4, <3>1 DEF AutoInv, NumbersAreNew
  <2>2. \A q \in RunIds : runs'[q].sess <= spent'.sessions /\ runs'[q].turn <= spent'.turns
    BY <1>2, <1>3, <1>4 DEF AutoInv, NumbersAreNew
  <2>3. \A s \in Rooms : rooms'[s].turn <= spent'.turns
    BY <1>1, <1>3 DEF AutoInv, NumbersAreNew
  <2> QED
    BY <2>1, <2>2, <2>3 DEF NumbersAreNew
<1>9. RunMoves(r)
  BY <1>4 DEF RunMoves
<1>10. SessionsHold'
  <2>1. runs'[r].pc \notin AtWork \cup {"write", "queued"}
    BY <1>4 DEF AtWork
  <2>2. \A q \in RunIds \ {r} :
           runs[q].pc \in AtWork /\ runs[q].job \notin EveryJobs =>
             queues'[runs[q].sess] = queues[runs[q].sess]
    BY <1>1
  <2> QED
    BY <1>2, <1>4, <1>9, <2>1, <2>2, SessionsStep DEF AutoInv
<1>11. BindingsHold'
  <2>1. scope.loaded
    BY <1>1 DEF StillThere
  <2> QED
    BY <1>1, <1>3, <2>1 DEF AutoInv, BindingsHold
<1>12. NoSharedTurn'
  <2>1. \A q \in RunIds : runs'[q].turn \in {0, runs[q].turn}
    BY <1>4
  <2> QED
    BY <1>3, <2>1, NoShareStays DEF AutoInv
<1>13. Knowledge(r)
  <2>1. past' \in Pasts /\ saved' \in Pasts
    BY <1>1 DEF Pasts
  <2>2. runs[r].pc \notin Over /\ runs'[r].sess \notin 1..spent.sessions
    BY <1>2, <1>4, <1>7 DEF Over
  <2> QED
    BY <1>4, <2>1, <2>2 DEF Knowledge
<1>14. Turning(r, Home)
  BY <1>1, <1>3, <1>4, HomeIs DEF Turning
<1>15. Accounts(r)
  <2>1. listed = {q \in RunIds : runs[q].pc \notin {"none", "append", "deliver", "done", "gone"}}
    BY DEF AutoInv, RunsAccounted
  <2>2. \A i \in 1..Len(past.runs) : past.runs[i] \in ToSet(past'.runs) \cup spent'.dropped
    BY <1>1, ToSetIs
  <2> QED
    BY <1>1, <1>3, <1>4, <2>1, <2>2 DEF Accounts
<1>16. spent.sessions <= spent'.sessions
  BY <1>2, <1>3
<1> QED
  BY <1>6, <1>8, <1>9, <1>10, <1>11, <1>12, <1>13, <1>14, <1>15, <1>16, MoveHolds, HomeIs

(* A session made for a run.                                                   *)
LEMMA RoomMadeIs ==
  ASSUME AutoInv, NEW r \in RunIds, RoomMade(r)
  PROVE  /\ NewRoom \in Rooms /\ NewRoom = spent.sessions + 1
         /\ SpentFields(spent') /\ spent'.runs = spent.runs /\ spent'.sessions = NewRoom
         /\ spent'.turns = spent.turns /\ spent'.incidents = spent.incidents
         /\ spent'.dropped = spent.dropped /\ spent'.gaveUp = spent.gaveUp
         /\ spent'.made \in [OnceJobs -> SUBSET (1..spent'.sessions)]
         /\ \A k \in OnceJobs : spent'.made[k] =
              IF k = runs[r].job THEN spent.made[k] \cup {NewRoom} ELSE spent.made[k]
         /\ \A k \in OnceJobs : NewRoom \notin spent.made[k]
         /\ rooms' \in [Rooms -> AutoRoom] /\ \A y \in Rooms : rooms'[y].turn = rooms[y].turn
         /\ \A y \in Rooms \ {NewRoom} : rooms'[y].exists => rooms[y].exists
<1>1. /\ SpentFields(spent) /\ spent.sessions \in Nat \ {0} /\ MaxSessions \in Nat
      /\ spent.made \in [OnceJobs -> SUBSET (1..spent.sessions)] /\ rooms \in [Rooms -> AutoRoom]
  BY HomeIs, AutomationBoundsAssumption DEF AutoInv, AutoTypes
<1>2. NewRoom = spent.sessions + 1 /\ NewRoom <= MaxSessions
  BY DEF NewRoom, RoomMade
<1>3. PICK s : s = NewRoom
  OBVIOUS
<1>4. s \in Rooms /\ 1..spent.sessions \subseteq 1..s /\ s \in 1..s /\ s \notin 1..spent.sessions
  BY <1>1, <1>2, <1>3 DEF Rooms
<1> DEFINE m == [k \in OnceJobs |-> IF k = runs[r].job THEN spent.made[k] \cup {s} ELSE spent.made[k]]
           yes == TRUE
<1>5. /\ m \in [OnceJobs -> SUBSET (1..s)]
      /\ \A k \in OnceJobs : m[k] = IF k = runs[r].job THEN spent.made[k] \cup {s} ELSE spent.made[k]
  BY <1>1, <1>4
<1>6. yes \in BOOLEAN /\ rooms' = [rooms EXCEPT ![s].exists = yes]
  BY <1>3 DEF RoomMade
<1>7. PICK c : c = [spent EXCEPT !.sessions = s]
  OBVIOUS
<1>8. /\ SpentFields(c) /\ c.runs = spent.runs /\ c.sessions = s
      /\ c.turns = spent.turns /\ c.incidents = spent.incidents /\ c.dropped = spent.dropped
      /\ c.gaveUp = spent.gaveUp /\ c.made = spent.made
  BY <1>1, <1>7, SpentIs
<1>9. spent' = [c EXCEPT !.made = m]
  <2>1. Count("sessions") = c
    BY <1>1, <1>2, <1>3, <1>7, CountIs
  <2>2. spent' = [c EXCEPT !.made =
           [k \in OnceJobs |-> IF k = runs[r].job THEN c.made[k] \cup {NewRoom} ELSE c.made[k]]]
    BY <2>1 DEF RoomMade
  <2> QED
    BY <1>3, <1>8, <2>2
<1> HIDE DEF m, yes
<1>10. /\ SpentFields(spent') /\ spent'.runs = c.runs /\ spent'.sessions = c.sessions
       /\ spent'.turns = c.turns /\ spent'.incidents = c.incidents /\ spent'.dropped = c.dropped
       /\ spent'.gaveUp = c.gaveUp /\ spent'.made = m
  BY <1>8, <1>9, SpentIs
<1>11. /\ rooms' \in [Rooms -> AutoRoom] /\ \A y \in Rooms : rooms'[y].turn = rooms[y].turn
       /\ \A y \in Rooms \ {s} : rooms'[y].exists => rooms[y].exists
  BY <1>1, <1>4, <1>6 DEF AutoRoom
<1>12. \A k \in OnceJobs : s \notin spent.made[k]
  BY <1>1, <1>4
<1> QED
  BY <1>2, <1>3, <1>4, <1>5, <1>8, <1>10, <1>11, <1>12

LEMMA CreatedHolds ==
  ASSUME AutoInv, NEW r \in RunIds, RoomMade(r), NEW p \in {"queued", "write"}, NEW c,
         RunGoes(r, p, NewRoom, runs[r].turn, runs[r].heard, c), runs[r].pc = "resolve",
         UNCHANGED <<scope, saved, listed, asked, queues>>,
         past' \in Histories, past'.runs = past.runs, past' \in Pasts \/ HistoryAgain(past'),
         c \in Pasts \cup {NoHistory} \/ HistoryAgain(c), BindingsHold'
  PROVE  AutoInv'
<1>1. PICK s : s = NewRoom
  OBVIOUS
<1>2. /\ s \in Rooms /\ s = spent.sessions + 1
      /\ SpentFields(spent') /\ spent'.runs = spent.runs /\ spent'.sessions = s
      /\ spent'.turns = spent.turns /\ spent'.incidents = spent.incidents
      /\ spent'.dropped = spent.dropped /\ spent'.gaveUp = spent.gaveUp
      /\ spent'.made \in [OnceJobs -> SUBSET (1..spent'.sessions)]
      /\ rooms' \in [Rooms -> AutoRoom] /\ \A y \in Rooms : rooms'[y].turn = rooms[y].turn
  BY <1>1, RoomMadeIs
<1>3. /\ runs' \in [RunIds -> AutoRun] /\ \A q \in RunIds \ {r} : runs'[q] = runs[q]
      /\ runs'[r].pc = p /\ runs'[r].sess = s /\ runs'[r].turn = runs[r].turn /\ RunMoves(r)
      /\ runs'[r].heard = runs[r].heard /\ runs'[r].copy = c /\ runs'[r].job = runs[r].job
  BY <1>1 DEF RunGoes, RunMoves
<1>4. AutoTypes'
  BY <1>2, <1>3 DEF AutoInv, AutoTypes
<1>5. /\ spent.sessions \in Nat \ {0} /\ spent.turns \in Nat /\ s # 0 /\ s # Home
      /\ spent.sessions <= spent'.sessions /\ s \notin 1..spent.sessions
      /\ spent.turns <= spent'.turns
  <2>1. spent.sessions \in Nat \ {0} /\ spent.turns \in Nat
    BY HomeIs DEF AutoInv, AutoTypes
  <2>2. PICK n \in Nat \ {0} : n = spent.sessions
    BY <2>1
  <2>3. s = n + 1 /\ spent'.sessions = s
    BY <1>2, <2>2
  <2>4. s # 0 /\ s # 1 /\ n <= s /\ s \notin 1..n
    BY <2>3
  <2> QED
    BY <1>2, <2>1, <2>2, <2>3, <2>4 DEF Home
<1>6. NumbersAreNew'
  <2>1. \A q \in RunIds : /\ runs[q].pc = "none" => runs'[q].pc = "none"
                          /\ runs'[q].sess \in {0, runs[q].sess} \/ runs'[q].sess <= spent'.sessions
                          /\ runs'[q].turn \in {0, runs[q].turn}
    BY <1>2, <1>3, <1>5
  <2>2. \A y \in Rooms : rooms'[y].turn = rooms[y].turn
    BY <1>2
  <2> QED
    BY <1>2, <1>4, <1>5, <2>1, <2>2, NumbersStay DEF AutoInv
<1>7. \A q \in RunIds : runs[q].sess # s
  <2>1. \A q \in RunIds : runs[q].sess \in Nat /\ runs[q].sess <= spent.sessions
    BY DEF AutoInv, AutoTypes, AutoRun, NumbersAreNew, Rooms
  <2> QED
    BY <1>2, <1>5, <2>1
<1>8. SessionsHold'
  <2>1. runs'[r].pc \notin AtWork
    BY <1>3 DEF AtWork
  <2>2. \A q \in RunIds \ {r} :
           runs[q].pc \in AtWork /\ runs[q].job \notin EveryJobs =>
             queues'[runs[q].sess] = queues[runs[q].sess]
    OBVIOUS
  <2> QED
    BY <1>3, <1>5, <1>7, <2>1, <2>2, SessionsStep DEF AutoInv
<1>9. NoSharedTurn'
  <2>1. \A q \in RunIds : runs'[q].turn \in {0, runs[q].turn}
    BY <1>3
  <2> QED
    BY <1>2, <2>1, NoShareStays DEF AutoInv
<1>10. Knowledge(r)
  <2>1. saved' \in Pasts
    BY DEF Pasts
  <2> QED
    BY <1>3, <1>5, <2>1 DEF Knowledge, Over
<1>11. Turning(r, Home)
  <2>1. \/ r \in spent.gaveUp \/ runs[r].turn = 0
        \/ \A y \in Rooms : rooms[y].turn # runs[r].turn
    BY NotWatching
  <2> QED
    BY <1>2, <1>3, <2>1, HomeIs DEF Turning
<1>12. Accounts(r)
  <2>1. listed = {q \in RunIds : runs[q].pc \notin {"none", "append", "deliver", "done", "gone"}}
    BY DEF AutoInv, RunsAccounted
  <2>2. \A i \in 1..Len(past.runs) : past.runs[i] \in ToSet(past'.runs) \cup spent'.dropped
    <3>1. \A q : q = past.runs => \A i \in 1..Len(q) : q[i] \in ToSet(q)
      BY ToSetIs
    <3> QED
      BY <3>1
  <2> QED
    BY <1>2, <1>3, <2>1, <2>2 DEF Accounts
<1> QED
  BY <1>3, <1>4, <1>5, <1>6, <1>8, <1>9, <1>10, <1>11, <1>12, MoveHolds, HomeIs

LEMMA CreateEveryHolds == ASSUME AutoInv, NEW r \in RunIds, CreateEvery(r) PROVE AutoInv'
<1>1. /\ runs[r].pc = "resolve" /\ runs[r].job \in EveryJobs /\ RoomMade(r) /\ Spawn(r, NewRoom)
      /\ UNCHANGED <<scope, past, saved, listed, asked, queues>>
  BY DEF CreateEvery
<1>2. NewRoom \in Rooms
  BY <1>1, RoomMadeIs
<1>3. RunGoes(r, "queued", NewRoom, runs[r].turn, runs[r].heard, NoHistory)
  BY <1>1, <1>2, SpawnIs DEF AutoInv
<1>4. BindingsHold'
  <2>1. \A k \in OnceJobs : spent'.made[k] = spent.made[k]
    BY <1>1, RoomMadeIs, JobsAssumption
  <2>2. ASSUME NEW k \in OnceJobs, NEW y \in spent'.made[k], rooms'[y].exists
        PROVE  y = past'.once[k]
    <3>1. y \in spent.made[k] /\ y \in Rooms /\ y # NewRoom
      BY <1>1, <2>1, RoomMadeIs, MadeIs DEF AutoInv
    <3>2. rooms[y].exists
      BY <1>1, <2>2, <3>1, RoomMadeIs
    <3> QED
      BY <1>1, <3>1, <3>2 DEF AutoInv, BindingsHold
  <2>3. ~scope'.loaded => /\ \A k \in OnceJobs : spent'.made[k] = {}
                          /\ past' = NoHistory /\ listed' = {}
    BY <1>1, <2>1 DEF AutoInv, BindingsHold
  <2>4. (scope'.removing \/ ~scope'.exists) /\ ~scope'.revived => ~scope'.loaded
    BY <1>1 DEF AutoInv, BindingsHold
  <2> QED
    BY <2>2, <2>3, <2>4 DEF BindingsHold
<1>5. past' \in Histories /\ past'.runs = past.runs /\ past' \in Pasts
  BY <1>1 DEF AutoInv, AutoTypes, Pasts
<1> QED
  BY <1>1, <1>3, <1>4, <1>5, CreatedHolds

(* A run that leaves with a room and with a copy of the history.             *)
LEMMA CopyIs ==
  ASSUME runs \in [RunIds -> AutoRun], NEW r \in RunIds, NEW p \in Places, NEW s \in {0} \cup Rooms,
         NEW h \in Histories, runs' = [runs EXCEPT ![r].pc = p, ![r].sess = s, ![r].copy = h]
  PROVE  RunGoes(r, p, s, runs[r].turn, runs[r].heard, h)
BY ZenonT(40) DEF RunGoes, RunMoves, AutoRun

LEMMA CreateOnceHolds == ASSUME AutoInv, NEW r \in RunIds, CreateOnce(r) PROVE AutoInv'
<1>1. PICK j : j = runs[r].job
  OBVIOUS
<1>2. PICK s : s = NewRoom
  OBVIOUS
<1>3. PICK b : b = [past EXCEPT !.once[j] = s]
  OBVIOUS
<1>4. /\ runs[r].pc = "resolve" /\ j \in OnceJobs /\ ~Exists(past.once[j]) /\ RoomMade(r)
      /\ past' = b
      /\ runs' = [runs EXCEPT ![r].pc = "write", ![r].sess = s, ![r].copy = b]
      /\ UNCHANGED <<scope, saved, listed, asked, queues>>
  BY <1>1, <1>2, <1>3 DEF CreateOnce, BoundTo
<1>5. /\ s \in Rooms /\ s = spent.sessions + 1 /\ spent'.sessions = s
      /\ \A k \in OnceJobs : spent'.made[k] = IF k = j THEN spent.made[k] \cup {s} ELSE spent.made[k]
      /\ \A k \in OnceJobs : s \notin spent.made[k]
      /\ \A y \in Rooms \ {s} : rooms'[y].exists => rooms[y].exists
  BY <1>1, <1>2, <1>4, RoomMadeIs, ZenonT(40)
<1>6. past \in Histories /\ HistoryHolds(past) /\ spent.sessions \in Nat
  BY DEF AutoInv, AutoTypes, PastsHold, Pasts, Rooms
<1>7. /\ b \in Histories /\ b.runs = past.runs
      /\ \A k \in OnceJobs : b.once[k] = IF k = j THEN s ELSE past.once[k]
  BY <1>3, <1>4, <1>5, <1>6 DEF Histories
<1>8. RunGoes(r, "write", s, runs[r].turn, runs[r].heard, b)
  <2> DEFINE p == "write"
  <2>1. runs \in [RunIds -> AutoRun] /\ s \in {0} \cup Rooms /\ p \in Places
    BY <1>5 DEF AutoInv, AutoTypes, Places
  <2>2. runs' = [runs EXCEPT ![r].pc = p, ![r].sess = s, ![r].copy = b]
    BY <1>4
  <2> HIDE DEF p
  <2>3. RunGoes(r, p, s, runs[r].turn, runs[r].heard, b)
    BY <1>7, <2>1, <2>2, CopyIs
  <2> QED
    BY <2>3 DEF p
<1>9. \A q \in RunIds \ {r} : runs'[q] = runs[q]
  BY <1>8 DEF RunGoes, RunMoves
<1>10. j \notin EveryJobs /\ runs'[r].sess = s /\ runs'[r].job = j /\ runs'[r].pc = "write"
  BY <1>1, <1>4, <1>8, JobsAssumption DEF RunGoes
<1>11. \A q \in RunIds : runs[q].sess \in Nat /\ runs[q].sess <= spent.sessions
  BY DEF AutoInv, AutoTypes, AutoRun, NumbersAreNew, Rooms
<1>12. HistoryAgain(b)
  <2>1. \A i \in 1..Len(b.runs) : runs'[b.runs[i]].pc \in Over
    <3>1. ASSUME NEW i \in 1..Len(past.runs) PROVE runs'[past.runs[i]].pc \in Over
      <4>1. past.runs[i] \in RunIds /\ runs[past.runs[i]].pc \in Over
        BY <1>6 DEF Histories, HistoryHolds
      <4>2. past.runs[i] # r
        BY <1>4, <4>1 DEF Over
      <4> QED
        BY <1>9, <4>1, <4>2
    <3> QED
      BY <1>7, <3>1
  <2>2. ASSUME NEW k \in OnceJobs, b.once[k] # 0
        PROVE  /\ \A q \in RunIds : ~(runs'[q].sess = b.once[k] /\ runs'[q].job \in EveryJobs)
               /\ b.once[k] <= spent'.sessions
    <3>1. CASE k = j
      <4>1. b.once[k] = s
        BY <1>7, <3>1
      <4>2. \A q \in RunIds \ {r} : runs'[q].sess # s
        BY <1>5, <1>6, <1>9, <1>11
      <4> QED
        BY <1>5, <1>6, <1>10, <4>1, <4>2
    <3>2. CASE k # j
      <4>1. b.once[k] = past.once[k] /\ ~Alone(past.once[k]) /\ past.once[k] <= spent.sessions
        BY <1>6, <1>7, <2>2, <3>2 DEF HistoryHolds
      <4>2. PICK x : x = past.once[k]
        OBVIOUS
      <4>3. x \in Nat
        BY <1>6, <4>2 DEF Histories, Rooms
      <4>4. \A q \in RunIds : ~(runs'[q].sess = x /\ runs'[q].job \in EveryJobs)
        BY <1>9, <1>10, <4>1, <4>2 DEF Alone
      <4>5. x <= s
        BY <1>5, <1>6, <4>1, <4>2, <4>3
      <4> QED
        BY <1>5, <4>1, <4>2, <4>4, <4>5
    <3> QED
      BY <3>1, <3>2
  <2>3. IsInjective(b.runs)
    BY <1>6, <1>7 DEF HistoryHolds
  <2> QED
    BY <2>1, <2>2, <2>3 DEF HistoryAgain
<1>13. BindingsHold'
  <2>1. scope.loaded
    <3>1. r \in listed
      BY <1>4 DEF AutoInv, RunsAccounted
    <3> QED
      BY <3>1 DEF AutoInv, BindingsHold
  <2>2. ASSUME NEW k \in OnceJobs, NEW y \in spent'.made[k], rooms'[y].exists
        PROVE  y = past'.once[k]
    <3>1. CASE y = s
      <4>1. k = j
        BY <1>5, <3>1
      <4> QED
        BY <1>4, <1>7, <3>1, <4>1
    <3>2. CASE y # s
      <4>1. y \in spent.made[k] /\ y \in Rooms
        BY <1>5, <3>2, MadeIs DEF AutoInv
      <4>2. rooms[y].exists /\ y = past.once[k] /\ y # 0
        BY <1>5, <2>2, <3>2, <4>1, HomeIs DEF AutoInv, BindingsHold
      <4>3. k # j
        BY <1>4, <4>2 DEF Exists
      <4> QED
        BY <1>4, <1>7, <4>2, <4>3
    <3> QED
      BY <3>1, <3>2
  <2>3. scope'.loaded
    BY <1>4, <2>1
  <2>4. (scope'.removing \/ ~scope'.exists) /\ ~scope'.revived => ~scope'.loaded
    BY <1>4 DEF AutoInv, BindingsHold
  <2> QED
    BY <2>2, <2>3, <2>4 DEF BindingsHold
<1>14. past' \in Histories /\ past'.runs = past.runs /\ HistoryAgain(past')
  <2>1. \A x : x = past' => HistoryAgain(x)
    BY <1>4, <1>12
  <2> QED
    BY <1>4, <1>7, <2>1
<1> QED
  BY <1>2, <1>4, <1>8, <1>12, <1>13, <1>14, CreatedHolds

(* A run that is over.                                                         *)
LEMMA RestIs ==
  ASSUME AutoTypes, NEW r \in RunIds, Rest(r)
  PROVE  /\ RunMoves(r) /\ runs'[r].pc = "done" /\ runs'[r].sess = 0 /\ runs'[r].turn = runs[r].turn
         /\ runs'[r].job = runs[r].job /\ Len(runs'[r].heard) = 0 /\ runs'[r].copy = NoHistory
<1> DEFINE p == "done"
           no == FALSE
           e == <<>>
           c == NoHistory
           x == NoRun.job
<1>1. /\ p \in Places /\ e \in Seq(Nat) /\ c \in Histories /\ Len(e) = 0 /\ no \in BOOLEAN
      /\ runs \in [RunIds -> AutoRun]
  BY NoRunIs, EmptySeq DEF AutoTypes, Places
<1>2. NoRun = [pc |-> "none", job |-> x, caller |-> no, sess |-> 0, turn |-> 0, heard |-> e, copy |-> c]
  BY NoRunIs
<1>3. PICK j : j = runs[r].job
  OBVIOUS
<1>4. PICK t : t = runs[r].turn
  OBVIOUS
<1>5. j \in Jobs \cup {x} /\ t \in Nat
  BY <1>1, <1>3, <1>4 DEF AutoRun
<1>6. PICK m : m = [NoRun EXCEPT !.pc = p, !.job = j, !.turn = t]
  OBVIOUS
<1>7. runs' = [runs EXCEPT ![r] = m]
  BY <1>3, <1>4, <1>6 DEF Rest
<1>8. PICK y : y = x
  OBVIOUS
<1>9. /\ NoRun = [pc |-> "none", job |-> y, caller |-> no, sess |-> 0, turn |-> 0, heard |-> e, copy |-> c]
      /\ j \in Jobs \cup {y} /\ y = NoRun.job
  BY <1>2, <1>5, <1>8
<1> HIDE DEF p, no, e, c, x
<1>10. m = [pc |-> p, job |-> j, caller |-> no, sess |-> 0, turn |-> t, heard |-> e, copy |-> c]
  <2>1. PICK w : w = NoRun
    OBVIOUS
  <2>2. w = [pc |-> "none", job |-> y, caller |-> no, sess |-> 0, turn |-> 0, heard |-> e, copy |-> c]
    BY <1>9, <2>1
  <2>3. m = [w EXCEPT !.pc = p, !.job = j, !.turn = t]
    BY <1>6, <2>1
  <2> QED
    BY <2>2, <2>3
<1>11. m \in AutoRun
  BY <1>1, <1>5, <1>9, <1>10 DEF AutoRun
<1>12. m.pc = p /\ m.sess = 0 /\ m.turn = t /\ m.heard = e /\ m.copy = c /\ m.job = j
  BY <1>10
<1> QED
  BY <1>1, <1>3, <1>4, <1>7, <1>11, <1>12 DEF RunMoves, p, c

(* The last part of a sequence.                                                *)
LEMMA LastOf ==
  ASSUME NEW S, NEW s \in Seq(S), NEW m \in Nat \ {0}, NEW n \in Nat, n = Len(s), m <= n
  PROVE  /\ SubSeq(s, m, n) \in Seq(S)
         /\ Len(SubSeq(s, m, n)) = n - m + 1
         /\ \A i \in 1..(n - m + 1) : SubSeq(s, m, n)[i] = s[m + i - 1]
<1>1. SubSeq(s, m, n) \in Seq(S)
  OBVIOUS
<1>2. Len(SubSeq(s, m, n)) = n - m + 1
  OBVIOUS
<1>3. ASSUME NEW i \in 1..(n - m + 1)
      PROVE  SubSeq(s, m, n)[i] = s[m + i - 1]
  OBVIOUS
<1> QED
  BY <1>1, <1>2, <1>3

(* append_history: the newest HistoryKeep runs, in order.                      *)
LEMMA RecordedIs ==
  ASSUME AutoTypes, HistoryHolds(past), NEW r \in RunIds, runs[r].pc \notin Over,
         NEW h, h = Recorded(r), NEW all, all = Append(past.runs, r)
  PROVE  /\ h \in Histories /\ h.once = past.once
         /\ IsInjective(h.runs)
         /\ \A i \in 1..Len(h.runs) : h.runs[i] = r \/ runs[h.runs[i]].pc \in Over
         /\ r \in ToSet(all) /\ \A i \in 1..Len(past.runs) : past.runs[i] \in ToSet(all)
<1>1. PICK q : q = past.runs
  OBVIOUS
<1>2. q \in Seq(RunIds) /\ past \in Histories /\ all = Append(q, r)
  BY <1>1 DEF AutoTypes, Histories
<1>3. /\ all \in Seq(RunIds) /\ Len(q) \in Nat /\ Len(all) = Len(q) + 1
      /\ \A i \in 1..Len(q) : all[i] = q[i]
      /\ all[Len(q) + 1] = r
  BY <1>2, AppendProperties, LenProperties
<1>4. \A i \in 1..Len(q) : q[i] \in RunIds /\ runs[q[i]].pc \in Over /\ q[i] # r
  BY <1>1, <1>2 DEF HistoryHolds
<1>5. \A i, k \in 1..Len(q) : q[i] = q[k] => i = k
  <2>1. DOMAIN q = 1..Len(q)
    BY <1>2, LenProperties
  <2> QED
    BY <1>1, <2>1 DEF HistoryHolds, IsInjective
<1>6. \A i \in 1..Len(all) : i \in 1..Len(q) \/ i = Len(q) + 1
  BY <1>3
<1>7. \A i, k \in 1..Len(all) : all[i] = all[k] => i = k
  BY <1>3, <1>4, <1>5, <1>6
<1>8. \A i \in 1..Len(all) : all[i] = r \/ runs[all[i]].pc \in Over
  BY <1>3, <1>4, <1>6
<1>9. PICK n : n = IF Len(all) > HistoryKeep
                   THEN SubSeq(all, Len(all) - HistoryKeep + 1, Len(all)) ELSE all
  OBVIOUS
<1>10. h.runs = n /\ h.once = past.once /\ h = [runs |-> n, once |-> past.once]
  BY <1>1, <1>2, <1>9 DEF Recorded, Histories
<1>11. PICK d \in Nat :
         /\ n \in Seq(RunIds) /\ Len(n) + d = Len(all)
         /\ \A i \in 1..Len(n) : n[i] = all[i + d]
  <2>1. Len(all) \in Nat /\ HistoryKeep \in Nat \ {0}
    BY <1>3, AutomationBoundsAssumption
  <2>2. CASE Len(all) > HistoryKeep
    <3>1. PICK l \in Nat : l = Len(all)
      BY <2>1
    <3>2. PICK e \in Nat : e = l - HistoryKeep
      BY <2>1, <2>2, <3>1, SMTT(30)
    <3>3. PICK m \in Nat : m = e + 1 /\ m <= l
      <4>1. e + 1 \in Nat /\ e + 1 <= l
        BY <2>1, <3>2
      <4> QED
        BY <4>1
    <3>4. n = SubSeq(all, m, l)
      BY <1>9, <2>2, <3>1, <3>2, <3>3
    <3>5. m \in Nat \ {0}
      BY <3>2, <3>3
    <3>7. /\ SubSeq(all, m, l) \in Seq(RunIds)
          /\ Len(SubSeq(all, m, l)) = l - m + 1
          /\ \A i \in 1..(l - m + 1) : SubSeq(all, m, l)[i] = all[m + i - 1]
      BY <1>3, <3>1, <3>3, <3>5, LastOf, SMTT(30)
    <3>8. n \in Seq(RunIds) /\ Len(n) = l - m + 1 /\ \A i \in 1..(l - m + 1) : n[i] = all[m + i - 1]
      BY <3>3, <3>4, <3>7
    <3>9. \A i \in 1..Len(n) : n[i] = all[i + e]
      <4>1. ASSUME NEW i \in 1..Len(n) PROVE n[i] = all[i + e]
        <5>1. i \in 1..(l - m + 1) /\ m + i - 1 = i + e
          BY <3>3, <3>8
        <5> QED
          BY <3>8, <5>1
      <4> QED
        BY <4>1
    <3>10. Len(n) + e = Len(all)
      BY <3>1, <3>3, <3>8
    <3> QED
      BY <3>8, <3>9, <3>10
  <2>3. CASE ~(Len(all) > HistoryKeep)
    <3>1. n = all
      BY <1>9, <2>3
    <3>2. Len(n) + 0 = Len(all) /\ \A i \in 1..Len(n) : n[i] = all[i + 0]
      BY <2>1, <3>1
    <3> QED
      BY <1>3, <3>1, <3>2
  <2> QED
    BY <2>2, <2>3
<1>12. Len(n) \in Nat /\ DOMAIN n = 1..Len(n)
  BY <1>11, LenProperties
<1>13. \A i \in 1..Len(n) : i + d \in 1..Len(all)
  BY <1>11, <1>12
<1>14. \A i, k \in 1..Len(n) : n[i] = n[k] => i = k
  <2>1. ASSUME NEW i \in 1..Len(n), NEW k \in 1..Len(n), n[i] = n[k] PROVE i = k
    <3>1. i + d \in 1..Len(all) /\ k + d \in 1..Len(all) /\ all[i + d] = all[k + d]
      BY <1>11, <1>13, <2>1
    <3>2. i + d = k + d
      BY <1>7, <3>1
    <3> QED
      BY <1>12, <3>2
  <2> QED
    BY <2>1
<1>15. IsInjective(h.runs)
  BY <1>10, <1>12, <1>14 DEF IsInjective
<1>16. h \in Histories
  BY <1>2, <1>10, <1>11 DEF Histories
<1>17. \A i \in 1..Len(n) : n[i] = r \/ runs[n[i]].pc \in Over
  BY <1>8, <1>11, <1>13
<1>18. r \in ToSet(all) /\ \A i \in 1..Len(q) : q[i] \in ToSet(all)
  <2>1. Len(q) + 1 \in 1..Len(all) /\ \A i \in 1..Len(q) : i \in 1..Len(all)
    BY <1>3
  <2> QED
    BY <1>3, <2>1, ToSetIs
<1> QED
  BY <1>1, <1>10, <1>15, <1>16, <1>17, <1>18

(* A run that has ended is recorded, delivered and done.                       *)
OverGoes(r) ==
  /\ RunMoves(r) /\ runs[r].pc \in {"append", "deliver"} /\ runs'[r].pc \in {"deliver", "done"}
  /\ runs'[r].sess \in {0, runs[r].sess} /\ runs'[r].turn = runs[r].turn
  /\ runs'[r].job = runs[r].job /\ runs'[r].copy \in {runs[r].copy, NoHistory}
  /\ \A i \in 1..Len(runs'[r].heard) :
       \E k \in 1..Len(runs[r].heard) : runs'[r].heard[i] = runs[r].heard[k]

LEMMA OverHolds ==
  ASSUME AutoInv, NEW r \in RunIds, OverGoes(r), UNCHANGED <<scope, listed, asked>>,
         past' \in Histories, past' = past \/ (HistoryAgain(past') /\ past'.once = past.once /\ scope.loaded),
         saved' \in Histories, saved' \in Pasts \/ HistoryAgain(saved'),
         queues' \in [Rooms -> {0} \cup RunIds],
         \A y \in Rooms : queues'[y] # queues[y] => queues[y] = r,
         rooms' \in [Rooms -> AutoRoom], \A y \in Rooms : rooms'[y].exists => rooms[y].exists,
         \A y \in Rooms \ {Home} : rooms'[y].turn = rooms[y].turn,
         \/ rooms'[Home].turn = rooms[Home].turn /\ spent'.turns = spent.turns
         \/ rooms'[Home].turn = spent.turns + 1 /\ spent'.turns = spent.turns + 1,
         SpentFields(spent'), spent'.runs = spent.runs, spent'.sessions = spent.sessions,
         spent'.incidents = spent.incidents, spent'.gaveUp = spent.gaveUp, spent'.made = spent.made,
         spent.dropped \subseteq spent'.dropped,
         r \in ToSet(past'.runs) \cup spent'.dropped,
         \A i \in 1..Len(past.runs) : past.runs[i] \in ToSet(past'.runs) \cup spent'.dropped
  PROVE  AutoInv'
<1>1. /\ runs' \in [RunIds -> AutoRun] /\ \A q \in RunIds \ {r} : runs'[q] = runs[q]
      /\ RunMoves(r) /\ runs'[r].pc \in {"deliver", "done"} /\ runs'[r].sess \in {0, runs[r].sess}
      /\ runs'[r].turn = runs[r].turn /\ runs'[r].job = runs[r].job
  BY DEF OverGoes, RunMoves
<1>2. /\ spent.sessions \in Nat /\ spent.turns \in Nat /\ spent'.turns \in Nat
      /\ spent.turns <= spent'.turns /\ spent.sessions <= spent'.sessions
  BY DEF AutoInv, AutoTypes, Rooms
<1>3. AutoTypes'
  <2>1. spent'.incidents \in Nat /\ spent'.made \in [OnceJobs -> SUBSET (1..spent'.sessions)]
    BY DEF AutoInv, AutoTypes
  <2> QED
    BY <1>1, <1>2, <2>1 DEF AutoInv, AutoTypes
<1>4. NumbersAreNew'
  <2>1. \A q \in RunIds : /\ runs[q].pc = "none" => runs'[q].pc = "none"
                          /\ runs'[q].sess \in {0, runs[q].sess}
                          /\ runs'[q].turn \in {0, runs[q].turn}
    BY <1>1 DEF OverGoes
  <2>2. \A y \in Rooms : rooms'[y].turn = rooms[y].turn \/ rooms'[y].turn <= spent'.turns
    BY <1>2
  <2> QED
    BY <1>2, <1>3, <2>1, <2>2, NumbersStay DEF AutoInv
<1>5. SessionsHold'
  <2>1. runs'[r].pc \notin AtWork \cup {"write", "queued"}
    BY <1>1 DEF AtWork
  <2>2. ASSUME NEW q \in RunIds \ {r}, runs[q].pc \in AtWork /\ runs[q].job \notin EveryJobs
        PROVE  queues'[runs[q].sess] = queues[runs[q].sess]
    <3>1. queues[runs[q].sess] = q /\ runs[q].sess \in Rooms
      BY <2>2 DEF AutoInv, SessionsHold, AutoTypes, AutoRun
    <3> QED
      BY <2>2, <3>1
  <2> QED
    BY <1>1, <2>1, <2>2, SessionsStep DEF AutoInv
<1>6. BindingsHold'
  <2>1. ASSUME NEW j \in OnceJobs, NEW s \in spent'.made[j], rooms'[s].exists
        PROVE  s = past'.once[j]
    <3>1. s \in Rooms /\ rooms[s].exists
      BY <2>1, MadeIs DEF AutoInv
    <3> QED
      BY <3>1 DEF AutoInv, BindingsHold
  <2>2. ~scope'.loaded => /\ \A j \in OnceJobs : spent'.made[j] = {}
                          /\ past' = NoHistory /\ listed' = {}
    BY DEF AutoInv, BindingsHold
  <2>3. (scope'.removing \/ ~scope'.exists) /\ ~scope'.revived => ~scope'.loaded
    BY DEF AutoInv, BindingsHold
  <2> QED
    BY <2>1, <2>2, <2>3 DEF BindingsHold
<1>7. NoSharedTurn'
  <2>1. \A q \in RunIds : runs'[q].turn \in {0, runs[q].turn}
    BY <1>1
  <2> QED
    BY <2>1, NoShareStays DEF AutoInv
<1>8. Knowledge(r)
  <2>1. past \in Pasts /\ runs[r].copy \in Pasts
    BY DEF Pasts
  <2>2. runs'[r].pc \in Over /\ runs'[r].sess \in 1..spent.sessions => runs'[r].sess = runs[r].sess
    BY <1>1, <1>2 DEF Over
  <2>3. past' \in Pasts \/ HistoryAgain(past')
    BY <2>1
  <2>4. runs'[r].copy \in Pasts \cup {NoHistory}
    BY <2>1 DEF OverGoes
  <2> QED
    BY <1>1, <2>2, <2>3, <2>4 DEF Knowledge, Over
<1>9. Turning(r, Home)
  <2>1. \/ r \in spent.gaveUp \/ runs[r].turn = 0
        \/ \A y \in Rooms : rooms[y].turn # runs[r].turn
    BY NotWatching DEF OverGoes
  <2> QED
    BY <1>1, <2>1 DEF Turning, OverGoes
<1>10. Accounts(r)
  <2>1. listed = {q \in RunIds : runs[q].pc \notin {"none", "append", "deliver", "done", "gone"}}
    BY DEF AutoInv, RunsAccounted
  <2>2. r \notin listed
    BY <2>1 DEF OverGoes
  <2> QED
    BY <1>1, <2>1, <2>2 DEF Accounts
<1> QED
  BY <1>1, <1>2, <1>3, <1>4, <1>5, <1>6, <1>7, <1>8, <1>9, <1>10, MoveHolds, HomeIs

LEMMA AppendHistoryHolds == ASSUME AutoInv, NEW r \in RunIds, AppendHistory(r) PROVE AutoInv'
<1>1. /\ runs[r].pc = "append" /\ (Rest(r) \/ Go(r, "deliver"))
      /\ UNCHANGED <<scope, listed, asked, queues, rooms>>
  BY DEF AppendHistory
<1>2. OverGoes(r)
  <2>1. CASE Rest(r)
    <3>1. /\ RunMoves(r) /\ runs'[r].pc = "done" /\ runs'[r].sess = 0 /\ runs'[r].turn = runs[r].turn
          /\ runs'[r].job = runs[r].job /\ Len(runs'[r].heard) = 0 /\ runs'[r].copy = NoHistory
      BY <2>1, RestIs DEF AutoInv
    <3> QED
      BY <1>1, <3>1 DEF OverGoes
  <2>2. CASE Go(r, "deliver")
    <3>1. RunGoes(r, "deliver", runs[r].sess, runs[r].turn, runs[r].heard, runs[r].copy)
      BY <2>2, GoIs DEF AutoInv, Places
    <3> QED
      BY <1>1, <3>1 DEF OverGoes, RunGoes
  <2> QED
    BY <1>1, <2>1, <2>2
<1>3. \A q \in RunIds \ {r} : runs'[q] = runs[q]
  BY <1>2 DEF OverGoes, RunMoves
<1>4. /\ queues' \in [Rooms -> {0} \cup RunIds] /\ rooms' \in [Rooms -> AutoRoom]
      /\ SpentFields(spent) /\ past \in Histories /\ saved \in Histories /\ past \in Pasts
      /\ saved \in Pasts /\ HistoryHolds(past) /\ AutoTypes /\ spent.sessions \in Nat
  BY <1>1 DEF AutoInv, AutoTypes, Pasts, PastsHold, Rooms
<1>5. CASE ~scope.loaded
  <2> DEFINE d == spent.dropped \cup {r}
  <2>1. spent' = [spent EXCEPT !.dropped = d] /\ past' = past /\ saved' = saved
    BY <1>5 DEF AppendHistory
  <2>2. r \in d /\ spent.dropped \subseteq d
    OBVIOUS
  <2> HIDE DEF d
  <2>3. /\ SpentFields(spent') /\ spent'.runs = spent.runs /\ spent'.sessions = spent.sessions
        /\ spent'.turns = spent.turns /\ spent'.incidents = spent.incidents /\ spent'.dropped = d
        /\ spent'.gaveUp = spent.gaveUp /\ spent'.made = spent.made
    BY <1>4, <2>1, SpentIs
  <2>4. \A i \in 1..Len(past.runs) : past.runs[i] \in ToSet(past'.runs) \cup spent'.dropped
    BY <2>1, ToSetIs
  <2>5. r \in ToSet(past'.runs) \cup spent'.dropped
    BY <2>2, <2>3
  <2> QED
    BY <1>1, <1>2, <1>4, <2>1, <2>2, <2>3, <2>4, <2>5, OverHolds
<1>6. CASE scope.loaded
  <2>1. PICK all : all = Append(past.runs, r)
    OBVIOUS
  <2>2. PICK h : h = Recorded(r)
    OBVIOUS
  <2> DEFINE d == spent.dropped \cup (ToSet(all) \ ToSet(h.runs))
  <2>3. spent' = [spent EXCEPT !.dropped = d] /\ past' = h /\ saved' = h
    BY <1>6, <2>1, <2>2 DEF AppendHistory
  <2>4. /\ h \in Histories /\ h.once = past.once
        /\ IsInjective(h.runs)
        /\ \A i \in 1..Len(h.runs) : h.runs[i] = r \/ runs[h.runs[i]].pc \in Over
        /\ r \in ToSet(all) /\ \A i \in 1..Len(past.runs) : past.runs[i] \in ToSet(all)
    <3>1. runs[r].pc \notin Over
      BY <1>1 DEF Over
    <3> QED
      BY <1>4, <2>1, <2>2, <3>1, RecordedIs
  <2>5. /\ spent.dropped \subseteq d
        /\ \A x \in ToSet(all) : x \in ToSet(h.runs) \cup d
    OBVIOUS
  <2> HIDE DEF d
  <2>6. /\ SpentFields(spent') /\ spent'.runs = spent.runs /\ spent'.sessions = spent.sessions
        /\ spent'.turns = spent.turns /\ spent'.incidents = spent.incidents /\ spent'.dropped = d
        /\ spent'.gaveUp = spent.gaveUp /\ spent'.made = spent.made
    BY <1>4, <2>3, SpentIs
  <2>7. HistoryAgain(h)
    <3>1. \A i \in 1..Len(h.runs) : runs'[h.runs[i]].pc \in Over
      <4>1. \A i \in 1..Len(h.runs) : h.runs[i] \in RunIds
        BY <2>4 DEF Histories
      <4> QED
        BY <1>2, <1>3, <2>4, <4>1 DEF OverGoes, Over
    <3>2. ASSUME NEW k \in OnceJobs, h.once[k] # 0
          PROVE  /\ \A q \in RunIds : ~(runs'[q].sess = h.once[k] /\ runs'[q].job \in EveryJobs)
                 /\ h.once[k] <= spent'.sessions
      <4>1. PICK x : x = past.once[k]
        OBVIOUS
      <4>2. h.once[k] = x /\ x # 0 /\ ~Alone(x) /\ x <= spent.sessions
        BY <1>4, <2>4, <3>2, <4>1 DEF HistoryHolds
      <4>3. \A q \in RunIds : ~(runs'[q].sess = x /\ runs'[q].job \in EveryJobs)
        BY <1>2, <1>3, <4>2 DEF Alone, OverGoes
      <4> QED
        BY <2>6, <4>2, <4>3
    <3> QED
      BY <2>4, <3>1, <3>2 DEF HistoryAgain
  <2>8. HistoryAgain(past') /\ HistoryAgain(saved')
    <3>1. \A x : x = h => HistoryAgain(x)
      BY <2>7
    <3> QED
      BY <2>3, <3>1
  <2>9. /\ past' \in Histories /\ saved' \in Histories /\ past'.once = past.once
        /\ spent.dropped \subseteq spent'.dropped
        /\ r \in ToSet(past'.runs) \cup spent'.dropped
        /\ \A i \in 1..Len(past.runs) : past.runs[i] \in ToSet(past'.runs) \cup spent'.dropped
    BY <2>3, <2>4, <2>5, <2>6
  <2> QED
    BY <1>1, <1>2, <1>4, <1>6, <2>6, <2>8, <2>9, OverHolds
<1> QED
  BY <1>5, <1>6

LEMMA DeliverHolds == ASSUME AutoInv, NEW r \in RunIds, Deliver(r) PROVE AutoInv'
<1>1. /\ runs[r].pc = "deliver" /\ Rest(r)
      /\ Prompted(Home) \/ (rooms' = rooms /\ spent' = spent)
      /\ queues' = [s \in Rooms |-> IF queues[s] = r THEN 0 ELSE queues[s]]
      /\ UNCHANGED <<scope, past, saved, listed, asked>>
  BY DEF Deliver
<1>2. OverGoes(r)
  <2>1. /\ RunMoves(r) /\ runs'[r].pc = "done" /\ runs'[r].sess = 0 /\ runs'[r].turn = runs[r].turn
        /\ runs'[r].job = runs[r].job /\ Len(runs'[r].heard) = 0 /\ runs'[r].copy = NoHistory
    BY <1>1, RestIs DEF AutoInv
  <2> QED
    BY <1>1, <2>1 DEF OverGoes
<1>3. /\ past \in Histories /\ saved \in Histories /\ past \in Pasts /\ saved \in Pasts
      /\ SpentFields(spent) /\ rooms \in [Rooms -> AutoRoom] /\ queues \in [Rooms -> {0} \cup RunIds]
  BY DEF AutoInv, AutoTypes, Pasts
<1>4. /\ rooms' \in [Rooms -> AutoRoom] /\ \A y \in Rooms \ {Home} : rooms'[y].turn = rooms[y].turn
      /\ \A y \in Rooms : rooms'[y].exists => rooms[y].exists
      /\ \/ rooms'[Home].turn = rooms[Home].turn /\ spent'.turns = spent.turns
         \/ rooms'[Home].turn = spent.turns + 1 /\ spent'.turns = spent.turns + 1
      /\ SpentFields(spent') /\ spent'.runs = spent.runs /\ spent'.sessions = spent.sessions
      /\ spent'.incidents = spent.incidents /\ spent'.dropped = spent.dropped
      /\ spent'.gaveUp = spent.gaveUp /\ spent'.made = spent.made
  <2>1. CASE Prompted(Home)
    BY <2>1, PromptedIs, HomeIs
  <2>2. CASE rooms' = rooms /\ spent' = spent
    BY <1>3, <2>2
  <2> QED
    BY <1>1, <2>1, <2>2
<1>5. /\ queues' \in [Rooms -> {0} \cup RunIds]
      /\ \A y \in Rooms : queues'[y] # queues[y] => queues[y] = r
  BY <1>1, <1>3
<1>6. \A i \in 1..Len(past.runs) : past.runs[i] \in ToSet(past'.runs) \cup spent'.dropped
  BY <1>1, ToSetIs
<1>7. r \in ToSet(past'.runs) \cup spent'.dropped
  BY <1>1, <1>4 DEF AutoInv, RunsAccounted
<1> QED
  BY <1>1, <1>2, <1>3, <1>4, <1>5, <1>6, <1>7, OverHolds

-------------------------------------------------------------------------------
(* The end of a turn, a restart, and the whole.                                *)

LEMMA TurnEndsHolds == ASSUME AutoInv, NEW s \in Rooms, TurnEnds(s) PROVE AutoInv'
<1>1. PICK t : t = rooms[s].turn
  OBVIOUS
<1>2. /\ t # 0 /\ rooms' = [rooms EXCEPT ![s].turn = 0]
      /\ runs' = [r \in RunIds |->
           IF runs[r].sess = s /\ runs[r].pc \in {"prompt", "wait", "watch"}
             THEN [runs[r] EXCEPT !.heard = Append(runs[r].heard, t)] ELSE runs[r]]
      /\ UNCHANGED <<scope, past, saved, listed, asked, starting, queues, spent>>
  BY <1>1 DEF TurnEnds
<1>3. /\ runs \in [RunIds -> AutoRun] /\ rooms \in [Rooms -> AutoRoom] /\ spent.turns \in Nat
      /\ t \in Nat /\ t \in 1..spent.turns /\ spent.sessions \in Nat
  <2>1. /\ runs \in [RunIds -> AutoRun] /\ rooms \in [Rooms -> AutoRoom] /\ spent.turns \in Nat
        /\ spent.sessions \in Nat
    BY DEF AutoInv, AutoTypes, Rooms
  <2>2. t \in Nat /\ t <= spent.turns
    BY <1>1, <2>1 DEF AutoInv, AutoRoom, NumbersAreNew
  <2> QED
    BY <1>2, <2>1, <2>2
<1>4. /\ rooms' \in [Rooms -> AutoRoom] /\ rooms'[s].turn = 0
      /\ \A y \in Rooms \ {s} : rooms'[y].turn = rooms[y].turn
      /\ \A y \in Rooms : rooms'[y].exists => rooms[y].exists
  <2> DEFINE none == 0
  <2>1. none \in Nat
    OBVIOUS
  <2>2. rooms' = [rooms EXCEPT ![s].turn = none]
    BY <1>2
  <2> HIDE DEF none
  <2>3. /\ rooms' \in [Rooms -> AutoRoom] /\ rooms'[s].turn = none
        /\ \A y \in Rooms \ {s} : rooms'[y].turn = rooms[y].turn
        /\ \A y \in Rooms : rooms'[y].exists => rooms[y].exists
    BY <1>3, <2>1, <2>2 DEF AutoRoom
  <2> QED
    BY <2>3 DEF none
<1>5. ASSUME NEW q \in RunIds
      PROVE  /\ runs'[q] \in AutoRun /\ runs'[q].pc = runs[q].pc /\ runs'[q].sess = runs[q].sess
             /\ runs'[q].turn = runs[q].turn /\ runs'[q].job = runs[q].job
             /\ runs'[q].copy = runs[q].copy
             /\ \A i \in 1..Len(runs'[q].heard) : runs'[q].heard[i] = t \/
                  \E k \in 1..Len(runs[q].heard) : runs'[q].heard[i] = runs[q].heard[k]
  <2>1. PICK a \in AutoRun : a = runs[q]
    BY <1>3
  <2>2. PICK h : h = Append(a.heard, t)
    OBVIOUS
  <2>3. a.heard \in Seq(Nat)
    BY <2>1 DEF AutoRun
  <2>4. h \in Seq(Nat) /\ \A i \in 1..Len(h) : h[i] = t \/ \E k \in 1..Len(a.heard) : h[i] = a.heard[k]
    <3>1. /\ h \in Seq(Nat) /\ Len(h) = Len(a.heard) + 1 /\ Len(a.heard) \in Nat
          /\ \A i \in 1..Len(a.heard) : h[i] = a.heard[i]
          /\ h[Len(a.heard) + 1] = t
      BY <1>3, <2>2, <2>3, AppendProperties, LenProperties
    <3> QED
      BY <3>1, SMTT(30)
  <2>5. PICK m : m = [a EXCEPT !.heard = h]
    OBVIOUS
  <2>6. /\ m \in AutoRun /\ m.pc = a.pc /\ m.sess = a.sess /\ m.turn = a.turn /\ m.job = a.job
        /\ m.copy = a.copy /\ m.heard = h
    BY <2>4, <2>5 DEF AutoRun
  <2>7. runs'[q] = m \/ runs'[q] = a
    BY <1>2, <2>1, <2>2, <2>5
  <2>8. CASE runs'[q] = m
    BY <2>1, <2>4, <2>6, <2>8
  <2>9. CASE runs'[q] = a
    BY <2>1, <2>9
  <2> QED
    BY <2>7, <2>8, <2>9
<1>6. runs' \in [RunIds -> AutoRun]
  <2>1. PICK f : f = runs'
    OBVIOUS
  <2>2. f = [r \in RunIds |->
           IF runs[r].sess = s /\ runs[r].pc \in {"prompt", "wait", "watch"}
             THEN [runs[r] EXCEPT !.heard = Append(runs[r].heard, t)] ELSE runs[r]]
    BY <1>2, <2>1
  <2>3. \A r \in RunIds : f[r] \in AutoRun
    BY <1>5, <2>1
  <2>4. f = [r \in RunIds |-> f[r]]
    BY <2>2
  <2> QED
    BY <2>1, <2>3, <2>4
<1>7. AutoTypes'
  BY <1>2, <1>4, <1>6 DEF AutoInv, AutoTypes
<1>8. NumbersAreNew'
  <2>1. \A y \in Rooms : rooms'[y].turn = rooms[y].turn \/ rooms'[y].turn <= spent'.turns
    BY <1>2, <1>3, <1>4
  <2>2. \A q \in RunIds : /\ runs[q].pc = "none" => runs'[q].pc = "none"
                          /\ runs'[q].sess \in {0, runs[q].sess}
                          /\ runs'[q].turn \in {0, runs[q].turn}
    BY <1>5
  <2>3. spent.sessions <= spent'.sessions /\ spent.turns <= spent'.turns /\ spent'.runs = spent.runs
    BY <1>2, <1>3
  <2> QED
    BY <1>7, <2>1, <2>2, <2>3, NumbersStay DEF AutoInv
<1>9. PastsHold'
  <2>1. \A q \in RunIds : runs'[q].copy \in Pasts
    BY <1>5 DEF Pasts
  <2>2. \A h \in Pasts' : h \in Pasts
    BY <1>2, <2>1 DEF Pasts
  <2>3. NobodyAlone /\ StaysOver
    BY <1>5 DEF NobodyAlone, StaysOver
  <2>4. spent'.sessions \in Nat /\ spent.sessions <= spent'.sessions
    BY <1>2, <1>3
  <2>5. \A h \in Pasts' : HistoryAgain(h)
    BY <2>2, <2>3, <2>4, PastsAgain DEF AutoInv
  <2> QED
    BY <2>5, PastsStay
<1>10. SessionsHold'
  BY <1>2, <1>5 DEF AutoInv, SessionsHold, Alone
<1>11. TurnsHold'
  <2>1. \A y, z \in Rooms : y # z /\ rooms'[y].turn # 0 => rooms'[z].turn # rooms'[y].turn
    BY <1>4 DEF AutoInv, TurnsHold
  <2>2. \A y \in Rooms : rooms'[y].turn # t
    BY <1>1, <1>2, <1>4 DEF AutoInv, TurnsHold
  <2>3. ASSUME NEW q \in RunIds, NEW i \in 1..Len(runs'[q].heard)
        PROVE  /\ runs'[q].heard[i] \in 1..spent'.turns
               /\ \A y \in Rooms : rooms'[y].turn # runs'[q].heard[i]
    <3>1. CASE runs'[q].heard[i] = t
      BY <1>2, <1>3, <2>2, <3>1
    <3>2. CASE \E k \in 1..Len(runs[q].heard) : runs'[q].heard[i] = runs[q].heard[k]
      <4>1. PICK k \in 1..Len(runs[q].heard) : runs'[q].heard[i] = runs[q].heard[k]
        BY <3>2
      <4>2. /\ runs[q].heard[k] \in 1..spent.turns
            /\ \A y \in Rooms : rooms[y].turn # runs[q].heard[k]
        BY DEF AutoInv, TurnsHold
      <4>3. runs[q].heard[k] # 0
        BY <1>3, <4>2
      <4> QED
        BY <1>2, <1>4, <4>1, <4>2, <4>3
    <3> QED
      BY <1>5, <3>1, <3>2
  <2>4. ASSUME NEW q \in RunIds \ spent'.gaveUp, NEW y \in Rooms, runs'[q].turn # 0,
               rooms'[y].turn = runs'[q].turn
        PROVE  runs'[q].pc = "watch" /\ runs'[q].sess = y
    BY <1>2, <1>4, <1>5, <2>4 DEF AutoInv, TurnsHold
  <2> QED
    BY <2>1, <2>3, <2>4 DEF TurnsHold
<1>12. BindingsHold'
  <2>1. ScopeRests
    BY <1>2 DEF ScopeRests, AutoInv, AutoTypes
  <2> QED
    BY <1>2, <1>4, <2>1, BindingsRest, MadeIs DEF AutoInv
<1>13. RunsAccounted'
  BY <1>2, <1>5 DEF AutoInv, RunsAccounted
<1>14. NoSharedTurn'
  BY <1>2, <1>5 DEF AutoInv, NoSharedTurn
<1> QED
  BY <1>7, <1>8, <1>9, <1>10, <1>11, <1>12, <1>13, <1>14 DEF AutoInv

LEMMA RestartHolds == ASSUME AutoInv, Restart PROVE AutoInv'
<1> DEFINE m == [j \in OnceJobs |-> {}]
           e == spent.incidents + 1
           no == FALSE
           yes == TRUE
           none == <<>>
           empty == {}
           x == NoRun.job
           c == NoHistory
           z == <<>>
           gone == "gone"
<1>1. PICK known : known = IF scope.exists THEN saved ELSE NoHistory
  OBVIOUS
<1> DEFINE d == {r \in RunIds : runs[r].pc # "none"} \ ToSet(known.runs)
<1>2. /\ past' = known /\ listed' = {} /\ asked' = {} /\ saved' = saved
      /\ queues' = [s \in Rooms |-> 0]
      /\ runs' = [r \in RunIds |-> IF runs[r].pc \in {"none", "done"} THEN runs[r]
                                  ELSE [NoRun EXCEPT !.pc = gone, !.job = runs[r].job]]
      /\ rooms' = [s \in Rooms |-> [rooms[s] EXCEPT !.turn = 0, !.asks = no, !.compacting = no]]
      /\ scope' = [scope EXCEPT !.up = yes, !.edit = none, !.forget = empty, !.removing = no,
                                !.loaded = scope.exists, !.revived = no]
      /\ spent' = [Count("incidents") EXCEPT !.made = m, !.dropped = d]
  BY <1>1 DEF Restart
<1>3. /\ SpentFields(spent) /\ ScopeFields(scope) /\ e \in Nat /\ spent.incidents \in Nat
      /\ runs \in [RunIds -> AutoRun]
      /\ rooms \in [Rooms -> AutoRoom] /\ spent.sessions \in Rooms /\ spent.sessions \in Nat
      /\ spent.turns \in Nat /\ no \in BOOLEAN
      /\ saved \in Histories /\ saved \in Pasts /\ saved \in Pasts /\ AutoTypes
  BY DEF AutoInv, AutoTypes, Pasts, Rooms
<1>4. /\ m \in [OnceJobs -> SUBSET (1..spent.sessions)] /\ \A j \in OnceJobs : m[j] = {}
      /\ \A r \in RunIds : runs[r].pc # "none" => r \in ToSet(known.runs) \cup d
  OBVIOUS
<1>5. NoRun = [pc |-> "none", job |-> x, caller |-> no, sess |-> 0, turn |-> 0, heard |-> z, copy |-> c]
  BY NoRunIs
<1>6. z \in Seq(Nat) /\ c \in Histories /\ Len(z) = 0 /\ gone \in Places
  BY NoRunIs, EmptySeq DEF Places
<1>7. Count("incidents") = [spent EXCEPT !.incidents = e]
  BY <1>3, CountIs
<1>8. known \in Pasts \cup {NoHistory} /\ known \in Histories /\ (~scope.exists => known = NoHistory)
  BY <1>1, <1>3, NoRunIs
<1>9. PICK y : y = x /\ y = NoRun.job
  OBVIOUS
<1>10. NoRun = [pc |-> "none", job |-> y, caller |-> no, sess |-> 0, turn |-> 0, heard |-> z, copy |-> c]
  BY <1>5, <1>9
<1> HIDE DEF m, e, no, yes, none, empty, x, c, z, gone, d
<1>11. /\ SpentFields(spent') /\ spent'.runs = spent.runs /\ spent'.sessions = spent.sessions
       /\ spent'.turns = spent.turns /\ spent'.incidents = e /\ spent'.dropped = d
       /\ spent'.gaveUp = spent.gaveUp /\ spent'.made = m
  <2>1. PICK a : a = [spent EXCEPT !.incidents = e]
    OBVIOUS
  <2>2. /\ SpentFields(a) /\ a.runs = spent.runs /\ a.sessions = spent.sessions
        /\ a.turns = spent.turns /\ a.incidents = e /\ a.gaveUp = spent.gaveUp
    BY <1>3, <2>1, SpentIs
  <2>3. PICK n : n = [a EXCEPT !.made = m, !.dropped = d]
    OBVIOUS
  <2>4. n = [runs |-> a.runs, sessions |-> a.sessions, turns |-> a.turns,
             incidents |-> a.incidents, dropped |-> d, gaveUp |-> a.gaveUp, made |-> m]
    BY <2>2, <2>3 DEF SpentFields
  <2>5. /\ SpentFields(n) /\ n.runs = a.runs /\ n.sessions = a.sessions /\ n.turns = a.turns
        /\ n.incidents = a.incidents /\ n.dropped = d /\ n.gaveUp = a.gaveUp /\ n.made = m
    BY <2>4 DEF SpentFields
  <2>6. spent' = n
    BY <1>2, <1>7, <2>1, <2>3
  <2> QED
    BY <2>2, <2>5, <2>6
<1>12. ScopeFields(scope') /\ scope'.loaded = scope.exists /\ scope'.exists = scope.exists
       /\ scope'.removing = no
  <2>1. PICK a : a = scope
    OBVIOUS
  <2>2. PICK l : l = scope.exists
    OBVIOUS
  <2>3. PICK n : n = [a EXCEPT !.up = yes, !.edit = none, !.forget = empty, !.removing = no,
                               !.loaded = l, !.revived = no]
    OBVIOUS
  <2>4. n = [exists |-> a.exists, loaded |-> l, jobs |-> a.jobs, edit |-> none,
             forget |-> empty, removing |-> no, revived |-> no, up |-> yes]
    BY <1>3, <2>1, <2>3 DEF ScopeFields
  <2>5. ScopeFields(n) /\ n.loaded = l /\ n.exists = a.exists /\ n.removing = no
    BY <2>4 DEF ScopeFields
  <2>6. scope' = n
    BY <1>2, <2>1, <2>2, <2>3
  <2> QED
    BY <2>1, <2>2, <2>5, <2>6
<1>13. ASSUME NEW r \in RunIds
       PROVE  /\ runs'[r] \in AutoRun
              /\ \/ runs[r].pc \in {"none", "done"} /\ runs'[r] = runs[r]
                 \/ /\ runs[r].pc \notin {"none", "done"} /\ runs'[r].pc = "gone" /\ runs'[r].sess = 0
                    /\ runs'[r].turn = 0 /\ runs'[r].job = runs[r].job /\ runs'[r].copy = NoHistory
                    /\ Len(runs'[r].heard) = 0
  <2>1. PICK j : j = runs[r].job
    OBVIOUS
  <2>2. PICK n : n = [NoRun EXCEPT !.pc = gone, !.job = j]
    OBVIOUS
  <2>3. j \in Jobs \cup {y}
    BY <1>3, <1>9, <2>1 DEF AutoRun
  <2>4. n = [pc |-> gone, job |-> j, caller |-> no, sess |-> 0, turn |-> 0, heard |-> z, copy |-> c]
    <3>1. PICK w : w = NoRun
      OBVIOUS
    <3>2. w = [pc |-> "none", job |-> y, caller |-> no, sess |-> 0, turn |-> 0, heard |-> z, copy |-> c]
      BY <1>10, <3>1
    <3>3. n = [w EXCEPT !.pc = gone, !.job = j]
      BY <2>2, <3>1
    <3> QED
      BY <3>2, <3>3
  <2>5. n \in AutoRun
    BY <1>3, <1>6, <1>9, <2>3, <2>4 DEF AutoRun
  <2>6. n.pc = gone /\ n.sess = 0 /\ n.turn = 0 /\ n.heard = z /\ n.copy = c /\ n.job = j
    BY <2>4
  <2>7. CASE runs[r].pc \in {"none", "done"}
    BY <1>2, <1>3, <2>7
  <2>8. CASE runs[r].pc \notin {"none", "done"}
    <3>1. runs'[r] = n
      BY <1>2, <2>1, <2>2, <2>8
    <3> QED
      BY <1>6, <2>1, <2>5, <2>6, <2>8, <3>1 DEF gone, c
  <2> QED
    BY <2>7, <2>8
<1>14. runs' \in [RunIds -> AutoRun]
  <2>1. PICK f : f = runs'
    OBVIOUS
  <2>2. f = [r \in RunIds |-> f[r]]
    BY <1>2, <2>1
  <2>3. \A r \in RunIds : f[r] \in AutoRun
    BY <1>13, <2>1
  <2> QED
    BY <2>1, <2>2, <2>3
<1>15. rooms' \in [Rooms -> AutoRoom] /\ \A s \in Rooms : rooms'[s].turn = 0 /\ rooms'[s].exists = rooms[s].exists
  <2>1. ASSUME NEW s \in Rooms
        PROVE  rooms'[s] \in AutoRoom /\ rooms'[s].turn = 0 /\ rooms'[s].exists = rooms[s].exists
    <3>1. PICK a \in AutoRoom : a = rooms[s]
      BY <1>3
    <3>2. PICK n : n = [a EXCEPT !.turn = 0, !.asks = no, !.compacting = no]
      OBVIOUS
    <3>3. n = [exists |-> a.exists, turn |-> 0, asks |-> no, compacting |-> no]
      BY <3>1, <3>2 DEF AutoRoom
    <3>4. n \in AutoRoom /\ n.turn = 0 /\ n.exists = a.exists
      BY <1>3, <3>1, <3>3 DEF AutoRoom
    <3>5. rooms'[s] = n
      BY <1>2, <3>1, <3>2
    <3> QED
      BY <3>1, <3>4, <3>5
  <2>2. PICK f : f = rooms'
    OBVIOUS
  <2>3. f = [s \in Rooms |-> f[s]]
    BY <1>2, <2>2
  <2>4. \A s \in Rooms : f[s] \in AutoRoom
    BY <2>1, <2>2
  <2> QED
    BY <2>1, <2>2, <2>3, <2>4
<1>16. AutoTypes'
  <2>1. queues' \in [Rooms -> {0} \cup RunIds] /\ asked' \subseteq [job : Jobs, scheduled : BOOLEAN]
    BY <1>2
  <2>2. past' \in Histories /\ saved' \in Histories
    BY <1>2, <1>3, <1>8
  <2> QED
    BY <1>3, <1>4, <1>11, <1>12, <1>14, <1>15, <2>1, <2>2 DEF AutoTypes
<1>17. NumbersAreNew'
  <2>1. \A q \in RunIds : /\ runs[q].pc = "none" => runs'[q].pc = "none"
                          /\ runs'[q].sess \in {0, runs[q].sess}
                          /\ runs'[q].turn \in {0, runs[q].turn}
    BY <1>13
  <2>2. \A s \in Rooms : rooms'[s].turn <= spent'.turns
    BY <1>3, <1>11, <1>15
  <2>3. spent.sessions <= spent'.sessions /\ spent.turns <= spent'.turns /\ spent'.runs = spent.runs
    BY <1>3, <1>11
  <2> QED
    BY <1>3, <1>16, <2>1, <2>2, <2>3, NumbersStay DEF AutoInv
<1>18. NobodyAlone /\ StaysOver
  <2>1. 0 \notin 1..spent.sessions
    BY <1>3
  <2> QED
    BY <1>13, <2>1 DEF NobodyAlone, StaysOver, Over
<1>19. \A h \in Pasts \cup {NoHistory} : HistoryAgain(h)
  BY <1>3, <1>11, <1>18, PastsAgain DEF AutoInv
<1>20. PastsHold'
  <2>1. \A q \in RunIds : runs'[q].copy \in Pasts \cup {NoHistory}
    BY <1>13 DEF Pasts
  <2>2. \A h \in Pasts' : h \in Pasts \cup {NoHistory}
    BY <1>2, <1>3, <1>8, <2>1 DEF Pasts
  <2>3. \A h \in Pasts' : HistoryAgain(h)
    BY <1>19, <2>2
  <2> QED
    BY <2>3, PastsStay
<1>21. SessionsHold'
  <2>1. \A q \in RunIds : runs'[q].pc \notin AtWork \cup {"write", "queued"}
    BY <1>13 DEF AtWork
  <2>2. ASSUME NEW q \in RunIds, NEW p \in RunIds, q # p, runs'[q].job \in EveryJobs, runs'[q].sess # 0
        PROVE  runs'[p].sess # runs'[q].sess
    <3>1. runs'[q] = runs[q]
      BY <1>13, <2>2
    <3>2. runs'[p].sess = 0 \/ runs'[p].sess = runs[p].sess
      BY <1>13
    <3>3. runs[p].sess # runs[q].sess
      BY <2>2, <3>1 DEF AutoInv, SessionsHold
    <3> QED
      BY <2>2, <3>1, <3>2, <3>3
  <2>3. ASSUME NEW q \in RunIds, runs'[q].sess = Home, runs'[q].job \in EveryJobs
        PROVE  FALSE
    <3>1. Home # 0
      BY DEF Home
    <3>2. runs'[q] = runs[q]
      BY <1>13, <2>3, <3>1
    <3> QED
      BY <2>3, <3>2 DEF AutoInv, SessionsHold, Alone
  <2> QED
    BY <2>1, <2>2, <2>3 DEF SessionsHold, Alone
<1>22. TurnsHold'
  <2>1. ASSUME NEW q \in RunIds, NEW i \in 1..Len(runs'[q].heard)
        PROVE  runs'[q].heard[i] \in 1..spent'.turns
    <3>1. runs'[q] = runs[q]
      BY <1>13
    <3> QED
      BY <1>11, <3>1 DEF AutoInv, TurnsHold
  <2>2. \A q \in RunIds : \A i \in 1..Len(runs'[q].heard) : runs'[q].heard[i] # 0
    BY <1>3, <1>11, <2>1
  <2> QED
    BY <1>15, <2>1, <2>2 DEF TurnsHold
<1>23. BindingsHold'
  BY <1>2, <1>4, <1>8, <1>11, <1>12 DEF BindingsHold, no
<1>24. NoSharedTurn'
  <2>1. \A q \in RunIds : runs'[q].turn \in {0, runs[q].turn}
    BY <1>13
  <2> QED
    BY <1>11, <2>1, NoShareStays DEF AutoInv
<1>25. RunsAccounted'
  <2>1. HistoryAgain(known)
    BY <1>8, <1>19
  <2>2. IsInjective(past'.runs)
    BY <1>2, <2>1 DEF HistoryAgain
  <2>3. \A r \in RunIds : runs'[r].pc \in {"none", "append", "deliver", "done", "gone"}
    BY <1>13
  <2>4. ASSUME NEW r \in RunIds, runs'[r].pc \in {"deliver", "done"}
        PROVE  r \in ToSet(past'.runs) \cup spent'.dropped
    <3>1. runs[r].pc # "none"
      BY <1>13, <2>4
    <3> QED
      BY <1>2, <1>4, <1>11, <3>1
  <2> QED
    BY <1>2, <2>2, <2>3, <2>4 DEF RunsAccounted
<1> QED
  BY <1>16, <1>17, <1>20, <1>21, <1>22, <1>23, <1>24, <1>25 DEF AutoInv

LEMMA AutoStarts == AutoInit => AutoInv
<1> SUFFICES ASSUME AutoInit PROVE AutoInv
  OBVIOUS
<1>1. /\ past = NoHistory /\ saved = NoHistory /\ listed = {} /\ asked = {}
      /\ runs = [r \in RunIds |-> NoRun] /\ queues = [s \in Rooms |-> 0]
  BY DEF AutoInit
<1>2. ScopeFields(scope) /\ scope.loaded /\ ~scope.removing /\ scope.exists
  BY DEF AutoInit, ScopeFields
<1>3. /\ SpentFields(spent) /\ spent.runs = 0 /\ spent.sessions = 1 /\ spent.turns = 0
      /\ spent.incidents = 0 /\ spent.made = [j \in OnceJobs |-> {}]
  BY DEF AutoInit, SpentFields
<1>4. /\ rooms \in [Rooms -> AutoRoom] /\ \A s \in Rooms : rooms[s].turn = 0
  <2> DEFINE no == FALSE
  <2>1. rooms = [s \in Rooms |-> [exists |-> s = Home, turn |-> 0, asks |-> no, compacting |-> no]]
        /\ no \in BOOLEAN
    BY DEF AutoInit
  <2> HIDE DEF no
  <2>2. ASSUME NEW s \in Rooms
        PROVE  rooms[s] \in AutoRoom /\ rooms[s].turn = 0
    <3>1. PICK b \in BOOLEAN : b = (s = Home)
      OBVIOUS
    <3>2. rooms[s] = [exists |-> b, turn |-> 0, asks |-> no, compacting |-> no]
      BY <2>1, <3>1
    <3> QED
      BY <2>1, <3>2 DEF AutoRoom
  <2>3. PICK f : f = rooms
    OBVIOUS
  <2>4. f = [s \in Rooms |-> f[s]]
    BY <2>1, <2>3
  <2>5. \A s \in Rooms : f[s] \in AutoRoom
    BY <2>2, <2>3
  <2> QED
    BY <2>2, <2>3, <2>4, <2>5
<1>5. /\ NoRun \in AutoRun /\ NoRun.pc = "none" /\ NoRun.sess = 0 /\ NoRun.turn = 0
      /\ Len(NoRun.heard) = 0 /\ NoRun.copy = NoHistory /\ NoHistory \in Histories
  <2> DEFINE z == <<>>
             no == FALSE
             x == NoRun.job
             c == NoHistory
  <2>1. NoRun = [pc |-> "none", job |-> x, caller |-> no, sess |-> 0, turn |-> 0, heard |-> z, copy |-> c]
        /\ Len(z) = 0 /\ NoRun \in AutoRun /\ c \in Histories
    BY NoRunIs, EmptySeq
  <2>2. PICK w : w = NoRun
    OBVIOUS
  <2>3. PICK y : y = x
    OBVIOUS
  <2>4. w = [pc |-> "none", job |-> y, caller |-> no, sess |-> 0, turn |-> 0, heard |-> z, copy |-> c]
    BY <2>1, <2>2, <2>3
  <2> HIDE DEF z, no, x, c
  <2>5. w.pc = "none" /\ w.sess = 0 /\ w.turn = 0 /\ w.heard = z /\ w.copy = c
    BY <2>4
  <2> QED
    BY <2>1, <2>2, <2>5 DEF c
<1>6. \A r \in RunIds : runs[r] = NoRun
  BY <1>1
<1>7. MaxRuns \in Nat /\ 1 \in Rooms
  BY AutomationBoundsAssumption DEF Rooms
<1>8. AutoTypes
  BY <1>1, <1>2, <1>3, <1>4, <1>5, <1>7 DEF AutoTypes
<1>9. NumbersAreNew
  BY <1>3, <1>4, <1>5, <1>6 DEF NumbersAreNew
<1>10. PastsHold
  <2>1. \A h \in Pasts : h = NoHistory
    BY <1>1, <1>5, <1>6 DEF Pasts
  <2>2. PICK h : h = NoHistory
    OBVIOUS
  <2>3. DOMAIN h.runs = {} /\ Len(h.runs) = 0 /\ \A j \in OnceJobs : h.once[j] = 0
    BY <2>2, NoRunIs
  <2>4. HistoryHolds(h)
    BY <2>3 DEF HistoryHolds, IsInjective
  <2> QED
    BY <2>1, <2>2, <2>4 DEF PastsHold
<1>11. SessionsHold
  BY <1>5, <1>6 DEF SessionsHold, AtWork, Alone, Home
<1>12. TurnsHold
  BY <1>4, <1>5, <1>6 DEF TurnsHold
<1>13. BindingsHold
  BY <1>1, <1>2, <1>3 DEF BindingsHold
<1>14. RunsAccounted
  <2>1. listed = {r \in RunIds : runs[r].pc \notin {"none", "append", "deliver", "done", "gone"}}
    BY <1>1, <1>5, <1>6
  <2>2. IsInjective(past.runs)
    BY <1>10 DEF PastsHold, Pasts, HistoryHolds
  <2>3. \A r \in RunIds : runs[r].pc \notin {"deliver", "done"}
    BY <1>5, <1>6
  <2> QED
    BY <2>1, <2>2, <2>3 DEF RunsAccounted
<1>15. NoSharedTurn
  BY <1>5, <1>6 DEF NoSharedTurn
<1> QED
  BY <1>8, <1>9, <1>10, <1>11, <1>12, <1>13, <1>14, <1>15 DEF AutoInv

LEMMA AutoStutters == AutoInv /\ UNCHANGED autoVars => AutoInv'
  BY DEF autoVars, AutoInv, AutoTypes, NumbersAreNew, PastsHold, Pasts, HistoryHolds, Alone,
         SessionsHold, TurnsHold, BindingsHold, RunsAccounted, NoSharedTurn

LEMMA AutoSteps == AutoInv /\ [AutoNext]_autoVars => AutoInv'
<1> SUFFICES ASSUME AutoInv, [AutoNext]_autoVars PROVE AutoInv'
  OBVIOUS
<1>1. ASSUME \/ EditBegin \/ EditApply \/ EditFails \/ RemoveProjectConfig \/ DeleteProject
             \/ UserPrompt \/ Shutdown \/ Restart
      PROVE  AutoInv'
  BY <1>1, EditBeginHolds, EditApplyHolds, EditFailsHolds, RemoveConfigHolds, DeleteProjectHolds,
     UserPromptHolds, ShutdownHolds, RestartHolds
<1>2. ASSUME \/ \E a \in asked : Refuse(a)
             \/ \E j \in Jobs : TakeDueJob(j) \/ RunNow(j)
             \/ \E s \in Rooms : Ask(s) \/ DeleteSession(s)
             \/ CompactHome \/ CompactionEnds
             \/ \E r \in RunIds : Deny(r)
      PROVE  AutoInv'
  BY <1>2, QuietStepsHold
<1>3. ASSUME NEW j \in Jobs, RemoveJobState(j) PROVE AutoInv'
  BY <1>3, RemoveJobHolds
<1>4. ASSUME NEW a \in asked, NEW r \in RunIds, Begin(a, r) PROVE AutoInv'
  BY <1>4, BeginHolds
<1>5. ASSUME NEW r \in RunIds,
             \/ ResolveExisting(r) \/ CreateEvery(r) \/ CreateOnce(r) \/ WriteBinding(r)
             \/ StartFails(r)
      PROVE  AutoInv'
  BY <1>5, ResolveExistingHolds, CreateEveryHolds, CreateOnceHolds, WriteBindingHolds, StartFailsHolds
<1>6. ASSUME NEW r \in RunIds,
             \/ TakeQueue(r) \/ Prompt(r) \/ Busy(r) \/ Wake(r) \/ HearEnd(r)
      PROVE  AutoInv'
  BY <1>6, TakeQueueHolds, PromptHolds, BusyHolds, WakeHolds, HearEndHolds
<1>7. ASSUME NEW r \in RunIds,
             \/ Timeout(r) \/ GiveUp(r) \/ Stop(r)
             \/ ClearActive(r) \/ AppendHistory(r) \/ Deliver(r)
      PROVE  AutoInv'
  BY <1>7, GivingUpHolds, ClearActiveHolds, AppendHistoryHolds, DeliverHolds
<1>8. ASSUME NEW s \in Rooms, TurnEnds(s) PROVE AutoInv'
  BY <1>8, TurnEndsHolds
<1>9. CASE UNCHANGED autoVars
  BY <1>9, AutoStutters
<1> QED
  BY <1>1, <1>2, <1>3, <1>4, <1>5, <1>6, <1>7, <1>8, <1>9 DEF AutoNext

(* The sessions a job was given that still exist are at most one.              *)
LEMMA OneSession ==
  ASSUME AutoTypes, BindingsHold
  PROVE  OnceIsOnce
<1>1. ASSUME NEW j \in OnceJobs
      PROVE  Cardinality({s \in spent.made[j] : rooms[s].exists}) <= 1
  <2> DEFINE e == {s \in spent.made[j] : rooms[s].exists}
             one == {past.once[j]}
  <2>1. e \subseteq one
    BY <1>1 DEF BindingsHold
  <2>2. IsFiniteSet(one) /\ Cardinality(one) = 1
    BY FS_Singleton
  <2> HIDE DEF e, one
  <2>3. Cardinality(e) <= Cardinality(one)
    BY <2>1, <2>2, FS_Subset
  <2>4. Cardinality(e) <= 1
    BY <2>2, <2>3
  <2> QED
    BY <2>4 DEF e
<1> QED
  BY <1>1 DEF OnceIsOnce

(* For any jobs, runs, sessions, turns and incidents: a run that has ended is  *)
(* in the history once, or was dropped from it by a removal, the limit or a    *)
(* restart; runs do not share a turn unless one of them gave its turn up; a    *)
(* job that keeps its session has one; and a deleted project starts nothing.   *)
THEOREM AutomationCorrect == AutoSpec => []AutomationHolds
<1>1. AutoInv => AutomationHolds
  <2> SUFFICES ASSUME AutoInv PROVE AutomationHolds
    OBVIOUS
  <2>1. DeletedProjectIsQuiet
    BY DEF AutoInv, BindingsHold, DeletedProjectIsQuiet
  <2>2. OnceIsOnce
    BY OneSession DEF AutoInv
  <2> QED
    BY <2>1, <2>2 DEF AutoInv, AutomationHolds
<1> QED
  BY <1>1, AutoStarts, AutoSteps, PTL DEF AutoSpec
=============================================================================
