----------------------------- MODULE HostEvents -----------------------------
(* HostEventHub and its subscribers: numbered events with a bounded history, *)
(* a broadcast that is not under the lock of the history, subscriptions that *)
(* join a replay to the live events, and pages read from a cursor.           *)
EXTENDS Integers, Sequences, FiniteSetsExt

CONSTANTS
  Publishers,        (* tasks that publish                                    *)
  Subscribers,       (* connections that subscribe                            *)
  Names,             (* names of events                                       *)
  AnyName,           (* the absent filter                                     *)
  HistoryLimit,      (* HISTORY_LIMIT                                         *)
  BroadcastCapacity, (* BROADCAST_CAPACITY                                    *)
  PageLimits,        (* limits a subscriber may ask for                       *)
  MaxEvents          (* events published in a run                             *)

ASSUME AnyNameAssumption == AnyName \notin Names
ASSUME HubBoundsAssumption ==
  /\ HistoryLimit \in Nat \ {0}
  /\ BroadcastCapacity \in Nat \ {0}
  /\ PageLimits \subseteq Nat \ {0}
  /\ MaxEvents \in Nat

VARIABLES
  log,      (* the names of all events ever numbered; next_seq is behind it  *)
  history,  (* EventState.history, as sequence numbers                        *)
  sending,  (* the event each publisher has numbered and not broadcast, or 0  *)
  feeds     (* what each subscriber asked for, holds and has seen             *)

hubVars == <<log, history, sending, feeds>>

NextSeq == Len(log) + 1
Numbers == 1..Len(log)

NoFeed == [state |-> "off", filter |-> AnyName, cursor |-> 0, since |-> 0,
           more |-> FALSE, truncated |-> FALSE, queue |-> <<>>,
           lagged |-> FALSE, seen |-> {}]

HubInit ==
  /\ log = <<>>
  /\ history = <<>>
  /\ sending = [p \in Publishers |-> 0]
  /\ feeds = [s \in Subscribers |-> NoFeed]

Passes(filter, q) == filter = AnyName \/ log[q] = filter

-----------------------------------------------------------------------------
(* publish: number and remember under the lock, then broadcast without it.   *)
Trim(h) == IF Len(h) > HistoryLimit THEN Tail(h) ELSE h

Number(p, name) ==
  /\ sending[p] = 0
  /\ Len(log) < MaxEvents
  /\ log' = Append(log, name)
  /\ history' = Trim(Append(history, NextSeq))
  /\ sending' = [sending EXCEPT ![p] = NextSeq]
  /\ UNCHANGED feeds

(* A receiver that is full loses its oldest event.                           *)
Push(feed, q) ==
  IF feed.state = "off" THEN feed
  ELSE IF Len(feed.queue) < BroadcastCapacity
         THEN [feed EXCEPT !.queue = Append(@, q)]
         ELSE [feed EXCEPT !.queue = Append(Tail(@), q), !.lagged = TRUE]

Broadcast(p) ==
  /\ sending[p] # 0
  /\ feeds' = [s \in Subscribers |-> Push(feeds[s], sending[p])]
  /\ sending' = [sending EXCEPT ![p] = 0]
  /\ UNCHANGED <<log, history>>

-----------------------------------------------------------------------------
(* read: the oldest events after the cursor, at most limit of them; a page is *)
(* the places of its events in the history.                                  *)
Oldest(start) == IF history = <<>> THEN start ELSE history[1]
After(start, filter) ==
  {i \in 1..Len(history) : history[i] > start /\ Passes(filter, history[i])}
\* mutant: the replay keeps the newest events instead of the oldest.
NewestPage(start, filter, limit) ==
  LET all == After(start, filter)
  IN  {i \in all : Cardinality({j \in all : i <= j}) <= limit}
Page(start, filter, limit) ==
  LET all == After(start, filter)
  IN  {i \in all : Cardinality({j \in all : j <= i}) <= limit}
PageEnd(page, start) == IF page = {} THEN start ELSE history[Max(page)]

(* The state of a feed after one more page; a cursor of 0 is none.           *)
Turned(feed, limit) ==
  LET page == Page(feed.cursor, feed.filter, limit)
      truncated == feed.cursor # 0 /\ feed.cursor + 1 < Oldest(feed.cursor)
      end == PageEnd(page, feed.cursor)
  IN  [feed EXCEPT
         !.state = "live",
         !.since = IF feed.cursor = 0 /\ @ = 0 /\ history # <<>>
                     THEN history[1] - 1 ELSE @,
         !.truncated = @ \/ truncated,
         !.more = Cardinality(After(feed.cursor, feed.filter)) > limit,
         !.cursor = end,
         !.seen = @ \cup {history[i] : i \in page}]

(* subscribe_events: the receiver first, the replay after it.                *)
OpenFeed(s, filter) ==
  /\ feeds[s].state = "off"
  /\ feeds' = [feeds EXCEPT ![s] =
       [NoFeed EXCEPT !.state = "opened", !.filter = filter,
                      !.cursor = feeds[s].cursor, !.since = feeds[s].cursor]]
  /\ UNCHANGED <<log, history, sending>>

Replay(s, limit) ==
  /\ feeds[s].state = "opened"
  /\ feeds' = [feeds EXCEPT ![s] = Turned(@, limit)]
  /\ UNCHANGED <<log, history, sending>>

(* event.read: the pages a limit left out.                                   *)
ReadMore(s, limit) ==
  /\ feeds[s].state = "live"
  /\ feeds[s].more
  /\ feeds' = [feeds EXCEPT ![s] = Turned(@, limit)]
  /\ UNCHANGED <<log, history, sending>>

(* The loops of the transports forward what passes the filter; a lag is      *)
(* skipped without a word.                                                   *)
Forward(s) ==
  /\ feeds[s].state = "live"
  /\ feeds[s].queue # <<>>
  /\ LET q == feeds[s].queue[1] IN
     feeds' = [feeds EXCEPT
       ![s].queue = Tail(@),
       ![s].seen = IF Passes(feeds[s].filter, q) THEN @ \cup {q} ELSE @]
  /\ UNCHANGED <<log, history, sending>>

(* A connection ends; its client keeps the cursor of the last page.          *)
HangUp(s) ==
  /\ feeds[s].state = "live"
  /\ feeds' = [feeds EXCEPT ![s] = [NoFeed EXCEPT !.cursor = feeds[s].cursor]]
  /\ UNCHANGED <<log, history, sending>>

HubNext ==
  \/ \E p \in Publishers : (\E n \in Names : Number(p, n)) \/ Broadcast(p)
  \/ \E s \in Subscribers :
       \/ \E f \in Names \cup {AnyName} : OpenFeed(s, f)
       \/ \E l \in PageLimits : Replay(s, l) \/ ReadMore(s, l)
       \/ Forward(s) \/ HangUp(s)

HubSpec == HubInit /\ [][HubNext]_hubVars

-----------------------------------------------------------------------------
(* The history is the last HistoryLimit events in the order of their         *)
(* numbers, however publishers interleave.                                   *)
HistoryIsTail ==
  /\ Len(history) = IF Len(log) < HistoryLimit THEN Len(log) ELSE HistoryLimit
  /\ \A i \in 1..Len(history) : history[i] = Len(log) - Len(history) + i

(* A subscriber that read all its pages, was told of no truncation and did   *)
(* not lag misses nothing since its cursor: what it has not seen is on the   *)
(* way, however the replay raced with the broadcasts.                        *)
OnTheWay(s) ==
  {feeds[s].queue[i] : i \in 1..Len(feeds[s].queue)}
    \cup {sending[p] : p \in Publishers}
Complete(s) ==
  feeds[s].state = "live" /\ ~feeds[s].more /\ ~feeds[s].truncated /\ ~feeds[s].lagged
NothingMissed ==
  \A s \in Subscribers : Complete(s) =>
    \A q \in Numbers :
      q > feeds[s].since /\ Passes(feeds[s].filter, q)
        => q \in feeds[s].seen \cup OnTheWay(s)

(* The shape of the hub: a number in flight or in a queue was given.         *)
HubTypeOK ==
  /\ log \in Seq(Names)
  /\ history \in Seq(Numbers)
  /\ sending \in [Publishers -> 0..Len(log)]
  /\ feeds \in [Subscribers ->
       [state : {"off", "opened", "live"}, filter : Names \cup {AnyName},
        cursor : 0..Len(log), since : 0..Len(log), more : BOOLEAN,
        truncated : BOOLEAN, queue : Seq(Numbers), lagged : BOOLEAN,
        seen : SUBSET Numbers]]

(* What a subscriber of the daemon's events relies on: the stored tail is     *)
(* the newest events in order, and a complete feed has missed none of them.  *)
HubHolds == HubTypeOK /\ HistoryIsTail /\ NothingMissed
=============================================================================
