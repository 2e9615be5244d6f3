---------------------------- MODULE HostRequests ----------------------------
(* Host.handle_request and the connections that call it.  A connection       *)
(* serves its requests one after the other under an identity of its own, so  *)
(* a retry meets the cache of results and never a running twin.              *)
EXTENDS Integers, Sequences, FiniteSets

CONSTANTS
  Connections,    (* identities of connections: a reconnect is a new one     *)
  Pipes,          (* those of them that are IPC streams, the others websocket *)
  Ids,            (* request ids                                             *)
  Commands,       (* calls (method and params) with side effects             *)
  Queries,        (* calls without                                           *)
  Watches,        (* subscriptions                                           *)
  Refused,        (* calls of a wrong version or route                       *)
  CacheLimit,     (* entries of the cache                                    *)
  MaxRequests,    (* requests sent in a run                                  *)
  MaxExpiries     (* times the age limit of the cache passes in a run        *)

ASSUME PipesAssumption == Pipes \subseteq Connections
ASSUME CallsAssumption == Commands \cap Queries = {}
ASSUME RequestBoundsAssumption ==
  /\ CacheLimit \in Nat \ {0}
  /\ MaxRequests \in Nat
  /\ MaxExpiries \in Nat

VARIABLES
  inbox,     (* requests a connection has received and not begun             *)
  serving,   (* the request a connection works on and where it is            *)
  replies,   (* what it has answered                                         *)
  cache,     (* request_cache: entries by connection and id                  *)
  ran,       (* every run of handle_method, in order                         *)
  forgotten, (* runs whose entry was evicted or expired                      *)
  budget     (* requests sent and expiries passed                            *)

requestVars == <<inbox, serving, replies, cache, ran, forgotten, budget>>

Calls == Commands \cup Queries \cup Watches \cup Refused
Requests == [id : Ids, call : Calls]
Idle == [pc |-> "idle"]

RequestsInit ==
  /\ inbox = [c \in Connections |-> <<>>]
  /\ serving = [c \in Connections |-> Idle]
  /\ replies = [c \in Connections |-> <<>>]
  /\ cache = {}
  /\ ran = <<>>
  /\ forgotten = {}
  /\ budget = [requests |-> 0, expiries |-> 0]

(* A client may send before it has its answer, and may send the same again.  *)
Send(c, r) ==
  /\ budget.requests < MaxRequests
  /\ serving[c].pc # "closed"
  /\ budget' = [budget EXCEPT !.requests = @ + 1]
  /\ inbox' = [inbox EXCEPT ![c] = Append(@, r)]
  /\ UNCHANGED <<serving, replies, cache, ran, forgotten>>

-----------------------------------------------------------------------------
(* The connection's loop                                                     *)
Answer(c, r, outcome, run) ==
  replies' = [replies EXCEPT ![c] =
    Append(@, [id |-> r.id, call |-> r.call, outcome |-> outcome, run |-> run])]

(* Version and route are checked before anything else.                       *)
TakeRefused(c) ==
  /\ serving[c].pc = "idle"
  /\ inbox[c] # <<>>
  /\ LET r == inbox[c][1] IN
     /\ r.call \in Refused
     /\ Answer(c, r, "invalid", 0)
  /\ inbox' = [inbox EXCEPT ![c] = Tail(@)]
  /\ UNCHANGED <<serving, cache, ran, forgotten, budget>>

(* A watch takes an IPC stream over; a websocket goes on serving.            *)
TakeWatch(c) ==
  /\ serving[c].pc = "idle"
  /\ inbox[c] # <<>>
  /\ LET r == inbox[c][1] IN
     /\ r.call \in Watches
     /\ Answer(c, r, "watching", 0)
  /\ inbox' = [inbox EXCEPT ![c] = Tail(@)]
  /\ serving' = IF c \in Pipes
                  THEN [serving EXCEPT ![c] = [pc |-> "streaming"]]
                  ELSE serving
  /\ UNCHANGED <<cache, ran, forgotten, budget>>

(* The loop ends: at the end of a handler, whatever is left unread.          *)
Close(c) ==
  /\ serving[c].pc \in {"idle", "streaming"}
  /\ serving' = [serving EXCEPT ![c] = [pc |-> "closed"]]
  /\ UNCHANGED <<inbox, replies, cache, ran, forgotten, budget>>

-----------------------------------------------------------------------------
(* handle_request                                                            *)
Kept == {e \in cache : ~e.old}
\* mutant: the key of the cache is the request's id alone.
EntryById(c, id) == {e \in Kept : e.id = id}

EntryOf(c, id) == {e \in Kept : e.conn = c /\ e.id = id}
Forget(entries) == forgotten' = forgotten \cup {e.run : e \in entries}

(* A query is not looked up.                                                 *)
BeginQuery(c) ==
  /\ serving[c].pc = "idle"
  /\ inbox[c] # <<>>
  /\ inbox[c][1].call \in Queries
  /\ serving' = [serving EXCEPT ![c] = [pc |-> "running", req |-> inbox[c][1]]]
  /\ inbox' = [inbox EXCEPT ![c] = Tail(@)]
  /\ UNCHANGED <<replies, cache, ran, forgotten, budget>>

(* The lookup drops what expired; a miss goes on to run the method.          *)
LookUp(c, r) ==
  /\ serving[c].pc = "idle"
  /\ inbox[c] # <<>>
  /\ r = inbox[c][1]
  /\ r.call \in Commands
  /\ inbox' = [inbox EXCEPT ![c] = Tail(@)]
  /\ cache' = Kept
  /\ Forget(cache \ Kept)
  /\ UNCHANGED <<ran, budget>>

Miss(c) ==
  \E r \in Requests :
    /\ LookUp(c, r)
    /\ EntryOf(c, r.id) = {}
    /\ serving' = [serving EXCEPT ![c] = [pc |-> "running", req |-> r]]
    /\ UNCHANGED replies

Hit(c) ==
  \E r \in Requests : \E e \in EntryOf(c, r.id) :
    /\ LookUp(c, r)
    /\ e.call = r.call
    /\ Answer(c, r, "ok", e.run)
    /\ UNCHANGED serving

Conflict(c) ==
  \E r \in Requests : \E e \in EntryOf(c, r.id) :
    /\ LookUp(c, r)
    /\ e.call # r.call
    /\ Answer(c, r, "conflict", 0)
    /\ UNCHANGED serving

(* handle_method, to its end: a failed one may have had its effect.          *)
Run(c, ok) ==
  /\ serving[c].pc = "running"
  /\ ran' = Append(ran, [conn |-> c, id |-> serving[c].req.id,
                         call |-> serving[c].req.call, ok |-> ok])
  /\ serving' = [serving EXCEPT ![c] =
       [pc |-> IF ok /\ @.req.call \in Commands THEN "store" ELSE "answer",
        req |-> @.req, run |-> Len(ran) + 1, ok |-> ok]]
  /\ UNCHANGED <<inbox, replies, cache, forgotten, budget>>

(* A full cache loses an arbitrary entry.                                    *)
Victims == IF Cardinality(cache) >= CacheLimit THEN {{e} : e \in cache} ELSE {{}}

Store(c) ==
  /\ serving[c].pc = "store"
  /\ \E victims \in Victims :
       LET s == serving[c]
           same == {e \in cache : e.conn = c /\ e.id = s.req.id}
       IN  /\ cache' = ((cache \ victims) \ same) \cup
                 {[conn |-> c, id |-> s.req.id, call |-> s.req.call,
                   run |-> s.run, old |-> FALSE]}
           /\ Forget(victims \cup same)
  /\ serving' = [serving EXCEPT ![c].pc = "answer"]
  /\ UNCHANGED <<inbox, replies, ran, budget>>

Reply(c) ==
  /\ serving[c].pc = "answer"
  /\ Answer(c, serving[c].req, IF serving[c].ok THEN "ok" ELSE "failed", serving[c].run)
  /\ serving' = [serving EXCEPT ![c] = Idle]
  /\ UNCHANGED <<inbox, cache, ran, forgotten, budget>>

(* Five minutes pass: everything stored so far is old.                       *)
Expire ==
  /\ budget.expiries < MaxExpiries
  /\ Kept # {}
  /\ budget' = [budget EXCEPT !.expiries = @ + 1]
  /\ cache' = {[e EXCEPT !.old = TRUE] : e \in cache}
  /\ UNCHANGED <<inbox, serving, replies, ran, forgotten>>

RequestsNext ==
  \/ Expire
  \/ \E c \in Connections :
       \/ \E r \in Requests : Send(c, r)
       \/ TakeRefused(c) \/ TakeWatch(c) \/ Close(c)
       \/ BeginQuery(c) \/ Miss(c) \/ Hit(c) \/ Conflict(c)
       \/ \E ok \in BOOLEAN : Run(c, ok)
       \/ Store(c) \/ Reply(c)

RequestsSpec == RequestsInit /\ [][RequestsNext]_requestVars

-----------------------------------------------------------------------------
(* A command that succeeded is not run again for a retry as long as its      *)
(* result is kept: two successful runs under one id mean that the first was  *)
(* forgotten, however the connections share the cache.                       *)
RunsOnce ==
  \A i, j \in 1..Len(ran) :
    /\ i < j
    /\ ran[i].ok /\ ran[i].call \in Commands /\ ran[j].call \in Commands
    /\ ran[i].conn = ran[j].conn /\ ran[i].id = ran[j].id
    => i \in forgotten

(* An answer is the result of a run of the very call that was asked for, by  *)
(* the connection that asked: an id used twice never yields another's.       *)
AnswersBelong ==
  \A c \in Connections : \A i \in 1..Len(replies[c]) :
    LET a == replies[c][i] IN
    a.outcome = "ok" =>
      /\ ran[a.run].ok
      /\ ran[a.run].call = a.call
      /\ ran[a.run].conn = c
      /\ ran[a.run].id = a.id

(* The cache keeps its limit although the check and the run are apart.       *)
CacheBounded == Cardinality(cache) <= CacheLimit

(* What a client that repeats a request relies on: a command runs once while *)
(* its answer is kept, the answer is its own, and the cache stays bounded.   *)
RequestsHold == RunsOnce /\ AnswersBelong /\ CacheBounded
=============================================================================
