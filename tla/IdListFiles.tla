----------------------------- MODULE IdListFiles -----------------------------
(***************************************************************************)
(* One id-list file in one process: the cache of whole bodies behind       *)
(* /v1/download_id_list_file (IdListFileStore), the endpoint that slices   *)
(* them, and the observer that refreshes the cache when a manifest names a *)
(* larger file (IdListFileRefreshObserver).                                *)
(*                                                                         *)
(* A file only grows: a rotated list has another file id, and so another   *)
(* entry of the cache.  Bytes are therefore their positions in the file,   *)
(* and a body is the interval of positions it holds.                       *)
(*                                                                         *)
(* A request names the position it starts at and perhaps the size its      *)
(* sender knows from a manifest (the hint).  The hint is part of the       *)
(* identity of a request context and the position is not, so the locks,    *)
(* evictions and delays of foreground_fetch are per hint.  The contexts    *)
(* are otherwise alike: one key, one set of encodings.                     *)
(***************************************************************************)
EXTENDS Integers, FiniteSets, FiniteSetsExt

CONSTANTS Readers,      \* SDKs, or the next proxy of a chain
          Refresher,    \* the task spawn_refreshes starts: one manifest, one file
          MaxSize,      \* bound: the size the file grows to
          MaxEvictions, \* bound: evictions of one lock pending at the same time
          Setups        \* the situations a run looks at

ASSUME FilesAssumption ==
  /\ Refresher \notin Readers
  /\ MaxSize \in Nat \ {0} /\ MaxEvictions \in Nat \ {0}

None == -1
Sizes == 1..MaxSize
Hints == Sizes \cup {None}
Callers == Readers \cup {Refresher}
Locks == 1..(Cardinality(Callers) + 1)

\* error: no answer, a 5xx, or the guard fires.  refuse: a 401, 403 or other 4xx.
\* lag: an edge or the next proxy is behind.  evict: the cache is full.
FaultKinds == {"error", "refuse", "lag", "evict"}

VARIABLES
  setup,     \* which readers there are and how they ask, faults and timing
  size,      \* the file at the origin
  listed,    \* its size in the manifest the origin serves
  seen,      \* its size in the manifest the observer saw last
  body,      \* IdListFileStore: the entry of the file
  map,       \* foreground_fetch_lock, per hint: the lock, or None
  fetched,   \* the locks whose value is true
  evictions, \* per hint: sleeping tasks that will remove the lock from the map
  waiting,   \* RequestBackoffController: hints whose retry_after lies ahead
  call,      \* per caller: its request and where it is
  have,      \* per reader: how much of the file it has
  faults     \* faults left

vars == <<setup, size, listed, seen, body, map, fetched, evictions, waiting, call, have, faults>>

origin == <<size, listed>>
locking == <<map, fetched, evictions, waiting>>

Body == [from : 0..MaxSize, to : Sizes]
NoBody == [from |-> 0, to |-> None]
Length(b) == b.to - b.from

\* first: the position in the file of the first byte of an answer.
Answers == [status : {"full", "partial", "range", "refused"}, total : 0..MaxSize,
            first : 0..MaxSize]
NoAnswer == [status |-> "refused", total |-> 0, first |-> 0]
Idle == [pc |-> "idle", start |-> None, hint |-> None, lock |-> None, got |-> NoBody,
         answer |-> NoAnswer]

Steps == {"idle", "ensure", "miss", "check", "wait", "sent", "got", "unmap", "reply", "answered"}
Kinds == {"hinted", "ranged", "whole"}

TypeOK ==
  /\ setup \in Setups
  /\ size \in Sizes /\ listed \in Sizes /\ seen \in 0..MaxSize
  /\ body \in Body \cup {NoBody}
  /\ map \in [Hints -> Locks \cup {None}]
  /\ fetched \subseteq Hints \X Locks
  /\ evictions \in [Hints -> 0..MaxEvictions]
  /\ waiting \subseteq Hints
  /\ call \in [Callers -> [pc : Steps, start : 0..MaxSize \cup {None}, hint : Hints,
                           lock : Locks \cup {None}, got : Body \cup {NoBody}, answer : Answers]]
  /\ have \in [Readers -> 0..MaxSize]
  /\ faults \in 0..setup.budget

Init ==
  /\ setup \in Setups
  /\ size = 1 /\ listed = 1 /\ seen = 0
  /\ body = NoBody
  /\ map = [h \in Hints |-> None] /\ fetched = {} /\ evictions = [h \in Hints |-> 0]
  /\ waiting = {}
  /\ call = [c \in Callers |-> Idle]
  /\ have = [r \in Readers |-> 0]
  /\ faults = setup.budget

Fault(f) ==
  /\ f \in setup.faults /\ faults > 0
  /\ faults' = faults - 1

Goto(c, pc) == call' = [call EXCEPT ![c].pc = pc]

\* foreground_fetch returns: its reference to the lock is dropped.
Return(c) == call' = [call EXCEPT ![c].pc = "reply", ![c].lock = None, ![c].got = NoBody]

----------------------------------------------------------------------------
(* The cache and the answers made from it                                  *)

Satisfies_noSize(b, start, hint) ==
  /\ b # NoBody
  /\ start # None => Length(b) > start

\* cached_body_satisfies_request
Satisfies(b, start, hint) ==
  /\ b # NoBody
  /\ hint # None => Length(b) >= hint
  /\ start # None => \/ Length(b) > start
                     \/ Length(b) = start /\ hint = Length(b)

\* build_download_id_list_file_payload; without a body the answer is a refusal.
Payload(b, start) ==
  IF b = NoBody THEN NoAnswer
  ELSE IF start = None THEN [status |-> "full", total |-> Length(b), first |-> b.from]
  ELSE IF start >= Length(b) THEN [status |-> "range", total |-> Length(b), first |-> 0]
  ELSE [status |-> "partial", total |-> Length(b), first |-> b.from + start]

Respond(c) == call' = [call EXCEPT ![c] = [Idle EXCEPT
                !.pc = "answered", !.start = call[c].start, !.hint = call[c].hint,
                !.answer = Payload(body, call[c].start)]]

----------------------------------------------------------------------------
(* The callers: the endpoint with get_or_fetch, and the refresh observer   *)

\* What the guard of the endpoint makes of a request: a reader asks for what it
\* lacks.  An SDK names the position it has reached, with or without the size; a
\* proxy fetches the whole file for the size it was asked for.
FromRequest(r) ==
  [Idle EXCEPT !.start = IF setup.readers[r] = "whole" THEN None ELSE have[r],
               !.hint = IF setup.readers[r] = "ranged" THEN None ELSE listed]

Ask(r) ==
  /\ r \in DOMAIN setup.readers /\ call[r].pc = "idle" /\ have[r] < listed
  /\ LET request == FromRequest(r)
     IN  call' = [call EXCEPT ![r] =
           IF Satisfies(body, request.start, request.hint)
             THEN [request EXCEPT !.pc = "answered", !.answer = Payload(body, request.start)]
             ELSE [request EXCEPT !.pc = "miss"]]
  /\ UNCHANGED <<setup, origin, seen, body, locking, have, faults>>

\* get_stored_body after the fetch, whatever came of it.  Nobody waits for the
\* answer of ensure_fresh_enough.
Reply(c) ==
  /\ call[c].pc = "reply"
  /\ IF c = Refresher THEN call' = [call EXCEPT ![c] = Idle] ELSE Respond(c)
  /\ UNCHANGED <<setup, origin, seen, body, locking, have, faults>>

\* An answer of 206 continues the copy of its reader, one of 200 replaces it.
Receive(r) ==
  /\ r \in Readers /\ call[r].pc = "answered"
  /\ have' = [have EXCEPT ![r] =
       CASE call[r].answer.status = "partial" -> call[r].answer.total
         [] call[r].answer.status = "full"    -> call[r].answer.total
         [] OTHER                             -> @]
  /\ call' = [call EXCEPT ![r] = Idle]
  /\ UNCHANGED <<setup, origin, seen, body, locking, faults>>

\* A new manifest, perhaps of an edge that is behind: a task is spawned unless
\* the cache has the size it names.  Manifests are a minute apart, and a
\* refresh takes less.
Observe ==
  /\ call[Refresher].pc = "idle"
  /\ \E v \in Sizes :
       /\ v # seen
       /\ \/ v = listed /\ UNCHANGED faults
          \/ v < listed /\ Fault("lag")
       /\ seen' = v
       /\ call' = [call EXCEPT ![Refresher] =
            IF Satisfies(body, 0, v) THEN Idle
            ELSE [Idle EXCEPT !.pc = "ensure", !.start = 0, !.hint = v]]
  /\ UNCHANGED <<setup, origin, body, locking, have>>

\* ensure_fresh_enough looks again.
Ensure ==
  /\ call[Refresher].pc = "ensure"
  /\ IF Satisfies(body, call[Refresher].start, call[Refresher].hint)
       THEN call' = [call EXCEPT ![Refresher] = Idle]
       ELSE Goto(Refresher, "miss")
  /\ UNCHANGED <<setup, origin, seen, body, locking, have, faults>>

----------------------------------------------------------------------------
(* foreground_fetch, as in FetchPipeline                                   *)

Users(h, l) == {c \in Callers : call[c].hint = h /\ call[c].lock = l}
Held(h, l) == \E c \in Users(h, l) : call[c].pc \in {"sent", "got"}

Free(h) == {l \in Locks : map[h] # l /\ Users(h, l) = {}}

\* entry().or_insert_with(false).clone()
Enter(c) ==
  /\ call[c].pc = "miss"
  /\ LET h == call[c].hint
         l == IF map[h] = None THEN Min(Free(h)) ELSE map[h]
     IN  /\ map' = [map EXCEPT ![h] = l]
         /\ fetched' = IF map[h] = None THEN fetched \ {<<h, l>>} ELSE fetched
         /\ call' = [call EXCEPT ![c].pc = "check", ![c].lock = l]
  /\ UNCHANGED <<setup, origin, seen, body, evictions, waiting, have, faults>>

Mine(c) == <<call[c].hint, call[c].lock>>

\* read().await: done when the value is true.
Check(c) ==
  /\ call[c].pc = "check" /\ ~Held(call[c].hint, call[c].lock)
  /\ IF Mine(c) \in fetched THEN Return(c) ELSE Goto(c, "wait")
  /\ UNCHANGED <<setup, origin, seen, body, locking, have, faults>>

Acquire_once(c) ==
  /\ call[c].pc = "wait" /\ ~Held(call[c].hint, call[c].lock)
  /\ IF call[c].hint \in waiting
       THEN Goto(c, "unmap") /\ UNCHANGED fetched
       ELSE Goto(c, "sent") /\ fetched' = fetched \cup {Mine(c)}
  /\ UNCHANGED <<setup, origin, seen, body, map, evictions, waiting, have, faults>>

\* write().await, the second look, and the attempt: no request is sent while the
\* delay of a failure lasts, and the value goes back to false.
Acquire(c) ==
  /\ call[c].pc = "wait" /\ ~Held(call[c].hint, call[c].lock)
  /\ IF Mine(c) \in fetched
       THEN Return(c) /\ UNCHANGED fetched
       ELSE IF call[c].hint \in waiting
         THEN Goto(c, "unmap") /\ UNCHANGED fetched
         ELSE Goto(c, "sent") /\ fetched' = fetched \cup {Mine(c)}
  /\ UNCHANGED <<setup, origin, seen, body, map, evictions, waiting, have, faults>>

Unmap(c) ==
  /\ call[c].pc = "unmap"
  /\ map' = [map EXCEPT ![call[c].hint] = None]
  /\ Return(c)
  /\ UNCHANGED <<setup, origin, seen, body, fetched, evictions, waiting, have, faults>>

Joined_keeps(c) ==
  /\ UNCHANGED evictions
  /\ Return(c)

\* The fetch is joined: the eviction is put to sleep and the guard dropped.
\* Evictions beyond the bound coincide with one that is pending.
Joined(c) ==
  /\ evictions' = [evictions EXCEPT ![call[c].hint] = IF @ < MaxEvictions THEN @ + 1 ELSE @]
  /\ Return(c)

\* Thirty seconds later.  The value of a lock that nobody refers to is forgotten.
Evict(h) ==
  /\ evictions[h] > 0
  /\ evictions' = [evictions EXCEPT ![h] = @ - 1]
  /\ map' = [map EXCEPT ![h] = None]
  /\ fetched' = {x \in fetched : x[1] = h => Users(h, x[2]) # {}}
  /\ UNCHANGED <<setup, origin, seen, body, waiting, call, have, faults>>

BackoffOver(h) ==
  /\ h \in waiting
  /\ waiting' = waiting \ {h}
  /\ UNCHANGED <<setup, origin, seen, body, map, fetched, evictions, call, have, faults>>

----------------------------------------------------------------------------
(* The request to the origin and its outcome                               *)

Forwarded_any(start) == IF start = None THEN 0 ELSE start

\* build_request: a range is sent on only when it is the whole file, so that the
\* answer always starts with the first byte.
Forwarded(start) == 0

\* The origin starts to send what it has.
Served(c) ==
  /\ call[c].pc = "sent"
  /\ \E v \in Sizes :
       /\ \/ v = size /\ UNCHANGED faults
          \/ v < size /\ Fault("lag")
       /\ Forwarded(call[c].start) < v
       /\ call' = [call EXCEPT ![c].pc = "got",
                               ![c].got = [from |-> Forwarded(call[c].start), to |-> v]]
  /\ UNCHANGED <<setup, origin, seen, body, locking, have>>

\* update: the body replaces what the cache has.
Store(c) ==
  /\ call[c].pc = "got"
  /\ body' = call[c].got
  /\ waiting' = waiting \ {call[c].hint}
  /\ Joined(c)
  /\ UNCHANGED <<setup, origin, seen, map, fetched, have, faults>>

\* There is no backup to fall back to, and a refusal does not clear the cache:
\* get_or_fetch and ensure_fresh_enough ask for it not to.
Failed(c) ==
  /\ call[c].pc \in {"sent", "got"}
  /\ \/ Fault("error") /\ waiting' = waiting \cup {call[c].hint}
     \/ Fault("refuse") /\ call[c].pc = "sent" /\ waiting' = waiting \ {call[c].hint}
  /\ Joined(c)
  /\ UNCHANGED <<setup, origin, seen, body, map, fetched, have>>

----------------------------------------------------------------------------
(* The environment                                                         *)

\* A situation is "prompt" when a body arrives before the file grows again.
Grow ==
  /\ size < MaxSize
  /\ setup.prompt => \A c \in Callers : call[c].pc # "got"
  /\ size' = size + 1
  /\ UNCHANGED <<setup, listed, seen, body, locking, call, have, faults>>

\* The manifest follows the file.
List ==
  /\ listed < size
  /\ listed' = size
  /\ UNCHANGED <<setup, size, seen, body, locking, call, have, faults>>

\* The cache evicts the entry.
CacheEvicts ==
  /\ body # NoBody /\ Fault("evict")
  /\ body' = NoBody
  /\ UNCHANGED <<setup, origin, seen, locking, call, have>>

----------------------------------------------------------------------------
ForegroundFetch(c) ==
  Enter(c) \/ Check(c) \/ Acquire(c) \/ Unmap(c) \/ Served(c) \/ Store(c) \/ Reply(c)

Endpoint(r) == Ask(r) \/ Receive(r)
Refresh == Observe \/ Ensure

Next ==
  \/ \E c \in Callers : ForegroundFetch(c) \/ Failed(c)
  \/ \E r \in Readers : Endpoint(r)
  \/ Refresh
  \/ \E h \in Hints : Evict(h) \/ BackoffOver(h)
  \/ Grow \/ List \/ CacheEvicts

Spec == Init /\ [][Next]_vars

\* The runtime polls every task that is ready, timers fire, readers keep
\* asking, and the origin answers what it is asked.
FairSpec ==
  /\ Spec
  /\ \A c \in Callers : WF_vars(ForegroundFetch(c))
  /\ \A r \in Readers : WF_vars(Endpoint(r))
  /\ \A h \in Hints : WF_vars(Evict(h)) /\ WF_vars(BackoffOver(h))

----------------------------------------------------------------------------
(* Properties                                                              *)

Answered(r) == call[r].pc = "answered"

\* The bytes of an answer are those at the position that was asked for, of which there
\* is at least one, and a position is only refused when it is not before the end:
\* whatever requests of other positions filled the cache (build_request,
\* build_download_id_list_file_payload).
CopyExact ==
  \A r \in Readers : Answered(r) =>
    /\ call[r].answer.status = "partial" =>
         call[r].answer.first = call[r].start /\ call[r].start < call[r].answer.total
    /\ call[r].answer.status = "range" => call[r].start >= call[r].answer.total
    /\ call[r].answer.status = "full" => call[r].answer.first = 0

\* As long as nothing has failed, nobody is refused, and nobody who knows the size
\* of the file is answered from a shorter one: not by a hit, not when another
\* caller's fetch stands for its own, and not in the thirty seconds in which its
\* own fetch would be suppressed (cached_body_satisfies_request, PartialEq of
\* AuthorizedRequestContext).
HintHonoured ==
  setup.prompt /\ faults = setup.budget =>
    \A r \in Readers : Answered(r) =>
      /\ call[r].answer.status # "refused"
      /\ call[r].hint # None => call[r].answer.total >= call[r].hint

\* "This effectively rate limits requests to once per 30 seconds": no request of a
\* hint is sent while the lock of the last one waits for its eviction.
RateLimited ==
  [][\A c \in Callers : "error" \notin setup.faults /\ call[c].pc = "wait" /\ call'[c].pc = "sent"
       => evictions[call[c].hint] = 0]_vars

\* Every reader comes to have what the manifest names, through failures, refusals,
\* old answers, answers that overtake each other and an entry that is evicted.
Delivered == \A r \in Readers : r \in DOMAIN setup.readers => <>[](have[r] >= listed)
=============================================================================
