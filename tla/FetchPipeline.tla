--------------------------- MODULE FetchPipeline ---------------------------
(***************************************************************************)
(* One request context in one process: how a payload of the origin gets    *)
(* into the in-memory store, and how it is kept fresh.                     *)
(*                                                                         *)
(* A reader that finds the context unregistered fetches in the foreground, *)
(* behind a lock of its own in a map of locks (foreground_fetch).  A       *)
(* poller fetches what is registered, since the version it knows           *)
(* (start_background_fetch_interval).  Each fetch is a task of its own:    *)
(* it asks the origin, may fall back to the backup cache, and notifies the *)
(* synchronous observers in the order of their registration: the key store *)
(* and then the payload store.  Each of them checks first and writes       *)
(* later, under two separate locks.                                        *)
(*                                                                         *)
(* Two kinds of context share this code.  "dcs" contexts carry a version   *)
(* (the lcut) that every store compares; "idlists" contexts have none: a   *)
(* hash of the last answer tells an update, and requests are limited to    *)
(* one a minute.                                                           *)
(*                                                                         *)
(* A payload is the number of its version at the origin.  Looking a        *)
(* payload up in the store changes nothing and is no action.               *)
(***************************************************************************)
EXTENDS Integers, FiniteSets

CONSTANTS Readers,      \* requests of SDKs that may be served at the same time
          Poller,       \* the background thread
          MaxVersion,   \* bound: versions the origin publishes
          MaxEvictions, \* bound: lock evictions that are pending at the same time
          Setups        \* the situations a run looks at

ASSUME PipelineAssumption ==
  /\ Poller \notin Readers
  /\ MaxVersion \in Nat \ {0} /\ MaxEvictions \in Nat \ {0}
  /\ \A s \in Setups : s.readers \subseteq Readers /\ s.budget \in Nat

None == -1
Versions == 1..MaxVersion
Tasks == Readers \cup {Poller}
Locks == 1..(Cardinality(Readers) + 1)

\* error: no answer or a 5xx.  client: a 4xx that is no refusal.  slow: the
\* guard around a request fires.  stale: an edge that lags behind the origin.
\* refuse: the key is revoked.  drop: the reader's call is cancelled.  build: the
\* HTTP client cannot be built.
FaultKinds == {"error", "client", "slow", "stale", "refuse", "drop", "build"}

VARIABLES
  setup,     \* the kind of the context, whether a 401 clears, the readers, which
             \* faults there may be and how many (budget), old backups, timing
  built,     \* LazyHttpClient: a client was built and is kept
  current,   \* the origin's version
  allowed,   \* whether the origin accepts the key
  key,       \* SdkKeyStore: version of the registered context, or None
  store,     \* ConfigSpecStore or GetIdListStore: the payload, or None
  hash,      \* last_response_hash of the id-list request builder
  spent,     \* last_request_by_key: the minute's request is used up
  waiting,   \* RequestBackoffController: retry_after lies ahead
  map,       \* foreground_fetch_lock: the lock of this context, or None
  fetched,   \* the locks whose value is true
  evictions, \* sleeping tasks that will remove the context from the map
  reader,    \* per reader: where it is in foreground_fetch, and its lock
  task,      \* per initiator: its fetch
  faults     \* faults left

vars == <<setup, built, current, allowed, key, store, hash, spent, waiting, map, fetched,
          evictions, reader, task, faults>>

origin == <<current, allowed>>
stores == <<key, store, hash>>
locking == <<map, fetched, evictions>>

Idle == [pc |-> "idle", lock |-> None]
NoTask == [pc |-> "none", since |-> 0, result |-> "nodata", version |-> None, after |-> {}]

ReaderStates == {"idle", "miss", "late", "check", "wait", "prepare", "fetching", "unmap"}
TaskStates == {"none", "sent", "backup", "key", "keyPut", "store", "storePut",
               "record", "done"}
Results == {"data", "nodata", "error", "unauthorized", "client"}

TypeOK ==
  /\ setup \in Setups /\ built \in BOOLEAN
  /\ current \in Versions /\ allowed \in BOOLEAN
  /\ key \in 0..MaxVersion \cup {None}
  /\ store \in Versions \cup {None} /\ hash \in Versions \cup {None}
  /\ spent \in BOOLEAN /\ waiting \in BOOLEAN
  /\ map \in Locks \cup {None} /\ fetched \subseteq Locks
  /\ evictions \in 0..MaxEvictions
  /\ reader \in [Readers -> [pc : ReaderStates, lock : Locks \cup {None}]]
  /\ task \in [Tasks -> [pc : TaskStates, since : 0..MaxVersion, result : Results,
                         version : Versions \cup {None}, after : SUBSET Tasks]]
  /\ faults \in 0..setup.budget

UseLcut == setup.kind = "dcs"

Init ==
  /\ setup \in Setups /\ built = FALSE
  /\ current = 1 /\ allowed = TRUE
  /\ key = None /\ store = None /\ hash = None
  /\ spent = FALSE /\ waiting = FALSE
  /\ map = None /\ fetched = {} /\ evictions = 0
  /\ reader = [r \in Readers |-> Idle]
  /\ task = [i \in Tasks |-> NoTask]
  /\ faults = setup.budget

Fault(f) ==
  /\ f \in setup.faults /\ faults > 0
  /\ faults' = faults - 1

----------------------------------------------------------------------------
(* Launching a fetch: both initiators go through impl_foreground_fetch.    *)

\* get_or_build: the first fetch builds the client, the later ones use it.
GetOrBuild == built' = TRUE

\* should_make_request: only id-list contexts are limited.
SlotFree == UseLcut \/ ~spent

\* The minute's slot is taken before the backoff is asked.
TakeSlot == spent' = (spent \/ ~UseLcut)

MayLaunch == SlotFree /\ ~waiting

\* The observers of a fetch are being notified, in the order create_config_spec_store
\* and create_id_list_store add them: the key store, then the store of payloads.
Notifying(i) == task[i].pc \in {"key", "keyPut", "store", "storePut"}

Launch(i, since) ==
  task' = [task EXCEPT ![i] = [NoTask EXCEPT !.pc = "sent", !.since = since,
                                             !.after = {j \in Tasks : Notifying(j)}]]

----------------------------------------------------------------------------
(* The reader: get_config_spec and get_id_lists, then foreground_fetch.    *)

Goto(r, pc) == reader' = [reader EXCEPT ![r].pc = pc]
Leave(r) == reader' = [reader EXCEPT ![r] = Idle]

\* The write guard lives while its owner prepares and awaits the fetch.
Held(l) == \E r \in Readers : reader[r].lock = l /\ reader[r].pc \in {"prepare", "fetching"}

Referenced(l) == map = l \/ \E r \in Readers : reader[r].lock = l

\* has_key says no.  A reader that finds the key only looks the payload up.
Miss(r) ==
  /\ r \in setup.readers /\ reader[r].pc = "idle" /\ key = None
  /\ Goto(r, "miss")
  /\ UNCHANGED <<setup, built, origin, stores, spent, waiting, locking, task, faults>>

\* entry().or_insert_with(false).clone()
Enter(r) ==
  /\ reader[r].pc \in {"miss", "late"}
  /\ \E l \in Locks :
       /\ IF map = None THEN ~Referenced(l) ELSE l = map
       /\ map' = l
       /\ fetched' = IF map = None THEN fetched \ {l} ELSE fetched
       /\ reader' = [reader EXCEPT ![r] = [pc |-> "check", lock |-> l]]
  /\ UNCHANGED <<setup, built, origin, stores, spent, waiting, evictions, task, faults>>

\* read().await: done when the value is true.
Check(r) ==
  /\ reader[r].pc = "check" /\ ~Held(reader[r].lock)
  /\ IF reader[r].lock \in fetched THEN Leave(r) ELSE Goto(r, "wait")
  /\ UNCHANGED <<setup, built, origin, stores, spent, waiting, locking, task, faults>>

\* write().await and the second look at the value.
Acquire(r) ==
  /\ reader[r].pc = "wait" /\ ~Held(reader[r].lock)
  /\ IF reader[r].lock \in fetched
       THEN Leave(r) /\ UNCHANGED fetched
       ELSE /\ fetched' = fetched \cup {reader[r].lock}
            /\ Goto(r, "prepare")
  /\ UNCHANGED <<setup, built, origin, stores, spent, waiting, map, evictions, task, faults>>

\* Either the fetch starts, from version 0, or nothing was attempted and the
\* value goes back to false as the guard is dropped.
Prepare(r) ==
  /\ reader[r].pc = "prepare"
  /\ GetOrBuild /\ TakeSlot
  /\ \/ MayLaunch /\ Launch(r, 0) /\ Goto(r, "fetching") /\ UNCHANGED fetched
     \/ /\ ~MayLaunch
        /\ fetched' = fetched \ {reader[r].lock}
        /\ Goto(r, "unmap")
        /\ UNCHANGED task
  /\ UNCHANGED <<setup, origin, stores, waiting, map, evictions, faults>>

\* Without a client nothing is attempted either, and no slot is taken.
BuildFails(r) ==
  /\ reader[r].pc = "prepare" /\ ~built /\ Fault("build")
  /\ fetched' = fetched \ {reader[r].lock}
  /\ Goto(r, "unmap")
  /\ UNCHANGED <<setup, built, origin, stores, spent, waiting, map, evictions, task>>

\* remove(&key): whatever lock is in the map by now.
Unmap(r) ==
  /\ reader[r].pc = "unmap"
  /\ map' = None
  /\ Leave(r)
  /\ UNCHANGED <<setup, built, origin, stores, spent, waiting, fetched, evictions, task, faults>>

\* The fetch is joined: the eviction is put to sleep and the guard dropped.
\* Evictions beyond the bound coincide with one that is pending.  A miss that is
\* under way by now becomes a late one.
Joined(r) ==
  /\ reader[r].pc = "fetching" /\ task[r].pc = "done"
  /\ evictions' = IF evictions < MaxEvictions THEN evictions + 1 ELSE evictions
  /\ task' = [task EXCEPT ![r] = NoTask]
  /\ reader' = [q \in Readers |-> IF q = r THEN Idle
                                  ELSE IF reader[q].pc = "miss" THEN [reader[q] EXCEPT !.pc = "late"]
                                  ELSE reader[q]]
  /\ UNCHANGED <<setup, built, origin, stores, spent, waiting, map, fetched, faults>>

\* Thirty seconds later.  There is no await between has_key and the map: readers
\* that were there when the eviction was put to sleep are prompt to go on.
Evict ==
  /\ evictions > 0
  /\ setup.prompt => \A r \in Readers : reader[r].pc # "late"
  /\ evictions' = evictions - 1
  /\ map' = None
  /\ UNCHANGED <<setup, built, origin, stores, spent, waiting, fetched, reader, task, faults>>

\* The future of a call is dropped at an await: the guard goes, the set of
\* tasks it awaits goes and aborts them, and what follows the await never runs.
Drop(r) ==
  /\ \/ reader[r].pc \in {"check", "wait"}
     \/ reader[r].pc = "fetching" /\ task[r].pc \in {"sent", "backup", "done"}
  /\ Fault("drop")
  /\ task' = [task EXCEPT ![r] = NoTask]
  /\ Leave(r)
  /\ UNCHANGED <<setup, built, origin, stores, spent, waiting, locking>>

----------------------------------------------------------------------------
(* The poller: one pass takes what is registered and awaits every fetch.   *)

Poll ==
  /\ task[Poller].pc = "none" /\ key # None
  /\ GetOrBuild /\ TakeSlot
  /\ IF MayLaunch THEN Launch(Poller, key) ELSE UNCHANGED task
  /\ UNCHANGED <<setup, origin, stores, waiting, locking, reader, faults>>

PollJoined ==
  /\ task[Poller].pc = "done"
  /\ task' = [task EXCEPT ![Poller] = NoTask]
  /\ UNCHANGED <<setup, built, origin, stores, spent, waiting, locking, reader, faults>>

----------------------------------------------------------------------------
(* The fetch: HttpDataProvider::get, process_result and the observers.     *)

\* Where process_result goes with an answer: to the observers, to the backup
\* cache, or straight to the backoff controller.
After(i, result, version) ==
  CASE result = "data"         -> IF UseLcut /\ version = task[i].since THEN "record" ELSE "key"
    [] result = "error"        -> "backup"
    [] result = "unauthorized" -> IF setup.clear /\ i = Poller THEN "key" ELSE "record"
    [] OTHER                   -> "record"

Answer(i, result, version) ==
  task' = [task EXCEPT ![i] = [NoTask EXCEPT !.pc = After(i, result, version),
                                             !.result = result, !.version = version]]

\* Notifying the synchronous observers takes no await.  A situation is "prompt"
\* when it takes less time than a round trip that starts after it began.
Arrived(i) == setup.prompt => \A j \in task[i].after : ~Notifying(j)

\* The edge that answers may be behind the origin.
EdgeVersion(v) ==
  \/ v = current /\ UNCHANGED faults
  \/ v < current /\ Fault("stale")

\* A dcs request names the version it has, and its answer says whether that is the
\* current one.  An id-list answer is compared with the hash of the last one.
IsAnUpdate(i, v) == v # (IF UseLcut THEN task[i].since ELSE hash)

\* A blob store is asked for the metadata of the config first, and what it holds is
\* not downloaded unless it is newer.  Without a blob store, or when that request
\* fails, every config is downloaded.
SkipsDownload(i, v) == UseLcut /\ task[i].since > 0 /\ v <= task[i].since

\* The hash is recorded before any observer sees the answer.
Served(i) ==
  /\ task[i].pc = "sent" /\ allowed /\ Arrived(i)
  /\ \E v \in Versions :
       /\ EdgeVersion(v)
       /\ \/ Answer(i, IF IsAnUpdate(i, v) THEN "data" ELSE "nodata", v)
          \/ SkipsDownload(i, v) /\ Answer(i, "nodata", v)
       /\ hash' = IF UseLcut THEN hash ELSE v
  /\ UNCHANGED <<setup, built, origin, key, store, spent, waiting, locking, reader>>

Refused_keepsHash(i) ==
  /\ task[i].pc = "sent" /\ ~allowed /\ Arrived(i)
  /\ Answer(i, "unauthorized", None)
  /\ UNCHANGED <<setup, built, origin, stores, spent, waiting, locking, reader, faults>>

\* 401 or 403: the hash is forgotten.
Refused(i) ==
  /\ task[i].pc = "sent" /\ ~allowed /\ Arrived(i)
  /\ Answer(i, "unauthorized", None)
  /\ hash' = None
  /\ UNCHANGED <<setup, built, origin, key, store, spent, waiting, locking, reader, faults>>

Failed(i) ==
  /\ task[i].pc = "sent" /\ Arrived(i)
  /\ \/ Fault("error") /\ Answer(i, "error", None)
     \/ Fault("client") /\ Answer(i, "client", None)
  /\ UNCHANGED <<setup, built, origin, stores, spent, waiting, locking, reader>>

\* The guard fires at an await: the request is over and counts as a failure.
GuardTimeout(i) ==
  /\ task[i].pc \in {"sent", "backup"}
  /\ Fault("slow")
  /\ task' = [task EXCEPT ![i] = [NoTask EXCEPT !.pc = "record", !.result = "error"]]
  /\ UNCHANGED <<setup, built, origin, stores, spent, waiting, locking, reader>>

\* The backup cache is shared by the fleet, so it may hold any version.  The
\* observers are told of an "error" with a payload: the key store ignores it.
ReadBackup(i) ==
  /\ task[i].pc = "backup"
  /\ \E b \in Versions \cup {None} :
       /\ b \in {None, current} \/ (setup.oldBackup /\ b < current)
       /\ task' = [task EXCEPT ![i].pc = IF b = None THEN "record" ELSE "store",
                               ![i].version = b]
  /\ UNCHANGED <<setup, built, origin, stores, spent, waiting, locking, reader, faults>>

Lcut(i) == IF UseLcut THEN task[i].version ELSE 0

Newer_orEqual(v, held) == ~UseLcut \/ held = None \/ v # held

Newer(v, held) == ~UseLcut \/ held = None \/ v > held

Step(i, pc) == task' = [task EXCEPT ![i].pc = pc]

KeyCheck_keepsRefused(i) ==
  /\ task[i].pc = "key"
  /\ Step(i, IF task[i].result = "data" /\ Newer(Lcut(i), key) THEN "keyPut" ELSE "store")
  /\ UNCHANGED <<setup, built, origin, stores, spent, waiting, locking, reader, faults>>

\* SdkKeyStore::update up to its write lock.
KeyCheck(i) ==
  /\ task[i].pc = "key"
  /\ IF task[i].result = "unauthorized"
       THEN key' = None /\ Step(i, "store")
       ELSE UNCHANGED key /\ Step(i, IF Newer(Lcut(i), key) THEN "keyPut" ELSE "store")
  /\ UNCHANGED <<setup, built, origin, store, hash, spent, waiting, locking, reader, faults>>

KeyPut(i) ==
  /\ task[i].pc = "keyPut"
  /\ key' = Lcut(i)
  /\ Step(i, "store")
  /\ UNCHANGED <<setup, built, origin, store, hash, spent, waiting, locking, reader, faults>>

StoreCheck_insertsOnly(i) ==
  /\ task[i].pc = "store"
  /\ IF task[i].result = "unauthorized"
       THEN store' = None /\ Step(i, "record")
       ELSE UNCHANGED store /\ Step(i, IF store = None THEN "storePut" ELSE "record")
  /\ UNCHANGED <<setup, built, origin, key, hash, spent, waiting, locking, reader, faults>>

\* ConfigSpecStore::update or GetIdListStore::update up to the write.
StoreCheck(i) ==
  /\ task[i].pc = "store"
  /\ IF task[i].result = "unauthorized"
       THEN store' = None /\ Step(i, "record")
       ELSE UNCHANGED store /\ Step(i, IF Newer(task[i].version, store) THEN "storePut" ELSE "record")
  /\ UNCHANGED <<setup, built, origin, key, hash, spent, waiting, locking, reader, faults>>

StorePut(i) ==
  /\ task[i].pc = "storePut"
  /\ store' = task[i].version
  /\ Step(i, "record")
  /\ UNCHANGED <<setup, built, origin, key, hash, spent, waiting, locking, reader, faults>>

\* record_result and record_failure.
Record(i) ==
  /\ task[i].pc = "record"
  /\ waiting' = (task[i].result = "error")
  /\ task' = [task EXCEPT ![i] = [NoTask EXCEPT !.pc = "done"]]
  /\ UNCHANGED <<setup, built, origin, stores, spent, locking, reader, faults>>

----------------------------------------------------------------------------
(* The environment                                                         *)

Publish ==
  /\ current < MaxVersion
  /\ current' = current + 1
  /\ UNCHANGED <<setup, built, allowed, stores, spent, waiting, locking, reader, task, faults>>

Revoke ==
  /\ allowed /\ Fault("refuse")
  /\ allowed' = FALSE
  /\ UNCHANGED <<setup, built, current, stores, spent, waiting, locking, reader, task>>

Restore ==
  /\ ~allowed
  /\ allowed' = TRUE
  /\ UNCHANGED <<setup, built, current, stores, spent, waiting, locking, reader, task, faults>>

\* The delay of the last failure has passed, or prune_stale forgets the key.
BackoffOver ==
  /\ waiting
  /\ waiting' = FALSE
  /\ UNCHANGED <<setup, built, origin, stores, spent, locking, reader, task, faults>>

\* A minute since the last id-list request.  A request takes less.
SlotBack ==
  /\ spent /\ \A i \in Tasks : task[i].pc = "none"
  /\ spent' = FALSE
  /\ UNCHANGED <<setup, built, origin, stores, waiting, locking, reader, task, faults>>

----------------------------------------------------------------------------
ForegroundFetch(r) ==
  \/ Miss(r) \/ Enter(r) \/ Check(r) \/ Acquire(r) \/ Prepare(r) \/ Unmap(r) \/ Joined(r)

ProcessRequest(i) ==
  \/ Served(i) \/ Refused(i)
  \/ ReadBackup(i)
  \/ KeyCheck(i) \/ KeyPut(i) \/ StoreCheck(i) \/ StorePut(i)
  \/ Record(i)

Next ==
  \/ \E r \in Readers : ForegroundFetch(r) \/ BuildFails(r) \/ Drop(r)
  \/ \E i \in Tasks : ProcessRequest(i) \/ Failed(i) \/ GuardTimeout(i)
  \/ Poll \/ PollJoined \/ Evict
  \/ Publish \/ Revoke \/ Restore \/ BackoffOver \/ SlotBack

Spec == Init /\ [][Next]_vars

\* The runtime polls every task that is ready, timers fire, SDKs keep asking,
\* and the origin answers what it is asked.
FairSpec ==
  /\ Spec
  /\ \A r \in Readers : WF_vars(ForegroundFetch(r))
  /\ \A i \in Tasks : WF_vars(ProcessRequest(i))
  /\ WF_vars(Poll) /\ WF_vars(PollJoined) /\ WF_vars(Evict)
  /\ WF_vars(BackoffOver) /\ WF_vars(SlotBack)

----------------------------------------------------------------------------
(* Properties                                                              *)

\* No fetch is between the first and the last write of its observers.
Quiet == \A i \in Tasks : task[i].pc \in {"none", "sent", "backup", "record", "done"}

\* One reader misses at a time, or nothing happens that lets foreground_fetch end
\* without an attempt: then it removes a lock that others still wait for.
Excluded == \/ \A r, q \in setup.readers : r = q
            \/ UseLcut /\ setup.faults \cap {"error", "slow", "build"} = {}

\* Where the check and the write of an observer are never parted by those of
\* another fetch (OneNotifies).  They are where a second fetch runs that was sent
\* before the first was answered, or the runtime lets a notification wait.
Orderly == setup.prompt /\ Excluded

\* A registered context has a payload: readers of a registered key never fetch,
\* so a missing payload would be served as a refusal until the next version.
RegisteredIsStored == (setup.clear => Orderly) /\ Quiet /\ key # None => store # None

\* The version the poller asks from is not ahead of the payload that is served:
\* the origin answers "no update" to what it believes the proxy has.
PollFromStored == Orderly /\ Quiet /\ UseLcut /\ key # None => key <= store

\* The payload of a dcs context is never replaced by an older one, by whatever
\* fetches, edges and backups are under way.
NeverOlder ==
  [][Orderly /\ UseLcut /\ store # None /\ store' # None => store' >= store]_vars

\* If from some time on the origin accepts the key and publishes nothing more,
\* the store has its version for good.  A call that is dropped while it fetches
\* leaves a lock that says "fetched" and no eviction, so that a context that was
\* not yet registered is never fetched: situations with "drop" are left out.
Refreshed == "drop" \notin setup.faults /\ <>[]allowed => <>[](store = current)
=============================================================================
