------------------------ MODULE FetchPipeline_proofs ------------------------
(***************************************************************************)
(* Proofs about FetchPipeline, for every number of readers and versions    *)
(* and every mix of faults.                                                *)
(***************************************************************************)
EXTENDS FetchPipeline, TLAPS

ReaderRecord == [pc : ReaderStates, lock : Locks \cup {None}]
TaskRecord == [pc : TaskStates, since : 0..MaxVersion, result : Results,
               version : Versions \cup {None}, after : SUBSET Tasks]

\* What the observers are told of: a payload, or a refusal that clears.
Told(i) ==
  /\ Notifying(i) /\ task[i].result # "unauthorized" => task[i].version \in Versions
  /\ task[i].pc \in {"key", "keyPut"} => task[i].result \in {"data", "unauthorized"}
  /\ task[i].pc \in {"keyPut", "storePut"} => task[i].result # "unauthorized"
  /\ Notifying(i) /\ task[i].result = "unauthorized" => setup.clear
  /\ task[i].pc = "backup" => task[i].result = "error"

\* A reader awaits its own fetch, and holds a lock from the map on.
Await(r) ==
  /\ reader[r].pc = "fetching" <=> task[r].pc # "none"
  /\ reader[r].pc # "idle" => r \in setup.readers
  /\ reader[r].pc \in {"check", "wait", "prepare", "fetching"} => reader[r].lock \in Locks

Typed ==
  /\ TypeOK
  /\ \A i \in Tasks : Told(i)
  /\ \A r \in Readers : Await(r)

LEMMA Numbers ==
    /\ Poller \notin Readers /\ Poller \in Tasks /\ Readers \subseteq Tasks
    /\ MaxVersion \in Nat /\ 1 \in Versions /\ 0 \in 0..MaxVersion
    /\ \A v \in Versions : v \in 0..MaxVersion /\ v \in Nat /\ v # None
    /\ None \notin Locks /\ None \notin 0..MaxVersion
    /\ MaxEvictions \in Nat /\ MaxEvictions >= 1
    /\ \A s \in Setups : s.readers \subseteq Readers /\ s.budget \in Nat
  BY PipelineAssumption DEF Tasks, Versions, Locks, None

LEMMA Empty == Idle \in ReaderRecord /\ NoTask \in TaskRecord
  BY Numbers, Zenon DEF Idle, ReaderRecord, ReaderStates, NoTask, TaskRecord, TaskStates, Results

LEMMA Shapes ==
    ASSUME TypeOK
    PROVE  /\ reader \in [Readers -> ReaderRecord] /\ task \in [Tasks -> TaskRecord]
           /\ \A r \in Readers : reader[r] \in ReaderRecord
           /\ \A i \in Tasks : task[i] \in TaskRecord
  BY Zenon DEF TypeOK, ReaderRecord, TaskRecord

-----------------------------------------------------------------------------
(* What the steps do to the fields of a reader and of a fetch *)

LEMMA GotoFields ==
    ASSUME TypeOK, NEW r \in Readers, NEW pc \in ReaderStates, Goto(r, pc)
    PROVE  /\ reader' \in [Readers -> ReaderRecord]
           /\ reader'[r].pc = pc /\ reader'[r].lock = reader[r].lock
           /\ \A q \in Readers \ {r} : reader'[q] = reader[q]
<1>1. reader[r] \in ReaderRecord /\ reader \in [Readers -> ReaderRecord]
  BY Shapes, Zenon
<1>2. reader' = [reader EXCEPT ![r] = [reader[r] EXCEPT !.pc = pc]]
  BY Zenon DEF Goto
<1>3. /\ [reader[r] EXCEPT !.pc = pc] \in ReaderRecord
      /\ [reader[r] EXCEPT !.pc = pc].pc = pc
      /\ [reader[r] EXCEPT !.pc = pc].lock = reader[r].lock
  BY <1>1, Zenon DEF ReaderRecord
<1> QED
  BY <1>1, <1>2, <1>3, Zenon

LEMMA LeaveFields ==
    ASSUME TypeOK, NEW r \in Readers, Leave(r)
    PROVE  /\ reader' \in [Readers -> ReaderRecord]
           /\ reader'[r].pc = "idle" /\ reader'[r].lock = None
           /\ \A q \in Readers \ {r} : reader'[q] = reader[q]
<1>1. reader \in [Readers -> ReaderRecord] /\ reader' = [reader EXCEPT ![r] = Idle]
  BY Shapes, Zenon DEF Leave
<1>2. reader'[r] = Idle
  BY <1>1, Zenon
<1> QED
  BY <1>1, <1>2, Empty, Zenon DEF Idle

LEMMA EnterFields ==
    ASSUME TypeOK, NEW r \in Readers, Enter(r)
    PROVE  /\ reader' \in [Readers -> ReaderRecord]
           /\ reader'[r].pc = "check" /\ reader'[r].lock \in Locks /\ map' = reader'[r].lock
           /\ \A q \in Readers \ {r} : reader'[q] = reader[q]
           /\ map # None => map' = map /\ fetched' = fetched
           /\ map = None => /\ fetched' = fetched \ {map'}
                            /\ \A q \in Readers : reader[q].lock # map'
<1>1. PICK l \in Locks :
        /\ IF map = None THEN ~Referenced(l) ELSE l = map
        /\ map' = l
        /\ fetched' = IF map = None THEN fetched \ {l} ELSE fetched
        /\ reader' = [reader EXCEPT ![r] = [pc |-> "check", lock |-> l]]
  BY Zenon DEF Enter
<1>2. [pc |-> "check", lock |-> l] \in ReaderRecord
  BY Zenon DEF ReaderRecord, ReaderStates
<1>3. /\ reader \in [Readers -> ReaderRecord] /\ reader'[r] = [pc |-> "check", lock |-> l]
      /\ \A q \in Readers \ {r} : reader'[q] = reader[q]
  BY <1>1, Shapes, Zenon
<1>4. reader' \in [Readers -> ReaderRecord]
  BY <1>1, <1>2, <1>3, Zenon
<1> QED
  BY <1>1, <1>3, <1>4, Zenon DEF Referenced

\* The fetch of i is replaced as a whole.
LEMMA PutFields ==
    ASSUME TypeOK, NEW i \in Tasks, NEW rec \in TaskRecord, task' = [task EXCEPT ![i] = rec]
    PROVE  /\ task' \in [Tasks -> TaskRecord] /\ task'[i] = rec
           /\ \A j \in Tasks \ {i} : task'[j] = task[j]
  BY Shapes, Zenon

LEMMA LaunchFields ==
    ASSUME TypeOK, NEW i \in Tasks, NEW since \in 0..MaxVersion, Launch(i, since)
    PROVE  /\ task' \in [Tasks -> TaskRecord]
           /\ task'[i].pc = "sent" /\ task'[i].after = {j \in Tasks : Notifying(j)}
           /\ task'[i].result = "nodata"
           /\ \A j \in Tasks \ {i} : task'[j] = task[j]
<1> DEFINE earlier == {j \in Tasks : Notifying(j)}
           rec == [NoTask EXCEPT !.pc = "sent", !.since = since, !.after = earlier]
<1>1. earlier \in SUBSET Tasks
  BY Zenon
<1> HIDE DEF earlier
<1>2. rec \in TaskRecord /\ rec.pc = "sent" /\ rec.after = earlier /\ rec.result = "nodata"
  BY <1>1, Zenon DEF NoTask, TaskRecord, TaskStates, Results
<1>3. task' = [task EXCEPT ![i] = rec]
  BY Zenon DEF Launch, earlier
<1> HIDE DEF rec
<1> QED
  BY <1>2, <1>3, PutFields, Zenon DEF earlier

LEMMA AnswerFields ==
    ASSUME TypeOK, NEW i \in Tasks, NEW result \in Results, NEW version \in Versions \cup {None},
           Answer(i, result, version)
    PROVE  /\ task' \in [Tasks -> TaskRecord]
           /\ task'[i].pc = After(i, result, version) /\ task'[i].result = result
           /\ task'[i].version = version
           /\ task'[i].pc \in {"key", "backup", "record"}
           /\ \A j \in Tasks \ {i} : task'[j] = task[j]
<1> DEFINE pc == After(i, result, version)
           rec == [NoTask EXCEPT !.pc = pc, !.result = result, !.version = version]
<1>1. pc \in {"key", "backup", "record"}
  BY Zenon DEF After
<1>2. task' = [task EXCEPT ![i] = rec]
  BY Zenon DEF Answer
<1> HIDE DEF pc
<1>3. /\ rec \in TaskRecord /\ rec.pc = pc /\ rec.result = result /\ rec.version = version
  BY <1>1, Numbers, Zenon DEF NoTask, TaskRecord, TaskStates
<1> HIDE DEF rec
<1> QED
  BY <1>1, <1>2, <1>3, PutFields, Zenon DEF pc

LEMMA StepFields ==
    ASSUME TypeOK, NEW i \in Tasks, NEW pc \in TaskStates, Step(i, pc)
    PROVE  /\ task' \in [Tasks -> TaskRecord]
           /\ task'[i].pc = pc /\ task'[i].result = task[i].result
           /\ task'[i].version = task[i].version
           /\ \A j \in Tasks \ {i} : task'[j] = task[j]
<1>1. task[i] \in TaskRecord
  BY Shapes, Zenon
<1> DEFINE rec == [task[i] EXCEPT !.pc = pc]
<1>2. rec \in TaskRecord /\ rec.pc = pc /\ rec.result = task[i].result /\ rec.version = task[i].version
  BY <1>1, Zenon DEF TaskRecord
<1>3. task' = [task EXCEPT ![i] = rec]
  BY Zenon DEF Step
<1> HIDE DEF rec
<1> QED
  BY <1>2, <1>3, PutFields, Zenon

LEMMA BackupFields ==
    ASSUME TypeOK, NEW i \in Tasks, ReadBackup(i)
    PROVE  /\ task' \in [Tasks -> TaskRecord]
           /\ task'[i].pc \in {"record", "store"} /\ task'[i].result = task[i].result
           /\ task'[i].pc = "store" => task'[i].version \in Versions
           /\ \A j \in Tasks \ {i} : task'[j] = task[j]
<1>1. PICK b \in Versions \cup {None} :
        task' = [task EXCEPT ![i].pc = IF b = None THEN "record" ELSE "store", ![i].version = b]
  BY Zenon DEF ReadBackup
<1>2. task[i] \in TaskRecord
  BY Shapes, Zenon
<1> DEFINE pc == IF b = None THEN "record" ELSE "store"
           rec == [task[i] EXCEPT !.pc = pc, !.version = b]
<1>3. pc \in {"record", "store"} /\ (pc = "store" => b \in Versions)
  BY Zenon
<1>4. task' = [task EXCEPT ![i] = rec]
  BY <1>1, Zenon
<1> HIDE DEF pc
<1>5. rec \in TaskRecord /\ rec.pc = pc /\ rec.result = task[i].result /\ rec.version = b
  BY <1>2, <1>3, Zenon DEF TaskRecord, TaskStates
<1> HIDE DEF rec
<1> QED
  BY <1>3, <1>4, <1>5, PutFields, Zenon

\* A step of a fetch: the states it moves between, and what it leaves alone.
LEMMA FetchMove ==
    ASSUME Typed, NEW i \in Tasks, ProcessRequest(i) \/ Failed(i) \/ GuardTimeout(i)
    PROVE  /\ task' \in [Tasks -> TaskRecord] /\ \A j \in Tasks \ {i} : task'[j] = task[j]
           /\ setup' = setup /\ reader' = reader
           /\ map' = map /\ fetched' = fetched /\ evictions' = evictions
           /\ \/ /\ task[i].pc = "sent" /\ task'[i].pc \in {"key", "backup", "record"} /\ Arrived(i)
                 /\ key' = key /\ store' = store
              \/ /\ task[i].pc \in {"sent", "backup"} /\ task'[i].pc = "record"
                 /\ key' = key /\ store' = store
              \/ /\ task[i].pc = "backup" /\ task'[i].pc \in {"record", "store"}
                 /\ task'[i].result = "error" /\ key' = key /\ store' = store
              \/ KeyCheck(i) /\ task'[i].pc \in {"keyPut", "store"}
              \/ KeyPut(i) /\ task'[i].pc = "store"
              \/ StoreCheck(i) /\ task'[i].pc \in {"storePut", "record"}
              \/ StorePut(i) /\ task'[i].pc = "record"
              \/ /\ task[i].pc = "record" /\ task'[i].pc = "done"
                 /\ key' = key /\ store' = store
           /\ Told(i)'
<1> USE DEF Notifying, origin, stores, locking
<1>0. TypeOK /\ Told(i) /\ None \in Versions \cup {None}
  BY Zenon DEF Typed
<1>a. ASSUME NEW result \in Results, NEW version \in Versions \cup {None},
             Answer(i, result, version), result = "data" => version \in Versions, setup' = setup
      PROVE  /\ task' \in [Tasks -> TaskRecord] /\ \A j \in Tasks \ {i} : task'[j] = task[j]
             /\ task'[i].pc \in {"key", "backup", "record"}
             /\ Told(i)'
  <2>1. /\ task' \in [Tasks -> TaskRecord] /\ \A j \in Tasks \ {i} : task'[j] = task[j]
        /\ task'[i].pc \in {"key", "backup", "record"}
        /\ task'[i].pc = After(i, result, version)
        /\ task'[i].result = result /\ task'[i].version = version
    BY <1>0, <1>a, AnswerFields, Zenon
  <2>2. /\ task'[i].pc = "key" => result = "data" \/ (result = "unauthorized" /\ setup.clear)
        /\ task'[i].pc = "backup" => result = "error"
    BY <2>1, Zenon DEF After
  <2> QED
    BY <1>a, <2>1, <2>2, Zenon DEF Told
<1>s. ASSUME NEW pc \in TaskStates, Step(i, pc)
      PROVE  /\ task' \in [Tasks -> TaskRecord] /\ \A j \in Tasks \ {i} : task'[j] = task[j]
             /\ task'[i].pc = pc /\ task'[i].result = task[i].result
             /\ task'[i].version = task[i].version
  BY <1>0, <1>s, StepFields, Zenon
<1>1. CASE Served(i)
  <2>1. PICK v \in Versions : \/ Answer(i, IF IsAnUpdate(i, v) THEN "data" ELSE "nodata", v)
                             \/ Answer(i, "nodata", v)
    BY <1>1, Zenon DEF Served
  <2>2. \E result \in {"data", "nodata"} : Answer(i, result, v)
    BY <2>1, Zenon
  <2>3. PICK result \in {"data", "nodata"} : Answer(i, result, v)
    BY <2>2, Zenon
  <2>4. result \in Results /\ setup' = setup
    BY <1>1, Zenon DEF Results, Served
  <2>5. /\ task' \in [Tasks -> TaskRecord] /\ \A j \in Tasks \ {i} : task'[j] = task[j]
        /\ task'[i].pc \in {"key", "backup", "record"} /\ Told(i)'
    BY <1>a, <2>3, <2>4, Zenon
  <2> QED
    BY <1>1, <2>5, Zenon DEF Served
<1>2. CASE Refused(i)
  <2>1. "unauthorized" \in Results /\ setup' = setup /\ Answer(i, "unauthorized", None)
    BY <1>2, Zenon DEF Results, Refused
  <2>2. /\ task' \in [Tasks -> TaskRecord] /\ \A j \in Tasks \ {i} : task'[j] = task[j]
        /\ task'[i].pc \in {"key", "backup", "record"} /\ Told(i)'
    BY <1>0, <1>a, <2>1, Zenon
  <2> QED
    BY <1>2, <2>2, Zenon DEF Refused
<1>3. CASE Failed(i)
  <2>1. PICK result \in {"error", "client"} : Answer(i, result, None)
    BY <1>3, Zenon DEF Failed
  <2>2. result \in Results /\ setup' = setup /\ result # "data"
    BY <1>3, Zenon DEF Results, Failed
  <2>3. /\ task' \in [Tasks -> TaskRecord] /\ \A j \in Tasks \ {i} : task'[j] = task[j]
        /\ task'[i].pc \in {"key", "backup", "record"} /\ Told(i)'
    BY <1>0, <1>a, <2>1, <2>2, Zenon
  <2> QED
    BY <1>3, <2>3, Zenon DEF Failed
<1>4. CASE GuardTimeout(i)
  <2> DEFINE rec == [NoTask EXCEPT !.pc = "record", !.result = "error"]
  <2>1. rec \in TaskRecord /\ rec.pc = "record"
    BY Numbers, Zenon DEF NoTask, TaskRecord, TaskStates, Results
  <2>2. task' = [task EXCEPT ![i] = rec]
    BY <1>4, Zenon DEF GuardTimeout
  <2> HIDE DEF rec
  <2>3. /\ task' \in [Tasks -> TaskRecord] /\ \A j \in Tasks \ {i} : task'[j] = task[j]
        /\ task'[i].pc = "record"
    BY <1>0, <2>1, <2>2, PutFields, Zenon
  <2> QED
    BY <1>4, <2>3, Zenon DEF GuardTimeout, Told
<1>5. CASE ReadBackup(i)
  <2>1. /\ task' \in [Tasks -> TaskRecord] /\ \A j \in Tasks \ {i} : task'[j] = task[j]
        /\ task'[i].pc \in {"record", "store"} /\ task'[i].result = task[i].result
        /\ task'[i].pc = "store" => task'[i].version \in Versions
    BY <1>0, <1>5, BackupFields, Zenon
  <2> QED
    BY <1>0, <1>5, <2>1, Zenon DEF ReadBackup, Told
<1>6. CASE KeyCheck(i)
  <2>1. PICK pc \in {"keyPut", "store"} :
          Step(i, pc) /\ (pc = "keyPut" => task[i].result # "unauthorized")
    BY <1>6, Zenon DEF KeyCheck
  <2>2. pc \in TaskStates
    BY Zenon DEF TaskStates
  <2>3. /\ task' \in [Tasks -> TaskRecord] /\ \A j \in Tasks \ {i} : task'[j] = task[j]
        /\ task'[i].pc = pc /\ task'[i].result = task[i].result
        /\ task'[i].version = task[i].version
    BY <1>s, <2>1, <2>2, Zenon
  <2>4. Told(i)'
    BY <1>0, <1>6, <2>1, <2>3, Zenon DEF KeyCheck, Told
  <2> QED
    BY <1>6, <2>3, <2>4, Zenon DEF KeyCheck
<1>7. CASE KeyPut(i)
  <2>1. "store" \in TaskStates /\ Step(i, "store")
    BY <1>7, Zenon DEF TaskStates, KeyPut
  <2>2. /\ task' \in [Tasks -> TaskRecord] /\ \A j \in Tasks \ {i} : task'[j] = task[j]
        /\ task'[i].pc = "store" /\ task'[i].result = task[i].result
        /\ task'[i].version = task[i].version
    BY <1>s, <2>1, Zenon
  <2>3. Told(i)'
    BY <1>0, <1>7, <2>2, Zenon DEF KeyPut, Told
  <2> QED
    BY <1>7, <2>2, <2>3, Zenon DEF KeyPut
<1>8. CASE StoreCheck(i)
  <2>1. PICK pc \in {"storePut", "record"} :
          Step(i, pc) /\ (pc = "storePut" => task[i].result # "unauthorized")
    BY <1>8, Zenon DEF StoreCheck
  <2>2. pc \in TaskStates
    BY Zenon DEF TaskStates
  <2>3. /\ task' \in [Tasks -> TaskRecord] /\ \A j \in Tasks \ {i} : task'[j] = task[j]
        /\ task'[i].pc = pc /\ task'[i].result = task[i].result
        /\ task'[i].version = task[i].version
    BY <1>s, <2>1, <2>2, Zenon
  <2>4. Told(i)'
    BY <1>0, <1>8, <2>1, <2>3, Zenon DEF StoreCheck, Told
  <2> QED
    BY <1>8, <2>3, <2>4, Zenon DEF StoreCheck
<1>9. CASE StorePut(i)
  <2>1. "record" \in TaskStates /\ Step(i, "record")
    BY <1>9, Zenon DEF TaskStates, StorePut
  <2>2. /\ task' \in [Tasks -> TaskRecord] /\ \A j \in Tasks \ {i} : task'[j] = task[j]
        /\ task'[i].pc = "record"
    BY <1>s, <2>1, Zenon
  <2> QED
    BY <1>9, <2>2, Zenon DEF StorePut, Told
<1>10. CASE Record(i)
  <2> DEFINE rec == [NoTask EXCEPT !.pc = "done"]
  <2>1. rec \in TaskRecord /\ rec.pc = "done"
    BY Numbers, Zenon DEF NoTask, TaskRecord, TaskStates, Results
  <2>2. task' = [task EXCEPT ![i] = rec]
    BY <1>10, Zenon DEF Record
  <2> HIDE DEF rec
  <2>3. /\ task' \in [Tasks -> TaskRecord] /\ \A j \in Tasks \ {i} : task'[j] = task[j]
        /\ task'[i].pc = "done"
    BY <1>0, <2>1, <2>2, PutFields, Zenon
  <2> QED
    BY <1>10, <2>3, Zenon DEF Record, Told
<1> QED
  BY <1>1, <1>2, <1>3, <1>4, <1>5, <1>6, <1>7, <1>8, <1>9, <1>10, Zenon DEF ProcessRequest

LEMMA FetchTyped ==
    ASSUME Typed, NEW i \in Tasks, ProcessRequest(i) \/ Failed(i) \/ GuardTimeout(i)
    PROVE  Typed'
<1> USE DEF origin, stores, locking
<1>0. TypeOK /\ Told(i)
  BY Zenon DEF Typed
<1>1. /\ task' \in [Tasks -> TaskRecord] /\ \A j \in Tasks \ {i} : task'[j] = task[j]
      /\ setup' = setup /\ reader' = reader /\ Told(i)'
      /\ map' = map /\ fetched' = fetched /\ evictions' = evictions
      /\ task[i].pc # "none" /\ task'[i].pc # "none"
  BY FetchMove, Zenon DEF KeyCheck, KeyPut, StoreCheck, StorePut
<1>2. faults' \in 0..setup.budget
  <2>1. setup.budget \in Nat /\ faults \in 0..setup.budget
    BY <1>0, Numbers, Zenon DEF TypeOK
  <2>2. \/ faults' = faults
        \/ faults > 0 /\ faults' = faults - 1
    BY Zenon DEF ProcessRequest, Served, EdgeVersion, Refused, ReadBackup, KeyCheck, KeyPut, StoreCheck,
           StorePut, Record, Failed, GuardTimeout, Fault
  <2> QED
    BY <2>1, <2>2
<1>3. /\ key' \in 0..MaxVersion \cup {None}
      /\ store' \in Versions \cup {None}
  <2>1. CASE KeyCheck(i)
    BY <1>0, <2>1, Zenon DEF KeyCheck, TypeOK
  <2>2. CASE KeyPut(i)
    BY <1>0, <2>2, Numbers, Zenon DEF KeyPut, TypeOK, Told, Notifying, Lcut
  <2>3. CASE StoreCheck(i)
    BY <1>0, <2>3, Zenon DEF StoreCheck, TypeOK
  <2>4. CASE StorePut(i)
    BY <1>0, <2>4, Zenon DEF StorePut, TypeOK, Told, Notifying
  <2> QED
    BY <1>0, <2>1, <2>2, <2>3, <2>4, FetchMove, Zenon DEF TypeOK
<1>4. hash' \in Versions \cup {None}
  <2>1. \/ hash' = hash
        \/ hash' = None
        \/ \E v \in Versions : hash' = IF UseLcut THEN hash ELSE v
    BY Zenon DEF ProcessRequest, Served, Refused, ReadBackup, KeyCheck, KeyPut, StoreCheck,
           StorePut, Record, Failed, GuardTimeout
  <2> QED
    BY <1>0, <2>1, Zenon DEF TypeOK
<1>5. /\ built' = built /\ current' = current /\ allowed' = allowed /\ spent' = spent
      /\ waiting' \in BOOLEAN
  BY <1>0, Zenon DEF ProcessRequest, Served, Refused, ReadBackup, KeyCheck, KeyPut, StoreCheck,
         StorePut, Record, Failed, GuardTimeout, TypeOK
<1>6. TypeOK'
  BY <1>0, <1>1, <1>2, <1>3, <1>4, <1>5, Zenon DEF TypeOK, TaskRecord
<1>7. \A j \in Tasks : Told(j)'
  <2> SUFFICES ASSUME NEW j \in Tasks, j # i PROVE Told(j)'
    BY <1>1, Zenon
  <2> QED
    BY <1>1, Zenon DEF Typed, Told, Notifying
<1>8. \A r \in Readers : Await(r)'
  <2> SUFFICES ASSUME NEW r \in Readers PROVE Await(r)'
    BY Zenon
  <2>1. r \in Tasks /\ Await(r)
    BY Numbers, Zenon DEF Typed
  <2>2. task'[r].pc # "none" <=> task[r].pc # "none"
    BY <1>1, <2>1, Zenon
  <2> QED
    BY <1>1, <2>1, <2>2, Zenon DEF Await
<1> QED
  BY <1>6, <1>7, <1>8, Zenon DEF Typed

-----------------------------------------------------------------------------
(* What the steps of a reader do *)

Steady == setup' = setup /\ key' = key /\ store' = store /\ waiting' = waiting

\* Only r's own state changes, and not its lock.
Turns(r, pc) ==
  /\ reader' \in [Readers -> ReaderRecord]
  /\ reader'[r].pc = pc /\ reader'[r].lock = reader[r].lock
  /\ \A q \in Readers \ {r} : reader'[q] = reader[q]

Leaves(r) ==
  /\ reader' \in [Readers -> ReaderRecord]
  /\ reader'[r].pc = "idle" /\ reader'[r].lock = None
  /\ \A q \in Readers \ {r} : reader'[q] = reader[q]

LEMMA Turning ==
    ASSUME TypeOK, NEW r \in Readers
    PROVE  /\ \A pc \in ReaderStates : Goto(r, pc) => Turns(r, pc)
           /\ Leave(r) => Leaves(r)
  BY GotoFields, LeaveFields, Zenon DEF Turns, Leaves

LEMMA MissFields ==
    ASSUME Typed, NEW r \in Readers, Miss(r)
    PROVE  /\ Steady /\ UNCHANGED <<task, map, fetched, evictions>>
           /\ reader[r].pc = "idle" /\ key = None /\ r \in setup.readers
           /\ Turns(r, "miss")
<1>1. "miss" \in ReaderStates /\ Goto(r, "miss") /\ TypeOK
  BY Zenon DEF ReaderStates, Miss, Typed
<1>2. Turns(r, "miss")
  BY <1>1, Turning, Zenon
<1> QED
  BY <1>2, Zenon DEF Miss, Steady, stores, locking

LEMMA CheckFields ==
    ASSUME Typed, NEW r \in Readers, Check(r)
    PROVE  /\ Steady /\ UNCHANGED <<task, map, fetched, evictions>>
           /\ reader[r].pc = "check"
           /\ Leaves(r) \/ Turns(r, "wait")
<1>1. "wait" \in ReaderStates /\ (Goto(r, "wait") \/ Leave(r)) /\ TypeOK
  BY Zenon DEF ReaderStates, Check, Typed
<1>2. Leaves(r) \/ Turns(r, "wait")
  BY <1>1, Turning, Zenon
<1> QED
  BY <1>2, Zenon DEF Check, Steady, stores, locking

LEMMA AcquireFields ==
    ASSUME Typed, NEW r \in Readers, Acquire(r)
    PROVE  /\ Steady /\ UNCHANGED <<task, map, evictions>>
           /\ reader[r].pc = "wait"
           /\ \/ Leaves(r) /\ fetched' = fetched
              \/ /\ reader[r].lock \notin fetched /\ fetched' = fetched \cup {reader[r].lock}
                 /\ Turns(r, "prepare")
<1>1. "prepare" \in ReaderStates /\ TypeOK
  BY Zenon DEF ReaderStates, Typed
<1>2. \/ Leaves(r) /\ fetched' = fetched
      \/ /\ reader[r].lock \notin fetched /\ fetched' = fetched \cup {reader[r].lock}
         /\ Turns(r, "prepare")
  BY <1>1, Turning, Zenon DEF Acquire
<1> QED
  BY <1>2, Zenon DEF Acquire, Steady, stores

\* The fetch starts, or the lock is given up without one.
LEMMA PrepareFields ==
    ASSUME Typed, NEW r \in Readers, Prepare(r) \/ BuildFails(r)
    PROVE  /\ Steady /\ UNCHANGED <<map, evictions>>
           /\ reader[r].pc = "prepare"
           /\ \/ /\ Turns(r, "fetching") /\ fetched' = fetched
                 /\ task' \in [Tasks -> TaskRecord]
                 /\ task'[r].pc = "sent" /\ task'[r].after = {j \in Tasks : Notifying(j)}
                 /\ task'[r].result = "nodata"
                 /\ \A j \in Tasks \ {r} : task'[j] = task[j]
              \/ /\ Turns(r, "unmap") /\ task' = task
                 /\ fetched' = fetched \ {reader[r].lock}
                 /\ ~MayLaunch \/ "build" \in setup.faults
<1> USE DEF stores
<1>1. "fetching" \in ReaderStates /\ "unmap" \in ReaderStates /\ TypeOK
  BY Zenon DEF ReaderStates, Typed
<1>2. r \in Tasks /\ 0 \in 0..MaxVersion
  BY Numbers, Zenon
<1>3. CASE Prepare(r)
  <2>1. CASE Launch(r, 0) /\ Goto(r, "fetching") /\ UNCHANGED fetched
    <3>1. Turns(r, "fetching")
      BY <1>1, <2>1, Turning, Zenon
    <3>2. /\ task' \in [Tasks -> TaskRecord]
          /\ task'[r].pc = "sent" /\ task'[r].after = {j \in Tasks : Notifying(j)}
          /\ task'[r].result = "nodata"
          /\ \A j \in Tasks \ {r} : task'[j] = task[j]
      BY <1>1, <1>2, <2>1, LaunchFields, Zenon
    <3> QED
      BY <1>3, <2>1, <3>1, <3>2, Zenon DEF Prepare, Steady
  <2>2. CASE /\ ~MayLaunch /\ fetched' = fetched \ {reader[r].lock}
             /\ Goto(r, "unmap") /\ UNCHANGED task
    <3>1. Turns(r, "unmap")
      BY <1>1, <2>2, Turning, Zenon
    <3> QED
      BY <1>3, <2>2, <3>1, Zenon DEF Prepare, Steady
  <2> QED
    BY <1>3, <2>1, <2>2, Zenon DEF Prepare
<1>4. CASE BuildFails(r)
  <2>1. Turns(r, "unmap")
    BY <1>1, <1>4, Turning, Zenon DEF BuildFails
  <2> QED
    BY <1>4, <2>1, Zenon DEF BuildFails, Fault, Steady
<1> QED
  BY <1>3, <1>4, Zenon

LEMMA UnmapFields ==
    ASSUME Typed, NEW r \in Readers, Unmap(r)
    PROVE  /\ Steady /\ UNCHANGED <<task, fetched, evictions>> /\ map' = None
           /\ reader[r].pc = "unmap" /\ Leaves(r)
<1>1. Leaves(r)
  BY Turning, Zenon DEF Unmap, Typed
<1> QED
  BY <1>1, Zenon DEF Unmap, Steady, stores

\* The fetch of r is gone.
Cleared(r) ==
  /\ task' \in [Tasks -> TaskRecord] /\ task'[r] = NoTask
  /\ \A j \in Tasks \ {r} : task'[j] = task[j]

LEMMA Clearing ==
    ASSUME Typed, NEW i \in Tasks, task' = [task EXCEPT ![i] = NoTask]
    PROVE  Cleared(i)
  BY PutFields, Empty, Zenon DEF Cleared, Typed

LEMMA JoinedFields ==
    ASSUME Typed, NEW r \in Readers, Joined(r)
    PROVE  /\ Steady /\ UNCHANGED <<map, fetched>>
           /\ evictions' = (IF evictions < MaxEvictions THEN evictions + 1 ELSE evictions)
           /\ reader[r].pc = "fetching" /\ task[r].pc = "done" /\ Cleared(r)
           /\ reader' \in [Readers -> ReaderRecord]
           /\ reader'[r].pc = "idle"
           /\ \A q \in Readers \ {r} :
                /\ reader'[q].lock = reader[q].lock
                /\ reader'[q].pc = (IF reader[q].pc = "miss" THEN "late" ELSE reader[q].pc)
<1> DEFINE Next1(q) == IF q = r THEN Idle
                       ELSE IF reader[q].pc = "miss" THEN [reader[q] EXCEPT !.pc = "late"]
                       ELSE reader[q]
<1>1. reader' = [q \in Readers |-> Next1(q)] /\ Next1(r) = Idle /\ Idle.pc = "idle"
  BY Zenon DEF Joined, Idle
<1>2. ASSUME NEW q \in Readers, q # r
      PROVE  /\ Next1(q) \in ReaderRecord
             /\ Next1(q).lock = reader[q].lock
             /\ Next1(q).pc = (IF reader[q].pc = "miss" THEN "late" ELSE reader[q].pc)
  <2>1. reader[q] \in ReaderRecord
    BY Shapes, Zenon DEF Typed
  <2> QED
    BY <1>2, <2>1, Zenon DEF ReaderRecord, ReaderStates
<1> HIDE DEF Next1
<1>3. Cleared(r)
  BY Clearing, Numbers, Zenon DEF Joined
<1> QED
  BY <1>1, <1>2, <1>3, Empty, Zenon DEF Joined, Steady, stores

LEMMA DropFields ==
    ASSUME Typed, NEW r \in Readers, Drop(r)
    PROVE  /\ Steady /\ UNCHANGED <<map, fetched, evictions>>
           /\ \/ reader[r].pc \in {"check", "wait"}
              \/ reader[r].pc = "fetching" /\ task[r].pc \in {"sent", "backup", "done"}
           /\ Cleared(r) /\ Leaves(r)
<1>1. Cleared(r) /\ Leaves(r)
  BY Clearing, Turning, Numbers, Zenon DEF Drop, Typed
<1> QED
  BY <1>1, Zenon DEF Drop, Steady, stores, locking

\* The poller starts a fetch of what is registered, or lets the pass go by.
LEMMA PollFields ==
    ASSUME Typed, Poll
    PROVE  /\ Steady /\ UNCHANGED <<reader, map, fetched, evictions>>
           /\ task[Poller].pc = "none" /\ key # None
           /\ \/ task' = task
              \/ /\ task' \in [Tasks -> TaskRecord]
                 /\ task'[Poller].pc = "sent" /\ task'[Poller].after = {j \in Tasks : Notifying(j)}
                 /\ task'[Poller].result = "nodata"
                 /\ \A j \in Tasks \ {Poller} : task'[j] = task[j]
<1>1. TypeOK /\ Poller \in Tasks /\ key \in 0..MaxVersion
  BY Numbers, Zenon DEF Typed, TypeOK, Poll
<1>2. CASE Launch(Poller, key)
  BY <1>1, <1>2, LaunchFields, Zenon DEF Poll, Steady, stores, locking
<1>3. CASE task' = task
  BY <1>3, Zenon DEF Poll, Steady, stores, locking
<1> QED
  BY <1>2, <1>3, Zenon DEF Poll

LEMMA PollJoinedFields ==
    ASSUME Typed, PollJoined
    PROVE  /\ Steady /\ UNCHANGED <<reader, map, fetched, evictions>>
           /\ task[Poller].pc = "done" /\ Cleared(Poller)
  BY Clearing, Numbers, Zenon DEF PollJoined, Steady, stores, locking

\* What is left of the shape of a reader and its fetch by a step of r.
LEMMA ReaderShape ==
    ASSUME Typed, NEW r \in Readers, setup' = setup,
           \A q \in Readers \ {r} : /\ task'[q] = task[q] /\ reader'[q].lock = reader[q].lock
                                    /\ \/ reader'[q].pc = reader[q].pc
                                       \/ reader[q].pc = "miss" /\ reader'[q].pc = "late",
           Await(r)'
    PROVE  \A q \in Readers : Await(q)'
<1> SUFFICES ASSUME NEW q \in Readers, q # r PROVE Await(q)'
  BY Zenon
<1>1. Await(q)
  BY Zenon DEF Typed
<1> QED
  BY <1>1, Zenon DEF Await

LEMMA TaskShape ==
    ASSUME Typed, NEW i \in Tasks, setup' = setup, \A j \in Tasks \ {i} : task'[j] = task[j],
           task'[i].pc \in {"none", "sent"}
    PROVE  \A j \in Tasks : Told(j)'
<1> SUFFICES ASSUME NEW j \in Tasks PROVE Told(j)'
  BY Zenon
<1>1. Told(j)
  BY Zenon DEF Typed
<1>2. CASE j = i
  BY <1>2, Zenon DEF Told, Notifying
<1>3. CASE j # i
  BY <1>1, <1>3, Zenon DEF Told, Notifying
<1> QED
  BY <1>2, <1>3, Zenon

LEMMA ReaderTyped ==
    ASSUME Typed, NEW r \in Readers, ForegroundFetch(r) \/ BuildFails(r) \/ Drop(r)
    PROVE  Typed'
<1>0. TypeOK /\ Await(r) /\ r \in Tasks /\ (\A q \in Readers : q \in Tasks) /\ reader[r] \in ReaderRecord
      /\ task \in [Tasks -> TaskRecord] /\ \A j \in Tasks : Told(j)
  BY Numbers, Shapes, Zenon DEF Typed
<1>t. NoTask.pc = "none"
  BY Zenon DEF NoTask
<1>f. faults' \in 0..setup.budget
  <2>1. setup.budget \in Nat /\ faults \in 0..setup.budget
    BY <1>0, Numbers, Zenon DEF TypeOK
  <2>2. \/ faults' = faults
        \/ faults > 0 /\ faults' = faults - 1
    BY Zenon DEF ForegroundFetch, Miss, Enter, Check, Acquire, Prepare, Unmap, Joined, BuildFails, Drop, Fault
  <2> QED
    BY <2>1, <2>2
<1>g. /\ built' \in BOOLEAN /\ spent' \in BOOLEAN
      /\ current' = current /\ allowed' = allowed /\ hash' = hash
  BY <1>0, Zenon DEF ForegroundFetch, Miss, Enter, Check, Acquire, Prepare, Unmap, Joined, BuildFails,
     Drop, GetOrBuild, TakeSlot, TypeOK, origin, stores
<1>h. ASSUME Steady, reader' \in [Readers -> ReaderRecord], task' \in [Tasks -> TaskRecord],
             map' \in Locks \cup {None}, fetched' \subseteq Locks, evictions' \in 0..MaxEvictions
      PROVE  TypeOK'
  BY <1>0, <1>f, <1>g, <1>h, Zenon DEF TypeOK, Steady, ReaderRecord, TaskRecord
<1>k. /\ map \in Locks \cup {None} /\ fetched \subseteq Locks /\ evictions \in 0..MaxEvictions
      /\ MaxEvictions \in Nat
  BY <1>0, Numbers, Zenon DEF TypeOK
<1>1. CASE Miss(r)
  <2>1. TypeOK'
    BY <1>0, <1>1, <1>h, <1>k, MissFields, Zenon DEF Turns
  <2>2. \A q \in Readers : Await(q)'
    BY <1>0, <1>1, MissFields, ReaderShape, SMTT(30) DEF Turns, Await, Steady
  <2>3. \A j \in Tasks : Told(j)'
    BY <1>0, <1>1, MissFields, Zenon DEF Told, Notifying, Steady
  <2> QED
    BY <2>1, <2>2, <2>3, Zenon DEF Typed
<1>2. CASE Enter(r)
  <2>0. Steady /\ task' = task /\ evictions' = evictions
    BY <1>2, Zenon DEF Enter, Steady, stores
  <2>1. TypeOK'
    <3>1. fetched' \subseteq Locks
      BY <1>0, <1>2, <1>k, EnterFields, Zenon
    <3> QED
      BY <1>0, <1>2, <1>h, <1>k, <2>0, <3>1, EnterFields, Zenon
  <2>2. \A q \in Readers : Await(q)'
    <3>1. reader[r].pc \in {"miss", "late"}
      BY <1>2, Zenon DEF Enter
    <3>2. Await(r)'
      BY <1>0, <1>2, <2>0, <3>1, EnterFields, Zenon DEF Await, Steady
    <3> QED
      BY <1>0, <1>2, <2>0, <3>2, EnterFields, ReaderShape, Zenon DEF Steady
  <2>3. \A j \in Tasks : Told(j)'
    BY <1>0, <2>0, Zenon DEF Told, Notifying, Steady
  <2> QED
    BY <2>1, <2>2, <2>3, Zenon DEF Typed
<1>3. CASE Check(r)
  <2>1. TypeOK'
    BY <1>0, <1>3, <1>h, <1>k, CheckFields, Zenon DEF Turns, Leaves
  <2>2. \A q \in Readers : Await(q)'
    BY <1>0, <1>3, CheckFields, ReaderShape, SMTT(30) DEF Turns, Leaves, Await, Steady
  <2>3. \A j \in Tasks : Told(j)'
    BY <1>0, <1>3, CheckFields, Zenon DEF Told, Notifying, Steady
  <2> QED
    BY <2>1, <2>2, <2>3, Zenon DEF Typed
<1>4. CASE Acquire(r)
  <2>1. TypeOK'
    BY <1>0, <1>4, <1>h, <1>k, AcquireFields, Zenon DEF Turns, Leaves, Await
  <2>2. \A q \in Readers : Await(q)'
    BY <1>0, <1>4, AcquireFields, ReaderShape, SMTT(30) DEF Turns, Leaves, Await, Steady
  <2>3. \A j \in Tasks : Told(j)'
    BY <1>0, <1>4, AcquireFields, Zenon DEF Told, Notifying, Steady
  <2> QED
    BY <2>1, <2>2, <2>3, Zenon DEF Typed
<1>5. CASE Prepare(r) \/ BuildFails(r)
  <2>1. TypeOK'
    BY <1>0, <1>5, <1>h, <1>k, PrepareFields, Zenon DEF Turns
  <2>2. \A q \in Readers : Await(q)'
    <3>1. Await(r)'
      BY <1>0, <1>5, PrepareFields, Zenon DEF Turns, Await, Steady
    <3> QED
      BY <1>0, <1>5, <3>1, PrepareFields, ReaderShape, Zenon DEF Turns, Steady
  <2>3. \A j \in Tasks : Told(j)'
    <3>1. CASE task' = task
      BY <1>0, <1>5, <3>1, PrepareFields, Zenon DEF Told, Notifying, Steady
    <3>2. CASE task' # task
      BY <1>0, <1>5, <3>2, PrepareFields, TaskShape, Zenon DEF Steady
    <3> QED
      BY <3>1, <3>2, Zenon
  <2> QED
    BY <2>1, <2>2, <2>3, Zenon DEF Typed
<1>6. CASE Unmap(r)
  <2>1. TypeOK'
    BY <1>0, <1>6, <1>h, <1>k, UnmapFields, Zenon DEF Leaves
  <2>2. \A q \in Readers : Await(q)'
    BY <1>0, <1>6, UnmapFields, ReaderShape, SMTT(30) DEF Leaves, Await, Steady
  <2>3. \A j \in Tasks : Told(j)'
    BY <1>0, <1>6, UnmapFields, Zenon DEF Told, Notifying, Steady
  <2> QED
    BY <2>1, <2>2, <2>3, Zenon DEF Typed
<1>7. CASE Joined(r)
  <2>0. evictions' \in 0..MaxEvictions
    BY <1>7, <1>k, JoinedFields, SMTT(30)
  <2>1. TypeOK'
    BY <1>7, <1>h, <1>k, <2>0, JoinedFields, Zenon DEF Cleared
  <2>2. \A q \in Readers : Await(q)'
    <3>1. Await(r)'
      BY <1>0, <1>7, <1>t, JoinedFields, Zenon DEF Cleared, Await, Steady
    <3> QED
      BY <1>0, <1>7, <3>1, JoinedFields, ReaderShape DEF Cleared, Steady
  <2>3. \A j \in Tasks : Told(j)'
    BY <1>0, <1>7, <1>t, JoinedFields, TaskShape DEF Cleared, Steady
  <2> QED
    BY <2>1, <2>2, <2>3, Zenon DEF Typed
<1>8. CASE Drop(r)
  <2>1. TypeOK'
    BY <1>8, <1>h, <1>k, DropFields, Zenon DEF Cleared, Leaves
  <2>2. \A q \in Readers : Await(q)'
    <3>1. Await(r)'
      BY <1>0, <1>8, <1>t, DropFields, Zenon DEF Cleared, Leaves, Await, Steady
    <3> QED
      BY <1>0, <1>8, <3>1, DropFields, ReaderShape, Zenon DEF Cleared, Leaves, Steady
  <2>3. \A j \in Tasks : Told(j)'
    BY <1>0, <1>8, <1>t, DropFields, TaskShape, Zenon DEF Cleared, Steady
  <2> QED
    BY <2>1, <2>2, <2>3, Zenon DEF Typed
<1> QED
  BY <1>1, <1>2, <1>3, <1>4, <1>5, <1>6, <1>7, <1>8, Zenon DEF ForegroundFetch

Environment == Publish \/ Revoke \/ Restore \/ BackoffOver \/ SlotBack \/ UNCHANGED vars

LEMMA EnvironmentFields ==
    ASSUME Environment
    PROVE  /\ setup' = setup /\ key' = key /\ store' = store /\ (waiting' = waiting \/ ~waiting')
           /\ UNCHANGED <<reader, task, map, fetched, evictions>>
  BY Zenon DEF Environment, Publish, Revoke, Restore, BackoffOver, SlotBack, vars, origin, stores,
         locking

LEMMA StepTyped == Typed /\ [Next]_vars => Typed'
<1> SUFFICES ASSUME Typed, [Next]_vars PROVE Typed'
  BY Zenon
<1> USE DEF origin, stores, locking
<1>0. TypeOK /\ task \in [Tasks -> TaskRecord] /\ MaxVersion \in Nat /\ Poller \in Tasks
      /\ setup.budget \in Nat /\ faults \in 0..setup.budget /\ evictions \in 0..MaxEvictions
      /\ MaxEvictions \in Nat /\ (\A r \in Readers : r # Poller /\ r \in Tasks)
  BY Numbers, Shapes, Zenon DEF Typed, TypeOK
<1>1. ASSUME setup' = setup, reader' = reader, task' = task, TypeOK'
      PROVE  Typed'
  BY <1>1, Zenon DEF Typed, Told, Notifying, Await
<1>2. CASE Environment
  <2>1. faults' \in 0..setup.budget
    BY <1>0, <1>2 DEF Environment, Publish, Revoke, Restore, BackoffOver, SlotBack, Fault, vars
  <2>2. current' \in Versions
    BY <1>0, <1>2 DEF Environment, Publish, Revoke, Restore, BackoffOver, SlotBack, vars,
                      Versions, TypeOK
  <2>3. /\ allowed' \in BOOLEAN /\ waiting' \in BOOLEAN /\ spent' \in BOOLEAN
        /\ built' = built /\ hash' = hash
    BY <1>0, <1>2, Zenon DEF Environment, Publish, Revoke, Restore, BackoffOver, SlotBack, vars, TypeOK
  <2>4. TypeOK'
    BY <1>0, <1>2, <2>1, <2>2, <2>3, EnvironmentFields, Zenon DEF TypeOK
  <2> QED
    BY <1>1, <1>2, <2>4, EnvironmentFields, Zenon
<1>3. CASE Evict
  <2>1. evictions' \in 0..MaxEvictions
    BY <1>0, <1>3 DEF Evict
  <2>2. TypeOK'
    BY <1>0, <1>3, <2>1, Zenon DEF Evict, TypeOK
  <2> QED
    BY <1>1, <1>3, <2>2, Zenon DEF Evict
<1>4. ASSUME task' \in [Tasks -> TaskRecord], \A j \in Tasks \ {Poller} : task'[j] = task[j],
             setup' = setup, reader' = reader, TypeOK', task'[Poller].pc \in {"none", "sent"}
      PROVE  Typed'
  <2>1. \A r \in Readers : Await(r)'
    BY <1>0, <1>4, Zenon DEF Typed, Await
  <2> QED
    BY <1>0, <1>4, <2>1, TaskShape, Zenon DEF Typed
<1>5. CASE Poll
  <2>1. task' \in [Tasks -> TaskRecord]
    BY <1>0, <1>5, PollFields, Zenon
  <2>2. TypeOK'
    BY <1>0, <1>5, <2>1, Zenon DEF Poll, GetOrBuild, TakeSlot, TypeOK, TaskRecord
  <2>3. setup' = setup /\ reader' = reader
    BY <1>5, PollFields, Zenon DEF Steady
  <2>4. CASE task' = task
    BY <1>1, <2>2, <2>3, <2>4, Zenon
  <2>5. CASE task' # task
    BY <1>4, <1>5, <2>1, <2>2, <2>3, <2>5, PollFields, Zenon
  <2> QED
    BY <2>4, <2>5, Zenon
<1>6. CASE PollJoined
  <2>1. task' \in [Tasks -> TaskRecord] /\ task'[Poller].pc = "none" /\ setup' = setup
        /\ reader' = reader /\ \A j \in Tasks \ {Poller} : task'[j] = task[j]
    BY <1>6, PollJoinedFields DEF Cleared, NoTask, Steady
  <2>2. TypeOK'
    BY <1>0, <1>6, <2>1, Zenon DEF PollJoined, TypeOK, TaskRecord
  <2> QED
    BY <1>4, <2>1, <2>2, Zenon
<1> QED
  BY <1>2, <1>3, <1>5, <1>6, FetchTyped, ReaderTyped, Zenon DEF Next, Environment

LEMMA InitTyped == Init => Typed
<1> SUFFICES ASSUME Init PROVE Typed
  BY Zenon
<1>1. /\ reader \in [Readers -> ReaderRecord] /\ task \in [Tasks -> TaskRecord]
      /\ \A r \in Readers : reader[r] = Idle /\ task[r] = NoTask
      /\ \A i \in Tasks : task[i] = NoTask
  BY Empty, Numbers, Zenon DEF Init
<1>2. TypeOK
  <2>1. faults \in 0..setup.budget /\ evictions \in 0..MaxEvictions
    BY Numbers DEF Init
  <2> QED
    BY <1>1, <2>1, Numbers, Zenon DEF Init, TypeOK, ReaderRecord, TaskRecord
<1>3. \A i \in Tasks : Told(i)
  BY <1>1 DEF Told, Notifying, NoTask
<1>4. \A r \in Readers : Await(r)
  BY <1>1 DEF Await, NoTask, Idle
<1> QED
  BY <1>2, <1>3, <1>4, Zenon DEF Typed

\* Every variable has the shape the code gives it; in particular a context is only
\* ever registered with the version of an answer, and only payloads are stored.
THEOREM TypeCorrect == Spec => []TypeOK
<1>1. Spec => []Typed
  BY InitTyped, StepTyped, PTL DEF Spec
<1>2. Typed => TypeOK
  BY Zenon DEF Typed
<1> QED
  BY <1>1, <1>2, PTL

-----------------------------------------------------------------------------
(* One fetch at a time notifies *)

\* The two cases of Excluded.
Single == \A r, q \in setup.readers : r = q
Faultless == UseLcut /\ setup.faults \cap {"error", "slow", "build"} = {}

\* A fetch that may still register the context.
Ahead(i) == task[i].pc \in {"sent", "backup", "key", "keyPut"}

\* A reader that holds the write guard of its lock.
InFlight(r) == reader[r].pc \in {"prepare", "fetching"}

\* A reader alone: between its miss and its fetch nobody registers the context.
SingleInv ==
  \A r \in Readers : reader[r].pc \in {"miss", "late", "check", "wait", "prepare"} => key = None

\* Several readers: the lock of the one that fetches is the one in the map, until
\* the eviction that it puts to sleep itself; a registered context has a lock in
\* the map that says "fetched" as long as an old miss is under way.
Waiter(r) ==
  /\ reader[r].pc # "unmap"
  /\ reader[r].pc = "miss" => key = None \/ (map # None /\ map \in fetched /\ evictions = 0)
  /\ reader[r].pc = "late" => map # None /\ map \in fetched
  /\ reader[r].pc \in {"check", "wait"} => reader[r].lock \in fetched \/ map = reader[r].lock
  /\ InFlight(r) => map = reader[r].lock /\ map \in fetched /\ evictions = 0

SharedInv ==
  /\ ~waiting
  /\ \A i \in Tasks : task[i].pc # "backup" /\ task[i].result # "error"
  /\ evictions > 0 => map # None /\ map \in fetched /\ evictions = 1
  /\ map # None /\ map \notin fetched => key = None /\ evictions = 0
  /\ \A r \in Readers : Waiter(r)

\* The poller fetches what is registered, a reader what is not: so one fetch at most
\* may register, and the answer to one that was sent while another notified comes
\* after that one's last write.
Apart(i, j) ==
  i # j /\ Notifying(j) =>
    /\ task[i].pc \notin {"backup", "key", "keyPut", "store", "storePut"}
    /\ task[i].pc = "sent" => j \in task[i].after

ExclInv ==
  /\ Ahead(Poller) => key # None
  /\ \A r \in Readers : reader[r].pc = "prepare" \/ Ahead(r) => key = None
  /\ \A r, q \in Readers : InFlight(r) /\ InFlight(q) => r = q
  /\ \A i, j \in Tasks : Apart(i, j)

OrderInv == (Single => SingleInv) /\ (Faultless => SharedInv) /\ ExclInv

LEMMA OrderlyCases == Orderly <=> setup.prompt /\ (Single \/ Faultless)
  BY Zenon DEF Orderly, Excluded, Single, Faultless

LEMMA AheadFlies ==
    ASSUME Typed, NEW r \in Readers, task[r].pc # "none"
    PROVE  reader[r].pc = "fetching" /\ InFlight(r) /\ r \in setup.readers
  BY Zenon DEF Typed, Await, InFlight

LEMMA OneAhead ==
    ASSUME Typed, ExclInv, NEW i \in Tasks, NEW j \in Tasks, Ahead(i), Ahead(j)
    PROVE  i = j
<1>1. task[i].pc # "none" /\ task[j].pc # "none"
  BY Zenon DEF Ahead
<1>2. CASE i \in Readers /\ j \in Readers
  BY <1>1, <1>2, AheadFlies, Zenon DEF ExclInv
<1>3. CASE i = Poller \/ j = Poller
  BY <1>3, Zenon DEF ExclInv, Tasks
<1> QED
  BY <1>2, <1>3, Zenon DEF Tasks

\* A step of a fetch leaves at most one notifier.
LEMMA FetchApart ==
    ASSUME Typed, ExclInv, setup.prompt, NEW k \in Tasks,
           ProcessRequest(k) \/ Failed(k) \/ GuardTimeout(k), NEW i \in Tasks, NEW j \in Tasks
    PROVE  Apart(i, j)'
<1> SUFFICES ASSUME i # j, Notifying(j)'
             PROVE  /\ task'[i].pc \notin {"backup", "key", "keyPut", "store", "storePut"}
                    /\ task'[i].pc = "sent" => j \in task'[i].after
  BY Zenon DEF Apart
<1>1. Apart(i, j) /\ Apart(k, i) /\ Apart(k, j)
  BY Zenon DEF ExclInv
<1>2. \A n \in Tasks \ {k} : task'[n] = task[n]
  BY FetchMove, Zenon
<1>3. \/ task[k].pc = "sent" /\ task'[k].pc \in {"key", "backup", "record"} /\ Arrived(k)
      \/ task[k].pc \in {"sent", "backup"} /\ task'[k].pc = "record"
      \/ task[k].pc = "backup" /\ task'[k].pc \in {"record", "store"}
      \/ Notifying(k) /\ task'[k].pc \in {"keyPut", "store", "storePut", "record"}
      \/ task[k].pc = "record" /\ task'[k].pc = "done"
  BY FetchMove, Zenon DEF KeyCheck, KeyPut, StoreCheck, StorePut, Notifying
<1>4. CASE i = k
  <2>1. Notifying(j)
    BY <1>2, <1>4, Zenon DEF Notifying
  <2>2. ~Arrived(k) \/ task[k].pc # "sent"
    BY <1>1, <1>4, <2>1, Zenon DEF Apart, Arrived
  <2> QED
    BY <1>1, <1>3, <1>4, <2>1, <2>2, Zenon DEF Apart, Notifying
<1>5. CASE j = k
  <2>1. task'[i] = task[i]
    BY <1>2, <1>5, Zenon
  <2>2. CASE Notifying(k)
    BY <1>1, <1>5, <2>1, <2>2, Zenon DEF Apart
  <2>3. CASE ~Notifying(k)
    <3>1. Ahead(k) /\ (task[k].pc = "sent" => Arrived(k)) /\ task[k].pc \in {"sent", "backup"}
      BY <1>3, <1>5, <2>3, Zenon DEF Ahead, Notifying
    <3>2. ~Ahead(i)
      BY <1>5, <3>1, OneAhead, Zenon
    <3>3. ~Notifying(i)
      BY <1>1, <1>5, <3>1, Zenon DEF Apart, Arrived
    <3> QED
      BY <2>1, <3>2, <3>3, Zenon DEF Ahead, Notifying
  <2> QED
    BY <2>2, <2>3, Zenon
<1>6. CASE i # k /\ j # k
  BY <1>1, <1>2, <1>6, Zenon DEF Apart, Notifying
<1> QED
  BY <1>4, <1>5, <1>6, Zenon

\* A fetch is registered by the only one that may: the poller finds the context
\* registered, a reader holds the guard of its lock.
LEMMA Registers ==
    ASSUME Typed, ExclInv, NEW k \in Tasks, ProcessRequest(k) \/ Failed(k) \/ GuardTimeout(k),
           key = None, key' # None
    PROVE  /\ k \in Readers /\ InFlight(k) /\ k \in setup.readers /\ reader[k].pc = "fetching"
           /\ Ahead(k) /\ task'[k].pc = "store"
<1>1. KeyPut(k) /\ task'[k].pc = "store"
  BY FetchMove, Zenon DEF KeyCheck, StoreCheck, StorePut
<1>2. Ahead(k) /\ task[k].pc # "none"
  BY <1>1, Zenon DEF KeyPut, Ahead
<1>3. k \in Readers
  BY <1>2, Zenon DEF ExclInv, Tasks
<1> QED
  BY <1>1, <1>2, <1>3, AheadFlies, Zenon

LEMMA FetchExcl ==
    ASSUME Typed, ExclInv, setup.prompt, NEW k \in Tasks,
           ProcessRequest(k) \/ Failed(k) \/ GuardTimeout(k)
    PROVE  ExclInv'
<1>0. Readers \subseteq Tasks /\ Poller \in Tasks
  BY Numbers, Zenon
<1>1. reader' = reader /\ \A n \in Tasks \ {k} : task'[n] = task[n]
  BY FetchMove, Zenon
<1>2. \A i \in Tasks : Ahead(i)' => Ahead(i)
  <2>1. Ahead(k)' => Ahead(k)
    BY FetchMove, Zenon DEF KeyCheck, KeyPut, StoreCheck, StorePut, Ahead
  <2> QED
    BY <1>1, <2>1, Zenon DEF Ahead
<1>3. Ahead(Poller)' => key' # None
  <2> SUFFICES ASSUME Ahead(Poller)' PROVE key' # None
    BY Zenon
  <2>1. Ahead(Poller) /\ key # None
    BY <1>0, <1>2, Zenon DEF ExclInv
  <2>2. CASE KeyCheck(k)
    <3>1. k = Poller
      BY <1>0, <2>1, <2>2, OneAhead, Zenon DEF KeyCheck, Ahead
    <3>2. task[k].result # "unauthorized"
      <4>1. ASSUME task[k].result = "unauthorized" PROVE FALSE
        <5>1. Step(k, "store") /\ "store" \in TaskStates /\ TypeOK
          BY <2>2, <4>1, Zenon DEF KeyCheck, TaskStates, Typed
        <5>2. task'[k].pc = "store"
          BY <5>1, StepFields, Zenon
        <5> QED
          BY <3>1, <5>2, Zenon DEF Ahead
      <4> QED
        BY <4>1, Zenon
    <3> QED
      BY <2>1, <2>2, <3>2, Zenon DEF KeyCheck
  <2>3. CASE KeyPut(k)
    <3>1. k = Poller /\ task'[k].pc = "store"
      BY <1>0, <2>1, <2>3, OneAhead, FetchMove, Zenon DEF KeyPut, KeyCheck, StoreCheck, StorePut, Ahead
    <3> QED
      BY <3>1, Zenon DEF Ahead
  <2> QED
    BY <2>1, <2>2, <2>3, FetchMove, Zenon DEF StoreCheck, StorePut
<1>4. ASSUME NEW r \in Readers, reader'[r].pc = "prepare" \/ Ahead(r)'
      PROVE  key' = None
  <2>1. (reader[r].pc = "prepare" \/ Ahead(r)) /\ key = None
    BY <1>0, <1>1, <1>2, <1>4, Zenon DEF ExclInv
  <2>2. SUFFICES ASSUME key' # None PROVE FALSE
    BY Zenon
  <2>3. k \in Readers /\ InFlight(k) /\ reader[k].pc = "fetching" /\ task'[k].pc = "store"
    BY <2>1, <2>2, Registers, Zenon
  <2>4. InFlight(r)
    BY <2>1, AheadFlies, Zenon DEF InFlight, Ahead
  <2>5. r = k
    BY <2>3, <2>4, Zenon DEF ExclInv
  <2> QED
    BY <1>1, <1>4, <2>3, <2>5, Zenon DEF Ahead
<1>5. \A r, q \in Readers : InFlight(r)' /\ InFlight(q)' => r = q
  BY <1>1, Zenon DEF ExclInv, InFlight
<1>6. \A i, j \in Tasks : Apart(i, j)'
  BY FetchApart, Zenon
<1> QED
  BY <1>3, <1>4, <1>5, <1>6, Zenon DEF ExclInv

LEMMA FetchSingle ==
    ASSUME Typed, ExclInv, Single, SingleInv, NEW k \in Tasks,
           ProcessRequest(k) \/ Failed(k) \/ GuardTimeout(k)
    PROVE  SingleInv'
<1> SUFFICES ASSUME NEW r \in Readers,
                    reader'[r].pc \in {"miss", "late", "check", "wait", "prepare"}, key' # None
             PROVE  FALSE
  BY Zenon DEF SingleInv
<1>1. reader[r].pc = reader'[r].pc /\ key = None
  BY FetchMove, Zenon DEF SingleInv
<1>2. k \in setup.readers /\ reader[k].pc = "fetching"
  BY <1>1, Registers, Zenon
<1>3. r \in setup.readers
  BY <1>1, Zenon DEF Typed, Await
<1> QED
  BY <1>1, <1>2, <1>3, Zenon DEF Single

LEMMA FetchShared ==
    ASSUME Typed, ExclInv, Faultless, SharedInv, NEW k \in Tasks,
           ProcessRequest(k) \/ Failed(k) \/ GuardTimeout(k)
    PROVE  SharedInv'
<1>0. TypeOK
  BY Zenon DEF Typed
<1>1. reader' = reader /\ map' = map /\ fetched' = fetched /\ evictions' = evictions
      /\ \A n \in Tasks \ {k} : task'[n] = task[n]
  BY FetchMove, Zenon
<1>2. ~waiting'
  <2>1. CASE Record(k)
    BY <2>1, Zenon DEF Record, SharedInv
  <2>2. waiting' = waiting \/ Record(k)
    BY Zenon DEF ProcessRequest, Served, Refused, ReadBackup, KeyCheck, KeyPut, StoreCheck, StorePut,
           Failed, GuardTimeout
  <2> QED
    BY <2>1, <2>2, Zenon DEF SharedInv
<1>3. task'[k].pc # "backup" /\ task'[k].result # "error"
  <2>1. task[k].pc # "backup" /\ task[k].result # "error"
    BY Zenon DEF SharedInv
  <2>2. ~ReadBackup(k) /\ ~GuardTimeout(k)
    BY <2>1, Zenon DEF ReadBackup, GuardTimeout, Fault, Faultless
  <2>3. ASSUME NEW result \in Results \ {"error"}, NEW v \in Versions \cup {None},
               Answer(k, result, v)
        PROVE  task'[k].pc # "backup" /\ task'[k].result # "error"
    BY <1>0, <2>3, AnswerFields DEF After
  <2>4. ASSUME NEW pc \in TaskStates \ {"backup"}, Step(k, pc)
        PROVE  task'[k].pc # "backup" /\ task'[k].result # "error"
    BY <1>0, <2>1, <2>4, StepFields, Zenon
  <2>5. CASE Served(k)
    <3>1. \E v \in Versions, result \in {"data", "nodata"} : Answer(k, result, v)
      BY <2>5, Zenon DEF Served
    <3> QED
      BY <2>3, <3>1, Zenon DEF Results
  <2>6. CASE Refused(k)
    BY <2>3, <2>6, Zenon DEF Refused, Results
  <2>7. CASE Failed(k)
    <3>1. Answer(k, "client", None)
      BY <2>7, Zenon DEF Failed, Fault, Faultless
    <3> QED
      BY <2>3, <3>1, Zenon DEF Results
  <2>8. CASE KeyCheck(k) \/ KeyPut(k) \/ StoreCheck(k) \/ StorePut(k)
    <3>1. \E pc \in {"keyPut", "store", "storePut", "record"} : Step(k, pc)
      BY <2>8, Zenon DEF KeyCheck, KeyPut, StoreCheck, StorePut
    <3> QED
      BY <2>4, <3>1, Zenon DEF TaskStates
  <2>9. CASE Record(k)
    <3>1. task'[k] = [NoTask EXCEPT !.pc = "done"]
      BY <1>0, <2>9, Shapes, Zenon DEF Record
    <3> QED
      BY <3>1, Zenon DEF NoTask
  <2> QED
    BY <2>2, <2>5, <2>6, <2>7, <2>8, <2>9, Zenon DEF ProcessRequest
<1>4. \A i \in Tasks : task'[i].pc # "backup" /\ task'[i].result # "error"
  BY <1>1, <1>3, Zenon DEF SharedInv
<1>5. key' # None => key # None \/ (map # None /\ map \in fetched /\ evictions = 0)
  <2> SUFFICES ASSUME key = None, key' # None PROVE map # None /\ map \in fetched /\ evictions = 0
    BY Zenon
  <2>1. k \in Readers /\ InFlight(k) /\ reader[k].pc = "fetching"
    BY Registers, Zenon
  <2>2. reader[k].lock \in Locks /\ None \notin Locks
    BY <2>1, Numbers, Zenon DEF Typed, Await
  <2> QED
    BY <2>1, <2>2, Zenon DEF SharedInv, Waiter
<1>6. ASSUME NEW r \in Readers
      PROVE  Waiter(r)'
  <2>1. Waiter(r)
    BY Zenon DEF SharedInv
  <2> QED
    BY <1>1, <1>5, <2>1, Zenon DEF Waiter, InFlight
<1>7. map' # None /\ map' \notin fetched' => key' = None /\ evictions' = 0
  BY <1>1, <1>5, Zenon DEF SharedInv
<1> QED
  BY <1>1, <1>2, <1>4, <1>6, <1>7, Zenon DEF SharedInv

\* What foreground_fetch's lock is for: the reader that gets the guard and finds
\* the value false is alone, and the context is still not registered.
LEMMA AcquireAlone ==
    ASSUME Typed, Orderly, OrderInv, NEW r \in Readers, reader[r].pc = "wait",
           reader[r].lock \notin fetched
    PROVE  /\ key = None /\ \A q \in Readers : ~InFlight(q)
           /\ Faultless => map = reader[r].lock /\ evictions = 0
<1>1. CASE Single
  <2>1. key = None
    BY <1>1, Zenon DEF OrderInv, SingleInv
  <2>2. \A q \in Readers : ~InFlight(q)
    BY <1>1, Zenon DEF Single, Typed, Await, InFlight
  <2>3. CASE Faultless
    <3>1. map = reader[r].lock /\ reader[r].lock \in Locks /\ None \notin Locks
      BY <2>3, Numbers, Zenon DEF OrderInv, SharedInv, Waiter, Typed, Await
    <3> QED
      BY <2>1, <2>2, <2>3, <3>1, Zenon DEF OrderInv, SharedInv
  <2> QED
    BY <2>1, <2>2, <2>3, Zenon
<1>2. CASE Faultless
  <2>1. map = reader[r].lock /\ reader[r].lock \in Locks /\ None \notin Locks
    BY <1>2, Numbers, Zenon DEF OrderInv, SharedInv, Waiter, Typed, Await
  <2>2. key = None /\ evictions = 0
    BY <1>2, <2>1, Zenon DEF OrderInv, SharedInv
  <2>3. \A q \in Readers : ~InFlight(q)
    BY <1>2, <2>1, Zenon DEF OrderInv, SharedInv, Waiter
  <2> QED
    BY <2>1, <2>2, <2>3, Zenon
<1> QED
  BY <1>1, <1>2, OrderlyCases, Zenon

\* A step of a reader in which neither it nor another gets a guard or starts a fetch.
LEMMA ExclKept ==
    ASSUME Typed, ExclInv, key' = key,
           \A r \in Readers : /\ InFlight(r)' => InFlight(r)
                              /\ reader'[r].pc = "prepare" => reader[r].pc = "prepare",
           \A i \in Tasks : task'[i] = task[i] \/ task'[i].pc = "none"
    PROVE  ExclInv'
<1>0. Readers \subseteq Tasks /\ Poller \in Tasks
  BY Numbers, Zenon
<1>1. \A i \in Tasks : (Ahead(i)' => Ahead(i)) /\ (Notifying(i)' => Notifying(i))
  BY Zenon DEF Ahead, Notifying
<1>2. \A i, j \in Tasks : Apart(i, j)'
  <2> SUFFICES ASSUME NEW i \in Tasks, NEW j \in Tasks PROVE Apart(i, j)'
    BY Zenon
  <2>1. Apart(i, j)
    BY Zenon DEF ExclInv
  <2>2. CASE task'[i] = task[i]
    BY <1>1, <2>1, <2>2, Zenon DEF Apart
  <2>3. CASE task'[i].pc = "none"
    BY <2>3, Zenon DEF Apart
  <2> QED
    BY <2>2, <2>3, Zenon
<1> QED
  BY <1>0, <1>1, <1>2, Zenon DEF ExclInv

\* A fetch that starts knows the one that notifies.
LEMMA LaunchExcl ==
    ASSUME Typed, ExclInv, key' = key, NEW k \in Tasks, task'[k].pc = "sent",
           task'[k].after = {j \in Tasks : Notifying(j)}, \A j \in Tasks \ {k} : task'[j] = task[j],
           \A r \in Readers : /\ InFlight(r)' => InFlight(r)
                              /\ reader'[r].pc = "prepare" => reader[r].pc = "prepare",
           k = Poller => key # None, k # Poller => key = None
    PROVE  ExclInv'
<1>0. Readers \subseteq Tasks /\ Poller \in Tasks /\ Poller \notin Readers
  BY Numbers, Zenon
<1>1. \A i \in Tasks : i # k => (Ahead(i)' => Ahead(i)) /\ (Notifying(i)' => Notifying(i))
  BY Zenon DEF Ahead, Notifying
<1>2. ~Notifying(k)'
  BY Zenon DEF Notifying
<1>3. \A i, j \in Tasks : Apart(i, j)'
  <2> SUFFICES ASSUME NEW i \in Tasks, NEW j \in Tasks PROVE Apart(i, j)'
    BY Zenon
  <2>1. CASE i # k
    BY <1>1, <1>2, <2>1, Zenon DEF Apart, ExclInv
  <2>2. CASE i = k
    BY <1>1, <2>2, Zenon DEF Apart
  <2> QED
    BY <2>1, <2>2, Zenon
<1>4. Ahead(Poller)' => key' # None
  <2>1. k # Poller => (Ahead(Poller)' => Ahead(Poller))
    BY <1>0, <1>1, Zenon
  <2> QED
    BY <2>1, Zenon DEF ExclInv
<1>5. ASSUME NEW r \in Readers, reader'[r].pc = "prepare" \/ Ahead(r)'
      PROVE  key' = None
  <2>1. r = k \/ reader[r].pc = "prepare" \/ Ahead(r)
    BY <1>0, <1>1, <1>5, Zenon
  <2> QED
    BY <1>0, <2>1, Zenon DEF ExclInv
<1>6. \A r, q \in Readers : InFlight(r)' /\ InFlight(q)' => r = q
  BY Zenon DEF ExclInv
<1> QED
  BY <1>3, <1>4, <1>5, <1>6, Zenon DEF ExclInv

LEMMA ReaderExcl ==
    ASSUME Typed, Orderly, OrderInv, NEW r \in Readers,
           ForegroundFetch(r) \/ BuildFails(r) \/ Drop(r)
    PROVE  ExclInv'
<1>0. ExclInv /\ r \in Tasks /\ r # Poller /\ Readers \subseteq Tasks /\ NoTask.pc = "none"
  BY Numbers, Zenon DEF OrderInv, NoTask
<1>1. CASE Miss(r)
  BY <1>0, <1>1, MissFields, ExclKept, Zenon DEF Turns, InFlight, Steady
<1>2. CASE Enter(r)
  <2>1. key' = key /\ task' = task /\ TypeOK
    BY <1>2, Zenon DEF Enter, stores, Typed
  <2> QED
    BY <1>0, <1>2, <2>1, EnterFields, ExclKept, Zenon DEF InFlight
<1>3. CASE Check(r)
  BY <1>0, <1>3, CheckFields, ExclKept, Zenon DEF Turns, Leaves, InFlight, Steady
<1>4. CASE Acquire(r)
  <2>1. CASE Leaves(r)
    BY <1>0, <1>4, <2>1, AcquireFields, ExclKept, Zenon DEF Leaves, InFlight, Steady
  <2>2. CASE ~Leaves(r)
    <3>1. reader[r].pc = "wait" /\ reader[r].lock \notin fetched /\ Turns(r, "prepare")
          /\ task' = task /\ key' = key
      BY <1>4, <2>2, AcquireFields, Zenon DEF Steady
    <3>2. key = None /\ \A q \in Readers : ~InFlight(q)
      BY <3>1, AcquireAlone, Zenon
    <3>3. \A q, p \in Readers : InFlight(q)' /\ InFlight(p)' => q = p
      BY <3>1, <3>2, Zenon DEF Turns, InFlight
    <3>4. \A i, j \in Tasks : Apart(i, j)'
      BY <1>0, <3>1, Zenon DEF ExclInv, Apart, Notifying
    <3>5. Ahead(Poller)' => key' # None
      BY <1>0, <3>1, Zenon DEF ExclInv, Ahead
    <3> QED
      BY <3>1, <3>2, <3>3, <3>4, <3>5, Zenon DEF ExclInv
  <2> QED
    BY <2>1, <2>2, Zenon
<1>5. CASE Prepare(r) \/ BuildFails(r)
  <2>0. reader[r].pc = "prepare" /\ key = None /\ key' = key
    BY <1>0, <1>5, PrepareFields, Zenon DEF ExclInv, Steady
  <2>1. CASE Turns(r, "unmap") /\ task' = task
    BY <1>0, <2>0, <2>1, ExclKept, Zenon DEF Turns, InFlight
  <2>2. CASE ~(Turns(r, "unmap") /\ task' = task)
    <3>1. /\ Turns(r, "fetching") /\ task'[r].pc = "sent"
          /\ task'[r].after = {j \in Tasks : Notifying(j)}
          /\ \A j \in Tasks \ {r} : task'[j] = task[j]
      BY <1>5, <2>2, PrepareFields, Zenon
    <3>2. \A q \in Readers : /\ InFlight(q)' => InFlight(q)
                             /\ reader'[q].pc = "prepare" => reader[q].pc = "prepare"
      BY <2>0, <3>1, Zenon DEF Turns, InFlight
    <3> QED
      BY <1>0, <2>0, <3>1, <3>2, LaunchExcl, Zenon
  <2> QED
    BY <2>1, <2>2, Zenon
<1>6. CASE Unmap(r)
  BY <1>0, <1>6, UnmapFields, ExclKept, Zenon DEF Leaves, InFlight, Steady
<1>7. CASE Joined(r)
  <2>1. \A q \in Readers : /\ InFlight(q)' => InFlight(q)
                           /\ reader'[q].pc = "prepare" => reader[q].pc = "prepare"
    BY <1>7, JoinedFields, Zenon DEF InFlight
  <2> QED
    BY <1>0, <1>7, <2>1, JoinedFields, ExclKept, Zenon DEF Cleared, Steady
<1>8. CASE Drop(r)
  BY <1>0, <1>8, DropFields, ExclKept, Zenon DEF Cleared, Leaves, InFlight, Steady
<1> QED
  BY <1>1, <1>2, <1>3, <1>4, <1>5, <1>6, <1>7, <1>8, Zenon DEF ForegroundFetch

LEMMA ReaderSingle ==
    ASSUME Typed, Orderly, OrderInv, Single, NEW r \in Readers,
           ForegroundFetch(r) \/ BuildFails(r) \/ Drop(r)
    PROVE  SingleInv'
<1>0. SingleInv /\ TypeOK
  BY Zenon DEF OrderInv, Typed
<1> USE DEF SingleInv
<1>1. CASE Miss(r)
  BY <1>0, <1>1, MissFields, Zenon DEF Turns, Steady
<1>2. CASE Enter(r)
  <2>1. key' = key /\ reader[r].pc \in {"miss", "late"}
    BY <1>2, Zenon DEF Enter, stores
  <2> QED
    BY <1>0, <1>2, <2>1, EnterFields, Zenon
<1>3. CASE Check(r)
  BY <1>0, <1>3, CheckFields, Zenon DEF Turns, Leaves, Steady
<1>4. CASE Acquire(r)
  BY <1>0, <1>4, AcquireFields, Zenon DEF Turns, Leaves, Steady
<1>5. CASE Prepare(r) \/ BuildFails(r)
  BY <1>0, <1>5, PrepareFields, Zenon DEF Turns, Steady
<1>6. CASE Unmap(r)
  BY <1>0, <1>6, UnmapFields, Zenon DEF Leaves, Steady
<1>7. CASE Joined(r)
  BY <1>0, <1>7, JoinedFields, Zenon DEF Steady
<1>8. CASE Drop(r)
  BY <1>0, <1>8, DropFields, Zenon DEF Leaves, Steady
<1> QED
  BY <1>1, <1>2, <1>3, <1>4, <1>5, <1>6, <1>7, <1>8, Zenon DEF ForegroundFetch

LEMMA ReaderShared ==
    ASSUME Typed, Orderly, OrderInv, Faultless, NEW r \in Readers,
           ForegroundFetch(r) \/ BuildFails(r) \/ Drop(r)
    PROVE  SharedInv'
<1>i. SharedInv /\ ExclInv /\ TypeOK
  BY Zenon DEF OrderInv, Typed
<1>e. evictions \in Nat
  BY <1>i, Numbers DEF TypeOK
<1>0. /\ SharedInv /\ ExclInv /\ TypeOK /\ Waiter(r) /\ ~waiting
      /\ \A q \in Readers : Waiter(q) /\ q \in Tasks
      /\ \A i \in Tasks : task[i].pc # "backup" /\ task[i].result # "error"
      /\ evictions > 0 => map # None /\ map \in fetched /\ evictions = 1
      /\ map # None /\ map \notin fetched => key = None /\ evictions = 0
      /\ evictions \in Nat /\ None \notin Locks /\ r \in Tasks
  BY <1>i, <1>e, Numbers, Zenon DEF SharedInv
<1>l. \A q \in Readers :
        reader[q].pc \in {"check", "wait", "prepare", "fetching"} => reader[q].lock \in Locks
  BY Zenon DEF Typed, Await
<1>n. NoTask.pc = "none" /\ NoTask.result = "nodata"
  BY Zenon DEF NoTask
<1>k. ASSUME Steady, \A i \in Tasks : task'[i].pc # "backup" /\ task'[i].result # "error",
             evictions' > 0 => map' # None /\ map' \in fetched' /\ evictions' = 1,
             map' # None /\ map' \notin fetched' => key' = None /\ evictions' = 0,
             \A q \in Readers : Waiter(q)'
      PROVE  SharedInv'
  BY <1>0, <1>k, Zenon DEF SharedInv, Steady
<1>s. ASSUME Steady, UNCHANGED <<map, fetched, evictions>>,
             \A i \in Tasks : task'[i].pc # "backup" /\ task'[i].result # "error",
             \A q \in Readers \ {r} : reader'[q] = reader[q], Waiter(r)'
      PROVE  SharedInv'
  <2>1. ASSUME NEW q \in Readers PROVE Waiter(q)'
    BY <1>0, <1>s, Zenon DEF Waiter, InFlight, Steady
  <2>2. evictions' > 0 => map' # None /\ map' \in fetched' /\ evictions' = 1
    BY <1>0, <1>s, Zenon
  <2>3. map' # None /\ map' \notin fetched' => key' = None /\ evictions' = 0
    BY <1>0, <1>s, Zenon DEF Steady
  <2> QED
    BY <1>k, <1>s, <2>1, <2>2, <2>3, Zenon
<1>1. CASE Miss(r)
  <2>1. /\ Steady /\ UNCHANGED <<map, fetched, evictions>> /\ task' = task
        /\ key' = None /\ reader'[r].pc = "miss"
        /\ \A q \in Readers \ {r} : reader'[q] = reader[q]
    BY <1>1, MissFields, Zenon DEF Turns, Steady
  <2>2. Waiter(r)'
    BY <2>1, Zenon DEF Waiter, InFlight
  <2> QED
    BY <1>0, <1>s, <2>1, <2>2, Zenon
<1>2. CASE Enter(r)
  <2>1. Steady /\ task' = task /\ evictions' = evictions /\ reader[r].pc \in {"miss", "late"}
    BY <1>2, Zenon DEF Enter, Steady, stores
  <2>2. /\ reader'[r].pc = "check" /\ reader'[r].lock \in Locks /\ map' = reader'[r].lock
        /\ \A q \in Readers \ {r} : reader'[q] = reader[q]
    BY <1>0, <1>2, EnterFields, Zenon
  <2>3. CASE map = None
    <3>0. key = None /\ ~(evictions > 0)
      BY <1>0, <2>1, <2>3, Zenon DEF Waiter
    <3>e. evictions = 0
      BY <1>e, <3>0
    <3>1. /\ fetched' = fetched \ {map'} /\ \A q \in Readers : reader[q].lock # map'
          /\ key = None /\ evictions = 0
      BY <1>0, <1>2, <2>3, <3>0, <3>e, EnterFields, Zenon
    <3>2. ASSUME NEW q \in Readers, q # r
          PROVE  Waiter(q)'
      <4>1. Waiter(q) /\ reader'[q] = reader[q] /\ reader[q].lock # map'
        BY <1>0, <2>2, <3>1, <3>2, Zenon
      <4>2. reader[q].pc # "late" /\ ~InFlight(q)
        BY <1>l, <2>3, <3>2, <4>1, Numbers, Zenon DEF Waiter, InFlight
      <4>3. reader[q].pc \in {"check", "wait"} => reader[q].lock \in fetched
        BY <1>l, <2>3, <3>2, <4>1, Numbers, Zenon DEF Waiter
      <4> QED
        BY <2>1, <3>1, <4>1, <4>2, <4>3, Zenon DEF Waiter, InFlight, Steady
    <3>3. Waiter(r)'
      BY <2>2, Zenon DEF Waiter, InFlight
    <3>4. evictions' = 0 /\ key' = None /\ ~(evictions' > 0)
      BY <2>1, <3>1 DEF Steady
    <3> QED
      BY <1>0, <1>k, <2>1, <3>2, <3>3, <3>4, Zenon
  <2>4. CASE map # None
    <3>1. map' = map /\ fetched' = fetched
      BY <1>0, <1>2, <2>4, EnterFields, Zenon
    <3>2. ASSUME NEW q \in Readers
          PROVE  Waiter(q)'
      <4>1. CASE q = r
        BY <2>2, <4>1, Zenon DEF Waiter, InFlight
      <4>2. CASE q # r
        BY <1>0, <2>1, <2>2, <3>1, <4>2, Zenon DEF Waiter, InFlight, Steady
      <4> QED
        BY <4>1, <4>2, Zenon
    <3> QED
      BY <1>0, <1>k, <2>1, <3>1, <3>2, Zenon DEF Steady
  <2> QED
    BY <2>3, <2>4, Zenon
<1>3. CASE Check(r)
  <2>1. /\ Steady /\ UNCHANGED <<map, fetched, evictions>> /\ task' = task
        /\ reader[r].pc = "check"
        /\ reader'[r].pc = "idle" \/ (reader'[r].pc = "wait" /\ reader'[r].lock = reader[r].lock)
        /\ \A q \in Readers \ {r} : reader'[q] = reader[q]
    BY <1>3, CheckFields, Zenon DEF Turns, Leaves
  <2>2. Waiter(r)'
    BY <1>0, <2>1, Zenon DEF Waiter, InFlight
  <2> QED
    BY <1>0, <1>s, <2>1, <2>2, Zenon
<1>4. CASE Acquire(r)
  <2>0. Steady /\ task' = task /\ map' = map /\ evictions' = evictions /\ reader[r].pc = "wait"
    BY <1>4, AcquireFields, Zenon
  <2>1. CASE Leaves(r) /\ fetched' = fetched
    <3>1. \A q \in Readers : Waiter(q)'
      BY <1>0, <2>0, <2>1, Zenon DEF Leaves, Steady, Waiter, InFlight
    <3> QED
      BY <1>0, <1>k, <2>0, <2>1, <3>1, Zenon DEF Steady
  <2>2. CASE /\ reader[r].lock \notin fetched /\ fetched' = fetched \cup {reader[r].lock}
             /\ Turns(r, "prepare")
    <3>1. /\ key = None /\ map = reader[r].lock /\ evictions = 0
          /\ \A q \in Readers : ~InFlight(q)
      BY <2>0, <2>2, AcquireAlone, Zenon
    <3>2. map # None /\ map \in fetched'
      BY <1>0, <1>l, <2>0, <2>2, <3>1, Zenon
    <3>3. ASSUME NEW q \in Readers
          PROVE  Waiter(q)'
      <4>1. CASE q = r
        BY <2>0, <2>2, <3>1, <3>2, <4>1, Zenon DEF Waiter, Turns, InFlight
      <4>2. CASE q # r
        BY <1>0, <2>0, <2>2, <3>1, <3>2, <4>2, Zenon DEF Waiter, Turns, InFlight, Steady
      <4> QED
        BY <4>1, <4>2, Zenon
    <3> QED
      BY <1>0, <1>k, <2>0, <3>1, <3>2, <3>3, Zenon DEF Steady
  <2> QED
    BY <1>4, <2>1, <2>2, AcquireFields, Zenon
<1>5. CASE Prepare(r) \/ BuildFails(r)
  <2>1. MayLaunch /\ "build" \notin setup.faults
    BY <1>0, Zenon DEF MayLaunch, SlotFree, Faultless
  <2>2. /\ Steady /\ map' = map /\ evictions' = evictions /\ reader[r].pc = "prepare"
        /\ Turns(r, "fetching") /\ fetched' = fetched
        /\ task'[r].pc = "sent" /\ task'[r].result = "nodata"
        /\ \A j \in Tasks \ {r} : task'[j] = task[j]
    BY <1>5, <2>1, PrepareFields, Zenon
  <2>3. Waiter(r)' /\ \A q \in Readers \ {r} : reader'[q] = reader[q]
    BY <1>0, <2>2, Zenon DEF Waiter, Turns, InFlight
  <2>4. \A i \in Tasks : task'[i].pc # "backup" /\ task'[i].result # "error"
    BY <1>0, <2>2, Zenon
  <2> QED
    BY <1>s, <2>2, <2>3, <2>4, Zenon
<1>6. CASE Unmap(r)
  BY <1>0, <1>6, Zenon DEF Unmap, Waiter
<1>7. CASE Joined(r)
  <2>1. /\ Steady /\ map' = map /\ fetched' = fetched /\ reader[r].pc = "fetching" /\ Cleared(r)
        /\ evictions' = (IF evictions < MaxEvictions THEN evictions + 1 ELSE evictions)
    BY <1>7, JoinedFields, Zenon
  <2>2. /\ map = reader[r].lock /\ map \in fetched /\ evictions = 0 /\ InFlight(r)
    BY <1>0, <2>1, Zenon DEF Waiter, InFlight
  <2>e. evictions' = 1
    BY <2>1, <2>2, Numbers
  <2>3. evictions' = 1 /\ map # None
    BY <1>0, <1>l, <2>1, <2>2, <2>e, Zenon
  <2>4. ASSUME NEW q \in Readers
        PROVE  Waiter(q)'
    <3>1. CASE q = r
      <4>1. reader'[r].pc = "idle"
        BY <1>7, JoinedFields, Zenon
      <4> QED
        BY <3>1, <4>1, Zenon DEF Waiter, InFlight
    <3>2. CASE q # r
      <4>1. /\ reader'[q].lock = reader[q].lock
            /\ reader'[q].pc = (IF reader[q].pc = "miss" THEN "late" ELSE reader[q].pc)
        BY <1>7, <3>2, JoinedFields, Zenon
      <4>2. ~InFlight(q) /\ Waiter(q)
        BY <1>0, <2>2, <3>2, Zenon DEF ExclInv
      <4> QED
        BY <2>1, <2>2, <2>3, <4>1, <4>2, Zenon DEF Waiter, InFlight
    <3> QED
      BY <3>1, <3>2, Zenon
  <2>5. \A i \in Tasks : task'[i].pc # "backup" /\ task'[i].result # "error"
    BY <1>0, <1>n, <2>1, Zenon DEF Cleared
  <2> QED
    BY <1>k, <2>1, <2>2, <2>3, <2>4, <2>5, Zenon
<1>8. CASE Drop(r)
  <2>1. /\ Steady /\ UNCHANGED <<map, fetched, evictions>> /\ reader'[r].pc = "idle"
        /\ \A q \in Readers \ {r} : reader'[q] = reader[q]
        /\ task'[r] = NoTask /\ \A i \in Tasks \ {r} : task'[i] = task[i]
    BY <1>8, DropFields, Zenon DEF Leaves, Cleared
  <2>2. \A i \in Tasks : task'[i].pc # "backup" /\ task'[i].result # "error"
    BY <1>0, <1>n, <2>1, Zenon
  <2>3. Waiter(r)'
    BY <2>1, Zenon DEF Waiter, InFlight
  <2> QED
    BY <1>s, <2>1, <2>2, <2>3, Zenon
<1> QED
  BY <1>1, <1>2, <1>3, <1>4, <1>5, <1>6, <1>7, <1>8, Zenon DEF ForegroundFetch

LEMMA EvictShared ==
    ASSUME Typed, Orderly, SharedInv, Evict
    PROVE  SharedInv'
<1>1. /\ map' = None /\ fetched' = fetched /\ reader' = reader /\ task' = task /\ key' = key
      /\ waiting' = waiting /\ evictions' = evictions - 1 /\ evictions > 0
      /\ \A r \in Readers : reader[r].pc # "late"
  BY Zenon DEF Evict, Orderly, stores
<1>0. evictions = 1 /\ map \in fetched
  BY <1>1, Zenon DEF SharedInv
<1>2. evictions' = 0 /\ map \in fetched
  BY <1>0, <1>1
<1>3. ASSUME NEW r \in Readers
      PROVE  Waiter(r)'
  <2>1. Waiter(r) /\ evictions # 0
    BY <1>1 DEF SharedInv
  <2>2. ~InFlight(r) /\ (reader[r].pc = "miss" => key = None)
    BY <2>1, Zenon DEF Waiter
  <2>3. reader[r].pc \in {"check", "wait"} => reader[r].lock \in fetched
    BY <1>2, <2>1, Zenon DEF Waiter
  <2> QED
    BY <1>1, <2>1, <2>2, <2>3, Zenon DEF Waiter, InFlight
<1> QED
  BY <1>1, <1>2, <1>3 DEF SharedInv

\* The steps that leave the readers and the map alone.
LEMMA SharedKept ==
    ASSUME Typed, SharedInv, key' = key, ~waiting', UNCHANGED <<reader, map, fetched, evictions>>,
           \A i \in Tasks : task'[i].pc # "backup" /\ task'[i].result # "error"
    PROVE  SharedInv'
<1>1. \A r \in Readers : Waiter(r)'
  BY Zenon DEF SharedInv, Waiter, InFlight
<1> QED
  BY <1>1, Zenon DEF SharedInv

LEMMA OrderStep ==
    ASSUME Typed, Orderly, OrderInv, [Next]_vars
    PROVE  OrderInv'
<1>0. ExclInv /\ setup.prompt /\ Poller \in Tasks
  BY OrderlyCases, Numbers, Zenon DEF OrderInv
<1>s. setup' = setup => (Single' <=> Single) /\ (Faultless' <=> Faultless)
  BY Zenon DEF Single, Faultless, UseLcut
<1>n. NoTask.pc = "none" /\ NoTask.result = "nodata"
  BY Zenon DEF NoTask
<1>1. ASSUME NEW k \in Tasks, ProcessRequest(k) \/ Failed(k) \/ GuardTimeout(k)
      PROVE  OrderInv'
  <2>1. setup' = setup
    BY <1>1, FetchMove, Zenon
  <2> QED
    BY <1>0, <1>1, <1>s, <2>1, FetchExcl, FetchSingle, FetchShared, Zenon DEF OrderInv
<1>2. ASSUME NEW r \in Readers, ForegroundFetch(r) \/ BuildFails(r) \/ Drop(r)
      PROVE  OrderInv'
  <2>1. setup' = setup
    BY <1>2, Zenon DEF ForegroundFetch, Miss, Enter, Check, Acquire, Prepare, Unmap, Joined, BuildFails, Drop
  <2> QED
    BY <1>2, <1>s, <2>1, ReaderExcl, ReaderSingle, ReaderShared, Zenon DEF OrderInv
<1>3. CASE Poll
  <2>1. /\ setup' = setup /\ key' = key /\ waiting' = waiting /\ key # None
        /\ UNCHANGED <<reader, map, fetched, evictions>>
    BY <1>3, PollFields, Zenon DEF Steady
  <2>2. \A i \in Tasks : task'[i] = task[i] \/ (task'[i].pc = "sent" /\ task'[i].result = "nodata")
    BY <1>0, <1>3, PollFields, Zenon
  <2>3. Faultless => SharedInv'
    BY <2>1, <2>2, SharedKept, Zenon DEF OrderInv, SharedInv
  <2>4. Single => SingleInv'
    BY <2>1, Zenon DEF OrderInv, SingleInv
  <2>5. ExclInv'
    <3>1. CASE task' = task
      BY <1>0, <2>1, <3>1, ExclKept, Zenon DEF InFlight
    <3>2. CASE task' # task
      <4>1. /\ task'[Poller].pc = "sent" /\ task'[Poller].after = {j \in Tasks : Notifying(j)}
            /\ \A j \in Tasks \ {Poller} : task'[j] = task[j]
        BY <1>3, <3>2, PollFields, Zenon
      <4> QED
        BY <1>0, <2>1, <4>1, LaunchExcl, Zenon DEF InFlight
    <3> QED
      BY <3>1, <3>2, Zenon
  <2> QED
    BY <1>s, <2>1, <2>3, <2>4, <2>5, Zenon DEF OrderInv
<1>4. CASE PollJoined
  <2>1. /\ setup' = setup /\ key' = key /\ waiting' = waiting
        /\ UNCHANGED <<reader, map, fetched, evictions>>
        /\ \A i \in Tasks : task'[i] = task[i] \/ task'[i] = NoTask
    BY <1>4, PollJoinedFields, Zenon DEF Steady, Cleared
  <2>2. Faultless => SharedInv'
    BY <1>n, <2>1, SharedKept, Zenon DEF OrderInv, SharedInv
  <2>3. Single => SingleInv'
    BY <2>1, Zenon DEF OrderInv, SingleInv
  <2>4. ExclInv'
    BY <1>0, <1>n, <2>1, ExclKept, Zenon DEF InFlight
  <2> QED
    BY <1>s, <2>1, <2>2, <2>3, <2>4, Zenon DEF OrderInv
<1>5. CASE Evict
  <2>1. setup' = setup /\ key' = key /\ reader' = reader /\ task' = task
    BY <1>5, Zenon DEF Evict, stores
  <2>2. ExclInv'
    BY <1>0, <2>1, ExclKept, Zenon DEF InFlight
  <2>3. Single => SingleInv'
    BY <2>1, Zenon DEF OrderInv, SingleInv
  <2> QED
    BY <1>5, <1>s, <2>1, <2>2, <2>3, EvictShared, Zenon DEF OrderInv
<1>6. CASE Environment
  <2>1. /\ setup' = setup /\ key' = key /\ (waiting' = waiting \/ ~waiting')
        /\ UNCHANGED <<reader, task, map, fetched, evictions>>
    BY <1>6, EnvironmentFields, Zenon
  <2>2. ExclInv'
    BY <1>0, <2>1, ExclKept, Zenon DEF InFlight
  <2>3. Single => SingleInv'
    BY <2>1, Zenon DEF OrderInv, SingleInv
  <2>4. Faultless => SharedInv'
    <3>1. SharedInv => ~waiting'
      BY <2>1, Zenon DEF SharedInv
    <3> QED
      BY <2>1, <3>1, SharedKept, Zenon DEF OrderInv, SharedInv
  <2> QED
    BY <1>s, <2>1, <2>2, <2>3, <2>4, Zenon DEF OrderInv
<1> QED
  BY <1>1, <1>2, <1>3, <1>4, <1>5, <1>6, Zenon DEF Next, Environment

-----------------------------------------------------------------------------
(* What is registered is stored *)

\* The payload that is served is not behind the version that is registered.
Covers(v) == UseLcut => key <= v

Stored == store # None /\ Covers(store)

\* Between the two stores the fetch carries what the registered version needs.
Carries(i) ==
  /\ task[i].pc = "store" => IF task[i].result = "unauthorized" THEN key = None
                             ELSE key # None => Stored \/ Covers(task[i].version)
  /\ task[i].pc = "storePut" => /\ Newer(task[i].version, store)
                                /\ key # None => Covers(task[i].version)

Between(i) == task[i].pc \in {"store", "storePut"}

DataInv ==
  /\ (\A i \in Tasks : ~Between(i)) => (key # None => Stored)
  /\ \A i \in Tasks : Carries(i)

\* Without clearing, what is registered is stored or on its way, whoever fetches.
KeptInv == key # None => store # None \/ \E i \in Tasks : Between(i)

LEMMA Integral ==
    ASSUME Typed
    PROVE  /\ key \in Int /\ store \in Int /\ None \in Int
           /\ \A i \in Tasks : task[i].version \in Int
<1>1. MaxVersion \in Nat /\ None \in Int /\ Versions \subseteq Int
  BY Numbers DEF None, Versions
<1>2. key \in 0..MaxVersion \cup {None} /\ store \in Versions \cup {None}
  BY Zenon DEF Typed, TypeOK
<1>3. \A i \in Tasks : task[i].version \in Versions \cup {None}
  <2>1. \A i \in Tasks : task[i] \in TaskRecord
    BY Shapes, Zenon DEF Typed
  <2> QED
    BY <2>1, Zenon DEF TaskRecord
<1>4. \A n \in 0..MaxVersion \cup {None} : n \in Int
  BY <1>1
<1>5. \A n \in Versions \cup {None} : n \in Int
  BY <1>1, Zenon
<1> QED
  BY <1>1, <1>2, <1>3, <1>4, <1>5, Zenon

LEMMA DataKept ==
    ASSUME Typed, DataInv, setup' = setup, key' = key, store' = store,
           \A i \in Tasks : task'[i] = task[i] \/ (~Between(i) /\ ~Between(i)')
    PROVE  DataInv'
<1>1. \A i \in Tasks : Between(i)' <=> Between(i)
  BY Zenon DEF Between
<1>2. ASSUME NEW i \in Tasks
      PROVE  Carries(i)'
  <2>1. Carries(i)
    BY Zenon DEF DataInv
  <2>2. CASE task'[i] = task[i]
    BY <2>1, <2>2, Zenon DEF Carries, Stored, Covers, UseLcut, Newer
  <2>3. CASE ~Between(i)'
    BY <2>3, Zenon DEF Carries, Between
  <2> QED
    BY <2>2, <2>3, Zenon
<1> QED
  BY <1>1, <1>2, Zenon DEF DataInv, Stored, Covers, UseLcut

\* While a fetch notifies, or is about to after its backup, no other one writes.
LEMMA Alone ==
    ASSUME Typed, ExclInv, NEW k \in Tasks, task[k].pc = "backup" \/ Notifying(k),
           NEW j \in Tasks, j # k
    PROVE  ~Between(j)
<1>1. Apart(j, k) /\ Apart(k, j)
  BY Zenon DEF ExclInv
<1> QED
  BY <1>1, Zenon DEF Apart, Between, Notifying

LEMMA KeyCheckData ==
    ASSUME Typed, ExclInv, DataInv, NEW k \in Tasks, KeyCheck(k)
    PROVE  DataInv'
<1>0. /\ setup' = setup /\ store' = store /\ task[k].pc = "key"
      /\ \A j \in Tasks \ {k} : task'[j] = task[j]
      /\ TypeOK /\ "store" \in TaskStates /\ "keyPut" \in TaskStates
  BY FetchMove, Zenon DEF KeyCheck, ProcessRequest, TaskStates, Typed
<1>1. /\ \A j \in Tasks : ~Between(j)
      /\ \A j \in Tasks \ {k} : ~Between(j)'
  BY <1>0, Alone, Zenon DEF Between, Notifying
<1>2. key # None => Stored
  BY <1>1, Zenon DEF DataInv
<1>3. \A j \in Tasks \ {k} : Carries(j)'
  BY <1>1, Zenon DEF Carries, Between
<1>4. CASE task[k].result = "unauthorized"
  <2>1. key' = None /\ Step(k, "store")
    BY <1>4, Zenon DEF KeyCheck
  <2>2. task'[k].pc = "store" /\ task'[k].result = task[k].result
    BY <1>0, <2>1, StepFields, Zenon
  <2>3. Carries(k)'
    BY <1>4, <2>1, <2>2, Zenon DEF Carries
  <2> QED
    BY <1>3, <2>1, <2>3, Zenon DEF DataInv
<1>5. CASE task[k].result # "unauthorized"
  <2>1. key' = key /\ \E pc \in {"keyPut", "store"} : Step(k, pc)
    BY <1>5, Zenon DEF KeyCheck
  <2>2. task'[k].pc \in {"keyPut", "store"} /\ task'[k].result = task[k].result
    BY <1>0, <2>1, StepFields, Zenon
  <2>3. (key # None => Stored)'
    BY <1>0, <1>2, <2>1, Zenon DEF Stored, Covers, UseLcut
  <2>4. Carries(k)'
    BY <1>5, <2>2, <2>3, Zenon DEF Carries
  <2> QED
    BY <1>3, <2>3, <2>4, Zenon DEF DataInv
<1> QED
  BY <1>4, <1>5, Zenon

LEMMA KeyPutData ==
    ASSUME Typed, ExclInv, DataInv, NEW k \in Tasks, KeyPut(k)
    PROVE  DataInv'
<1>0. /\ setup' = setup /\ task[k].pc = "keyPut" /\ key' = Lcut(k) /\ Step(k, "store")
      /\ \A j \in Tasks \ {k} : task'[j] = task[j]
      /\ TypeOK /\ "store" \in TaskStates
  BY FetchMove, Zenon DEF KeyPut, ProcessRequest, TaskStates, Typed
<1>1. /\ task'[k].pc = "store" /\ task'[k].result = task[k].result
      /\ task'[k].version = task[k].version
  BY <1>0, StepFields, Zenon
<1>2. \A j \in Tasks \ {k} : Carries(j)'
  <2>1. \A j \in Tasks \ {k} : ~Between(j)
    BY <1>0, Alone, Zenon DEF Notifying
  <2> QED
    BY <1>0, <2>1, Zenon DEF Carries, Between
<1>3. task[k].result # "unauthorized" /\ task[k].version \in Int
  BY <1>0, Integral, Zenon DEF Typed, Told
<1>4. Covers(task[k].version)'
  BY <1>0, <1>1, <1>3, SMTT(30) DEF Covers, UseLcut, Lcut
<1>5. Carries(k)'
  BY <1>1, <1>3, <1>4, Zenon DEF Carries
<1>6. Between(k)'
  BY <1>1, Zenon DEF Between
<1> QED
  BY <1>2, <1>5, <1>6, Zenon DEF DataInv

LEMMA StoreCheckData ==
    ASSUME Typed, ExclInv, DataInv, NEW k \in Tasks, StoreCheck(k)
    PROVE  DataInv'
<1>0. /\ setup' = setup /\ key' = key /\ task[k].pc = "store"
      /\ \A j \in Tasks \ {k} : task'[j] = task[j]
      /\ TypeOK /\ "storePut" \in TaskStates /\ "record" \in TaskStates /\ Carries(k)
  BY FetchMove, Zenon DEF StoreCheck, ProcessRequest, TaskStates, Typed, DataInv
<1>2. \A j \in Tasks \ {k} : ~Between(j)' /\ Carries(j)'
  <2>1. \A j \in Tasks \ {k} : ~Between(j)
    BY <1>0, Alone, Zenon DEF Notifying
  <2> QED
    BY <1>0, <2>1, Zenon DEF Carries, Between
<1>3. /\ key \in Int /\ store \in Int /\ task[k].version \in Int
  BY Integral, Zenon
<1>4. CASE task[k].result = "unauthorized"
  <2>1. key = None /\ Step(k, "record")
    BY <1>0, <1>4, Zenon DEF StoreCheck, Carries
  <2>2. task'[k].pc = "record"
    BY <1>0, <2>1, StepFields, Zenon
  <2>3. Carries(k)'
    BY <2>2, Zenon DEF Carries
  <2> QED
    BY <1>0, <1>2, <2>1, <2>3, Zenon DEF DataInv
<1>5. CASE task[k].result # "unauthorized" /\ Newer(task[k].version, store)
  <2>1. store' = store /\ Step(k, "storePut")
    BY <1>5, Zenon DEF StoreCheck
  <2>2. task'[k].pc = "storePut" /\ task'[k].version = task[k].version
    BY <1>0, <2>1, StepFields, Zenon
  <2>3. key # None => Covers(task[k].version)
    <3>1. CASE UseLcut
      BY <1>0, <1>3, <1>5, <3>1 DEF Carries, Stored, Covers, Newer
    <3>2. CASE ~UseLcut
      BY <3>2, Zenon DEF Covers
    <3> QED
      BY <3>1, <3>2, Zenon
  <2>4. Carries(k)'
    BY <1>0, <1>5, <2>1, <2>2, <2>3, Zenon DEF Carries, Covers, Newer, UseLcut
  <2>5. Between(k)'
    BY <2>2, Zenon DEF Between
  <2> QED
    BY <1>2, <2>4, <2>5, Zenon DEF DataInv
<1>6. CASE task[k].result # "unauthorized" /\ ~Newer(task[k].version, store)
  <2>1. store' = store /\ Step(k, "record")
    BY <1>6, Zenon DEF StoreCheck
  <2>2. task'[k].pc = "record"
    BY <1>0, <2>1, StepFields, Zenon
  <2>3. key # None => Stored
    BY <1>0, <1>3, <1>6 DEF Carries, Stored, Covers, Newer
  <2>4. Carries(k)'
    BY <2>2, Zenon DEF Carries
  <2> QED
    BY <1>0, <1>2, <2>1, <2>3, <2>4, Zenon DEF DataInv, Stored, Covers, UseLcut
<1> QED
  BY <1>4, <1>5, <1>6, Zenon

LEMMA StorePutData ==
    ASSUME Typed, ExclInv, DataInv, NEW k \in Tasks, StorePut(k)
    PROVE  DataInv'
<1>0. /\ setup' = setup /\ key' = key /\ task[k].pc = "storePut" /\ store' = task[k].version
      /\ Carries(k)
  BY Zenon DEF StorePut, DataInv
<1>1. /\ \A j \in Tasks \ {k} : task'[j] = task[j]
      /\ task'[k].pc = "record"
  BY <1>0, FetchMove, Zenon DEF StorePut, ProcessRequest, KeyCheck, KeyPut, StoreCheck
<1>2. \A j \in Tasks : Carries(j)'
  <2>1. \A j \in Tasks \ {k} : ~Between(j)
    BY <1>0, Alone, Zenon DEF Notifying
  <2> QED
    BY <1>1, <2>1, Zenon DEF Carries, Between
<1>3. task[k].version # None
  <2>1. Told(k) /\ Notifying(k)
    BY <1>0, Zenon DEF Typed, Notifying
  <2> QED
    BY <1>0, <2>1, Numbers, Zenon DEF Told
<1>4. (key # None => Stored)'
  BY <1>0, <1>3, Zenon DEF Carries, Stored, Covers, UseLcut
<1> QED
  BY <1>2, <1>4, Zenon DEF DataInv

LEMMA DataStep ==
    ASSUME Typed, ExclInv, DataInv, [Next]_vars
    PROVE  DataInv'
<1>0. NoTask.pc = "none" /\ Readers \subseteq Tasks /\ Poller \in Tasks
  BY Numbers, Zenon DEF NoTask
<1>1. ASSUME NEW k \in Tasks, ProcessRequest(k) \/ Failed(k) \/ GuardTimeout(k)
      PROVE  DataInv'
  <2>1. setup' = setup /\ \A j \in Tasks \ {k} : task'[j] = task[j]
    BY <1>1, FetchMove, Zenon
  <2>2. CASE key' = key /\ store' = store /\ ~Between(k) /\ ~Between(k)'
    BY <2>1, <2>2, DataKept, Zenon
  <2>3. CASE task[k].pc = "backup" /\ task'[k].pc = "store" /\ key' = key /\ store' = store
    <3>1. \A j \in Tasks : ~Between(j)
      BY <2>3, Alone, Zenon DEF Between
    <3>2. (key # None => Stored)'
      BY <2>1, <2>3, <3>1, Zenon DEF DataInv, Stored, Covers, UseLcut
    <3>3. \A j \in Tasks \ {k} : Carries(j)'
      BY <2>1, <3>1, Zenon DEF Carries, Between
    <3>4. task'[k].result = "error"
      BY <1>1, <2>3, FetchMove, Zenon DEF KeyCheck, KeyPut, StoreCheck, StorePut
    <3>5. Carries(k)'
      BY <2>3, <3>2, <3>4, Zenon DEF Carries
    <3> QED
      BY <3>2, <3>3, <3>5, Zenon DEF DataInv
  <2> QED
    BY <1>1, <2>2, <2>3, FetchMove, KeyCheckData, KeyPutData, StoreCheckData, StorePutData, Zenon DEF Between
<1>2. ASSUME NEW r \in Readers, ForegroundFetch(r) \/ BuildFails(r) \/ Drop(r)
      PROVE  DataInv'
  <2>1. CASE task' = task /\ Steady
    BY <2>1, DataKept, Zenon DEF Steady
  <2>2. CASE Prepare(r) \/ BuildFails(r)
    <3>1. task[r].pc = "none"
      BY <2>2, PrepareFields, Zenon DEF Typed, Await
    <3>2. Steady /\ \A i \in Tasks : task'[i] = task[i] \/ (i = r /\ task'[i].pc = "sent")
      BY <2>2, PrepareFields, Zenon
    <3> QED
      BY <3>1, <3>2, DataKept, Zenon DEF Steady, Between
  <2>3. CASE Joined(r)
    <3>1. /\ Steady /\ task[r].pc = "done"
          /\ \A i \in Tasks : task'[i] = task[i] \/ (i = r /\ task'[i] = NoTask)
      BY <2>3, JoinedFields, Zenon DEF Cleared
    <3> QED
      BY <1>0, <3>1, DataKept, Zenon DEF Steady, Between
  <2>4. CASE Drop(r)
    <3>1. /\ Steady /\ task[r].pc \in {"none", "sent", "backup", "done"}
          /\ \A i \in Tasks : task'[i] = task[i] \/ (i = r /\ task'[i] = NoTask)
      BY <2>4, DropFields, Zenon DEF Cleared, Typed, Await
    <3> QED
      BY <1>0, <3>1, DataKept, Zenon DEF Steady, Between
  <2>5. CASE Miss(r) \/ Enter(r) \/ Check(r) \/ Acquire(r) \/ Unmap(r)
    <3>1. task' = task /\ Steady
      BY <2>5, Zenon DEF Miss, Enter, Check, Acquire, Unmap, Steady, stores
    <3> QED
      BY <2>1, <3>1, Zenon
  <2> QED
    BY <1>2, <2>2, <2>3, <2>4, <2>5, Zenon DEF ForegroundFetch
<1>3. CASE Poll
  <2>1. /\ Steady /\ task[Poller].pc = "none"
        /\ \A i \in Tasks : task'[i] = task[i] \/ (i = Poller /\ task'[i].pc = "sent")
    BY <1>3, PollFields, Zenon
  <2> QED
    BY <2>1, DataKept, Zenon DEF Steady, Between
<1>4. CASE PollJoined
  <2>1. /\ Steady /\ task[Poller].pc = "done"
        /\ \A i \in Tasks : task'[i] = task[i] \/ (i = Poller /\ task'[i] = NoTask)
    BY <1>4, PollJoinedFields, Zenon DEF Cleared
  <2> QED
    BY <1>0, <2>1, DataKept, Zenon DEF Steady, Between
<1>5. CASE Evict \/ Environment
  <2>1. setup' = setup /\ key' = key /\ store' = store /\ task' = task
    BY <1>5, EnvironmentFields, Zenon DEF Evict, stores
  <2> QED
    BY <2>1, DataKept, Zenon
<1> QED
  BY <1>1, <1>2, <1>3, <1>4, <1>5, Zenon DEF Next, Environment

\* What is registered is never lost sight of: nothing but a refusal empties a store.
LEMMA KeptStep ==
    ASSUME Typed, KeptInv, ~setup.clear, [Next]_vars
    PROVE  KeptInv'
<1>0. NoTask.pc = "none" /\ Readers \subseteq Tasks /\ Poller \in Tasks
  BY Numbers, Zenon DEF NoTask
<1>k. ASSUME key' = key, store' = store, \A i \in Tasks : Between(i) => task'[i] = task[i]
      PROVE  KeptInv'
  BY <1>k, Zenon DEF KeptInv, Between
<1>1. ASSUME NEW k \in Tasks, ProcessRequest(k) \/ Failed(k) \/ GuardTimeout(k)
      PROVE  KeptInv'
  <2>1. TypeOK /\ Told(k) /\ \A j \in Tasks \ {k} : task'[j] = task[j]
    BY <1>1, FetchMove, Zenon DEF Typed
  <2>2. CASE key' = key /\ store' = store /\ ~Between(k)
    BY <1>k, <2>1, <2>2, Zenon
  <2>3. CASE KeyCheck(k)
    <3>1. key' = key /\ store' = store /\ ~Between(k)
      BY <2>1, <2>3, Zenon DEF KeyCheck, Told, Notifying, Between
    <3> QED
      BY <2>2, <3>1, Zenon
  <2>4. CASE KeyPut(k)
    <3>1. task'[k].pc = "store"
      BY <1>1, <2>4, FetchMove, Zenon DEF KeyPut, KeyCheck, StoreCheck, StorePut
    <3> QED
      BY <3>1, Zenon DEF KeptInv, Between
  <2>5. CASE StoreCheck(k)
    <3>1. task[k].result # "unauthorized" /\ key' = key /\ store' = store
      BY <2>1, <2>5, Zenon DEF StoreCheck, Told, Notifying
    <3>2. CASE store = None
      <4>1. Step(k, "storePut") /\ "storePut" \in TaskStates
        BY <2>5, <3>1, <3>2, Zenon DEF StoreCheck, Newer, TaskStates
      <4>2. task'[k].pc = "storePut"
        BY <2>1, <4>1, StepFields, Zenon
      <4> QED
        BY <4>2, Zenon DEF KeptInv, Between
    <3>3. CASE store # None
      BY <3>1, <3>3, Zenon DEF KeptInv
    <3> QED
      BY <3>2, <3>3, Zenon
  <2>6. CASE StorePut(k)
    <3>1. store' \in Versions
      BY <2>1, <2>6, Zenon DEF StorePut, Told, Notifying
    <3> QED
      BY <3>1, Numbers, Zenon DEF KeptInv
  <2> QED
    BY <1>1, <2>2, <2>3, <2>4, <2>5, <2>6, FetchMove, Zenon DEF Between
<1>2. ASSUME NEW r \in Readers, ForegroundFetch(r) \/ BuildFails(r) \/ Drop(r)
      PROVE  KeptInv'
  <2>1. CASE Prepare(r) \/ BuildFails(r)
    <3>1. task[r].pc = "none" /\ Steady /\ \A i \in Tasks : task'[i] = task[i] \/ i = r
      BY <2>1, PrepareFields, Zenon DEF Typed, Await
    <3> QED
      BY <1>k, <3>1, Zenon DEF Steady, Between
  <2>2. CASE Joined(r)
    BY <1>k, <2>2, JoinedFields, Zenon DEF Cleared, Steady, Between
  <2>3. CASE Drop(r)
    <3>1. /\ Steady /\ task[r].pc \in {"none", "sent", "backup", "done"}
          /\ \A i \in Tasks : task'[i] = task[i] \/ i = r
      BY <2>3, DropFields, Zenon DEF Cleared, Typed, Await
    <3> QED
      BY <1>k, <3>1, Zenon DEF Steady, Between
  <2>4. CASE Miss(r) \/ Enter(r) \/ Check(r) \/ Acquire(r) \/ Unmap(r)
    <3>1. task' = task /\ key' = key /\ store' = store
      BY <2>4, Zenon DEF Miss, Enter, Check, Acquire, Unmap, stores
    <3> QED
      BY <1>k, <3>1, Zenon
  <2> QED
    BY <1>2, <2>1, <2>2, <2>3, <2>4, Zenon DEF ForegroundFetch
<1>3. CASE Poll
  BY <1>3, <1>k, PollFields, Zenon DEF Steady, Between
<1>4. CASE PollJoined
  BY <1>4, <1>k, PollJoinedFields, Zenon DEF Steady, Cleared, Between
<1>5. CASE Evict \/ Environment
  <2>1. key' = key /\ store' = store /\ task' = task
    BY <1>5, EnvironmentFields, Zenon DEF Evict, stores
  <2> QED
    BY <1>k, <2>1, Zenon
<1> QED
  BY <1>1, <1>2, <1>3, <1>4, <1>5, Zenon DEF Next, Environment

-----------------------------------------------------------------------------
(* The theorems *)

PipelineInv ==
  /\ Typed
  /\ Orderly => OrderInv /\ DataInv
  /\ ~setup.clear => KeptInv

LEMMA PipelineInit == Init => PipelineInv
<1> SUFFICES ASSUME Init PROVE PipelineInv
  BY Zenon
<1>1. Typed
  BY InitTyped, Zenon
<1>2. /\ \A r \in Readers : reader[r].pc = "idle"
      /\ \A i \in Tasks : task[i].pc = "none" /\ task[i].result = "nodata"
      /\ Readers \subseteq Tasks /\ Poller \in Tasks
      /\ key = None /\ map = None /\ evictions = 0 /\ ~waiting
  BY Numbers, Zenon DEF Init, Idle, NoTask
<1>3. ExclInv
  BY <1>2, Zenon DEF ExclInv, Ahead, InFlight, Apart, Notifying
<1>4. SharedInv
  BY <1>2 DEF SharedInv, Waiter, InFlight
<1>5. SingleInv
  BY <1>2, Zenon DEF SingleInv
<1>6. DataInv /\ KeptInv
  BY <1>2, Zenon DEF DataInv, Carries, KeptInv
<1> QED
  BY <1>1, <1>3, <1>4, <1>5, <1>6, Zenon DEF PipelineInv, OrderInv

LEMMA SetupFixed == Typed /\ [Next]_vars => setup' = setup
<1> SUFFICES ASSUME Typed, [Next]_vars PROVE setup' = setup
  BY Zenon
<1>1. ASSUME NEW r \in Readers, ForegroundFetch(r) \/ BuildFails(r) \/ Drop(r)
      PROVE  setup' = setup
  BY <1>1, Zenon DEF ForegroundFetch, Miss, Enter, Check, Acquire, Prepare, Unmap, Joined, BuildFails, Drop
<1>2. ASSUME NEW i \in Tasks, ProcessRequest(i) \/ Failed(i) \/ GuardTimeout(i)
      PROVE  setup' = setup
  BY <1>2, FetchMove, Zenon
<1>3. Poll \/ PollJoined \/ Evict => setup' = setup
  BY Zenon DEF Poll, PollJoined, Evict
<1> QED
  BY <1>1, <1>2, <1>3, EnvironmentFields, Zenon DEF Next, Environment

LEMMA PipelineStep == PipelineInv /\ [Next]_vars => PipelineInv'
<1> SUFFICES ASSUME PipelineInv, [Next]_vars PROVE PipelineInv'
  BY Zenon
<1>1. Typed /\ Typed' /\ setup' = setup
  BY StepTyped, SetupFixed, Zenon DEF PipelineInv
<1>2. Orderly' <=> Orderly
  BY <1>1, Zenon DEF Orderly, Excluded, UseLcut
<1>3. Orderly => OrderInv' /\ DataInv'
  BY <1>1, OrderStep, DataStep, Zenon DEF PipelineInv, OrderInv
<1>4. ~setup.clear => KeptInv'
  BY <1>1, KeptStep, Zenon DEF PipelineInv
<1> QED
  BY <1>1, <1>2, <1>3, <1>4, Zenon DEF PipelineInv

LEMMA PipelineAlways == Spec => []PipelineInv
  BY PipelineInit, PipelineStep, PTL DEF Spec

\* No two fetches are between the first and the last write of their observers at
\* the same time, although each of them checks and writes under separate locks: a
\* reader fetches what is not registered and the poller what is, and the locks of
\* foreground_fetch let one reader through.
OneNotifies ==
  Orderly => \A i, j \in Tasks : Notifying(i) /\ Notifying(j) => i = j

\* The notifications of fetches exclude each other (notify_all, foreground_fetch).
THEOREM NotifiesAlone == Spec => []OneNotifies
<1>1. PipelineInv => OneNotifies
  BY Zenon DEF PipelineInv, OrderInv, ExclInv, Apart, OneNotifies, Notifying
<1> QED
  BY <1>1, PipelineAlways, PTL

\* At most one reader at a time is behind the lock of foreground_fetch, across
\* evictions of the lock from the map and calls that are dropped.
SingleFlight ==
  Orderly => \A r, q \in Readers : InFlight(r) /\ InFlight(q) => r = q

\* Foreground fetches of a context exclude each other (foreground_fetch).
THEOREM FetchesAlone == Spec => []SingleFlight
<1>1. PipelineInv => SingleFlight
  BY Zenon DEF PipelineInv, OrderInv, ExclInv, SingleFlight
<1> QED
  BY <1>1, PipelineAlways, PTL

\* Whenever no fetch is between the two stores, a registered context has a payload,
\* so that no reader is answered as if its key were refused.  Without clearing this
\* needs no order of the fetches at all; with clearing it needs that they notify one
\* at a time.
THEOREM RegisteredStored == Spec => []RegisteredIsStored
<1>1. PipelineInv => RegisteredIsStored
  <2> SUFFICES ASSUME PipelineInv, setup.clear => Orderly, Quiet, key # None PROVE store # None
    BY Zenon DEF RegisteredIsStored
  <2>1. \A i \in Tasks : ~Between(i)
    BY Zenon DEF Quiet, Between
  <2> QED
    BY <2>1, Zenon DEF PipelineInv, DataInv, Stored, KeptInv
<1> QED
  BY <1>1, PipelineAlways, PTL

\* The poller never asks from a version that is ahead of the payload: the origin
\* would answer that there is no update, and the payload would stay behind.
THEOREM PollsFromStored == Spec => []PollFromStored
<1>1. PipelineInv => PollFromStored
  <2> SUFFICES ASSUME PipelineInv, Orderly, Quiet, UseLcut, key # None PROVE key <= store
    BY Zenon DEF PollFromStored
  <2>1. \A i \in Tasks : ~Between(i)
    BY Zenon DEF Quiet, Between
  <2> QED
    BY <2>1, Zenon DEF PipelineInv, DataInv, Stored, Covers
<1> QED
  BY <1>1, PipelineAlways, PTL

\* A payload is never replaced by an older one, whatever stale edges and old backups
\* answer: the version that was compared is still the one in the store when the
\* write comes.
THEOREM StoreForward == Spec => NeverOlder
<1>1. ASSUME PipelineInv, [Next]_vars
      PROVE  [Orderly /\ UseLcut /\ store # None /\ store' # None => store' >= store]_vars
  <2> SUFFICES ASSUME Orderly, UseLcut, store # None, store' # None PROVE store' >= store
    BY Zenon
  <2>0. Typed /\ DataInv /\ store \in Int
    BY <1>1, Integral, Zenon DEF PipelineInv
  <2>1. store' = store \/ \E k \in Tasks : StoreCheck(k) \/ StorePut(k)
    <3>1. ASSUME NEW k \in Tasks, ProcessRequest(k) \/ Failed(k) \/ GuardTimeout(k)
          PROVE  store' = store \/ StoreCheck(k) \/ StorePut(k)
      BY <2>0, <3>1, FetchMove, Zenon DEF KeyCheck, KeyPut
    <3>2. ASSUME NEW r \in Readers, ForegroundFetch(r) \/ BuildFails(r) \/ Drop(r)
          PROVE  store' = store
      BY <3>2, Zenon DEF ForegroundFetch, Miss, Enter, Check, Acquire, Prepare, Unmap, Joined, BuildFails,
         Drop, stores
    <3>3. Poll \/ PollJoined \/ Evict \/ Environment => store' = store
      BY EnvironmentFields, Zenon DEF Poll, PollJoined, Evict, stores
    <3> QED
      BY <1>1, <3>1, <3>2, <3>3, Zenon DEF Next, Environment
  <2>2. ASSUME NEW k \in Tasks, StoreCheck(k)
        PROVE  store' = store
    BY <2>2, Zenon DEF StoreCheck
  <2>3. ASSUME NEW k \in Tasks, StorePut(k)
        PROVE  store' > store
    <3>1. Newer(task[k].version, store) /\ store' = task[k].version
      BY <2>0, <2>3, Zenon DEF StorePut, DataInv, Carries
    <3> QED
      BY <3>1, Zenon DEF Newer
  <2>4. store' = store \/ store' > store
    BY <2>1, <2>2, <2>3, Zenon
  <2>5. store' \in Int
    <3>1. ASSUME NEW k \in Tasks, StorePut(k)
          PROVE  store' \in Int
      BY <2>0, <3>1, Integral, Zenon DEF StorePut
    <3> QED
      BY <2>0, <2>1, <2>2, <3>1, Zenon
  <2> QED
    BY <2>0, <2>4, <2>5
<1> QED
  BY <1>1, PipelineAlways, PTL DEF Spec, NeverOlder
=============================================================================
