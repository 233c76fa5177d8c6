------------------------- MODULE IdListSync_proofs --------------------------
(***************************************************************************)
(* Type correctness of IdListSync, for every set of pods and members,      *)
(* every file and manifest history, and every fault budget: the workers,   *)
(* then what they keep in Redis, then the producer and the environment.    *)
(***************************************************************************)
EXTENDS IdListSync, FiniteSetTheorems, TLAPS

-----------------------------------------------------------------------------
(* Shapes.                                                                 *)

\* What the proofs use of the constants, one fact at a time.
LEMMA ConstantFacts ==
    /\ IsFiniteSet(Members) /\ MaxToken \in Nat /\ Batch \in Nat
    /\ History \in Seq(Entry) /\ Len(History) \in Nat /\ Len(History) > 0
<1>1. /\ IsFiniteSet(Members) /\ MaxToken \in Nat
      /\ History \in Seq(Entry) /\ Len(History) > 0
  BY ConstantsAssumption, Zenon
<1>2. Len(History) \in Nat
  BY <1>1
<1>3. [pipeline_batch_size |-> Batch, diff_partition_max_members |-> PartitionMax]
        \in IdListWorkerConfig
  BY ConstantsAssumption, Zenon
<1>4. Batch \in Nat
  BY <1>3 DEF IdListWorkerConfig
<1> QED
  BY <1>1, <1>2, <1>4, Zenon

\* A set of members has a natural number of elements.
LEMMA CountNat ==
    ASSUME NEW S \in SUBSET Members
    PROVE  Count(S) \in Nat
  BY FS_Subset, FS_CardinalityType, ConstantFacts, Zenon DEF Count

\* The values that stand for "nothing" have the shape of a state, task, worker.
LEMMA NothingTyped ==
    /\ NoVersion \in Version
    /\ NoVersion \in Versions
    /\ NoState \in ListSyncState
    /\ NoTask \in Task
    /\ Tag(NoTask) = NoVersion
    /\ NoEntry \in Entry
    /\ Tag(NoEntry) = NoVersion
    /\ IdleWorker \in WorkerRecord
    /\ NoTick \in [plan : ProducerPlans, entry : Entry]
<1>1. NoVersion \in Version /\ NoVersion \in Versions
  BY Zenon DEF NoVersion, Version, Versions
<1>2. NoState \in ListSyncState
  BY <1>1, Zenon DEF NoState, ListSyncState, Absent
<1>3. NoTask \in Task /\ Tag(NoTask) = NoVersion
  BY Zenon DEF NoTask, Task, TaskOps, Tag, NoVersion
<1>4. NoEntry \in Entry /\ Tag(NoEntry) = NoVersion
  BY Zenon DEF NoEntry, Entry, Tag, NoVersion
<1>5. 0 \in Tokens /\ "idle" \in Steps
  BY ConstantFacts DEF Tokens, Steps
<1>6. IdleWorker \in WorkerRecord
  BY <1>2, <1>3, <1>5, Zenon DEF IdleWorker, WorkerRecord
<1>7. NoTick \in [plan : ProducerPlans, entry : Entry]
  BY <1>4, Zenon DEF NoTick, ProducerPlans
<1> QED
  BY <1>1, <1>2, <1>3, <1>4, <1>6, <1>7, Zenon

\* Every version the manifest ever advertises is in Version.
LEMMA VersionsTyped ==
    /\ Versions \subseteq Version
    /\ \A i \in 1..Len(History) : History[i] \in Entry /\ Tag(History[i]) \in Versions
<1>1. \A i \in 1..Len(History) : History[i] \in Entry
  BY ConstantFacts
<1>2. \A i \in 1..Len(History) : Tag(History[i]) \in Version
  BY <1>1, Zenon DEF Entry, Tag, Version
<1> QED
  BY <1>1, <1>2, NothingTyped, Zenon DEF Versions

-----------------------------------------------------------------------------
(* Workers.                                                                *)

WorkersTyped == wk \in [Pods -> WorkerRecord]

WorkersKnown ==
    \A p \in Pods : {Tag(wk[p].meta), wk[p].st.version, wk[p].st.loading} \subseteq Versions

\* A worker that changes neither its snapshot nor its task.
LEMMA BecomeKeeps ==
    ASSUME NEW w \in Pods, WorkersTyped, WorkersKnown, NEW r \in WorkerRecord,
           r.st = wk[w].st, r.meta = wk[w].meta, Become(w, r)
    PROVE  WorkersTyped' /\ WorkersKnown'
<1>1. wk' \in [Pods -> WorkerRecord]
  BY Zenon DEF Become, WorkersTyped
<1>2. \A p \in Pods : wk'[p] = IF p = w THEN r ELSE wk[p]
  BY Zenon DEF Become, WorkersTyped
<1>3. \A p \in Pods : wk'[p].st = wk[p].st /\ wk'[p].meta = wk[p].meta
  BY <1>2, Zenon
<1> QED
  BY <1>1, <1>3 DEF WorkersTyped, WorkersKnown, Tag

\* A worker that only moves on to another step.
LEMMA GotoKeeps ==
    ASSUME NEW w \in Pods, WorkersTyped, WorkersKnown, NEW step \in Steps, Goto(w, step)
    PROVE  WorkersTyped' /\ WorkersKnown'
<1> DEFINE r == [wk[w] EXCEPT !.pc = step]
<1>1. wk[w] \in WorkerRecord
  BY Zenon DEF WorkersTyped
<1>2. r \in WorkerRecord /\ r.st = wk[w].st /\ r.meta = wk[w].meta
  BY <1>1, Zenon DEF WorkerRecord
<1>3. Become(w, r)
  BY Zenon DEF Goto
<1> QED
  BY <1>2, <1>3, BecomeKeeps, Zenon

\* A worker that stops working.
LEMMA IdleKeeps ==
    ASSUME NEW w \in Pods, WorkersTyped, WorkersKnown, Become(w, IdleWorker)
    PROVE  WorkersTyped' /\ WorkersKnown'
<1>1. wk' \in [Pods -> WorkerRecord]
  BY NothingTyped, Zenon DEF Become, WorkersTyped
<1>2. \A p \in Pods : wk'[p] = IF p = w THEN IdleWorker ELSE wk[p]
  BY Zenon DEF Become, WorkersTyped
<1>3. /\ Tag(IdleWorker.meta) \in Versions
      /\ IdleWorker.st.version \in Versions
      /\ IdleWorker.st.loading \in Versions
  BY NothingTyped, Zenon DEF IdleWorker, NoState
<1> QED
  BY <1>1, <1>2, <1>3, Zenon DEF WorkersTyped, WorkersKnown

\* The task a worker reads is a task for a known version.
LEMMA TargetTyped ==
    ASSUME NEW s \in ListSyncState, s.version \in Versions, NEW on \in BOOLEAN,
           NEW e, e.file \in Files \cup {NoFile}, e.ctime \in Nat, e.size \in Nat,
           Tag(e) \in Versions
    PROVE  /\ LoadTask(SyncTarget(s, e, on)) \in Task
           /\ Tag(LoadTask(SyncTarget(s, e, on))) \in Versions
<1> DEFINE t == SyncTarget(s, e, on)
<1>1. t = e \/ t = CommittedEntry(s)
  BY Zenon DEF SyncTarget
<1>2. CASE t = e
  BY <1>2, Zenon DEF LoadTask, Task, TaskOps, Tag
<1>3. CASE t = CommittedEntry(s)
  <2>1. s.version \in Version /\ s.size \in Nat
    BY Zenon DEF ListSyncState
  <2>2. s.version = [file |-> s.version.file, ctime |-> s.version.ctime]
    BY <2>1, Zenon DEF Version
  <2> QED
    BY <1>3, <2>1, <2>2 DEF CommittedEntry, LoadTask, Task, TaskOps, Tag, Version
<1> QED
  BY <1>1, <1>2, <1>3, Zenon

\* run_claimed and plan_work leave a well-formed record: the task is for a known
\* version whether it comes from task_meta or from the committed state.
LEMMA ReadKeeps ==
    ASSUME TypeOK, NEW w \in Pods, ReadTask(w)
    PROVE  WorkersTyped' /\ WorkersKnown'
<1> DEFINE removal == [meta EXCEPT !.op = "remove"]
           load == LoadTask(SyncTarget(st, meta, enable))
<1>1. WorkersTyped /\ WorkersKnown /\ wk[w] \in WorkerRecord
  BY Zenon DEF TypeOK, WorkersTyped, WorkersKnown
<1>2. {"release", "remove", "reload", "delta", "markDict"} \subseteq Steps
  BY Zenon DEF Steps, ClaimedSteps, RemoveSteps, ReloadSteps, DeltaSteps
<1>3. removal \in Task /\ Tag(removal) \in Versions
  BY Zenon DEF TypeOK, Task, TaskOps, Tag
<1>4. load \in Task /\ Tag(load) \in Versions
  <2>1. /\ st \in ListSyncState /\ st.version \in Versions /\ enable \in BOOLEAN
        /\ Tag(meta) \in Versions /\ meta \in Task
    BY Zenon DEF TypeOK
  <2>2. meta.file \in Files \cup {NoFile} /\ meta.ctime \in Nat /\ meta.size \in Nat
    BY <2>1, Zenon DEF Task
  <2> QED
    BY <2>1, <2>2, TargetTyped, Zenon
<1>5. ASSUME NEW first \in Steps, NEW task \in Task, Tag(task) \in Versions,
             Begin(w, first, task)
      PROVE  WorkersTyped' /\ WorkersKnown'
  <2> DEFINE r == [wk[w] EXCEPT !.pc = IF enable THEN first ELSE "markDict",
                                !.next = first, !.st = st, !.meta = task]
  <2>1. st \in ListSyncState /\ {st.version, st.loading} \subseteq Versions
    BY Zenon DEF TypeOK
  <2>2. r \in WorkerRecord
    BY <1>1, <1>2, <1>5, <2>1, Zenon DEF WorkerRecord
  <2>3. r.st = st /\ r.meta = task
    BY <1>1, Zenon DEF WorkerRecord
  <2>4. Become(w, r)
    BY <1>5, Zenon DEF Begin
  <2>5. wk' \in [Pods -> WorkerRecord] /\ \A p \in Pods : wk'[p] = IF p = w THEN r ELSE wk[p]
    BY <1>1, <2>2, <2>4, Zenon DEF Become, WorkersTyped
  <2>6. WorkersKnown'
    <3> SUFFICES ASSUME NEW p \in Pods
                 PROVE  {Tag(wk'[p].meta), wk'[p].st.version, wk'[p].st.loading} \subseteq Versions
      BY Zenon DEF WorkersKnown
    <3>1. CASE p = w
      <4>1. wk'[p] = r
        BY <3>1, <2>5, Zenon
      <4> QED
        BY <4>1, <2>1, <2>3, <1>5
    <3>2. CASE p # w
      BY <3>2, <2>5, <1>1 DEF WorkersKnown
    <3> QED
      BY <3>1, <3>2, Zenon
  <2> QED
    BY <2>5, <2>6, Zenon DEF WorkersTyped
<1>6. \/ Stop(w)
      \/ Begin(w, "remove", removal)
      \/ Begin(w, "reload", load)
      \/ Begin(w, "delta", load)
  BY Zenon DEF ReadTask
<1>7. CASE Stop(w)
  BY <1>1, <1>2, <1>7, GotoKeeps, Zenon DEF Stop
<1> QED
  BY <1>2, <1>3, <1>4, <1>5, <1>6, <1>7, Zenon

\* Whatever a worker does, its record keeps its shape and names known versions.
LEMMA WorkKeeps ==
    ASSUME TypeOK, NEW w \in Pods, Work(w)
    PROVE  WorkersTyped' /\ WorkersKnown'
<1> DEFINE r0 == wk[w]
           Kept(r) == r \in WorkerRecord /\ r.st = r0.st /\ r.meta = r0.meta /\ Become(w, r)
<1>1. WorkersTyped /\ WorkersKnown /\ r0 \in WorkerRecord /\ r0.next \in Steps
  BY Zenon DEF TypeOK, WorkersTyped, WorkersKnown, WorkerRecord
<1>2. ASSUME NEW r, Kept(r) PROVE WorkersTyped' /\ WorkersKnown'
  BY <1>1, <1>2, BecomeKeeps, Zenon
<1>3. ASSUME NEW step \in Steps, Goto(w, step) PROVE WorkersTyped' /\ WorkersKnown'
  BY <1>1, <1>3, GotoKeeps, Zenon
<1>4. /\ fwd \in [Versions -> SUBSET Members]
      /\ token \in Tokens /\ lastToken \in Tokens
      /\ st \in ListSyncState
      /\ r0.st.version \in Versions /\ Tag(r0.meta) \in Versions
  BY Zenon DEF TypeOK
<1>5. fwd[r0.st.version] \in SUBSET Members /\ NewSet(w) \in SUBSET Members
  BY <1>4, Zenon DEF NewSet
<1>6. ASSUME TokenFor(w) <= MaxToken PROVE TokenFor(w) \in Tokens
  BY <1>4, <1>6, ConstantFacts DEF TokenFor, Tokens
<1> HIDE DEF r0
<1>10. CASE ClaimTask(w)
  <2>1. "read" \in Steps
    BY Zenon DEF Steps, ClaimedSteps
  <2>2. Goto(w, "read") \/ Become(w, IdleWorker)
    BY <1>10, Zenon DEF ClaimTask
  <2> QED
    BY <2>1, <2>2, <1>1, <1>3, IdleKeeps, Zenon
<1>11. CASE ReadTask(w)
  BY <1>11, ReadKeeps, Zenon
<1>12. CASE Release(w)
  BY <1>12, <1>1, IdleKeeps, Zenon DEF Release
<1>13. CASE MarkDict(w) \/ MarkState(w)
  <2>1. "markState" \in Steps
    BY Zenon DEF Steps, ClaimedSteps
  <2> QED
    BY <2>1, <1>13, <1>1, <1>3, Zenon DEF MarkDict, MarkState, r0
<1>14. CASE DeltaBegin(w) \/ DeltaReverse(w) \/ DeltaCheckpoint(w)
  <2>1. {"deltaToken", "deltaFwd", "release", "deltaNext"} \subseteq Steps
    BY Zenon DEF Steps, ClaimedSteps, DeltaSteps
  <2> QED
    BY <2>1, <1>14, <1>3, Zenon DEF DeltaBegin, DeltaReverse, DeltaCheckpoint
<1>15. CASE DeltaToken(w)
  <2>0. PICK end \in Reach(w) :
           Become(w, [r0 EXCEPT !.pc = "deltaNext", !.tok = TokenFor(w), !.end = end,
                                !.pos = r0.st.size])
    BY <1>15, Zenon DEF DeltaToken, r0
  <2> DEFINE r == [r0 EXCEPT !.pc = "deltaNext", !.tok = TokenFor(w), !.end = end,
                             !.pos = r0.st.size]
  <2>1. "deltaNext" \in Steps
    BY Zenon DEF Steps, ClaimedSteps, DeltaSteps
  <2>2. TokenFor(w) \in Tokens
    BY <1>15, <1>6, Zenon DEF DeltaToken, AllocateToken
  <2>3. r0.st.size \in Nat /\ end \in Nat
    BY <1>1 DEF WorkerRecord, ListSyncState, Task, Reach, r0
  <2>4. r \in WorkerRecord /\ r.st = r0.st /\ r.meta = r0.meta
    BY <1>1, <2>1, <2>2, <2>3, Zenon DEF WorkerRecord
  <2> QED
    BY <2>4, <2>0, <1>2, Zenon
<1>16. CASE DeltaForward(w)
  <2> DEFINE next == IF BatchEnd(w) THEN "deltaCheckpoint" ELSE "deltaNext"
             n == r0.pos + 1
             r == [r0 EXCEPT !.pc = next, !.pos = n]
  <2>1. next \in Steps /\ n \in Nat
    BY <1>1 DEF Steps, ClaimedSteps, DeltaSteps, WorkerRecord
  <2>3. Become(w, r)
    BY <1>16, Zenon DEF DeltaForward, r0
  <2> HIDE DEF next, n
  <2>2. r \in WorkerRecord /\ r.st = r0.st /\ r.meta = r0.meta
    BY <1>1, <2>1, Zenon DEF WorkerRecord
  <2> QED
    BY <2>2, <2>3, <1>2, Zenon
<1>17. CASE \/ ReloadBegin(w) \/ Register(w) \/ Unready(w) \/ MarkReconcile(w)
            \/ DelPending(w) \/ InitLoad(w) \/ InitDel(w) \/ LoadCheckpoint(w)
            \/ StartDiff(w) \/ ReindexDone(w)
  <2>1. {"rcMark", "register", "unready", "loadToken", "delPending", "mark", "rcToken",
         "rcUnready", "lateUnready", "initLoad", "initDel", "load", "startDiff", "verify",
         "release"} \subseteq Steps
    BY Zenon DEF Steps, ClaimedSteps, ReloadSteps, LoadSteps
  <2>2. AfterRegister(w) \in Steps
    BY <2>1, Zenon DEF AfterRegister
  <2>3. CASE ReloadBegin(w) \/ Register(w) \/ Unready(w)
    BY <2>1, <2>2, <2>3, <1>3, Zenon DEF ReloadBegin, Register, Unready
  <2>4. CASE MarkReconcile(w)
    BY <2>1, <2>2, <2>4, <1>3, Zenon DEF MarkReconcile
  <2>5. CASE DelPending(w) \/ InitLoad(w) \/ InitDel(w)
    BY <2>1, <2>5, <1>3, Zenon DEF DelPending, InitLoad, InitDel
  <2>6. CASE LoadCheckpoint(w) \/ StartDiff(w) \/ ReindexDone(w)
    BY <2>1, <2>6, <1>3, Zenon DEF LoadCheckpoint, StartDiff, ReindexDone, Stop
  <2> QED
    BY <1>17, <2>3, <2>4, <2>5, <2>6, Zenon
<1>18. CASE LoadToken(w)
  <2> DEFINE next == IF st.part # Absent THEN "verify"
                     ELSE IF st.loadingSize < r0.meta.size THEN "load"
                     ELSE "startDiff"
  <2>1. next \in Steps
    BY Zenon DEF Steps, ClaimedSteps, ReloadSteps, LoadSteps
  <2>2. TokenFor(w) \in Tokens
    BY <1>18, <1>6, Zenon DEF LoadToken, AllocateToken
  <2>4. PICK end \in Reach(w) \cup {r0.meta.size} :
           Become(w, [r0 EXCEPT !.pc = next, !.tok = TokenFor(w), !.end = end,
                                !.flag = TRUE, !.pos = st.loadingSize])
    BY <1>18, Zenon DEF LoadToken, r0
  <2>3. st.loadingSize \in Nat /\ end \in Nat
    BY <1>1, <1>4 DEF ListSyncState, WorkerRecord, Task, Reach, r0
  <2> DEFINE r == [r0 EXCEPT !.pc = next, !.tok = TokenFor(w), !.end = end, !.flag = TRUE,
                             !.pos = st.loadingSize]
  <2> HIDE DEF next
  <2>5. r \in WorkerRecord /\ r.st = r0.st /\ r.meta = r0.meta
    BY <1>1, <2>1, <2>2, <2>3, Zenon DEF WorkerRecord
  <2> QED
    BY <2>4, <2>5, <1>2, Zenon
<1>19. CASE LoadBatch(w)
  <2>1. PICK to \in {r0.pos + Batch, r0.end}, adds \in BOOLEAN :
           Become(w, [r0 EXCEPT !.pc = "loadCheckpoint", !.pos = to, !.flag = @ /\ ~adds])
    BY <1>19, Zenon DEF LoadBatch, r0
  <2> DEFINE r == [r0 EXCEPT !.pc = "loadCheckpoint", !.pos = to, !.flag = @ /\ ~adds]
  <2>2. "loadCheckpoint" \in Steps
    BY Zenon DEF Steps, ClaimedSteps, ReloadSteps, LoadSteps
  <2>3. to \in Nat
    BY <1>1, ConstantFacts DEF WorkerRecord, Task
  <2>4. (r0.flag /\ ~adds) \in BOOLEAN
    BY Zenon
  <2>5. r \in WorkerRecord /\ r.st = r0.st /\ r.meta = r0.meta
    BY <1>1, <2>2, <2>3, <2>4, Zenon DEF WorkerRecord
  <2> QED
    BY <2>1, <2>5, <1>2, Zenon
<1>20. ASSUME IndexNew(w) PROVE WorkersTyped' /\ WorkersKnown'
  <2> DEFINE next == IF ~enable THEN "commit"
                     ELSE IF st.reconcile THEN "clear"
                     ELSE IF OldSet(w) = {} THEN "fanout"
                     ELSE "diffScan"
             some == NewSet(w) # {}
             r == [r0 EXCEPT !.pc = next, !.todo = NewSet(w), !.flag = some,
                             !.next = "commit"]
  <2>1. next \in Steps /\ "commit" \in Steps /\ some \in BOOLEAN
    BY Zenon DEF Steps, ClaimedSteps, ReloadSteps
  <2>2. Become(w, r)
    BY <1>20, Zenon DEF IndexNew, r0
  <2> HIDE DEF next, some
  <2>3. r \in WorkerRecord /\ r.st = r0.st /\ r.meta = r0.meta
    BY <1>1, <1>5, <2>1, Zenon DEF WorkerRecord
  <2> QED
    BY <2>2, <2>3, <1>2, Zenon
<1>21. CASE Verify(w) \/ LateUnready(w)
  <2>1. {"release", "lateMark"} \subseteq Steps
    BY Zenon DEF Steps, ClaimedSteps, ReloadSteps
  <2> QED
    BY <2>1, <1>21, <1>3, <1>20, Zenon DEF Verify, LateUnready, Stop
<1>22. CASE ReindexToken(w)
  <2> DEFINE set == fwd[r0.st.version]
             some == set # {}
             r == [r0 EXCEPT !.pc = "clear", !.tok = TokenFor(w), !.todo = set,
                             !.flag = some, !.next = "rcDone"]
  <2>1. {"clear", "rcDone"} \subseteq Steps /\ some \in BOOLEAN
    BY Zenon DEF Steps, ClaimedSteps, ReloadSteps
  <2>2. TokenFor(w) \in Tokens
    BY <1>22, <1>6, Zenon DEF ReindexToken, AllocateToken
  <2>3. Become(w, r)
    BY <1>22, Zenon DEF ReindexToken, r0
  <2> HIDE DEF some
  <2>4. r \in WorkerRecord /\ r.st = r0.st /\ r.meta = r0.meta
    BY <1>1, <1>5, <2>1, <2>2, Zenon DEF WorkerRecord
  <2> QED
    BY <2>3, <2>4, <1>2, Zenon
<1>23. CASE ClearToken(w)
  <2>1. {"removeMark", "fanout"} \subseteq Steps
    BY Zenon DEF Steps, ClaimedSteps, ReloadSteps, RemoveSteps
  <2>2. UNCHANGED wk \/ \E step \in Steps : Goto(w, step)
    BY <2>1, <1>23, Zenon DEF ClearToken
  <2> QED
    BY <2>2, <1>1, <1>3, Zenon DEF WorkersTyped, WorkersKnown
<1>24. CASE FanoutScan(w)
  <2>1. "release" \in Steps /\ r0.next \in Steps
    BY <1>1, Zenon DEF Steps, ClaimedSteps
  <2>2. \/ \E step \in Steps : Goto(w, step)
        \/ \E m : Become(w, [r0 EXCEPT !.todo = @ \ {m}])
    BY <2>1, <1>24, Zenon DEF FanoutScan, Stop, r0
  <2>3. ASSUME NEW m PROVE Kept([r0 EXCEPT !.todo = @ \ {m}]) <=> Become(w, [r0 EXCEPT !.todo = @ \ {m}])
    BY <1>1, Zenon DEF WorkerRecord
  <2> QED
    BY <2>2, <2>3, <1>2, <1>3, Zenon
<1>25. CASE DiffScan(w)
  <2>1. {"release", "commit", "diffApply"} \subseteq Steps
    BY Zenon DEF Steps, ClaimedSteps, ReloadSteps
  <2>2. \/ \E step \in Steps : Goto(w, step)
        \/ \E S, T \in SUBSET Members :
              Become(w, [r0 EXCEPT !.pc = "diffApply", !.todo = S, !.dels = T])
    BY <2>1, <1>25, Zenon DEF DiffScan, Stop, r0
  <2>3. ASSUME NEW S \in SUBSET Members, NEW T \in SUBSET Members,
               Become(w, [r0 EXCEPT !.pc = "diffApply", !.todo = S, !.dels = T])
        PROVE  Kept([r0 EXCEPT !.pc = "diffApply", !.todo = S, !.dels = T])
    BY <1>1, <2>1, <2>3, Zenon DEF WorkerRecord
  <2> QED
    BY <2>2, <2>3, <1>2, <1>3, Zenon
<1>26. CASE DiffApply(w)
  <2>1. {"commit", "diffScan"} \subseteq Steps
    BY Zenon DEF Steps, ClaimedSteps, ReloadSteps
  <2>2. \/ \E step \in Steps : Goto(w, step)
        \/ \E m : Become(w, [r0 EXCEPT !.todo = @ \ {m}])
        \/ \E m : Become(w, [r0 EXCEPT !.dels = @ \ {m}])
    BY <2>1, <1>26, Zenon DEF DiffApply, r0
  <2>3. ASSUME NEW m PROVE /\ Kept([r0 EXCEPT !.todo = @ \ {m}]) <=> Become(w, [r0 EXCEPT !.todo = @ \ {m}])
                           /\ Kept([r0 EXCEPT !.dels = @ \ {m}]) <=> Become(w, [r0 EXCEPT !.dels = @ \ {m}])
    BY <1>1, Zenon DEF WorkerRecord
  <2> QED
    BY <2>2, <2>3, <1>2, <1>3, Zenon
<1>27. CASE \/ Commit(w) \/ CommitDel(w) \/ CommitList(w) \/ CommitEnable(w)
            \/ Persist(w) \/ ExpireOld(w) \/ RemoveMark(w)
  <2>1. {"commitDel", "commitList", "commitEnable", "persist", "expireOld", "release",
         "cleanup"} \subseteq Steps
    BY Zenon DEF Steps, ClaimedSteps, ReloadSteps, RemoveSteps
  <2> QED
    BY <2>1, <1>27, <1>3
      , Zenon DEF Commit, CommitDel, CommitList, CommitEnable, Persist, ExpireOld, RemoveMark, Stop
<1>28. CASE RemoveBegin(w)
  <2>1. {"release", "clear", "fanout", "removeMark", "cleanup"} \subseteq Steps
    BY Zenon DEF Steps, ClaimedSteps, ReloadSteps, RemoveSteps
  <2> DEFINE set == fwd[r0.st.version]
             some == set # {}
             scan == IF MustClear(w) THEN "clear" ELSE "fanout"
             mark == IF st.removed THEN "cleanup" ELSE "removeMark"
             r1 == [r0 EXCEPT !.pc = scan, !.tok = token, !.todo = set, !.flag = some,
                              !.pos = 0, !.next = "removeMark"]
             r2 == [r0 EXCEPT !.pc = mark, !.pos = 0]
  <2>2. scan \in Steps /\ mark \in Steps /\ some \in BOOLEAN
    BY <2>1, Zenon
  <2>3. Stop(w) \/ Become(w, r1) \/ Become(w, r2)
    BY <1>28, Zenon DEF RemoveBegin, r0
  <2> HIDE DEF scan, mark, some
  <2>4. r1 \in WorkerRecord /\ r1.st = r0.st /\ r1.meta = r0.meta
    BY <1>1, <1>4, <1>5, <2>1, <2>2, Zenon DEF WorkerRecord
  <2>5. r2 \in WorkerRecord /\ r2.st = r0.st /\ r2.meta = r0.meta
    BY <1>1, <2>2, Zenon DEF WorkerRecord
  <2> QED
    BY <2>1, <2>3, <2>4, <2>5, <1>2, <1>3, Zenon DEF Stop
<1>29. CASE Cleanup(w)
  <2> DEFINE next == IF r0.pos = 5 THEN "release" ELSE r0.pc
             n == r0.pos + 1
             r == [r0 EXCEPT !.pos = n, !.pc = next]
  <2>1. next \in Steps /\ n \in Nat
    BY <1>1 DEF Steps, ClaimedSteps, WorkerRecord
  <2>2. Become(w, r)
    BY <1>29, Zenon DEF Cleanup, r0
  <2> HIDE DEF next, n
  <2>3. r \in WorkerRecord /\ r.st = r0.st /\ r.meta = r0.meta
    BY <1>1, <2>1, Zenon DEF WorkerRecord
  <2> QED
    BY <2>2, <2>3, <1>2, Zenon
<1> QED
  BY <1>10, <1>11, <1>12, <1>13, <1>14, <1>15, <1>16, <1>17, <1>18, <1>19, <1>21, <1>22,
     <1>23, <1>24, <1>25, <1>26, <1>27, <1>28, <1>29 DEF Work

-----------------------------------------------------------------------------
(* The state hash, the sets and the marks in Redis.                        *)

StateTyped == st \in ListSyncState /\ {st.version, st.loading} \subseteq Versions

SetsTyped ==
    /\ fwd \in [Versions -> SUBSET Members]
    /\ volatile \subseteq Versions
    /\ rev \in [Tokens -> SUBSET Members]

\* Whatever a worker does, the state hash keeps its shape and known versions.
LEMMA StateKept ==
    ASSUME TypeOK, NEW w \in Pods, Work(w)
    PROVE  StateTyped'
<1>1. StateTyped /\ wk[w] \in WorkerRecord /\ Tag(wk[w].meta) \in Versions
  BY Zenon DEF TypeOK, StateTyped
<1>2. Tag(wk[w].meta) \in Version
  BY <1>1, VersionsTyped, Zenon
<1>3. /\ fwd \in [Versions -> SUBSET Members]
      /\ wk[w].st.version \in Versions
      /\ wk[w].pos \in Nat
  BY Zenon DEF TypeOK, WorkerRecord
<1>4. Count(fwd[wk[w].st.version]) \in Nat /\ Count(NewSet(w)) \in Nat
  BY <1>1, <1>3, CountNat, Zenon DEF NewSet
<1>5. CASE MarkState(w) \/ MarkReconcile(w) \/ CommitEnable(w) \/ ReindexDone(w) \/ RemoveMark(w)
  <2>1. CASE MarkState(w)
    BY <1>1, <2>1, Zenon DEF MarkState, StateTyped, ListSyncState
  <2>2. CASE MarkReconcile(w)
    <3>1. st' = [st EXCEPT !.reconcile = TRUE]
      BY <2>2, Zenon DEF MarkReconcile
    <3> QED
      BY <1>1, <3>1, Zenon DEF StateTyped, ListSyncState
  <2>3. CASE CommitEnable(w)
    BY <1>1, <2>3, Zenon DEF CommitEnable, StateTyped, ListSyncState
  <2>4. CASE ReindexDone(w)
    BY <1>1, <2>4, Zenon DEF ReindexDone, StateTyped, ListSyncState
  <2>5. CASE RemoveMark(w)
    BY <1>1, <2>5, Zenon DEF RemoveMark, StateTyped, ListSyncState
  <2> QED
    BY <1>5, <2>1, <2>2, <2>3, <2>4, <2>5, Zenon
<1>6. CASE DeltaCheckpoint(w)
  BY <1>1, <1>3, <1>4, <1>6, Zenon DEF DeltaCheckpoint, Count, StateTyped, ListSyncState
<1>7. CASE InitLoad(w)
  BY <1>1, <1>2, <1>7, Zenon DEF InitLoad, StateTyped, ListSyncState
<1>8. CASE InitDel(w) \/ StartDiff(w)
  <2>1. CASE InitDel(w)
    BY <1>1, <2>1, Zenon DEF InitDel, StateTyped, ListSyncState
  <2>2. CASE StartDiff(w)
    BY <1>1, <2>2, Zenon DEF StartDiff, StateTyped, ListSyncState
  <2> QED
    BY <1>8, <2>1, <2>2, Zenon
<1>9. CASE LoadCheckpoint(w)
  BY <1>1, <1>3, <1>4, <1>9, Zenon DEF LoadCheckpoint, NewSet, StateTyped, ListSyncState
<1>10. CASE DiffApply(w)
  <2>1. st.part + 1 \in Nat
    BY <1>1 DEF StateTyped, ListSyncState, Absent
  <2>2. UNCHANGED st \/ st' = [st EXCEPT !.part = st.part + 1]
    BY <1>10, Zenon DEF DiffApply
  <2> QED
    BY <1>1, <2>1, <2>2, Zenon DEF StateTyped, ListSyncState
<1>11. CASE Commit(w)
  BY <1>1, <1>2, <1>3, <1>4, <1>11, Zenon DEF Commit, StateTyped, ListSyncState
<1>12. CASE CommitDel(w)
  BY <1>1, <1>12, NothingTyped, ZenonT(40) DEF CommitDel, StateTyped, ListSyncState
<1>13. CASE Cleanup(w)
  <2>1. UNCHANGED st \/ st' = NoState
    BY <1>13, Zenon DEF Cleanup
  <2>2. NoState.version \in Versions /\ NoState.loading \in Versions
    BY NothingTyped, Zenon DEF NoState
  <2> QED
    BY <1>1, <2>1, <2>2, NothingTyped, Zenon DEF StateTyped
<1>14. CASE UNCHANGED st
  BY <1>1, <1>14, Zenon DEF StateTyped
<1>15. \/ MarkState(w) \/ MarkReconcile(w) \/ CommitEnable(w) \/ ReindexDone(w)
       \/ RemoveMark(w) \/ DeltaCheckpoint(w) \/ InitLoad(w) \/ InitDel(w) \/ StartDiff(w)
       \/ LoadCheckpoint(w) \/ DiffApply(w) \/ Commit(w) \/ CommitDel(w) \/ Cleanup(w)
       \/ UNCHANGED st
  BY Zenon DEF Work, dataVars, ClaimTask, ReadTask, MarkDict, Release, DeltaBegin, DeltaToken,
         DeltaReverse, DeltaForward, ReloadBegin, Register, Unready, DelPending, LoadToken,
         LoadBatch, Verify, LateUnready, ReindexToken, ClearToken, FanoutScan, DiffScan,
         CommitList, Persist, ExpireOld, RemoveBegin
<1> QED
  BY <1>5, <1>6, <1>7, <1>8, <1>9, <1>10, <1>11, <1>12, <1>13, <1>14, <1>15, Zenon

\* Whatever a worker does, forward and reverse sets hold members and nothing else.
LEMMA SetsKept ==
    ASSUME TypeOK, NEW w \in Pods, Work(w)
    PROVE  SetsTyped'
<1>1. SetsTyped /\ wk[w] \in WorkerRecord
  BY Zenon DEF TypeOK, SetsTyped
<1>2. wk[w].tok \in Tokens /\ wk[w].todo \subseteq Members /\ wk[w].dels \subseteq Members
  BY <1>1, Zenon DEF WorkerRecord
<1>3. Tag(wk[w].meta) \in Versions /\ wk[w].st.version \in Versions /\ st.version \in Versions
  BY Zenon DEF TypeOK
<1>4. ASSUME NEW v, NEW S \in SUBSET Members, SetForward(v, S), UNCHANGED rev
      PROVE  SetsTyped'
  BY <1>1, <1>4, Zenon DEF SetForward, SetsTyped, Alive
<1>5. ASSUME NEW S \in SUBSET Members, rev' = [rev EXCEPT ![wk[w].tok] = S],
             UNCHANGED <<fwd, volatile>>
      PROVE  SetsTyped'
  BY <1>1, <1>5, Zenon DEF SetsTyped
<1>6. rev[wk[w].tok] \in SUBSET Members
  BY <1>1, <1>2, Zenon DEF SetsTyped
<1>7. CASE ReadTask(w) \/ DeltaBegin(w) \/ ReloadBegin(w) \/ Persist(w)
  BY <1>1, <1>7, Zenon DEF ReadTask, DeltaBegin, ReloadBegin, EnsurePersisted, Persist, SetsTyped
<1>8. CASE DeltaReverse(w)
  BY <1>5, <1>8, Zenon DEF DeltaReverse, ApplyLine
<1>9. CASE DeltaForward(w)
  BY <1>4, <1>9, Zenon DEF DeltaForward, ApplyLine
<1>10. CASE DelPending(w)
  BY <1>4, <1>10 DEF DelPending
<1>11. CASE LoadBatch(w)
  BY <1>1, <1>3, <1>11, Zenon DEF LoadBatch, Replay, Alive, SetsTyped
<1>12. CASE ClearToken(w)
  BY <1>1, <1>5, <1>6, <1>12, Zenon DEF ClearToken, SetsTyped
<1>13. CASE FanoutScan(w)
  <2>1. UNCHANGED <<fwd, volatile>>
    BY <1>13, Zenon DEF FanoutScan
  <2>2. \/ UNCHANGED rev
        \/ \E S \in SUBSET Members : rev' = [rev EXCEPT ![wk[w].tok] = S]
    BY <1>2, <1>6, <1>13, Zenon DEF FanoutScan
  <2> QED
    BY <1>1, <1>5, <2>1, <2>2, Zenon DEF SetsTyped
<1>14. CASE DiffApply(w)
  <2>1. UNCHANGED <<fwd, volatile>>
    BY <1>14, Zenon DEF DiffApply
  <2>2. \/ UNCHANGED rev
        \/ \E S \in SUBSET Members : rev' = [rev EXCEPT ![wk[w].tok] = S]
    BY <1>2, <1>6, <1>14, Zenon DEF DiffApply
  <2> QED
    BY <1>1, <1>5, <2>1, <2>2, Zenon DEF SetsTyped
<1>15. CASE ExpireOld(w)
  BY <1>1, <1>3, <1>15, Zenon DEF ExpireOld, Alive, SetsTyped
<1>16. CASE Cleanup(w)
  BY <1>4, <1>16 DEF Cleanup
<1>17. CASE UNCHANGED <<fwd, volatile, rev>>
  BY <1>1, <1>17, SMTT(30) DEF SetsTyped
<1>18. \/ ReadTask(w) \/ DeltaBegin(w) \/ ReloadBegin(w) \/ Persist(w) \/ DeltaReverse(w)
       \/ DeltaForward(w) \/ DelPending(w) \/ LoadBatch(w) \/ ClearToken(w)
       \/ FanoutScan(w) \/ DiffApply(w) \/ ExpireOld(w) \/ Cleanup(w)
       \/ UNCHANGED <<fwd, volatile, rev>>
  BY ZenonT(40) DEF Work, dataVars, ClaimTask, MarkDict, MarkState, Release, DeltaToken,
         DeltaCheckpoint, Register, Unready, MarkReconcile, InitLoad, InitDel, LoadToken,
         LoadCheckpoint, StartDiff, Verify, LateUnready, ReindexToken, ReindexDone,
         DiffScan, Commit, CommitDel, CommitList, CommitEnable, RemoveBegin, RemoveMark
<1> QED
  BY <1>7, <1>8, <1>9, <1>10, <1>11, <1>12, <1>13, <1>14, <1>15, <1>16, <1>17, <1>18, Zenon

\* What a worker's step may do to everything but its state hash and the sets.
LEMMA WorkFrame ==
    ASSUME NEW w \in Pods, Work(w)
    PROVE  /\ UNCHANGED <<manifestVars, queued, producerVars, left>>
           /\ meta' \in {meta, NoTask}
           /\ \/ UNCHANGED <<token, lastToken>>
              \/ AllocateToken(w)
              \/ UNCHANGED lastToken /\ token' = 0
           /\ \/ UNCHANGED listed
              \/ listed' = TRUE
              \/ Cleanup(w)
           /\ ready' = ready \/ ready' = FALSE
           /\ offMark' = offMark \/ offMark' = TRUE
           /\ claim' \in {claim, w, NoPod}
  BY ZenonT(40) DEF Work, manifestVars, taskVars, dictVars, markVars, producerVars, ClaimTask,
         ReadTask, MarkDict, MarkState, Release, DeltaBegin, DeltaToken, DeltaReverse,
         DeltaForward, DeltaCheckpoint, ReloadBegin, Register, Unready, MarkReconcile,
         DelPending, InitLoad, InitDel, LoadToken, LoadBatch, LoadCheckpoint, StartDiff,
         Verify, LateUnready, ReindexToken, ReindexDone, ClearToken, FanoutScan, DiffScan,
         DiffApply, Commit, CommitDel, CommitList, CommitEnable, Persist, ExpireOld,
         RemoveBegin, RemoveMark, Cleanup

\* So a worker's step keeps every variable typed.
LEMMA WorkTyped ==
    ASSUME TypeOK, NEW w \in Pods, Work(w)
    PROVE  TypeOK'
<1>1. /\ token' \in Tokens /\ lastToken' \in Tokens
  <2>1. token \in Tokens /\ lastToken \in Tokens
    BY Zenon DEF TypeOK
  <2>2. 0 \in Tokens
    BY ConstantFacts DEF Tokens
  <2>3. CASE AllocateToken(w)
    BY <2>1, <2>3, ConstantFacts DEF AllocateToken, TokenFor, Tokens
  <2>4. CASE UNCHANGED <<token, lastToken>> \/ (UNCHANGED lastToken /\ token' = 0)
    BY <2>1, <2>2, <2>4, Zenon
  <2> QED
    BY <2>3, <2>4, WorkFrame, Zenon
<1>2. listed' \in BOOLEAN
  <2>1. listed \in BOOLEAN
    BY Zenon DEF TypeOK
  <2> QED
    BY <2>1, WorkFrame, Zenon DEF Cleanup
<1>3. /\ meta' \in Task /\ Tag(meta') \in Versions
      /\ ready' \in BOOLEAN /\ offMark' \in BOOLEAN /\ claim' \in Pods \cup {NoPod}
  BY WorkFrame, NothingTyped, Zenon DEF TypeOK
<1>4. /\ pub' \in 1..Len(History) /\ missing' \in BOOLEAN /\ enable' \in BOOLEAN
      /\ queued' \in BOOLEAN /\ plock' \in Pods \cup {NoPod}
      /\ prod' \in [Pods -> [plan : ProducerPlans, entry : Entry]]
      /\ left' \in [FaultKinds -> Nat]
      /\ \A p \in Pods : Tag(prod'[p].entry) \in Versions
  BY WorkFrame, Zenon DEF TypeOK, manifestVars, producerVars
<1> QED
  BY <1>1, <1>2, <1>3, <1>4, WorkKeeps, StateKept, SetsKept
    , Zenon DEF TypeOK, WorkersTyped, WorkersKnown, StateTyped, SetsTyped

-----------------------------------------------------------------------------
(* The producer and the environment.                                       *)

\* Spending a fault leaves the budget a function into the naturals.
LEMMA SpendTyped ==
    ASSUME left \in [FaultKinds -> Nat], NEW kind \in FaultKinds, Spend(kind)
    PROVE  left' \in [FaultKinds -> Nat]
BY DEF Spend

\* A producer's tick plans for, and writes, known versions only.
LEMMA ProduceTyped ==
    ASSUME TypeOK, NEW p \in Pods, Produce(p)
    PROVE  TypeOK'
<1>1. CASE ProduceRead(p)
  <2>1. PICK entry \in {Manifest, NoEntry} :
           prod' = [prod EXCEPT ![p] = [plan  |-> Derived(entry, ~missing),
                                        entry |-> SyncTarget(st, entry, enable)]]
    BY <1>1, Zenon DEF ProduceRead
  <2>2. entry \in Entry /\ Tag(entry) \in Versions
    BY NothingTyped, VersionsTyped, Zenon DEF Manifest, TypeOK
  <2>3. Derived(entry, ~missing) \in ProducerPlans
    BY Zenon DEF Derived, ProducerPlans
  <2>4. /\ SyncTarget(st, entry, enable) \in Entry
        /\ Tag(SyncTarget(st, entry, enable)) \in Versions
    <3>1. st \in ListSyncState /\ st.version \in Versions
      BY Zenon DEF TypeOK
    <3>2. st.version \in Version /\ st.size \in Nat
      BY <3>1, Zenon DEF ListSyncState
    <3>3. Tag(CommittedEntry(st)) = st.version /\ CommittedEntry(st) \in Entry
      BY <3>2, Zenon DEF CommittedEntry, Tag, Version, Entry
    <3> QED
      BY <2>2, <3>1, <3>3, Zenon DEF SyncTarget
  <2>5. /\ prod' \in [Pods -> [plan : ProducerPlans, entry : Entry]]
        /\ \A q \in Pods : Tag(prod'[q].entry) \in Versions
    BY <2>1, <2>3, <2>4, Zenon DEF TypeOK
  <2>6. plock' \in Pods
    BY <1>1, Zenon DEF ProduceRead
  <2> QED
    BY <1>1, <2>5, <2>6
       DEF ProduceRead, TypeOK, manifestVars, taskVars, dataVars, dictVars, markVars
<1>2. CASE ProduceWrite(p)
  <2>1. prod[p].entry \in Entry /\ Tag(prod[p].entry) \in Versions
    BY Zenon DEF TypeOK
  <2>2. LoadTask(prod[p].entry) \in Task /\ Tag(LoadTask(prod[p].entry)) \in Versions
    BY <2>1, Zenon DEF LoadTask, Task, TaskOps, Tag, Entry
  <2>3. /\ [meta EXCEPT !.op = "remove"] \in Task
        /\ Tag([meta EXCEPT !.op = "remove"]) \in Versions
    BY Zenon DEF TypeOK, Task, TaskOps, Tag
  <2>4. meta' \in Task /\ Tag(meta') \in Versions
    BY <1>2, <2>2, <2>3, Zenon DEF ProduceWrite, TypeOK
  <2>5. queued' \in BOOLEAN /\ ready' \in BOOLEAN /\ offMark' \in BOOLEAN
    BY <1>2, Zenon DEF ProduceWrite, TypeOK
  <2>6. /\ prod' \in [Pods -> [plan : ProducerPlans, entry : Entry]]
        /\ \A q \in Pods : Tag(prod'[q].entry) \in Versions
    <3>1. prod' = [prod EXCEPT ![p] = NoTick]
      BY <1>2, Zenon DEF ProduceWrite
    <3>2. Tag(NoTick.entry) \in Versions
      BY NothingTyped, Zenon DEF NoTick
    <3> QED
      BY <3>1, <3>2, NothingTyped, Zenon DEF TypeOK
  <2>7. UNCHANGED <<manifestVars, dataVars, dictVars, listed, claim, plock, wk, left>>
    BY <1>2, Zenon DEF ProduceWrite
  <2> QED
    BY <2>4, <2>5, <2>6, <2>7 DEF TypeOK, manifestVars, dataVars, dictVars
<1>3. CASE ProduceFail(p)
  <2>1. prod' = [prod EXCEPT ![p] = NoTick] /\ Spend("abort")
    BY <1>3, Zenon DEF ProduceFail
  <2>4. left \in [FaultKinds -> Nat] /\ "abort" \in FaultKinds
    BY Zenon DEF TypeOK, FaultKinds
  <2>5. left' \in [FaultKinds -> Nat]
    BY <2>1, <2>4, SpendTyped, Zenon
  <2>2. Tag(NoTick.entry) \in Versions
    BY NothingTyped, Zenon DEF NoTick
  <2>3. /\ prod' \in [Pods -> [plan : ProducerPlans, entry : Entry]]
        /\ \A q \in Pods : Tag(prod'[q].entry) \in Versions
    BY <2>1, <2>2, NothingTyped, Zenon DEF TypeOK
  <2>6. UNCHANGED <<manifestVars, taskVars, dataVars, dictVars, markVars, claim, plock, wk>>
    BY <1>3, Zenon DEF ProduceFail
  <2> QED
    BY <2>3, <2>5, <2>6 DEF TypeOK, manifestVars, taskVars, dataVars, dictVars, markVars
<1> QED
  BY <1>1, <1>2, <1>3, Zenon DEF Produce

\* A new manifest is one of the history.
LEMMA PublishTyped ==
    ASSUME TypeOK, Publish
    PROVE  pub' \in 1..Len(History)
<1>1. Len(History) \in Nat /\ pub \in 1..Len(History)
  BY ConstantFacts, Zenon DEF TypeOK
<1>2. pub' = pub + 1 /\ pub < Len(History)
  BY Zenon DEF Publish
<1> QED
  BY <1>1, <1>2

\* So is one that is served again.
LEMMA StaleTyped ==
    ASSUME TypeOK, ServeStale
    PROVE  pub' \in 1..Len(History)
<1>1. Len(History) \in Nat /\ pub \in 1..Len(History)
  BY ConstantFacts, Zenon DEF TypeOK
<1>2. pub' \in 1..(pub - 1)
  BY SMTT(30) DEF ServeStale
<1> QED
  BY <1>1, <1>2

\* Manifests, expiries and deployments keep every variable typed.
LEMMA EnvironmentTyped ==
    ASSUME TypeOK, Environment
    PROVE  TypeOK'
<1> USE DEF TypeOK, manifestVars, taskVars, dataVars, dictVars, markVars, producerVars
<1>1. ASSUME NEW kind \in FaultKinds, Spend(kind) PROVE left' \in [FaultKinds -> Nat]
  <2>1. left \in [FaultKinds -> Nat]
    BY Zenon
  <2> QED
    BY ONLY <1>1, <2>1, SpendTyped, Zenon
<1>2. FaultKinds = {"abort", "expiry", "meta", "missing", "mode", "stale"}
  BY Zenon DEF FaultKinds
<1>3. CASE Publish
  BY <1>3, PublishTyped DEF Publish
<1>4. CASE ServeStale
  <2>1. pub' \in 1..Len(History)
    BY ONLY <1>4, TypeOK, StaleTyped, Zenon
  <2>2. left' \in [FaultKinds -> Nat]
    BY <1>1, <1>2, <1>4, Zenon DEF ServeStale
  <2>3. UNCHANGED <<missing, enable, taskVars, dataVars, dictVars, markVars, claim,
                    producerVars, wk>>
    BY <1>4, Zenon DEF ServeStale
  <2> QED
    BY <2>1, <2>2, <2>3
<1>5. CASE ManifestLost \/ ManifestBack
  BY <1>1, <1>2, <1>5, ZenonT(40) DEF ManifestLost, ManifestBack
<1>6. CASE ProducerLockExpire \/ ClaimExpire
  BY <1>6 DEF ProducerLockExpire, ClaimExpire
<1>7. CASE ForwardExpire
  <2>1. PICK v \in volatile : SetForward(v, {})
    BY <1>7, Zenon DEF ForwardExpire
  <2>2. fwd' \in [Versions -> SUBSET Members] /\ volatile' \subseteq Versions
    BY <2>1, Zenon DEF SetForward, Alive
  <2>3. UNCHANGED <<manifestVars, taskVars, st, rev, dictVars, markVars, claim,
                    producerVars, wk>> /\ Spend("expiry")
    BY <1>7, Zenon DEF ForwardExpire
  <2> QED
    BY <1>1, <1>2, <2>2, <2>3
<1>8. CASE MetaExpire
  BY <1>1, <1>2, <1>8, NothingTyped, SMTT(30) DEF MetaExpire
<1>9. CASE ChangeMode
  <2>1. /\ enable' \in BOOLEAN
        /\ wk' \in [Pods -> WorkerRecord]
        /\ prod' \in [Pods -> [plan : ProducerPlans, entry : Entry]]
    BY <1>9, NothingTyped, SMTT(30) DEF ChangeMode
  <2>2. /\ IdleWorker.st.version = NoVersion /\ IdleWorker.st.loading = NoVersion
        /\ Tag(IdleWorker.meta) = NoVersion /\ Tag(NoTick.entry) = NoVersion
    BY NothingTyped, Zenon DEF IdleWorker, NoState, NoTick
  <2>3. \A p \in Pods : {Tag(prod'[p].entry), Tag(wk'[p].meta), wk'[p].st.version,
                         wk'[p].st.loading} \subseteq Versions
    <3>1. \A p \in Pods : wk'[p] = IdleWorker /\ prod'[p] = NoTick
      BY <1>9, Zenon DEF ChangeMode
    <3> QED
      BY <2>2, <3>1, NothingTyped, Zenon
  <2>4. UNCHANGED <<pub, missing, taskVars, dataVars, dictVars, markVars, claim, plock>>
    BY <1>9, Zenon DEF ChangeMode
  <2>5. Spend("mode")
    BY <1>9, Zenon DEF ChangeMode
  <2>6. left' \in [FaultKinds -> Nat]
    BY <1>1, <1>2, <2>5, SMTT(30)
  <2> QED
    BY <2>1, <2>3, <2>4, <2>6, Zenon
<1> QED
  BY <1>3, <1>4, <1>5, <1>6, <1>7, <1>8, <1>9, ZenonT(40) DEF Environment

\* Taking a task off the queue, and stopping in the middle of one.
LEMMA PopAbortTyped ==
    ASSUME TypeOK, NEW w \in Pods, Pop(w) \/ Abort(w)
    PROVE  TypeOK'
<1> USE DEF manifestVars, taskVars, dataVars, dictVars, markVars, producerVars
<1>1. WorkersTyped /\ WorkersKnown
  BY Zenon DEF TypeOK, WorkersTyped, WorkersKnown
<1>2. WorkersTyped' /\ WorkersKnown'
  <2>1. "popped" \in Steps
    BY Zenon DEF Steps
  <2> QED
    BY <1>1, <2>1, GotoKeeps, IdleKeeps, Zenon DEF Pop, Abort
<1>3. /\ claim' \in Pods \cup {NoPod} /\ queued' \in BOOLEAN
      /\ left' \in [FaultKinds -> Nat]
  <2>1. CASE Pop(w)
    BY <2>1, ZenonT(40) DEF TypeOK, Pop
  <2>2. CASE Abort(w)
    <3>1. claim' \in {claim, w, NoPod} /\ queued' = queued
      BY <2>2, Zenon DEF Abort
    <3>2. Spend("abort")
      BY <2>2, ZenonT(40) DEF Abort
    <3>3. left \in [FaultKinds -> Nat] /\ "abort" \in FaultKinds
      BY Zenon DEF TypeOK, FaultKinds
    <3>4. left' \in [FaultKinds -> Nat]
      BY <3>2, <3>3, SpendTyped, SMTT(30)
    <3> QED
      BY <3>1, <3>4, Zenon DEF TypeOK
  <2> QED
    BY <2>1, <2>2, Zenon
<1>4. UNCHANGED <<manifestVars, meta, dataVars, dictVars, markVars, producerVars>>
  BY Zenon DEF Pop, Abort
<1> QED
  BY <1>2, <1>3, <1>4, SMTT(30) DEF TypeOK, WorkersTyped, WorkersKnown

\* The empty Redis and the idle fleet are typed.
LEMMA TypeInit == Init => TypeOK
<1> SUFFICES ASSUME Init PROVE TypeOK
  BY Zenon
<1>1. /\ Tag(IdleWorker.meta) = NoVersion
      /\ IdleWorker.st.version = NoVersion /\ IdleWorker.st.loading = NoVersion
      /\ Tag(NoTick.entry) = NoVersion
      /\ NoState.version = NoVersion /\ NoState.loading = NoVersion
  BY NothingTyped, Zenon DEF IdleWorker, NoState, NoTick
<1>2. 0 \in Tokens /\ 1 \in 1..Len(History)
  BY ConstantFacts DEF Tokens
<1> QED
  BY <1>1, <1>2, NothingTyped, ConstantsAssumption, Zenon DEF Init, TypeOK

\* Every step keeps every variable typed.
LEMMA TypeStep == TypeOK /\ [Next]_vars => TypeOK'
<1> SUFFICES ASSUME TypeOK, [Next]_vars PROVE TypeOK'
  BY Zenon
<1>1. CASE Environment
  BY <1>1, EnvironmentTyped, Zenon
<1>2. ASSUME NEW p \in Pods, Produce(p) \/ Pop(p) \/ Work(p) \/ Abort(p)
      PROVE  TypeOK'
  BY <1>2, ProduceTyped, PopAbortTyped, WorkTyped, Zenon
<1>3. CASE UNCHANGED vars
  BY <1>3, Zenon DEF TypeOK, vars, manifestVars, taskVars, dataVars, dictVars, markVars,
              producerVars
<1> QED
  BY <1>1, <1>2, <1>3, Zenon DEF Next

\* Every state has the shape the code gives it, and no task, plan, checkpoint or
\* snapshot ever names a version of the list that the manifest did not advertise.
THEOREM TypeCorrect == Spec => []TypeOK
  BY TypeInit, TypeStep, PTL DEF Spec
=============================================================================
