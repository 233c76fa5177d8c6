----------------------- MODULE IdListRollback_proofs ------------------------
(***************************************************************************)
(* That a list is never rolled back, and that IdListSync implements        *)
(* WorkClaim, for every set of pods, every manifest history and every fault*)
(* budget.  The argument: a worker past try_acquire holds the claim, so    *)
(* nobody else commits while it loads; what it decided from its snapshot of*)
(* the state is therefore still true of the state when it commits.         *)
(***************************************************************************)
EXTENDS IdListClaim, IdListSync_proofs

-----------------------------------------------------------------------------
(* The claim excludes.                                                     *)

\* A worker past try_acquire holds the list's claim.
ClaimHeld == \A w \in Pods : Active(w) => claim = w

\* Nobody but its own worker moves a worker's record, except a redeployment.
LEMMA OthersKept ==
    ASSUME TypeOK, NEW w \in Pods, Work(w) \/ Pop(w) \/ Abort(w), NEW p \in Pods \ {w}
    PROVE  wk'[p] = wk[p]
<1>1. (\E r : Become(w, r)) \/ UNCHANGED wk
  BY ZenonT(40) DEF Pop, Abort, Goto, Stop, Begin, IndexNew, Work, ClaimTask,
         ReadTask, MarkDict, MarkState, Release, DeltaBegin, DeltaToken, DeltaReverse,
         DeltaForward, DeltaCheckpoint, ReloadBegin, Register, Unready, MarkReconcile,
         DelPending, InitLoad, InitDel, LoadToken, LoadBatch, LoadCheckpoint, StartDiff,
         Verify, LateUnready, ReindexToken, ReindexDone, ClearToken, FanoutScan, DiffScan,
         DiffApply, Commit, CommitDel, CommitList, CommitEnable, Persist, ExpireOld,
         RemoveBegin, RemoveMark, Cleanup
<1> QED
  BY <1>1, SMTT(30) DEF Become, TypeOK

\* A worker's step other than taking and giving back the claim is a step under it.
LEMMA WorkUnderClaim ==
    ASSUME NEW w \in Pods, Work(w)
    PROVE  \/ ClaimTask(w)
           \/ Active(w) /\ Release(w)
           \/ Active(w) /\ claim' = claim
  BY ZenonT(40) DEF Active, ClaimedSteps, ReloadSteps, LoadSteps, DeltaSteps, RemoveSteps, Work,
         ReadTask, MarkDict, MarkState, Release, DeltaBegin, DeltaToken, DeltaReverse,
         DeltaForward, DeltaCheckpoint, ReloadBegin, Register, Unready, MarkReconcile,
         DelPending, InitLoad, InitDel, LoadToken, LoadBatch, LoadCheckpoint, StartDiff,
         Verify, LateUnready, ReindexToken, ReindexDone, ClearToken, FanoutScan, DiffScan,
         DiffApply, Commit, CommitDel, CommitList, CommitEnable, Persist, ExpireOld,
         RemoveBegin, RemoveMark, Cleanup

\* Every step keeps the claim with the worker that is past try_acquire.
LEMMA ClaimStep ==
    ASSUME TypeOK, ClaimHeld, [Next]_vars
    PROVE  ClaimHeld'
<1> SUFFICES ASSUME NEW p \in Pods, Active(p)'
             PROVE  claim' = p
  BY Zenon DEF ClaimHeld
<1>1. NoPod \notin Pods
  BY ConstantsAssumption, Zenon
<1>2. ASSUME NEW w \in Pods, Work(w) PROVE claim' = p
  <2>1. CASE p = w
    <3>1. CASE ClaimTask(w)
      <4>1. claim = NoPod
        <5> SUFFICES ASSUME Become(w, IdleWorker) PROVE FALSE
          BY <3>1, Zenon DEF ClaimTask
        <5>1. wk'[w].pc = "idle"
          BY Zenon DEF Become, IdleWorker, TypeOK
        <5> QED
          BY <2>1, <5>1, Zenon DEF Active, ClaimedSteps, ReloadSteps, LoadSteps, DeltaSteps, RemoveSteps
      <4> QED
        BY <2>1, <3>1, <4>1, Zenon DEF ClaimTask
    <3>2. CASE Active(w) /\ Release(w)
      <4>1. wk'[w].pc = "idle"
        BY <3>2, Zenon DEF Release, Become, IdleWorker, TypeOK
      <4> QED
        BY <2>1, <4>1, Zenon DEF Active, ClaimedSteps, ReloadSteps, LoadSteps, DeltaSteps, RemoveSteps
    <3>3. CASE Active(w) /\ claim' = claim
      BY <2>1, <3>3, Zenon DEF ClaimHeld
    <3> QED
      BY <1>2, <3>1, <3>2, <3>3, WorkUnderClaim, Zenon
  <2>2. CASE p # w
    <3>1. wk'[p] = wk[p]
      BY <1>2, <2>2, OthersKept, Zenon
    <3>2. claim = p
      BY <3>1, Zenon DEF Active, ClaimHeld
    <3>3. ~Active(w)
      BY <2>2, <3>2, Zenon DEF ClaimHeld
    <3> QED
      BY <1>1, <1>2, <3>2, <3>3, WorkUnderClaim, Zenon DEF ClaimTask
  <2> QED
    BY <2>1, <2>2, Zenon
<1>3. ASSUME NEW w \in Pods, Pop(w) \/ Abort(w) PROVE claim' = p
  <2>1. p # w
    <3>1. wk'[w].pc \in {"idle", "popped"}
      BY <1>3 DEF Pop, Abort, Goto, Become, IdleWorker, TypeOK, WorkerRecord
    <3> QED
      BY <3>1, Zenon DEF Active, ClaimedSteps, ReloadSteps, LoadSteps, DeltaSteps, RemoveSteps
  <2>2. claim = p
    BY <1>3, <2>1, OthersKept, Zenon DEF Active, ClaimHeld
  <2> QED
    BY <1>3, <2>1, <2>2, Zenon DEF Pop, Abort
<1>4. ASSUME NEW w \in Pods, Produce(w) PROVE claim' = p
  <2>1. wk' = wk /\ claim' = claim
    BY <1>4, ZenonT(40) DEF Produce, ProduceRead, ProduceWrite, ProduceFail
  <2> QED
    BY <2>1, Zenon DEF Active, ClaimHeld
<1>5. CASE ChangeMode
  <2>1. wk'[p].pc = "idle"
    BY <1>5, Zenon DEF ChangeMode, IdleWorker
  <2> QED
    BY <2>1, Zenon DEF Active, ClaimedSteps, ReloadSteps, LoadSteps, DeltaSteps, RemoveSteps
<1>6. CASE ClaimExpire
  BY <1>6, Zenon DEF ClaimExpire, Active, ClaimHeld
<1>7. CASE \/ Publish \/ ServeStale \/ ManifestLost \/ ManifestBack
           \/ ProducerLockExpire \/ ForwardExpire \/ MetaExpire \/ UNCHANGED vars
  <2>1. wk' = wk /\ claim' = claim
    BY <1>7, Zenon DEF Publish, ServeStale, ManifestLost, ManifestBack, ProducerLockExpire,
                ForwardExpire, MetaExpire, vars
  <2> QED
    BY <2>1, Zenon DEF Active, ClaimHeld
<1> QED
  BY <1>2, <1>3, <1>4, <1>5, <1>6, <1>7, Zenon DEF Next, Environment
-----------------------------------------------------------------------------
(* What a loading worker is going to commit.                               *)

\* new may replace old: the same file again, or one created later.
Supersedes(new, old) ==
    \/ old = NoVersion
    \/ new.file = old.file
    \/ new.ctime > old.ctime

\* The worker is on its way to commit_reload (or to re-index what is committed).
Loads(r) ==
    \/ r.pc \in LoadSteps \cup {"reload", "rcMark", "rcUnready", "rcToken", "rcDone", "verify",
                                "lateMark", "lateUnready", "diffScan", "diffApply", "commit"}
    \/ r.pc \in {"markDict", "markState"} /\ r.next = "reload"
    \/ r.pc \in {"clear", "fanout"} /\ r.next \in {"commit", "rcDone"}

\* Where a worker continues after the steps that several paths share.
NextKnown(r) ==
    /\ r.pc \in {"markDict", "markState"} => r.next \in {"reload", "delta", "remove"}
    /\ r.pc \in {"clear", "fanout"} => r.next \in {"commit", "rcDone", "removeMark"}

LoadInv ==
    \A w \in Pods : /\ NextKnown(wk[w])
                    /\ Loads(wk[w]) => Supersedes(Tag(wk[w].meta), st.version)

\* A full load is planned only for a file that may replace the committed one.
LEMMA FullSupersedes ==
    ASSUME NEW s \in ListSyncState, NEW e, NEW fwdExists, NEW on,
           NeedsWork(s, e, fwdExists, on) = "full"
    PROVE  Supersedes(Tag(LoadTask(e)), s.version)
  BY Zenon DEF NeedsWork, Supersedes, Tag, LoadTask

\* The records a worker's step leaves behind, in terms of those it found.
LEMMA GotoFields ==
    ASSUME TypeOK, NEW w \in Pods, NEW step, Goto(w, step)
    PROVE  /\ wk'[w].pc = step
           /\ wk'[w].next = wk[w].next
           /\ wk'[w].meta = wk[w].meta
  BY DEF TypeOK, Goto, Become, WorkerRecord

\* The same for a record that is replaced as a whole.
LEMMA BecomeFields ==
    ASSUME TypeOK, NEW w \in Pods, NEW r, Become(w, r)
    PROVE  wk'[w] = r
  BY Zenon DEF TypeOK, Become

\* A worker is on its way to commit a version only if it was before, for the
\* same version, or if it has just planned that load.
LEMMA LoadFlow ==
    ASSUME TypeOK, NEW w \in Pods, NextKnown(wk[w]), Work(w)
    PROVE  /\ NextKnown(wk'[w])
           /\ Loads(wk'[w]) => \/ Loads(wk[w]) /\ wk'[w].meta = wk[w].meta
                               \/ ReadTask(w) /\ Supersedes(Tag(wk'[w].meta), st.version)
<1> USE DEF Loads, NextKnown
<1>0. wk[w] \in WorkerRecord
  BY Zenon DEF TypeOK
<1>1. CASE ClaimTask(w) \/ Release(w)
  <2>1. Goto(w, "read") \/ Become(w, IdleWorker)
    BY <1>1, Zenon DEF ClaimTask, Release
  <2>2. wk'[w].pc \in {"read", "idle"}
    BY <2>1, GotoFields, BecomeFields, SMTT(30) DEF IdleWorker
  <2> QED
    BY <2>2, Zenon DEF LoadSteps
<1>2. CASE ReadTask(w)
  <2> DEFINE first(r) == wk'[w].pc \in {r, "markDict"} /\ wk'[w].next = r
  <2>1. ASSUME NEW r, NEW task, Begin(w, r, task)
        PROVE  first(r) /\ wk'[w].meta = task
    BY <2>1, <1>0, Zenon DEF Begin, Become, TypeOK, WorkerRecord
  <2>2. CASE Stop(w)
    BY <2>2, GotoFields, Zenon DEF Stop, LoadSteps
  <2>3. CASE Begin(w, "remove", [meta EXCEPT !.op = "remove"])
    BY <2>1, <2>3 DEF LoadSteps
  <2>4. CASE Begin(w, "delta", LoadTask(SyncTarget(st, meta, enable)))
    BY <2>1, <2>4 DEF LoadSteps
  <2>5. CASE /\ Begin(w, "reload", LoadTask(SyncTarget(st, meta, enable)))
             /\ PlanAction(st, meta, fwd[st.version] # {}, enable) = "full"
    <3>1. st \in ListSyncState
      BY Zenon DEF TypeOK
    <3>2. Supersedes(Tag(LoadTask(SyncTarget(st, meta, enable))), st.version)
      BY <2>5, <3>1, FullSupersedes, Zenon DEF PlanAction
    <3> QED
      BY <1>2, <2>1, <2>5, <3>2 DEF LoadSteps
  <2> QED
    BY <1>2, <2>2, <2>3, <2>4, <2>5, Zenon DEF ReadTask
<1>3. CASE MarkDict(w) \/ MarkState(w)
  BY <1>3, GotoFields, Zenon DEF MarkDict, MarkState, LoadSteps
<1>4. CASE \/ DeltaBegin(w) \/ DeltaReverse(w) \/ DeltaCheckpoint(w)
  <2>1. \E step \in {"deltaToken", "deltaFwd", "release", "deltaNext"} : Goto(w, step)
    BY <1>4, Zenon DEF DeltaBegin, DeltaReverse, DeltaCheckpoint
  <2> QED
    BY <2>1, GotoFields, Zenon DEF LoadSteps
<1>5. CASE DeltaToken(w) \/ DeltaForward(w)
  <2>1. wk'[w].pc \in {"deltaNext", "deltaCheckpoint"}
    <3>1. CASE DeltaToken(w)
      <4>1. PICK end : Become(w, [wk[w] EXCEPT !.pc = "deltaNext", !.tok = TokenFor(w),
                                               !.end = end, !.pos = wk[w].st.size])
        BY <3>1, Zenon DEF DeltaToken
      <4> QED
        BY <4>1, <1>0, BecomeFields, ZenonT(40) DEF WorkerRecord
    <3>2. CASE DeltaForward(w)
      BY <1>0, <3>2, BecomeFields, ZenonT(40) DEF DeltaForward, WorkerRecord
    <3> QED
      BY <1>5, <3>1, <3>2, Zenon
  <2> QED
    BY <2>1, Zenon DEF LoadSteps
<1>6. CASE \/ ReloadBegin(w) \/ Register(w) \/ Unready(w) \/ MarkReconcile(w)
           \/ DelPending(w) \/ InitLoad(w) \/ InitDel(w) \/ LoadCheckpoint(w)
           \/ StartDiff(w) \/ ReindexDone(w)
  <2>1. Loads(wk[w])
    BY <1>6, Zenon DEF ReloadBegin, Register, Unready, MarkReconcile, DelPending, InitLoad,
                InitDel, LoadCheckpoint, StartDiff, ReindexDone, LoadSteps
  <2>2. \E step : Goto(w, step) /\ step \notin {"markDict", "markState", "clear", "fanout"}
    BY <1>6 DEF ReloadBegin, Register, Unready, MarkReconcile, DelPending, InitLoad,
                InitDel, LoadCheckpoint, StartDiff, ReindexDone, Stop, AfterRegister
  <2> QED
    BY <2>1, <2>2, GotoFields, Zenon
<1>7. CASE LoadToken(w) \/ LoadBatch(w) \/ ReindexToken(w)
  <2>1. Loads(wk[w])
    BY <1>7, Zenon DEF LoadToken, LoadBatch, ReindexToken, LoadSteps
  <2>2. /\ wk'[w].meta = wk[w].meta
        /\ wk'[w].pc \notin {"markDict", "markState", "fanout"}
        /\ wk'[w].pc = "clear" => wk'[w].next = "rcDone"
    <3>1. CASE LoadToken(w)
      <4> DEFINE pc == IF st.part # Absent THEN "verify"
                       ELSE IF st.loadingSize < wk[w].meta.size THEN "load"
                       ELSE "startDiff"
      <4>1. PICK end : Become(w, [wk[w] EXCEPT !.pc = pc, !.tok = TokenFor(w), !.end = end,
                                               !.flag = TRUE, !.pos = st.loadingSize])
        BY <3>1, Zenon DEF LoadToken
      <4> DEFINE r == [wk[w] EXCEPT !.pc = pc, !.tok = TokenFor(w), !.end = end,
                                    !.flag = TRUE, !.pos = st.loadingSize]
      <4>4. wk'[w] = r
        BY <4>1, BecomeFields, Zenon
      <4>2. pc \in {"verify", "load", "startDiff"}
        BY Zenon
      <4> HIDE DEF pc
      <4>3. r.pc = pc /\ r.meta = wk[w].meta
        BY <1>0, Zenon DEF WorkerRecord
      <4> HIDE DEF r
      <4> QED
        BY <4>2, <4>3, <4>4, SMTT(30)
    <3>2. CASE LoadBatch(w)
      <4>1. PICK pos, flag : Become(w, [wk[w] EXCEPT !.pc = "loadCheckpoint", !.pos = pos,
                                                     !.flag = flag])
        BY <3>2, Zenon DEF LoadBatch
      <4> DEFINE r == [wk[w] EXCEPT !.pc = "loadCheckpoint", !.pos = pos, !.flag = flag]
      <4>2. r.pc = "loadCheckpoint" /\ r.meta = wk[w].meta
        BY <1>0, Zenon DEF WorkerRecord
      <4>3. wk'[w] = r
        BY <4>1, BecomeFields, Zenon
      <4> HIDE DEF r
      <4> QED
        BY <4>2, <4>3, SMTT(30)
    <3>3. CASE ReindexToken(w)
      <4>1. PICK todo, flag : Become(w, [wk[w] EXCEPT !.pc = "clear", !.tok = TokenFor(w),
                                           !.todo = todo, !.flag = flag, !.next = "rcDone"])
        BY <3>3, Zenon DEF ReindexToken
      <4> DEFINE r == [wk[w] EXCEPT !.pc = "clear", !.tok = TokenFor(w), !.todo = todo,
                                    !.flag = flag, !.next = "rcDone"]
      <4>2. r.pc = "clear" /\ r.meta = wk[w].meta /\ r.next = "rcDone"
        BY <1>0, Zenon DEF WorkerRecord
      <4>3. wk'[w] = r
        BY <4>1, BecomeFields, SMTT(30)
      <4> HIDE DEF r
      <4> QED
        BY <4>2, <4>3, SMTT(30)
    <3> QED
      BY <1>7, <3>1, <3>2, <3>3, Zenon
  <2> QED
    BY <2>1, <2>2, SMTT(30)
<1>8. CASE Verify(w) \/ LateUnready(w)
  <2>1. Loads(wk[w])
    BY <1>8, Zenon DEF Verify, LateUnready
  <2>2. CASE IndexNew(w)
    <3>1. /\ wk'[w].meta = wk[w].meta /\ wk'[w].next = "commit"
          /\ wk'[w].pc \in {"commit", "clear", "fanout", "diffScan"}
      <4> DEFINE pc == IF ~enable THEN "commit" ELSE IF st.reconcile THEN "clear"
                       ELSE IF OldSet(w) = {} THEN "fanout" ELSE "diffScan"
                 flag == NewSet(w) # {}
                 r == [wk[w] EXCEPT !.pc = pc, !.todo = NewSet(w), !.flag = flag,
                                    !.next = "commit"]
      <4>1. Become(w, r)
        BY <2>2, Zenon DEF IndexNew
      <4>2. pc \in {"commit", "clear", "fanout", "diffScan"}
        BY Zenon
      <4> HIDE DEF pc, flag
      <4>3. r.pc = pc /\ r.meta = wk[w].meta /\ r.next = "commit"
        BY <1>0, Zenon DEF WorkerRecord
      <4> HIDE DEF r
      <4> QED
        BY <4>1, <4>2, <4>3, BecomeFields, Zenon
    <3> QED
      BY <2>1, <3>1, Zenon
  <2>3. CASE Goto(w, "release") \/ Goto(w, "lateMark")
    BY <2>1, <2>3, GotoFields, Zenon
  <2> QED
    BY <1>8, <2>2, <2>3, ZenonT(40) DEF Verify, LateUnready, Stop
<1>9. CASE ClearToken(w)
  <2>1. wk[w].pc = "clear" /\ wk[w].next \in {"commit", "rcDone", "removeMark"}
    BY <1>9, Zenon DEF ClearToken
  <2>2. \/ wk' = wk
        \/ Goto(w, IF wk[w].next = "removeMark" THEN "removeMark" ELSE "fanout")
    BY <1>9, Zenon DEF ClearToken
  <2> QED
    BY <2>1, <2>2, GotoFields, SMTT(30) DEF LoadSteps
<1>10. CASE FanoutScan(w)
  <2>1. wk[w].pc = "fanout" /\ wk[w].next \in {"commit", "rcDone", "removeMark"}
    BY <1>10, Zenon DEF FanoutScan
  <2>2. \/ Goto(w, "release")
        \/ Goto(w, wk[w].next)
        \/ wk'[w].pc = wk[w].pc /\ wk'[w].next = wk[w].next /\ wk'[w].meta = wk[w].meta
    <3>1. \/ Goto(w, "release")
          \/ Goto(w, wk[w].next)
          \/ \E todo : Become(w, [wk[w] EXCEPT !.todo = todo])
      BY <1>10, Zenon DEF FanoutScan, Stop
    <3>2. ASSUME NEW todo, Become(w, [wk[w] EXCEPT !.todo = todo])
          PROVE  wk'[w].pc = wk[w].pc /\ wk'[w].next = wk[w].next /\ wk'[w].meta = wk[w].meta
      <4> DEFINE r == [wk[w] EXCEPT !.todo = todo]
      <4>1. r.pc = wk[w].pc /\ r.next = wk[w].next /\ r.meta = wk[w].meta
        BY <1>0, Zenon DEF WorkerRecord
      <4>2. wk'[w] = r
        BY <3>2, BecomeFields, Zenon
      <4> HIDE DEF r
      <4> QED
        BY <4>1, <4>2, Zenon
    <3> QED
      BY <3>1, <3>2, Zenon
  <2> QED
    BY <2>1, <2>2, GotoFields DEF LoadSteps
<1>11. CASE DiffScan(w) \/ DiffApply(w)
  <2>1. Loads(wk[w])
    BY <1>11, Zenon DEF DiffScan, DiffApply
  <2>2. /\ wk'[w].meta = wk[w].meta
        /\ wk'[w].pc \in {"release", "commit", "diffScan", "diffApply"}
    <3>1. CASE DiffScan(w)
      <4>1. \/ Goto(w, "release")
            \/ Goto(w, "commit")
            \/ \E todo, dels : Become(w, [wk[w] EXCEPT !.pc = "diffApply", !.todo = todo,
                                                       !.dels = dels])
        BY <3>1, Zenon DEF DiffScan, Stop
      <4>2. ASSUME NEW todo, NEW dels,
                   Become(w, [wk[w] EXCEPT !.pc = "diffApply", !.todo = todo, !.dels = dels])
            PROVE  wk'[w].pc = "diffApply" /\ wk'[w].meta = wk[w].meta
        <5> DEFINE r == [wk[w] EXCEPT !.pc = "diffApply", !.todo = todo, !.dels = dels]
        <5>1. r.pc = "diffApply" /\ r.meta = wk[w].meta
          BY <1>0, Zenon DEF WorkerRecord
        <5>2. wk'[w] = r
          BY <4>2, BecomeFields, Zenon
        <5> HIDE DEF r
        <5> QED
          BY <5>1, <5>2, Zenon
      <4> QED
        BY <4>1, <4>2, GotoFields, ZenonT(40)
    <3>2. CASE DiffApply(w)
      <4>1. wk[w].pc = "diffApply"
        BY <3>2, Zenon DEF DiffApply
      <4>2. \/ Goto(w, "commit")
            \/ Goto(w, "diffScan")
            \/ \E todo : Become(w, [wk[w] EXCEPT !.todo = todo])
            \/ \E dels : Become(w, [wk[w] EXCEPT !.dels = dels])
        BY <3>2, Zenon DEF DiffApply
      <4>3. ASSUME NEW todo, Become(w, [wk[w] EXCEPT !.todo = todo])
            PROVE  wk'[w].pc = wk[w].pc /\ wk'[w].meta = wk[w].meta
        <5> DEFINE r == [wk[w] EXCEPT !.todo = todo]
        <5>1. r.pc = wk[w].pc /\ r.meta = wk[w].meta
          BY <1>0, Zenon DEF WorkerRecord
        <5>2. wk'[w] = r
          BY <4>3, BecomeFields, Zenon
        <5> HIDE DEF r
        <5> QED
          BY <5>1, <5>2, Zenon
      <4>4. ASSUME NEW dels, Become(w, [wk[w] EXCEPT !.dels = dels])
            PROVE  wk'[w].pc = wk[w].pc /\ wk'[w].meta = wk[w].meta
        <5> DEFINE r == [wk[w] EXCEPT !.dels = dels]
        <5>1. r.pc = wk[w].pc /\ r.meta = wk[w].meta
          BY <1>0, Zenon DEF WorkerRecord
        <5>2. wk'[w] = r
          BY <4>4, BecomeFields, Zenon
        <5> HIDE DEF r
        <5> QED
          BY <5>1, <5>2, Zenon
      <4> QED
        BY <4>1, <4>2, <4>3, <4>4, GotoFields, Zenon
    <3> QED
      BY <1>11, <3>1, <3>2, SMTT(30)
  <2> QED
    BY <2>1, <2>2, Zenon
<1>12. CASE \/ Commit(w) \/ CommitDel(w) \/ CommitList(w) \/ CommitEnable(w)
            \/ Persist(w) \/ ExpireOld(w) \/ RemoveMark(w)
  <2>1. \E step \in {"commitDel", "commitList", "commitEnable", "persist", "expireOld",
                     "release", "cleanup"} : Goto(w, step)
    BY <1>12, Zenon DEF Commit, CommitDel, CommitList, CommitEnable, Persist, ExpireOld,
                 RemoveMark, Stop
  <2> QED
    BY <2>1, GotoFields, Zenon DEF LoadSteps
<1>13. CASE RemoveBegin(w)
  <2>1. /\ wk'[w].pc \in {"release", "clear", "fanout", "cleanup", "removeMark"}
        /\ wk'[w].pc \in {"clear", "fanout"} => wk'[w].next = "removeMark"
    <3> DEFINE scan == IF MustClear(w) THEN "clear" ELSE "fanout"
               skip == IF st.removed THEN "cleanup" ELSE "removeMark"
    <3>1. \/ Goto(w, "release")
          \/ \E todo, flag : Become(w, [wk[w] EXCEPT !.pc = scan, !.tok = token, !.todo = todo,
                                            !.flag = flag, !.pos = 0, !.next = "removeMark"])
          \/ Become(w, [wk[w] EXCEPT !.pc = skip, !.pos = 0])
      BY <1>13, Zenon DEF RemoveBegin, Stop
    <3>2. scan \in {"clear", "fanout"} /\ skip \in {"cleanup", "removeMark"}
      BY Zenon
    <3> HIDE DEF scan, skip
    <3>3. ASSUME NEW todo, NEW flag,
                 Become(w, [wk[w] EXCEPT !.pc = scan, !.tok = token, !.todo = todo,
                                         !.flag = flag, !.pos = 0, !.next = "removeMark"])
          PROVE  wk'[w].pc = scan /\ wk'[w].next = "removeMark"
      <4> DEFINE r == [wk[w] EXCEPT !.pc = scan, !.tok = token, !.todo = todo,
                                    !.flag = flag, !.pos = 0, !.next = "removeMark"]
      <4>1. r.pc = scan /\ r.next = "removeMark"
        BY <1>0, Zenon DEF WorkerRecord
      <4>2. wk'[w] = r
        BY <3>3, BecomeFields, Zenon
      <4> HIDE DEF r
      <4> QED
        BY <4>1, <4>2, Zenon
    <3>4. ASSUME Become(w, [wk[w] EXCEPT !.pc = skip, !.pos = 0])
          PROVE  wk'[w].pc = skip
      <4> DEFINE r == [wk[w] EXCEPT !.pc = skip, !.pos = 0]
      <4>1. r.pc = skip
        BY <1>0, Zenon DEF WorkerRecord
      <4>2. wk'[w] = r
        BY <3>4, BecomeFields, SMTT(30)
      <4> HIDE DEF r
      <4> QED
        BY <4>1, <4>2, Zenon
    <3>5. \/ wk'[w].pc = "release"
          \/ wk'[w].pc = scan /\ wk'[w].next = "removeMark"
          \/ wk'[w].pc = skip
      <4>1. CASE Goto(w, "release")
        BY <4>1, GotoFields, Zenon
      <4> QED
        BY <3>1, <3>3, <3>4, <4>1, ZenonT(40)
    <3> QED
      BY <3>2, <3>5, SMTT(30)
  <2> QED
    BY <2>1, Zenon DEF LoadSteps
<1>14. CASE Cleanup(w)
  <2>1. wk'[w].pc \in {"release", "cleanup"}
    BY <1>0, <1>14, BecomeFields, ZenonT(40) DEF Cleanup, WorkerRecord
  <2> QED
    BY <2>1, Zenon DEF LoadSteps
<1> QED
  BY <1>1, <1>2, <1>3, <1>4, <1>5, <1>6, <1>7, <1>8, <1>9, <1>10, <1>11, <1>12, <1>13, ZenonT(40),
     <1>14 DEF Work
\* Only commit_reload replaces the committed version; only a finished removal
\* forgets it.
LEMMA VersionFlow ==
    ASSUME TypeOK, NEW w \in Pods, Work(w)
    PROVE  \/ st'.version = st.version
           \/ Commit(w) /\ st'.version = Tag(wk[w].meta)
           \/ st'.version = NoVersion
<1>1. st \in ListSyncState
  BY Zenon DEF TypeOK
<1>2. CASE Commit(w)
  BY <1>1, <1>2, Zenon DEF Commit, ListSyncState
<1>3. CASE Cleanup(w)
  BY <1>3, Zenon DEF Cleanup, NoState
<1>4. CASE \/ MarkState(w) \/ DeltaCheckpoint(w) \/ MarkReconcile(w) \/ InitLoad(w)
           \/ StartDiff(w) \/ CommitEnable(w) \/ RemoveMark(w) \/ DiffApply(w)
  BY <1>1, <1>4, Zenon DEF MarkState, DeltaCheckpoint, MarkReconcile, InitLoad, StartDiff,
                    CommitEnable, RemoveMark, DiffApply, ListSyncState
<1>5. CASE InitDel(w) \/ LoadCheckpoint(w) \/ ReindexDone(w) \/ CommitDel(w)
  BY <1>1, <1>5, ZenonT(40) DEF InitDel, LoadCheckpoint, ReindexDone, CommitDel, ListSyncState
<1>6. CASE \/ ClaimTask(w) \/ ReadTask(w) \/ MarkDict(w) \/ Release(w) \/ DeltaBegin(w)
           \/ DeltaToken(w) \/ DeltaReverse(w) \/ DeltaForward(w) \/ ReloadBegin(w)
           \/ Register(w) \/ Unready(w) \/ DelPending(w) \/ LoadToken(w) \/ LoadBatch(w)
           \/ Verify(w) \/ LateUnready(w) \/ ReindexToken(w) \/ ClearToken(w)
           \/ FanoutScan(w) \/ DiffScan(w) \/ CommitList(w) \/ Persist(w) \/ ExpireOld(w)
           \/ RemoveBegin(w)
  BY <1>6, Zenon DEF ClaimTask, ReadTask, MarkDict, Release, DeltaBegin, DeltaToken, DeltaReverse,
              DeltaForward, ReloadBegin, Register, Unready, DelPending, LoadToken, LoadBatch,
              Verify, LateUnready, ReindexToken, ClearToken, FanoutScan, DiffScan, CommitList,
              Persist, ExpireOld, RemoveBegin, dataVars
<1> QED
  BY <1>2, <1>3, <1>4, <1>5, <1>6, Zenon DEF Work

\* Every step keeps LoadInv: while a load is under way nobody else moves the
\* committed version it was planned against.
LEMMA LoadStep ==
    ASSUME TypeOK, ClaimHeld, LoadInv, [Next]_vars
    PROVE  LoadInv'
<1> SUFFICES ASSUME NEW p \in Pods
             PROVE  /\ NextKnown(wk'[p])
                    /\ Loads(wk'[p]) => Supersedes(Tag(wk'[p].meta), st'.version)
  BY Zenon DEF LoadInv
<1>0. /\ NextKnown(IdleWorker) /\ ~Loads(IdleWorker)
      /\ \A r : Loads(r) => r.pc \in ClaimedSteps
  BY Zenon DEF NextKnown, Loads, IdleWorker, LoadSteps, ClaimedSteps, ReloadSteps
<1>1. ASSUME NEW w \in Pods, Work(w)
      PROVE  /\ NextKnown(wk'[p])
             /\ Loads(wk'[p]) => Supersedes(Tag(wk'[p].meta), st'.version)
  <2>1. CASE p = w
    <3>1. /\ NextKnown(wk'[w])
          /\ Loads(wk'[w]) => Supersedes(Tag(wk'[w].meta), st.version)
      BY <1>1, LoadFlow, Zenon DEF LoadInv
    <3>2. CASE Commit(w)
      <4>1. wk'[w].pc = "commitDel"
        BY <3>2, GotoFields, Zenon DEF Commit
      <4> QED
        BY <2>1, <3>1, <4>1, Zenon DEF Loads, LoadSteps
    <3>3. CASE st'.version \in {st.version, NoVersion}
      BY <2>1, <3>1, <3>3, Zenon DEF Supersedes
    <3> QED
      BY <1>1, <3>2, <3>3, VersionFlow, Zenon
  <2>2. CASE p # w
    <3>1. wk'[p] = wk[p]
      BY <1>1, <2>2, OthersKept, Zenon
    <3>2. NextKnown(wk'[p])
      BY <3>1, Zenon DEF LoadInv
    <3>3. ASSUME Loads(wk'[p]) PROVE Supersedes(Tag(wk'[p].meta), st'.version)
      <4>1. claim = p
        BY <1>0, <3>1, <3>3, Zenon DEF Active, ClaimHeld
      <4>2. ~Commit(w)
        BY <2>2, <4>1, Zenon DEF Commit, ClaimHeld, Active, ClaimedSteps, ReloadSteps
      <4>3. st'.version \in {st.version, NoVersion}
        BY <1>1, <4>2, VersionFlow, Zenon
      <4> QED
        BY <3>1, <3>3, <4>3, Zenon DEF LoadInv, Supersedes
    <3> QED
      BY <3>2, <3>3, Zenon
  <2> QED
    BY <2>1, <2>2, Zenon
<1>2. ASSUME NEW w \in Pods, Pop(w) \/ Abort(w)
      PROVE  /\ NextKnown(wk'[p])
             /\ Loads(wk'[p]) => Supersedes(Tag(wk'[p].meta), st'.version)
  <2>1. st' = st
    BY <1>2, Zenon DEF Pop, Abort, dataVars
  <2>2. wk'[w].pc \in {"idle", "popped"}
    BY <1>2 DEF Pop, Abort, Goto, Become, IdleWorker, TypeOK, WorkerRecord
  <2>3. CASE p = w
    BY <2>2, <2>3, Zenon DEF NextKnown, Loads, LoadSteps
  <2>4. CASE p # w
    BY <1>2, <2>1, <2>4, OthersKept, Zenon DEF LoadInv
  <2> QED
    BY <2>3, <2>4, Zenon
<1>3. CASE ChangeMode
  BY <1>0, <1>3, Zenon DEF ChangeMode
<1>4. CASE UNCHANGED <<wk, st>>
  BY <1>4, Zenon DEF LoadInv
<1>5. ASSUME NEW w \in Pods, Produce(w) PROVE UNCHANGED <<wk, st>>
  BY <1>5, Zenon DEF Produce, ProduceRead, ProduceWrite, ProduceFail, dataVars
<1>6. CASE \/ Publish \/ ServeStale \/ ManifestLost \/ ManifestBack \/ ClaimExpire
           \/ ProducerLockExpire \/ ForwardExpire \/ MetaExpire \/ UNCHANGED vars
  <2>1. UNCHANGED <<wk, st>>
    BY <1>6, Zenon DEF Publish, ServeStale, ManifestLost, ManifestBack, ClaimExpire,
                ProducerLockExpire, ForwardExpire, MetaExpire, vars, dataVars
  <2> QED
    BY <1>4, <2>1, Zenon
<1> QED
  BY <1>1, <1>2, <1>3, <1>4, <1>5, <1>6, Zenon DEF Next, Environment

\* Under the invariant no step rolls the committed file back.
LEMMA StepKeepsOrder ==
    ASSUME TypeOK, LoadInv, [Next]_vars
    PROVE  ~Rollback
<1> SUFFICES ASSUME Rollback PROVE FALSE
  BY Zenon
<1>1. ASSUME NEW w \in Pods, Work(w) PROVE FALSE
  <2>1. Commit(w) /\ st'.version = Tag(wk[w].meta)
    BY <1>1, VersionFlow, Zenon DEF Rollback
  <2>2. Supersedes(Tag(wk[w].meta), st.version)
    BY <2>1, Zenon DEF LoadInv, Loads, Commit
  <2>3. st.version.ctime \in Nat /\ Tag(wk[w].meta).ctime \in Nat
    <3>1. st.version \in Versions /\ Tag(wk[w].meta) \in Versions
      BY Zenon DEF TypeOK
    <3> QED
      BY <3>1, VersionsTyped, Zenon DEF Version
  <2> QED
    BY <2>1, <2>2, <2>3 DEF Rollback, Supersedes
<1>2. st' # st
  BY Zenon DEF Rollback
<1>3. ASSUME NEW w \in Pods, Produce(w) \/ Pop(w) \/ Abort(w) PROVE FALSE
  BY <1>2, <1>3, Zenon DEF Produce, ProduceRead, ProduceWrite, ProduceFail, Pop, Abort, dataVars
<1>4. CASE Environment \/ UNCHANGED vars
  BY <1>2, <1>4, Zenon DEF Environment, Publish, ServeStale, ManifestLost, ManifestBack, ClaimExpire,
        ProducerLockExpire, ForwardExpire, MetaExpire, ChangeMode, vars, dataVars
<1> QED
  BY <1>1, <1>3, <1>4, Zenon DEF Next

\* The idle fleet satisfies the invariant.
LEMMA RollbackInit == Init => ClaimHeld /\ LoadInv
<1> SUFFICES ASSUME Init PROVE ClaimHeld /\ LoadInv
  BY Zenon
<1>1. \A w \in Pods : wk[w] = IdleWorker
  BY Zenon DEF Init
<1> QED
  BY <1>1 DEF ClaimHeld, LoadInv, Active, NextKnown, Loads, IdleWorker, LoadSteps,
              ClaimedSteps, ReloadSteps, DeltaSteps, RemoveSteps

\* A worker in the middle of a task holds the list's claim: no two workers are
\* ever past try_acquire for the same list (worker/run.rs, work_lock.rs).
THEOREM ClaimExcludes == Spec => []ClaimHeld
<1>1. Init => TypeOK /\ ClaimHeld
  BY TypeInit, RollbackInit, Zenon
<1>2. TypeOK /\ ClaimHeld /\ [Next]_vars => TypeOK' /\ ClaimHeld'
  BY TypeStep, ClaimStep, Zenon
<1> QED
  BY <1>1, <1>2, PTL DEF Spec

\* The committed file of a list is never replaced by a different one that was
\* not created later, whatever the manifest says, whoever crashes or resumes
\* and however the mode changes (needs_work_with_reverse_index, commit_reload).
THEOREM NeverRolledBack == Spec => NoRollback
<1> DEFINE I == TypeOK /\ ClaimHeld /\ LoadInv
<1>1. Init => I
  BY TypeInit, RollbackInit, Zenon
<1>2. I /\ [Next]_vars => I'
  BY TypeStep, ClaimStep, LoadStep, Zenon
<1>3. I /\ [Next]_vars => ~Rollback
  BY StepKeepsOrder, Zenon
<1>4. I /\ [Next]_vars => [~Rollback]_vars
  BY <1>3, Zenon
<1> QED
  BY <1>1, <1>2, <1>4, PTL DEF Spec, NoRollback

-----------------------------------------------------------------------------
(* IdListSync implements WorkClaim.  With LockIsClaim of WorkLock_proofs   *)
(* this closes the gap between the lock with its clocks and the claim that *)
(* the other proofs about IdListSync rest on.                              *)

Workers == {w \in Pods : Active(w)}

\* A step of a worker's own changes nobody else's part in the work.
LEMMA OthersWork ==
    ASSUME TypeOK, NEW w \in Pods, Work(w) \/ Pop(w) \/ Abort(w)
    PROVE  Workers' \ {w} = Workers \ {w}
<1>1. \A p \in Pods \ {w} : wk'[p] = wk[p]
  BY OthersKept, Zenon
<1> QED
  BY <1>1 DEF Workers, Active

\* Taking up a task is taking a free claim; a refused worker is idle again.
LEMMA ClaimTaskTakes ==
    ASSUME TypeOK, NEW w \in Pods, ClaimTask(w)
    PROVE  \/ claim = NoPod /\ claim' = w
           \/ claim' = claim /\ w \notin Workers'
<1>1. CASE claim = NoPod
  BY <1>1, Zenon DEF ClaimTask
<1>2. CASE claim # NoPod
  <2>1. claim' = claim /\ Become(w, IdleWorker)
    BY <1>2, Zenon DEF ClaimTask
  <2>2. wk'[w].pc = "idle"
    BY <2>1, Zenon DEF Become, IdleWorker, TypeOK
  <2> QED
    BY <2>1, <2>2, Zenon DEF Workers, Active, ClaimedSteps, ReloadSteps, LoadSteps, DeltaSteps,
                      RemoveSteps
<1> QED
  BY <1>1, <1>2, Zenon

\* Giving the claim back, taking a task off the queue and stopping leave a
\* worker outside the claimed steps.
LEMMA StopsWorking ==
    ASSUME TypeOK, NEW w \in Pods, Release(w) \/ Pop(w) \/ Abort(w)
    PROVE  w \notin Workers' /\ claim' \in {claim, NoPod}
<1>1. wk'[w].pc \in {"idle", "popped"}
  BY DEF Release, Pop, Abort, Goto, Become, IdleWorker, TypeOK, WorkerRecord
<1>2. w \notin Workers'
  BY <1>1, Zenon DEF Workers, Active, ClaimedSteps, ReloadSteps, LoadSteps, DeltaSteps, RemoveSteps
<1>3. claim' \in {claim, NoPod}
  BY Zenon DEF Release, Pop, Abort
<1> QED
  BY <1>2, <1>3, Zenon

\* Every step is a step of the claim, or leaves it alone.
LEMMA RefinesClaim ==
    ASSUME TypeOK, ClaimHeld, [Next]_vars
    PROVE  Claim!Next
<1>1. \A p \in Workers' : claim' = p
  BY ClaimStep, Zenon DEF ClaimHeld, Workers
<1>2. ASSUME Workers' \subseteq Workers, claim' \in {claim, NoPod} PROVE Claim!Leave
  BY <1>1, <1>2, Zenon DEF Claim!Leave, Workers
<1>3. ASSUME NEW w \in Pods, Work(w) PROVE Claim!Next
  <2>1. Workers' \ {w} = Workers \ {w}
    BY <1>3, OthersWork, Zenon
  <2>2. CASE ClaimTask(w)
    <3>1. CASE claim = NoPod /\ claim' = w
      <4>1. Workers = {}
        BY <3>1, ConstantsAssumption, Zenon DEF ClaimHeld, Workers
      <4>2. Workers' \in {Workers, Workers \cup {w}}
        BY <2>1, <4>1, Zenon
      <4> QED
        BY <3>1, <4>2, Zenon DEF Claim!Next, Claim!Take, Workers
    <3>2. CASE claim' = claim /\ w \notin Workers'
      BY <1>2, <2>1, <3>2, Zenon DEF Claim!Next
    <3> QED
      BY <2>2, <3>1, <3>2, ClaimTaskTakes, Zenon
  <2>3. CASE Active(w) /\ Release(w)
    BY <1>2, <2>1, <2>3, StopsWorking, Zenon DEF Claim!Next
  <2>4. CASE Active(w) /\ claim' = claim
    <3>1. w \in Workers
      BY <2>4, Zenon DEF Workers
    <3> QED
      BY <1>2, <2>1, <2>4, <3>1, Zenon DEF Claim!Next
  <2> QED
    BY <1>3, <2>2, <2>3, <2>4, WorkUnderClaim, Zenon
<1>4. ASSUME NEW w \in Pods, Pop(w) \/ Abort(w) PROVE Claim!Next
  BY <1>2, <1>4, OthersWork, StopsWorking, Zenon DEF Claim!Next
<1>5. ASSUME NEW w \in Pods, Produce(w) PROVE Claim!Next
  <2>1. wk' = wk /\ claim' = claim
    BY <1>5, ZenonT(40) DEF Produce, ProduceRead, ProduceWrite, ProduceFail
  <2> QED
    BY <1>2, <2>1, Zenon DEF Claim!Next, Workers, Active
<1>6. CASE ChangeMode
  <2>1. \A p \in Pods : wk'[p].pc = "idle"
    BY <1>6, Zenon DEF ChangeMode, IdleWorker
  <2>2. Workers' = {}
    BY <2>1, Zenon DEF Workers, Active, ClaimedSteps, ReloadSteps, LoadSteps, DeltaSteps, RemoveSteps
  <2>3. claim' = claim
    BY <1>6, Zenon DEF ChangeMode
  <2> QED
    BY <1>2, <2>2, <2>3, Zenon DEF Claim!Next
<1>7. CASE ClaimExpire
  <2>1. wk' = wk /\ claim' = NoPod
    BY <1>7, Zenon DEF ClaimExpire
  <2> QED
    BY <1>2, <2>1, Zenon DEF Claim!Next, Workers, Active
<1>8. CASE \/ Publish \/ ServeStale \/ ManifestLost \/ ManifestBack
           \/ ProducerLockExpire \/ ForwardExpire \/ MetaExpire \/ UNCHANGED vars
  <2>1. wk' = wk /\ claim' = claim
    BY <1>8, Zenon DEF Publish, ServeStale, ManifestLost, ManifestBack, ProducerLockExpire,
                ForwardExpire, MetaExpire, vars
  <2> QED
    BY <1>2, <2>1, Zenon DEF Claim!Next, Workers, Active
<1> QED
  BY <1>3, <1>4, <1>5, <1>6, <1>7, <1>8, Zenon DEF Next, Environment

\* Whatever pods crash, however claims expire and modes change, the workers'
\* use of the lock is a behaviour of the abstract claim (run_once,
\* run_claimed, stop_and_release).
THEOREM SyncUsesClaim == Spec => UsesClaim
<1>1. Init => TypeOK /\ ClaimHeld /\ Claim!Init
  <2>1. ASSUME Init PROVE Claim!Init
    <3>1. \A w \in Pods : wk[w] = IdleWorker
      BY <2>1, Zenon DEF Init
    <3>2. Workers = {}
      BY <3>1 DEF Workers, Active, IdleWorker, ClaimedSteps, ReloadSteps, LoadSteps, DeltaSteps,
                  RemoveSteps
    <3>3. claim = NoPod
      BY <2>1, Zenon DEF Init
    <3> QED
      BY <3>2, <3>3, Zenon DEF Claim!Init, Workers
  <2> QED
    BY <2>1, TypeInit, RollbackInit, Zenon
<1>2. TypeOK /\ ClaimHeld /\ [Next]_vars => TypeOK' /\ ClaimHeld'
  BY TypeStep, ClaimStep, Zenon
<1>3. TypeOK /\ ClaimHeld /\ [Next]_vars => [Claim!Next]_(Claim!vars)
  BY RefinesClaim, Zenon
<1> QED
  BY <1>1, <1>2, <1>3, PTL DEF Spec, UsesClaim, Claim!Spec
=============================================================================
