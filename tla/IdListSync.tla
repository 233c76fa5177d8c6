----------------------------- MODULE IdListSync -----------------------------
(***************************************************************************)
(* Synchronisation of one id list into Redis: the elected producer that    *)
(* compares the manifest with the list's state and queues a task, and the  *)
(* per-pod workers that pop the task, claim the list and load, append to,  *)
(* rebuild or remove it.  From datastore/idlist_membership/redis_syncer.rs *)
(* and worker/{run,reload,delta,streamed_diff,removal}.rs.                 *)
(*                                                                         *)
(* Redis holds, for the list: a forward set of members per loaded version, *)
(* the reverse index (which members carry the list's token), the name to   *)
(* token dictionary, the state hash with its checkpoints and repair        *)
(* markers, the task queue with the task's metadata, and the claim lock.   *)
(* Every Redis write of the worker is an action of its own, so a worker    *)
(* may stop between any two of them.  Writes sent in one pipeline are also *)
(* separate actions; whether a worker may stop inside a pipeline is a      *)
(* constant.  Reads are taken together with the write that follows them:   *)
(* while a worker holds the claim nobody else writes what it reads.        *)
(***************************************************************************)
EXTENDS SyncPlanning, FiniteSets, Sequences

CONSTANTS
    Pods,            \* proxy instances; each runs one producer and one worker
    NoPod,           \* the value of a lock nobody holds
    Members,         \* member hashes an id list may contain
    Lines,           \* Lines[f]: the lines of file f, each adds or removes a member
    History,         \* the entries the manifest advertises for the list, in order
    Batch,           \* pipeline_batch_size
    PartitionMax,    \* diff_partition_max_members
    HashOf,          \* HashOf[m]: the hash that assigns members to partitions
    MaxToken,        \* how many dictionary tokens may be allocated
    Budget,          \* how often each kind of fault may happen
    Modes,           \* whether reverse indexing is on when the fleet starts
    Together,        \* the kinds of fault that may happen in one behaviour
    SplitPipelines,  \* a lost connection may cut a pipeline short
    EarlyReturn,     \* a removed list may come back before its removal is done
    Ahead            \* the origin may serve more of a file than the manifest says

FaultKinds == {"abort", "expiry", "meta", "missing", "mode", "stale"}

\* The sizes of the worker's configuration; from_env refuses a size of 0.
IdListWorkerConfig ==
    [pipeline_batch_size : Nat \ {0}, diff_partition_max_members : Nat \ {0}]

ASSUME ConstantsAssumption ==
    /\ NoPod \notin Pods
    /\ IsFiniteSet(Members)
    /\ Lines \in [Files -> Seq([add : BOOLEAN, member : Members])]
    /\ History \in Seq(Entry)
    /\ Len(History) > 0
    /\ \A i \in 1..Len(History) :
          History[i] = NoEntry \/ (/\ History[i].file \in Files
                                   /\ History[i].size <= Len(Lines[History[i].file]))
    /\ [pipeline_batch_size |-> Batch, diff_partition_max_members |-> PartitionMax]
          \in IdListWorkerConfig
    /\ HashOf \in [Members -> Nat]
    /\ MaxToken \in Nat
    /\ Budget \in [FaultKinds -> Nat]
    /\ Together \subseteq SUBSET FaultKinds
    /\ Modes \subseteq BOOLEAN
    /\ SplitPipelines \in BOOLEAN
    /\ EarlyReturn \in BOOLEAN
    /\ Ahead \in BOOLEAN

VARIABLES
    pub,       \* index in History of the entry the manifest advertises
    missing,   \* some configured key's manifest is not available
    enable,    \* IDLIST_ENABLE_REVERSE_INDEX, the same for the whole fleet
    queued,    \* the list's task is in the queue
    meta,      \* task_meta
    st,        \* the list's state hash
    fwd,       \* forward set of each version; an empty set is an absent key
    volatile,  \* versions whose forward set has a TTL
    token,     \* the list's dictionary token, 0: none
    lastToken, \* the dictionary's token counter
    rev,       \* rev[t]: the members whose reverse set holds token t
    listed,    \* the list is in the company's __all set
    ready,     \* the company's __ready key is set
    offMark,   \* the dictionary carries the reverse_index_disabled marker
    claim,     \* holder of the list's claim lock
    plock,     \* holder of the producer lock
    prod,      \* what each pod's producer tick decided and has yet to write
    wk,        \* each pod's worker
    left       \* faults that may still happen

manifestVars == <<pub, missing, enable>>
taskVars == <<queued, meta>>
dictVars == <<token, lastToken>>
markVars == <<listed, ready, offMark>>
producerVars == <<plock, prod>>
dataVars == <<st, fwd, volatile, rev>>
vars == <<manifestVars, taskVars, dataVars, dictVars, markVars, claim,
          producerVars, wk, left>>

Versions == {NoVersion} \cup {Tag(History[i]) : i \in 1..Len(History)}
Tokens == 0..MaxToken
Manifest == History[pub]

TaskOps == {"none", "load", "remove"}
Task == [op : TaskOps, file : Files \cup {NoFile}, ctime : Nat, size : Nat]
NoTask == [op |-> "none", file |-> NoFile, ctime |-> 0, size |-> 0]
LoadTask(e) == [op |-> "load", file |-> e.file, ctime |-> e.ctime, size |-> e.size]

\* A pod's producer between reading and writing: what it is going to write.
ProducerPlans == {"off", "load", "remove", "ready", "rebuild", "nothing"}
NoTick == [plan |-> "off", entry |-> NoEntry]

(***************************************************************************)
(* The worker's steps.  Pipelined commands that follow the first one of    *)
(* their pipeline are in Pipelined: a worker stops there only when a       *)
(* pipeline can be cut short.                                              *)
(***************************************************************************)
Pipelined == {"deltaFwd", "deltaNext", "rcUnready", "initDel", "commitDel",
              "commitList", "cleanup"}
LoadSteps == {"register", "unready", "mark", "delPending", "initLoad", "initDel",
              "loadToken", "load", "loadCheckpoint", "startDiff"}
ReloadSteps == LoadSteps \cup
    {"reload", "rcMark", "rcUnready", "rcToken", "rcDone", "verify", "lateMark",
     "lateUnready", "clear", "fanout", "diffScan", "diffApply", "commit",
     "commitDel", "commitList", "commitEnable", "persist", "expireOld"}
DeltaSteps == {"delta", "deltaToken", "deltaNext", "deltaFwd", "deltaCheckpoint"}
RemoveSteps == {"remove", "removeMark", "cleanup"}
ClaimedSteps == {"read", "markDict", "markState", "release"}
                    \cup ReloadSteps \cup DeltaSteps \cup RemoveSteps
Steps == {"idle", "popped"} \cup ClaimedSteps

IdleWorker ==
    [pc |-> "idle", st |-> NoState, meta |-> NoTask, tok |-> 0, pos |-> 0, end |-> 0,
     todo |-> {}, dels |-> {}, flag |-> FALSE, next |-> "idle"]

Become(w, record) == wk' = [wk EXCEPT ![w] = record]
Goto(w, step) == Become(w, [wk[w] EXCEPT !.pc = step])
Stop(w) == Goto(w, "release")

Active(w) == wk[w].pc \in ClaimedSteps
Busy == \E w \in Pods : Active(w)

-----------------------------------------------------------------------------
(* The file as a log of set changes.                                       *)

Touches(f, m, from, to) == \E i \in (from + 1)..to : Lines[f][i].member = m

\* S after lines from+1..to of f: for each member the last line about it wins.
Replay(S, f, from, to) ==
    {m \in Members :
        \/ m \in S /\ ~Touches(f, m, from, to)
        \/ \E i \in (from + 1)..to :
              /\ Lines[f][i].member = m
              /\ Lines[f][i].add
              /\ ~Touches(f, m, i, to)}

Snapshot(f, n) == Replay({}, f, 0, n)

\* Mutant: removal lines are ignored.
ApplyLine_addOnly(S, line) == S \cup (IF line.add THEN {line.member} ELSE {})
ApplyLine(S, line) ==
    {m \in Members : IF m = line.member THEN line.add ELSE m \in S}

\* Redis drops a set, and its TTL, with its last member.
Alive(vols, sets) == {v \in vols : sets[v] # {}}

SetForward(v, S) ==
    /\ fwd' = [fwd EXCEPT ![v] = S]
    /\ volatile' = Alive(volatile, fwd')

\* ensure_current_version_persisted: a crash may have left the TTL of a published
\* version behind.
EnsurePersisted(v) == volatile' = volatile \ {v}

\* partition_for and the number of partitions of a rotation's diff.
PartitionCount(old, new) ==
    LET most == IF old > new THEN old ELSE new
        size == IF most > 1 THEN most ELSE 1
    IN  (size + PartitionMax - 1) \div PartitionMax

PartitionFor(m, partitions) == HashOf[m] % partitions

-----------------------------------------------------------------------------
Init ==
    /\ pub = 1
    /\ missing = FALSE
    /\ enable \in Modes
    /\ queued = FALSE
    /\ meta = NoTask
    /\ st = NoState
    /\ fwd = [v \in Versions |-> {}]
    /\ volatile = {}
    /\ token = 0
    /\ lastToken = 0
    /\ rev = [t \in Tokens |-> {}]
    /\ listed = FALSE
    /\ ready = FALSE
    /\ offMark = FALSE
    /\ claim = NoPod
    /\ plock = NoPod
    /\ prod = [p \in Pods |-> NoTick]
    /\ wk = [w \in Pods |-> IdleWorker]
    /\ left = Budget

\* Whether a fault of this kind has happened.
Seen(kind) == left[kind] < Budget[kind]

\* A fault of this kind happens.
Spend(kind) ==
    /\ left[kind] > 0
    /\ \E kinds \in Together : kind \in kinds /\ \A k \in FaultKinds \ kinds : ~Seen(k)
    /\ left' = [left EXCEPT ![kind] = @ - 1]

-----------------------------------------------------------------------------
(* The producer (redis_syncer.rs).                                         *)

\* Mutant: an incomplete company manifest schedules removals.
Derived_incomplete(entry, complete) ==
    LET action == PlanAction(st, entry, fwd[st.version] # {}, enable)
    IN  IF entry # NoEntry /\ action # "none" THEN "load"
        ELSE IF entry = NoEntry /\ listed THEN "remove"
        ELSE IF complete THEN "ready" ELSE "nothing"

\* Mutant: only a list with a committed version is removed.
Derived_committedOnly(entry, complete) ==
    LET action == PlanAction(st, entry, fwd[st.version] # {}, enable)
    IN  IF entry # NoEntry /\ action # "none" THEN "load"
        ELSE IF complete /\ entry = NoEntry /\ listed /\ st.version # NoVersion THEN "remove"
        ELSE IF complete THEN "ready" ELSE "nothing"

Derived(entry, complete) ==
    LET action == PlanAction(st, entry, fwd[st.version] # {}, enable)
    IN  IF entry # NoEntry /\ action # "none" THEN "load"
        ELSE IF ~complete THEN "nothing"
        ELSE IF entry = NoEntry /\ listed THEN "remove"
        ELSE IF entry # NoEntry /\ enable /\ st.disabled THEN "rebuild"
        ELSE "ready"

\* run_once takes the producer lock; produce_locked reads and plans.
ProduceRead(p) ==
    /\ plock = NoPod
    /\ prod[p] = NoTick
    /\ plock' = p
    /\ \E entry \in IF missing THEN {Manifest, NoEntry} ELSE {Manifest} :
          prod' = [prod EXCEPT ![p] =
                     [plan  |-> Derived(entry, ~missing),
                      entry |-> SyncTarget(st, entry, enable)]]
    /\ UNCHANGED <<manifestVars, taskVars, dataVars, dictVars, markVars, claim, wk, left>>

\* ... and then writes: task_meta always, the queue if the task is not in it.
ProduceWrite(p) ==
    /\ prod[p] # NoTick
    /\ LET plan == prod[p].plan
       IN  /\ queued' = (queued \/ plan \in {"load", "remove"})
           /\ meta' = CASE plan = "load" -> LoadTask(prod[p].entry)
                        [] plan = "remove" -> [meta EXCEPT !.op = "remove"]
                        [] OTHER -> meta
           /\ ready' = CASE plan = "ready" -> TRUE
                         [] plan = "rebuild" -> FALSE
                         [] OTHER -> ready
           /\ offMark' = (offMark /\ ~(plan = "ready" /\ enable))
    /\ prod' = [prod EXCEPT ![p] = NoTick]
    /\ UNCHANGED <<manifestVars, dataVars, dictVars, listed, claim, plock, wk, left>>

\* The tick fails before it has written anything.
ProduceFail(p) ==
    /\ prod[p] # NoTick
    /\ prod' = [prod EXCEPT ![p] = NoTick]
    /\ Spend("abort")
    /\ UNCHANGED <<manifestVars, taskVars, dataVars, dictVars, markVars, claim, plock, wk>>

\* The producer lock is never released; its TTL is one tick.
ProducerLockExpire ==
    /\ plock # NoPod
    /\ plock' = NoPod
    /\ UNCHANGED <<manifestVars, taskVars, dataVars, dictVars, markVars, claim, prod, wk, left>>

-----------------------------------------------------------------------------
(* The worker's entry (run.rs).                                            *)

\* ZPOPMIN: from here on the task is this worker's responsibility.
Pop(w) ==
    /\ wk[w].pc = "idle"
    /\ queued
    /\ queued' = FALSE
    /\ Goto(w, "popped")
    /\ UNCHANGED <<manifestVars, meta, dataVars, dictVars, markVars, claim, producerVars, left>>

\* Mutant: the answer of try_acquire is not looked at.
ClaimTask_unasked(w) ==
    /\ wk[w].pc = "popped"
    /\ claim' = IF claim = NoPod THEN w ELSE claim
    /\ Goto(w, "read")
    /\ UNCHANGED <<manifestVars, taskVars, dataVars, dictVars, markVars, producerVars, left>>

\* A claim somebody holds: the popped task is dropped (ClaimConflict).
ClaimTask(w) ==
    /\ wk[w].pc = "popped"
    /\ IF claim = NoPod
       THEN claim' = w /\ Goto(w, "read")
       ELSE UNCHANGED claim /\ Become(w, IdleWorker)
    /\ UNCHANGED <<manifestVars, taskVars, dataVars, dictVars, markVars, producerVars, left>>

\* With reverse indexing off, the skipped reverse writes are recorded first.
Begin(w, first, task) ==
    Become(w, [wk[w] EXCEPT !.pc = IF enable THEN first ELSE "markDict",
                            !.next = first,
                            !.st = st,
                            !.meta = task])

\* run_claimed and plan_work: metadata and state are read once, here.
ReadTask(w) ==
    /\ wk[w].pc = "read"
    /\ LET op     == IF meta = NoTask /\ st.removed THEN "remove" ELSE meta.op
           target == SyncTarget(st, meta, enable)
           action == PlanAction(st, meta, fwd[st.version] # {}, enable)
       IN  \/ /\ op = "none"
              /\ Stop(w)
              /\ UNCHANGED volatile
           \/ /\ op = "remove"
              /\ Begin(w, "remove", [meta EXCEPT !.op = "remove"])
              /\ UNCHANGED volatile
           \/ /\ op = "load" /\ action = "none"
              /\ Stop(w)
              /\ EnsurePersisted(st.version)
           \/ /\ op = "load" /\ action # "none"
              /\ Begin(w, IF action = "full" THEN "reload" ELSE "delta", LoadTask(target))
              /\ UNCHANGED volatile
    /\ UNCHANGED <<manifestVars, taskVars, st, fwd, rev, dictVars, markVars, claim,
                   producerVars, left>>

MarkDict(w) ==
    /\ wk[w].pc = "markDict"
    /\ offMark' = TRUE
    /\ Goto(w, "markState")
    /\ UNCHANGED <<manifestVars, taskVars, dataVars, dictVars, listed, ready, claim,
                   producerVars, left>>

MarkState(w) ==
    /\ wk[w].pc = "markState"
    /\ st' = [st EXCEPT !.disabled = TRUE]
    /\ Goto(w, wk[w].next)
    /\ UNCHANGED <<manifestVars, taskVars, fwd, volatile, rev, dictVars, markVars, claim,
                   producerVars, left>>

\* stop_and_release; an error in run_claimed ends here too.
Release(w) ==
    /\ wk[w].pc = "release"
    /\ claim' = IF claim = w THEN NoPod ELSE claim
    /\ Become(w, IdleWorker)
    /\ UNCHANGED <<manifestVars, taskVars, dataVars, dictVars, markVars, producerVars, left>>

\* get_or_allocate_token, one Lua script.
TokenFor(w) == IF token = 0 THEN lastToken + 1 ELSE token

AllocateToken(w) ==
    /\ TokenFor(w) <= MaxToken
    /\ token' = TokenFor(w)
    /\ lastToken' = IF token = 0 THEN lastToken + 1 ELSE lastToken

\* A download runs to the end of the file, which may have grown since the
\* manifest was written; one that ends before the task's size is an error.
Reach(w) ==
    wk[w].meta.size .. IF Ahead THEN Len(Lines[wk[w].meta.file]) ELSE wk[w].meta.size

-----------------------------------------------------------------------------
(* Appending to the committed version (delta.rs).                          *)

DeltaBegin(w) ==
    /\ wk[w].pc = "delta"
    /\ EnsurePersisted(wk[w].st.version)
    /\ Goto(w, "deltaToken")
    /\ UNCHANGED <<manifestVars, taskVars, st, fwd, rev, dictVars, markVars, claim,
                   producerVars, left>>

DeltaToken(w) ==
    /\ wk[w].pc = "deltaToken"
    /\ AllocateToken(w)
    /\ \E end \in Reach(w) :
          Become(w, [wk[w] EXCEPT !.pc = "deltaNext",
                                  !.tok = TokenFor(w),
                                  !.end = end,
                                  !.pos = wk[w].st.size])
    /\ UNCHANGED <<manifestVars, taskVars, dataVars, markVars, claim, producerVars, left>>

DeltaLine(w) == Lines[wk[w].meta.file][wk[w].pos + 1]

\* Per line of a batch: the reverse set of its member, then the forward set.
DeltaReverse(w) ==
    /\ wk[w].pc = "deltaNext"
    /\ enable
    /\ rev' = [rev EXCEPT ![wk[w].tok] = ApplyLine(@, DeltaLine(w))]
    /\ Goto(w, "deltaFwd")
    /\ UNCHANGED <<manifestVars, taskVars, st, fwd, volatile, dictVars, markVars, claim,
                   producerVars, left>>

BatchEnd(w) ==
    LET n == wk[w].pos + 1
    IN  n = wk[w].end \/ (n - st.size) = Batch

DeltaForward(w) ==
    /\ wk[w].pc = IF enable THEN "deltaFwd" ELSE "deltaNext"
    /\ SetForward(wk[w].st.version, ApplyLine(fwd[wk[w].st.version], DeltaLine(w)))
    /\ Become(w, [wk[w] EXCEPT !.pc = IF BatchEnd(w) THEN "deltaCheckpoint" ELSE "deltaNext",
                               !.pos = @ + 1])
    /\ UNCHANGED <<manifestVars, taskVars, st, rev, dictVars, markVars, claim,
                   producerVars, left>>

\* Apply first, checkpoint second.
DeltaCheckpoint(w) ==
    /\ wk[w].pc = "deltaCheckpoint"
    /\ st' = [st EXCEPT !.size = wk[w].pos,
                        !.card = Cardinality(fwd[wk[w].st.version])]
    /\ Goto(w, IF wk[w].pos = wk[w].end THEN "release" ELSE "deltaNext")
    /\ UNCHANGED <<manifestVars, taskVars, fwd, volatile, rev, dictVars, markVars, claim,
                   producerVars, left>>

-----------------------------------------------------------------------------
(* Loading a version (reload.rs).                                          *)

Count(S) == Cardinality(S)

\* Whether the committed forward set can be indexed again without a download.
CommittedReusable(w) ==
    LET s == wk[w].st
    IN  /\ enable
        /\ s.disabled
        /\ s.version # NoVersion
        /\ s.version.file = wk[w].meta.file
        /\ s.size = wk[w].meta.size
        /\ s.loading = NoVersion
        /\ s.card = Count(fwd[s.version])

MatchingLoad(w) == wk[w].st.loading = Tag(wk[w].meta)

OldMissing(w) ==
    LET s == wk[w].st IN s.version # NoVersion /\ s.card > 0 /\ fwd[s.version] = {}

PendingMissing(w) ==
    LET s == wk[w].st
        held == IF s.loadingCard = Absent THEN s.loadingSize ELSE s.loadingCard
    IN  MatchingLoad(w) /\ held > 0 /\ fwd[Tag(wk[w].meta)] = {}

\* Mutant: re-enabled indexing is taken for an ordinary rotation.
MustReconcile_noMode(w) ==
    LET s == wk[w].st
    IN  s.reconcile \/ OldMissing(w) \/ PendingMissing(w)
        \/ (s.loading # NoVersion /\ ~MatchingLoad(w))

MustReconcile(w) ==
    LET s == wk[w].st
    IN  \/ s.reconcile
        \/ enable /\ s.disabled
        \/ OldMissing(w)
        \/ PendingMissing(w)
        \/ s.loading # NoVersion /\ ~MatchingLoad(w)

Resumes(w) == MatchingLoad(w) /\ ~PendingMissing(w)

AfterRegister(w) == IF Resumes(w) THEN "loadToken" ELSE "delPending"

\* apply_full_reload: index the committed set again, or load the target file.
ReloadBegin(w) ==
    /\ wk[w].pc = "reload"
    /\ IF CommittedReusable(w)
       THEN /\ EnsurePersisted(wk[w].st.version)
            /\ Goto(w, "rcMark")
       ELSE /\ Goto(w, "register")
            /\ UNCHANGED volatile
    /\ UNCHANGED <<manifestVars, taskVars, st, fwd, rev, dictVars, markVars, claim,
                   producerVars, left>>

Register(w) ==
    /\ wk[w].pc = "register"
    /\ listed' = TRUE
    /\ Goto(w, IF MustReconcile(w) THEN "unready" ELSE AfterRegister(w))
    /\ UNCHANGED <<manifestVars, taskVars, dataVars, dictVars, ready, offMark, claim,
                   producerVars, left>>

\* DEL ready, in the two places recovery takes readiness back.
Unready(w) ==
    /\ wk[w].pc \in {"unready", "rcUnready"}
    /\ ready' = FALSE
    /\ Goto(w, IF wk[w].pc = "unready" THEN "mark" ELSE "rcToken")
    /\ UNCHANGED <<manifestVars, taskVars, dataVars, dictVars, listed, offMark, claim,
                   producerVars, left>>

\* HSET reconcile_required, before any checkpoint is replaced.
MarkReconcile(w) ==
    /\ wk[w].pc \in {"mark", "rcMark", "lateMark"}
    /\ st' = [st EXCEPT !.reconcile = TRUE]
    /\ Goto(w, CASE wk[w].pc = "mark" -> AfterRegister(w)
                 [] wk[w].pc = "rcMark" -> "rcUnready"
                 [] wk[w].pc = "lateMark" -> "lateUnready")
    /\ UNCHANGED <<manifestVars, taskVars, fwd, volatile, rev, dictVars, markVars, claim,
                   producerVars, left>>

DelPending(w) ==
    /\ wk[w].pc = "delPending"
    /\ SetForward(Tag(wk[w].meta), {})
    /\ Goto(w, "initLoad")
    /\ UNCHANGED <<manifestVars, taskVars, st, rev, dictVars, markVars, claim,
                   producerVars, left>>

\* initialize_load: HSET of the new load, then HDEL of the old one's progress.
InitLoad(w) ==
    /\ wk[w].pc = "initLoad"
    /\ st' = [st EXCEPT !.loading = Tag(wk[w].meta), !.loadingSize = 0]
    /\ Goto(w, "initDel")
    /\ UNCHANGED <<manifestVars, taskVars, fwd, volatile, rev, dictVars, markVars, claim,
                   producerVars, left>>

InitDel(w) ==
    /\ wk[w].pc = "initDel"
    /\ st' = [st EXCEPT !.part = Absent, !.loadingCard = Absent, !.removed = FALSE]
    /\ Goto(w, "loadToken")
    /\ UNCHANGED <<manifestVars, taskVars, fwd, volatile, rev, dictVars, markVars, claim,
                   producerVars, left>>

\* A load whose diff has started is not downloaded any further.
LoadToken(w) ==
    /\ wk[w].pc = "loadToken"
    /\ AllocateToken(w)
    /\ LET step == IF st.part # Absent THEN "verify"
                   ELSE IF st.loadingSize < wk[w].meta.size THEN "load"
                   ELSE "startDiff"
       IN  \E end \in IF step = "load" THEN Reach(w) ELSE {wk[w].meta.size} :
              Become(w, [wk[w] EXCEPT !.pc = step,
                                      !.tok = TokenFor(w),
                                      !.end = end,
                                      !.flag = TRUE,
                                      !.pos = st.loadingSize])
    /\ UNCHANGED <<manifestVars, taskVars, dataVars, markVars, claim, producerVars, left>>

\* One batch of the download, a MULTI; the first of the download that adds also
\* sets the TTL (flag: first_load_batch).
LoadBatch(w) ==
    /\ wk[w].pc = "load"
    /\ LET v    == Tag(wk[w].meta)
           file == wk[w].meta.file
           from == wk[w].pos
           to   == IF from + Batch < wk[w].end THEN from + Batch ELSE wk[w].end
           adds == \E i \in (from + 1)..to : Lines[file][i].add
       IN  /\ fwd' = [fwd EXCEPT ![v] = Replay(@, file, from, to)]
           /\ volatile' = Alive(IF adds /\ wk[w].flag THEN volatile \cup {v} ELSE volatile, fwd')
           /\ Become(w, [wk[w] EXCEPT !.pc = "loadCheckpoint", !.pos = to,
                                      !.flag = @ /\ ~adds])
    /\ UNCHANGED <<manifestVars, taskVars, st, rev, dictVars, markVars, claim,
                   producerVars, left>>

LoadCheckpoint(w) ==
    /\ wk[w].pc = "loadCheckpoint"
    /\ st' = [st EXCEPT !.loadingSize = wk[w].pos,
                        !.loadingCard = Count(fwd[Tag(wk[w].meta)])]
    /\ Goto(w, IF wk[w].pos < wk[w].end THEN "load" ELSE "startDiff")
    /\ UNCHANGED <<manifestVars, taskVars, fwd, volatile, rev, dictVars, markVars, claim,
                   producerVars, left>>

StartDiff(w) ==
    /\ wk[w].pc = "startDiff"
    /\ st' = [st EXCEPT !.part = 0]
    /\ Goto(w, "verify")
    /\ UNCHANGED <<manifestVars, taskVars, fwd, volatile, rev, dictVars, markVars, claim,
                   producerVars, left>>

\* Mutant: a rotation forgets the generation it replaces.
HasOld_never(w) == FALSE

\* The committed set a rotation is diffed against.
HasOld(w) == wk[w].st.version \notin {NoVersion, Tag(wk[w].meta)}
OldSet(w) == IF HasOld(w) THEN fwd[wk[w].st.version] ELSE {}
NewSet(w) == fwd[Tag(wk[w].meta)]

\* How the reverse index is brought from the old set to the new one.
IndexNew(w) ==
    Become(w, [wk[w] EXCEPT !.pc = IF ~enable THEN "commit"
                                      ELSE IF st.reconcile THEN "clear"
                                      ELSE IF OldSet(w) = {} THEN "fanout"
                                      ELSE "diffScan",
                            !.todo = NewSet(w),
                            !.flag = NewSet(w) # {},
                            !.next = "commit"])

Verify(w) ==
    /\ wk[w].pc = "verify"
    /\ IF st.loadingCard \notin {Absent, Count(NewSet(w))} THEN Stop(w)
       ELSE IF HasOld(w) /\ wk[w].st.card > 0 /\ OldSet(w) = {} THEN Goto(w, "lateMark")
       ELSE IndexNew(w)
    /\ UNCHANGED <<manifestVars, taskVars, dataVars, dictVars, markVars, claim,
                   producerVars, left>>

LateUnready(w) ==
    /\ wk[w].pc = "lateUnready"
    /\ ready' = FALSE
    /\ IndexNew(w)
    /\ UNCHANGED <<manifestVars, taskVars, dataVars, dictVars, listed, offMark, claim,
                   producerVars, left>>

\* reconcile_committed_forward: the token, and then the committed set again.
ReindexToken(w) ==
    /\ wk[w].pc = "rcToken"
    /\ AllocateToken(w)
    /\ Become(w, [wk[w] EXCEPT !.pc = "clear",
                               !.tok = TokenFor(w),
                               !.todo = fwd[wk[w].st.version],
                               !.flag = fwd[wk[w].st.version] # {},
                               !.next = "rcDone"])
    /\ UNCHANGED <<manifestVars, taskVars, dataVars, markVars, claim, producerVars, left>>

ReindexDone(w) ==
    /\ wk[w].pc = "rcDone"
    /\ st' = [st EXCEPT !.disabled = FALSE, !.reconcile = FALSE]
    /\ Stop(w)
    /\ UNCHANGED <<manifestVars, taskVars, fwd, volatile, rev, dictVars, markVars, claim,
                   producerVars, left>>

-----------------------------------------------------------------------------
(* Rewriting the reverse index (streamed_diff.rs).                         *)

\* clear_reverse_token: SREM the token wherever SCAN finds it.
ClearToken(w) ==
    /\ wk[w].pc = "clear"
    /\ \/ \E m \in rev[wk[w].tok] :
             /\ rev' = [rev EXCEPT ![wk[w].tok] = @ \ {m}]
             /\ UNCHANGED wk
       \/ /\ rev[wk[w].tok] = {}
          /\ Goto(w, IF wk[w].next = "removeMark" THEN "removeMark" ELSE "fanout")
          /\ UNCHANGED rev
    /\ UNCHANGED <<manifestVars, taskVars, st, fwd, volatile, dictVars, markVars, claim,
                   producerVars, left>>

\* The forward set a fan-out scans.
Scanned(w) == IF wk[w].next = "commit" THEN Tag(wk[w].meta) ELSE wk[w].st.version

\* fanout_scan: SADD (or, for a removal, SREM) the token for every member; a
\* set that vanished under the scan is an error.
FanoutScan(w) ==
    /\ wk[w].pc = "fanout"
    /\ \/ /\ wk[w].flag /\ fwd[Scanned(w)] = {}
          /\ Stop(w)
          /\ UNCHANGED rev
       \/ /\ wk[w].flag => fwd[Scanned(w)] # {}
          /\ wk[w].todo = {}
          /\ Goto(w, wk[w].next)
          /\ UNCHANGED rev
       \/ /\ wk[w].flag => fwd[Scanned(w)] # {}
          /\ \E m \in wk[w].todo :
                /\ rev' = [rev EXCEPT ![wk[w].tok] =
                              IF wk[w].next = "removeMark" THEN @ \ {m} ELSE @ \cup {m}]
                /\ Become(w, [wk[w] EXCEPT !.todo = @ \ {m}])
    /\ UNCHANGED <<manifestVars, taskVars, st, fwd, volatile, dictVars, markVars, claim,
                   producerVars, left>>

\* Mutant: the number of partitions follows the new set alone.
Partitions_newOnly(w) == PartitionCount(Count(NewSet(w)), Count(NewSet(w)))

Partitions(w) == PartitionCount(Count(OldSet(w)), Count(NewSet(w)))

\* apply_streamed_diff: the next partition's additions and removals.
DiffScan(w) ==
    /\ wk[w].pc = "diffScan"
    /\ LET old   == OldSet(w)
           new   == NewSet(w)
           parts == Partitions(w)
           here  == {m \in Members : PartitionFor(m, parts) = st.part}
       IN  IF old = {} \/ (wk[w].flag /\ new = {}) \/ st.part > parts THEN Stop(w)
           ELSE IF st.part = parts THEN Goto(w, "commit")
           ELSE Become(w, [wk[w] EXCEPT !.pc = "diffApply",
                                        !.todo = (new \ old) \cap here,
                                        !.dels = (old \ new) \cap here])
    /\ UNCHANGED <<manifestVars, taskVars, dataVars, dictVars, markVars, claim,
                   producerVars, left>>

\* Additions before removals; the checkpoint advances after both.
DiffApply(w) ==
    /\ wk[w].pc = "diffApply"
    /\ \/ \E m \in wk[w].todo :
             /\ rev' = [rev EXCEPT ![wk[w].tok] = @ \cup {m}]
             /\ Become(w, [wk[w] EXCEPT !.todo = @ \ {m}])
             /\ UNCHANGED st
       \/ /\ wk[w].todo = {}
          /\ \E m \in wk[w].dels :
                /\ rev' = [rev EXCEPT ![wk[w].tok] = @ \ {m}]
                /\ Become(w, [wk[w] EXCEPT !.dels = @ \ {m}])
          /\ UNCHANGED st
       \/ /\ wk[w].todo = {}
          /\ wk[w].dels = {}
          /\ st' = [st EXCEPT !.part = @ + 1]
          /\ Goto(w, IF st.part + 1 = Partitions(w) THEN "commit" ELSE "diffScan")
          /\ UNCHANGED rev
    /\ UNCHANGED <<manifestVars, taskVars, fwd, volatile, dictVars, markVars, claim,
                   producerVars, left>>

-----------------------------------------------------------------------------
(* Publishing a loaded version (commit_reload).                            *)

Commit(w) ==
    /\ wk[w].pc = "commit"
    /\ st' = [st EXCEPT !.version = Tag(wk[w].meta),
                        !.size = wk[w].pos,
                        !.card = Count(NewSet(w))]
    /\ Goto(w, "commitDel")
    /\ UNCHANGED <<manifestVars, taskVars, fwd, volatile, rev, dictVars, markVars, claim,
                   producerVars, left>>

CommitDel(w) ==
    /\ wk[w].pc = "commitDel"
    /\ st' = [st EXCEPT !.loading = NoVersion, !.loadingSize = 0, !.reconcile = FALSE,
                        !.part = Absent, !.loadingCard = Absent, !.removed = FALSE]
    /\ Goto(w, "commitList")
    /\ UNCHANGED <<manifestVars, taskVars, fwd, volatile, rev, dictVars, markVars, claim,
                   producerVars, left>>

CommitList(w) ==
    /\ wk[w].pc = "commitList"
    /\ listed' = TRUE
    /\ Goto(w, IF enable THEN "commitEnable" ELSE "persist")
    /\ UNCHANGED <<manifestVars, taskVars, dataVars, dictVars, ready, offMark, claim,
                   producerVars, left>>

CommitEnable(w) ==
    /\ wk[w].pc = "commitEnable"
    /\ st' = [st EXCEPT !.disabled = FALSE]
    /\ Goto(w, "persist")
    /\ UNCHANGED <<manifestVars, taskVars, fwd, volatile, rev, dictVars, markVars, claim,
                   producerVars, left>>

Persist(w) ==
    /\ wk[w].pc = "persist"
    /\ volatile' = volatile \ {Tag(wk[w].meta)}
    /\ Goto(w, IF HasOld(w) THEN "expireOld" ELSE "release")
    /\ UNCHANGED <<manifestVars, taskVars, st, fwd, rev, dictVars, markVars, claim,
                   producerVars, left>>

ExpireOld(w) ==
    /\ wk[w].pc = "expireOld"
    /\ volatile' = Alive(volatile \cup {wk[w].st.version}, fwd)
    /\ Stop(w)
    /\ UNCHANGED <<manifestVars, taskVars, st, fwd, rev, dictVars, markVars, claim,
                   producerVars, left>>

-----------------------------------------------------------------------------
(* Removing a list that left the manifest (removal.rs).                    *)

\* Mutant: an interrupted load is removed through its committed set.
MustClear_noLoad(w) ==
    LET s == wk[w].st
    IN  (s.card > 0 /\ fwd[s.version] = {}) \/ s.disabled \/ s.reconcile

\* The forward set cannot enumerate the members that carry the token.
MustClear(w) ==
    LET s == wk[w].st
    IN  \/ s.card > 0 /\ fwd[s.version] = {}
        \/ s.disabled
        \/ s.version = NoVersion
        \/ s.loading # NoVersion
        \/ s.reconcile

RemoveBegin(w) ==
    /\ wk[w].pc = "remove"
    /\ LET s == wk[w].st
       IN  \/ /\ enable /\ ~st.removed /\ token = 0 /\ s.version # NoVersion
              /\ Stop(w)
           \/ /\ enable /\ ~st.removed /\ token # 0
              /\ Become(w, [wk[w] EXCEPT !.pc = IF MustClear(w) THEN "clear" ELSE "fanout",
                                         !.tok = token,
                                         !.todo = fwd[s.version],
                                         !.flag = fwd[s.version] # {},
                                         !.pos = 0,
                                         !.next = "removeMark"])
           \/ /\ ~(enable /\ ~st.removed /\ (token # 0 \/ s.version # NoVersion))
              /\ Become(w, [wk[w] EXCEPT !.pc = IF st.removed THEN "cleanup" ELSE "removeMark",
                                         !.pos = 0])
    /\ UNCHANGED <<manifestVars, taskVars, dataVars, dictVars, markVars, claim,
                   producerVars, left>>

RemoveMark(w) ==
    /\ wk[w].pc = "removeMark"
    /\ st' = [st EXCEPT !.removed = TRUE]
    /\ Goto(w, "cleanup")
    /\ UNCHANGED <<manifestVars, taskVars, fwd, volatile, rev, dictVars, markVars, claim,
                   producerVars, left>>

\* The final pipeline, one command at a time; the state is deleted last.
Cleanup(w) ==
    /\ wk[w].pc = "cleanup"
    /\ LET s == wk[w].st
           n == wk[w].pos
           gone == CASE n = 0 -> s.loading [] n = 1 -> s.version [] OTHER -> NoVersion
       IN  /\ SetForward(gone, {})
           /\ meta' = IF n = 2 THEN NoTask ELSE meta
           /\ token' = IF n = 3 THEN 0 ELSE token
           /\ listed' = (listed /\ n # 4)
           /\ st' = IF n = 5 THEN NoState ELSE st
           /\ Become(w, [wk[w] EXCEPT !.pos = @ + 1,
                                      !.pc = IF n = 5 THEN "release" ELSE @])
    /\ UNCHANGED <<manifestVars, queued, rev, lastToken, ready, offMark, claim,
                   producerVars, left>>

-----------------------------------------------------------------------------
(* What the environment does: manifests, faults, expiry, deployments.      *)

\* No trace of the removal is left that could still touch the list.
RemovalDone ==
    /\ st = NoState
    /\ meta.op # "remove"
    /\ \A p \in Pods : prod[p].plan # "remove" /\ wk[p].meta.op # "remove"

\* The manifest may advertise History[i] next.
MayPublish(i) ==
    \/ EarlyReturn
    \/ Manifest # NoEntry
    \/ History[i] = NoEntry
    \/ RemovalDone

Publish ==
    /\ pub < Len(History)
    /\ MayPublish(pub + 1)
    /\ pub' = pub + 1
    /\ UNCHANGED <<missing, enable, taskVars, dataVars, dictVars, markVars, claim,
                   producerVars, wk, left>>

\* An older manifest is served again.
ServeStale ==
    /\ \E i \in 1..(pub - 1) : MayPublish(i) /\ pub' = i
    /\ Spend("stale")
    /\ UNCHANGED <<missing, enable, taskVars, dataVars, dictVars, markVars, claim,
                   producerVars, wk>>

ManifestLost ==
    /\ ~missing
    /\ missing' = TRUE
    /\ Spend("missing")
    /\ UNCHANGED <<pub, enable, taskVars, dataVars, dictVars, markVars, claim,
                   producerVars, wk>>

ManifestBack ==
    /\ missing
    /\ missing' = FALSE
    /\ UNCHANGED <<pub, enable, taskVars, dataVars, dictVars, markVars, claim,
                   producerVars, wk, left>>

\* The worker is inside a pipeline, past its first command.
InPipeline(w) ==
    /\ wk[w].pc \in Pipelined
    /\ wk[w].pc = "deltaNext" => wk[w].pos # st.size
    /\ wk[w].pc = "cleanup" => wk[w].pos # 0

\* A crash, or an error whose release may or may not reach Redis.
Abort(w) ==
    /\ wk[w].pc # "idle"
    /\ InPipeline(w) => SplitPipelines
    /\ Become(w, IdleWorker)
    /\ claim' \in IF claim = w THEN {w, NoPod} ELSE {claim}
    /\ Spend("abort")
    /\ UNCHANGED <<manifestVars, taskVars, dataVars, dictVars, markVars, producerVars>>

\* A claim is renewed every third of its TTL while its worker runs.
ClaimExpire ==
    /\ claim # NoPod
    /\ ~Active(claim)
    /\ claim' = NoPod
    /\ UNCHANGED <<manifestVars, taskVars, dataVars, dictVars, markVars, producerVars, wk, left>>

(***************************************************************************)
(* A forward set reaches its TTL.  The TTL is a day, counted from the      *)
(* first batch of a download; it is taken not to run out inside the steps  *)
(* that rely on the set without verifying it again: while it is being      *)
(* downloaded, appended to, diffed or published.                           *)
(***************************************************************************)
InUse(v) ==
    \E w \in Pods :
        /\ Active(w)
        /\ wk[w].pc \notin {"clear", "fanout", "diffScan"}
        /\ \/ v = Tag(wk[w].meta)
           \/ /\ v = wk[w].st.version
              /\ wk[w].pc \in DeltaSteps \cup {"markDict", "markState", "diffApply"}

ForwardExpire ==
    /\ \E v \in volatile : ~InUse(v) /\ SetForward(v, {})
    /\ Spend("expiry")
    /\ UNCHANGED <<manifestVars, taskVars, st, rev, dictVars, markVars, claim,
                   producerVars, wk>>

\* task_meta lives ten ticks beyond its last refresh.
MetaExpire ==
    /\ meta # NoTask
    /\ meta' = NoTask
    /\ Spend("meta")
    /\ UNCHANGED <<manifestVars, queued, dataVars, dictVars, markVars, claim,
                   producerVars, wk>>

\* The fleet is stopped and restarted in the other mode.
ChangeMode ==
    /\ enable' = ~enable
    /\ wk' = [w \in Pods |-> IdleWorker]
    /\ prod' = [p \in Pods |-> NoTick]
    /\ Spend("mode")
    /\ \A w \in Pods : InPipeline(w) => SplitPipelines
    /\ UNCHANGED <<pub, missing, taskVars, dataVars, dictVars, markVars, claim, plock>>

-----------------------------------------------------------------------------
Work(w) ==
    \/ ClaimTask(w) \/ ReadTask(w) \/ MarkDict(w) \/ MarkState(w) \/ Release(w)
    \/ DeltaBegin(w) \/ DeltaToken(w) \/ DeltaReverse(w) \/ DeltaForward(w)
    \/ DeltaCheckpoint(w)
    \/ ReloadBegin(w) \/ Register(w) \/ Unready(w) \/ MarkReconcile(w) \/ DelPending(w)
    \/ InitLoad(w) \/ InitDel(w) \/ LoadToken(w) \/ LoadBatch(w) \/ LoadCheckpoint(w)
    \/ StartDiff(w) \/ Verify(w) \/ LateUnready(w) \/ ReindexToken(w) \/ ReindexDone(w)
    \/ ClearToken(w) \/ FanoutScan(w) \/ DiffScan(w) \/ DiffApply(w)
    \/ Commit(w) \/ CommitDel(w) \/ CommitList(w) \/ CommitEnable(w) \/ Persist(w)
    \/ ExpireOld(w)
    \/ RemoveBegin(w) \/ RemoveMark(w) \/ Cleanup(w)

Produce(p) == ProduceRead(p) \/ ProduceWrite(p) \/ ProduceFail(p)

Environment ==
    \/ Publish \/ ServeStale \/ ManifestLost \/ ManifestBack
    \/ ProducerLockExpire \/ ClaimExpire \/ ForwardExpire \/ MetaExpire \/ ChangeMode

Next ==
    \/ Environment
    \/ \E p \in Pods : Produce(p) \/ Pop(p) \/ Work(p) \/ Abort(p)

Spec == Init /\ [][Next]_vars

(***************************************************************************)
(* The loops of the program: the producer ticks, a started tick ends, a    *)
(* worker polls the queue and goes on with what it claimed; locks expire,  *)
(* and a manifest that failed to arrive is polled for again.               *)
(***************************************************************************)
Fairness ==
    /\ WF_vars(ManifestBack)
    /\ WF_vars(ProducerLockExpire)
    /\ WF_vars(ClaimExpire)
    /\ WF_vars(\E p \in Pods : ProduceRead(p))
    /\ WF_vars(\E p \in Pods : Pop(p))
    /\ \A p \in Pods : WF_vars(ProduceWrite(p)) /\ WF_vars(Work(p))

FairSpec == Spec /\ Fairness

-----------------------------------------------------------------------------
(* Properties.                                                             *)

WorkerRecord ==
    [pc : Steps, st : ListSyncState, meta : Task, tok : Tokens, pos : Nat, end : Nat,
     todo : SUBSET Members, dels : SUBSET Members, flag : BOOLEAN, next : Steps]

\* Every variable has the shape the code gives it, and every version a state,
\* task or plan names is one that the manifest advertised.
TypeOK ==
    /\ pub \in 1..Len(History)
    /\ missing \in BOOLEAN
    /\ enable \in BOOLEAN
    /\ queued \in BOOLEAN
    /\ meta \in Task /\ Tag(meta) \in Versions
    /\ st \in ListSyncState /\ {st.version, st.loading} \subseteq Versions
    /\ fwd \in [Versions -> SUBSET Members]
    /\ volatile \subseteq Versions
    /\ token \in Tokens
    /\ lastToken \in Tokens
    /\ rev \in [Tokens -> SUBSET Members]
    /\ listed \in BOOLEAN
    /\ ready \in BOOLEAN
    /\ offMark \in BOOLEAN
    /\ claim \in Pods \cup {NoPod}
    /\ plock \in Pods \cup {NoPod}
    /\ prod \in [Pods -> [plan : ProducerPlans, entry : Entry]]
    /\ wk \in [Pods -> WorkerRecord]
    /\ \A p \in Pods : {Tag(prod[p].entry), Tag(wk[p].meta), wk[p].st.version,
                        wk[p].st.loading} \subseteq Versions
    /\ left \in [FaultKinds -> Nat]

(***************************************************************************)
(* The committed file is only ever replaced by one created later: neither  *)
(* a stale manifest, nor metadata a newer tick overwrote, nor a resumed    *)
(* load or a repair after a mode change rolls a list back (README.md: "a   *)
(* different fileID triggers a full load only when its creationTime is     *)
(* strictly newer than the committed file's").                             *)
(***************************************************************************)
Rollback ==
    /\ NoVersion \notin {st.version, st'.version}
    /\ st'.version.file # st.version.file
    /\ st'.version.ctime <= st.version.ctime

NoRollback == [][~Rollback]_vars

\* The producer would queue nothing for the list, nobody is working on it, and
\* the manifest advertises the committed file.
Caught ==
    /\ ~Busy
    /\ Manifest # NoEntry
    /\ Manifest.file = st.version.file
    /\ PlanAction(st, Manifest, fwd[st.version] # {}, enable) = "none"

(***************************************************************************)
(* When the producer has nothing left to do for a list, the reverse index  *)
(* holds the list's token for exactly the members of the committed forward *)
(* set: whatever interrupted tasks, rotations, expired sets and mode       *)
(* changes came before, no member was forgotten and none was left behind   *)
(* (needs_work against what worker/reload.rs and delta.rs leave behind).   *)
(***************************************************************************)
CaughtUpIndexExact == (Caught /\ enable) => rev[token] = fwd[st.version]

\* When the producer has nothing left to do, the committed forward set is what
\* the file's lines up to the checkpoint spell out: retried batches and resumed
\* downloads neither lose a line nor apply one out of order (delta.rs).
CaughtUpSetExact == Caught => fwd[st.version] = Snapshot(st.version.file, st.size)

(***************************************************************************)
(* The diff checkpoint means what a takeover assumes of it: while a        *)
(* rotation is being diffed, or was interrupted, the partitions below it   *)
(* are indexed as the new set, those above it as the old one, and in the   *)
(* partition it points at no member common to both has lost the token and  *)
(* none outside both has it (streamed_diff.rs, resume_partition).          *)
(***************************************************************************)
Diffing ==
    /\ enable /\ ~st.disabled /\ ~st.reconcile
    /\ Manifest # NoEntry
    /\ st.part # Absent
    /\ NoVersion \notin {st.version, st.loading}
    /\ st.version # st.loading
    /\ fwd[st.version] # {}
    /\ st.loadingCard \in {Absent, Count(fwd[st.loading])}

DiffProgress ==
    Diffing =>
        LET old   == fwd[st.version]
            new   == fwd[st.loading]
            parts == PartitionCount(Count(old), Count(new))
            has   == rev[token]
        IN  \A m \in Members :
               LET p == PartitionFor(m, parts)
               IN  /\ p < st.part => (m \in has <=> m \in new)
                   /\ p > st.part => (m \in has <=> m \in old)
                   /\ p = st.part => /\ m \in old \cap new => m \in has
                                     /\ m \in has => m \in old \cup new

\* Until the mode changes, a token that is not the list's has no members: a
\* removal takes the token from every member before it forgets the token, so a
\* returning list, which gets a new token, inherits nothing (removal.rs).
DeadTokensEmpty ==
    ~Seen("mode") => \A t \in Tokens \ {token} : rev[t] = {}

\* A list is taken out of the company's set only after a manifest left it out
\* (one already advertised, unless an old one has been served since): a manifest
\* that is missing at one key, or a removal planned and then interrupted, makes
\* no other list look removed (produce_locked: company.incomplete).
RemovalJustified ==
    [][listed /\ ~listed' => \/ Seen("stale")
                             \/ \E i \in 1..pub : History[i] = NoEntry]_vars

\* Redis agrees with the manifest: a list that left it is gone; a list in it is
\* loaded, and, unless the manifest is behind, loaded and indexed exactly.
InSync ==
    IF Manifest = NoEntry
    THEN ~listed /\ token = 0 /\ st.version = NoVersion
    ELSE /\ st.version # NoVersion
         /\ \/ Manifest.file # st.version.file /\ Manifest.ctime <= st.version.ctime
            \/ /\ Manifest.file = st.version.file
               /\ Manifest.size <= st.size
               /\ enable => rev[token] = fwd[st.version]

(***************************************************************************)
(* Once the manifest and the faults come to rest, the list is in sync with *)
(* the manifest for good: a task lost with its worker, dropped on a claim  *)
(* conflict or failed half way is queued again and completed (run.rs:      *)
(* "failures are recovered from Redis state when B2 observes the manifest  *)
(* again and re-enqueues work").                                           *)
(***************************************************************************)
Convergence == <>[]InSync

\* A list that left the manifest for good loses its state as well (removal.rs:
\* "its fan-out marker leaves enough intent for a later worker to retry this
\* idempotent cleanup").
RemovalRetried == [](st.removed => <>(~st.removed \/ Manifest # NoEntry))
=============================================================================
