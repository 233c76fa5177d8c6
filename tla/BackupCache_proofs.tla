-------------------------- MODULE BackupCache_proofs --------------------------
(***************************************************************************)
(* Proofs about BackupCache, for every number of pods, versions and faults. *)
(*                                                                         *)
(* A pod that has been told to write holds the leader key, and the backup  *)
(* is older than what it writes: while leases outlast writes nobody else   *)
(* can be told to write meanwhile (WriterInv).  A pod that works on one    *)
(* update or touch at a time works on the version of the last payload it   *)
(* was given (TaskInv).                                                    *)
(***************************************************************************)
EXTENDS BackupCache, TLAPS

\* The records that occur are of the types the invariant names.
LEMMA Numbers ==
    /\ MaxVersion \in Nat /\ MaxVersion >= 1 /\ MaxFaults \in Nat
    /\ \A v \in Versions : v \in 0..MaxVersion /\ v # 0
  BY BackupAssumption DEF Versions

LEMMA LeaderTyped ==
    ASSUME TypeOK, NEW p \in Pods
    PROVE  /\ Claimed(p) \in [holder : Pods \cup {"none", "gone"}, ttl : BOOLEAN]
           /\ Leased(p) \in [holder : Pods \cup {"none", "gone"}, ttl : BOOLEAN]
  BY Zenon DEF TypeOK, Claimed, Leased

\* Every update but the removal of the backup carries a version.
Versioned == \A t \in tasks : t.pc # "delete" => t.lcut # 0

Typed == TypeOK /\ Versioned

TaskRecord == [pod : Pods, lcut : 0..MaxVersion, pc : {"check", "expire", "write", "skip", "delete"}]

LEMMA TypeInit == Init => Typed
  BY Numbers DEF Init, Typed, TypeOK, Versioned, NoLeader, NoBackup, Versions

\* The tasks of an update stay well typed as they proceed.
LEMMA TaskTyped ==
    ASSUME Typed, NEW t \in tasks, Update(t) \/ TaskFails(t)
    PROVE  Typed'
<1> USE Numbers DEF Typed, TypeOK, Versioned
<1>1. /\ t \in TaskRecord
      /\ \A pc \in {"expire", "write", "skip"} :
           LET u == [t EXCEPT !.pc = pc] IN u \in TaskRecord /\ u.lcut = t.lcut /\ u.pc = pc
  BY DEF TaskRecord
<1>2. ASSUME NEW pc \in {"expire", "write", "skip"}, t.pc # "delete", Proceed(t, pc)
      PROVE  tasks' \subseteq TaskRecord /\ Versioned'
  BY <1>1, <1>2 DEF Proceed, TaskRecord
<1>3. ASSUME Done(t)
      PROVE  tasks' \subseteq TaskRecord /\ Versioned'
  BY <1>3 DEF Done, TaskRecord
<1>4. CASE Check(t)
  BY <1>2, <1>4, LeaderTyped DEF Check, TaskRecord
<1>5. CASE SetExpiry(t)
  BY <1>2, <1>5, LeaderTyped DEF SetExpiry, TaskRecord
<1>6. CASE Write(t)
  BY <1>1, <1>3, <1>6, LeaderTyped DEF Write, TaskRecord
<1>7. CASE Skip(t)
  BY <1>1, <1>3, <1>7, Zenon DEF Skip, Refresh, Matches, TaskRecord
<1>8. CASE Delete(t)
  BY <1>1, <1>3, <1>8 DEF Delete, NoBackup, TaskRecord
<1>9. CASE TaskFails(t)
  <2>1. faults' \in 0..MaxFaults
    BY <1>9 DEF TaskFails, Fault
  <2>2. leader' \in [holder : Pods \cup {"none", "gone"}, ttl : BOOLEAN]
    <3>1. t.pod \in Pods /\ (leader' = leader \/ leader' = Claimed(t.pod))
      BY <1>1, <1>9 DEF TaskFails, TaskRecord
    <3>2. Claimed(t.pod) \in [holder : Pods \cup {"none", "gone"}, ttl : BOOLEAN]
      BY <3>1, LeaderTyped
    <3> QED
      BY <3>1, <3>2
  <2> QED
    BY <1>2, <1>3, <1>9, <2>1, <2>2 DEF TaskFails, TaskRecord
<1> QED
  BY <1>4, <1>5, <1>6, <1>7, <1>8, <1>9 DEF Update

LEMMA PodTyped ==
    ASSUME Typed, NEW p \in Pods,
           Fetched(p) \/ Unchanged(p) \/ Refused(p) \/ OtherUpdate(p) \/ Crash(p)
    PROVE  Typed'
<1> USE Numbers DEF Typed, TypeOK, Versioned
<1>1. CASE Fetched(p)
  <2>1. PICK v \in 1..current :
          /\ v > known[p] \/ (setup.stale /\ v # known[p])
          /\ known' = [known EXCEPT ![p] = IF v > @ THEN v ELSE @]
          /\ active' = [active EXCEPT ![p] = v]
          /\ tasks' = tasks \cup {[pod |-> p, lcut |-> v, pc |-> "check"]}
    BY <1>1, Zenon DEF Fetched
  <2>2. v \in Versions
    BY DEF Versions
  <2>3. [pod |-> p, lcut |-> v, pc |-> "check"] \in TaskRecord
    BY <2>2 DEF TaskRecord
  <2>4. known' \in [Pods -> 0..MaxVersion] /\ active' \in [Pods -> 0..MaxVersion]
    BY <2>1, <2>2
  <2> QED
    BY <1>1, <2>1, <2>2, <2>3, <2>4 DEF Fetched, TaskRecord
<1>2. CASE Unchanged(p)
  BY <1>2 DEF Unchanged, Versions
<1>3. CASE Refused(p)
  <2>1. [pod |-> p, lcut |-> 0, pc |-> "delete"] \in TaskRecord
    BY DEF TaskRecord
  <2> QED
    BY <1>3, <2>1 DEF Refused, Fault, TaskRecord
<1>4. CASE OtherUpdate(p)
  BY <1>4, LeaderTyped DEF OtherUpdate
<1>5. CASE Crash(p)
  BY <1>5 DEF Crash, Fault
<1> QED
  BY <1>1, <1>2, <1>3, <1>4, <1>5

LEMMA TypeStep == Typed /\ [Next]_vars => Typed'
<1> SUFFICES ASSUME Typed, [Next]_vars PROVE Typed'
  OBVIOUS
<1> USE Numbers DEF Typed, TypeOK, Versioned
<1>1. CASE Publish
  BY <1>1 DEF Publish, Versions
<1>2. CASE LeaderExpire
  BY <1>2 DEF LeaderExpire, NoLeader
<1>3. CASE EntryAge
  <2>1. entry' = [entry EXCEPT !.fresh = FALSE] \/ entry' = NoBackup
    BY <1>3 DEF EntryAge
  <2>2. NoBackup \in [lcut : 0..MaxVersion, fresh : BOOLEAN] /\ NoBackup.fresh = FALSE
    BY DEF NoBackup
  <2>3. /\ [entry EXCEPT !.fresh = FALSE] \in [lcut : 0..MaxVersion, fresh : BOOLEAN]
        /\ [entry EXCEPT !.fresh = FALSE].fresh = FALSE
    BY Zenon
  <2> QED
    BY <1>3, <2>1, <2>2, <2>3 DEF EntryAge
<1>4. ASSUME NEW t \in touches, Touch(t)
      PROVE  Typed'
  BY <1>4, Zenon DEF Touch, Refresh, Matches
<1>5. CASE UNCHANGED vars
  BY <1>5 DEF vars
<1> QED
  BY <1>1, <1>2, <1>3, <1>4, <1>5, PodTyped, TaskTyped DEF Next

\* Every variable has the shape the code gives it, a backup with a fresh TTL has
\* a version, and so has every update that may write one.
THEOREM TypeCorrect == Spec => []TypeOK
<1>1. Spec => []Typed
  BY TypeInit, TypeStep, PTL DEF Spec
<1>2. Typed => TypeOK
  BY DEF Typed
<1> QED
  BY <1>1, <1>2, PTL
-----------------------------------------------------------------------------
(* While Redis is prompt *)

\* Nobody but the holder of the leader key has been told to write, and what it
\* will write is newer than the backup.
WriterInv ==
  \A t \in tasks : t.pc = "write" => leader.holder = t.pod /\ entry.lcut < t.lcut

\* A pod works on one thing at a time, and on the version that is remembered.  With
\* edges that are up to date that is the one the pod asks from.
TaskInv ==
  /\ \A t, u \in tasks : t.pod = u.pod => t = u
  /\ \A t, u \in touches : t.pod = u.pod => t = u
  /\ \A t \in tasks, u \in touches : t.pod # u.pod
  /\ \A t \in tasks : t.pc # "delete" => t.lcut = active[t.pod]
  /\ \A t \in touches : t.lcut = active[t.pod]
  /\ ~setup.stale => \A p \in Pods : known[p] # 0 => active[p] = known[p]

PromptInv == setup.prompt => WriterInv /\ TaskInv

LEMMA PromptInit == Init => PromptInv
  BY DEF Init, PromptInv, WriterInv, TaskInv

\* A lease is taken from nobody: SETNX keeps a holder there is.
LEMMA LeaseKept ==
    ASSUME TypeOK, WriterInv, NEW p \in Pods, NEW u \in tasks, u.pc = "write"
    PROVE  Claimed(p).holder = u.pod /\ Leased(p).holder = u.pod
<1>1. u.pod \in Pods /\ leader.holder = u.pod /\ leader.holder # "none"
  BY BackupAssumption DEF TypeOK, WriterInv
<1>2. Claimed(p) = leader
  BY <1>1 DEF Claimed
<1> QED
  BY <1>1, <1>2 DEF TypeOK, Leased

\* A step of an update: by LeaseKept the others lose nothing, and the update that
\* is told to write has the key and a newer version by the check itself.
LEMMA TaskPrompt ==
    ASSUME Typed, PromptInv, setup.prompt, NEW t \in tasks, Update(t) \/ TaskFails(t)
    PROVE  WriterInv' /\ TaskInv'
<1> USE DEF Typed, TypeOK, PromptInv
<1>1. t \in TaskRecord /\ t.pod \in Pods /\ BackupAssumption
  BY BackupAssumption DEF TaskRecord
<1>2. ASSUME NEW pc \in {"expire", "write", "skip"}, t.pc # "delete", Proceed(t, pc)
      PROVE  \A u \in tasks' : \/ u \in tasks /\ u # t /\ u.pod # t.pod
                               \/ u = [t EXCEPT !.pc = pc] /\ u.pod = t.pod
                                    /\ u.lcut = t.lcut /\ u.pc = pc
  BY <1>1, <1>2 DEF Proceed, TaskInv, TaskRecord
<1>3. ASSUME Done(t)
      PROVE  \A u \in tasks' : u \in tasks /\ u # t /\ u.pod # t.pod
  BY <1>3 DEF Done, TaskInv
<1>4. CASE Check(t)
  <2> DEFINE pc == CASE ShouldUpdate(t.pod, t.lcut) -> "write"
                     [] LacksTTL(t.pod)             -> "expire"
                     [] OTHER                       -> "skip"
  <2>1. pc \in {"expire", "write", "skip"} /\ (pc = "write" => ShouldUpdate(t.pod, t.lcut))
    OBVIOUS
  <2>2. t.pc = "check" /\ Proceed(t, pc) /\ leader' = Claimed(t.pod)
        /\ UNCHANGED <<setup, entry, known, active, touches>>
    BY <1>4 DEF Check
  <2> HIDE DEF pc
  <2>3. \A u \in tasks' : \/ u \in tasks /\ u # t /\ u.pod # t.pod
                          \/ u = [t EXCEPT !.pc = pc] /\ u.pod = t.pod
                               /\ u.lcut = t.lcut /\ u.pc = pc
    BY <1>2, <2>1, <2>2
  <2>4. WriterInv'
    <3>1. ASSUME NEW u \in tasks', u.pc = "write"
          PROVE  leader'.holder = u.pod /\ entry'.lcut < u.lcut
      <4>1. CASE u \in tasks
        BY <1>1, <2>2, <3>1, <4>1, LeaseKept, Zenon DEF WriterInv
      <4>2. CASE u.pod = t.pod /\ u.lcut = t.lcut /\ u.pc = pc
        BY <2>1, <2>2, <3>1, <4>2 DEF ShouldUpdate
      <4> QED
        BY <2>3, <4>1, <4>2
    <3> QED
      BY <3>1 DEF WriterInv
  <2>5. TaskInv'
    BY <1>1, <2>2, <2>3 DEF TaskInv
  <2> QED
    BY <2>4, <2>5
<1>5. CASE SetExpiry(t)
  <2>1. t.pc = "expire" /\ Proceed(t, "skip") /\ leader' = Leased(t.pod)
        /\ UNCHANGED <<setup, entry, known, active, touches>>
    BY <1>5 DEF SetExpiry
  <2>2. \A u \in tasks' : \/ u \in tasks /\ u # t /\ u.pod # t.pod
                          \/ u = [t EXCEPT !.pc = "skip"] /\ u.pod = t.pod
                               /\ u.lcut = t.lcut /\ u.pc = "skip"
    BY <1>2, <2>1
  <2>3. WriterInv'
    <3>1. ASSUME NEW u \in tasks', u.pc = "write"
          PROVE  u \in tasks /\ leader'.holder = u.pod
      BY <1>1, <2>1, <2>2, <3>1, LeaseKept, Zenon
    <3> QED
      BY <2>1, <3>1 DEF WriterInv
  <2>4. TaskInv'
    BY <1>1, <2>1, <2>2 DEF TaskInv
  <2> QED
    BY <2>3, <2>4
<1>6. CASE Write(t)
  <2>1. t.pc = "write" /\ Done(t) /\ leader' = Leased(t.pod) /\ entry'.lcut = t.lcut
        /\ UNCHANGED <<setup, known, active, touches>>
    BY <1>6 DEF Write
  <2>2. \A u \in tasks' : u.pc # "write"
    BY <1>3, <2>1 DEF WriterInv
  <2>3. TaskInv'
    BY <1>3, <2>1 DEF TaskInv
  <2> QED
    BY <2>2, <2>3 DEF WriterInv
<1>7. CASE Skip(t)
  <2>1. Done(t) /\ entry'.lcut = entry.lcut /\ UNCHANGED <<setup, leader, known, active, touches>>
    BY <1>7 DEF Skip, Refresh
  <2> QED
    BY <1>3, <2>1 DEF WriterInv, TaskInv
<1>8. CASE Delete(t)
  <2>1. Done(t) /\ entry'.lcut = 0 /\ UNCHANGED <<setup, leader, known, active, touches>>
    BY <1>8 DEF Delete, NoBackup
  <2>2. WriterInv'
    BY <1>3, <2>1, Numbers DEF WriterInv
  <2> QED
    BY <1>3, <2>1, <2>2 DEF TaskInv
<1>9. CASE TaskFails(t)
  <2>1. /\ UNCHANGED <<setup, entry, known, active, touches>>
        /\ leader' = leader \/ leader' = Claimed(t.pod)
    BY <1>9 DEF TaskFails
  <2>2. \A u \in tasks : u.pc = "write" => leader'.holder = u.pod
    <3>1. ASSUME NEW u \in tasks, u.pc = "write"
          PROVE  leader.holder = u.pod /\ Claimed(t.pod).holder = u.pod
      BY <1>1, <3>1, LeaseKept, Zenon DEF WriterInv
    <3> QED
      BY <2>1, <3>1
  <2>3. CASE Done(t)
    BY <1>3, <2>1, <2>2, <2>3 DEF WriterInv, TaskInv
  <2>4. CASE t.pc \in {"check", "expire"} /\ Proceed(t, "skip")
    <3>1. \A u \in tasks' : \/ u \in tasks /\ u # t /\ u.pod # t.pod
                            \/ u = [t EXCEPT !.pc = "skip"] /\ u.pod = t.pod
                                 /\ u.lcut = t.lcut /\ u.pc = "skip"
      BY <1>2, <2>4
    <3> QED
      BY <1>1, <2>1, <2>2, <2>4, <3>1 DEF WriterInv, TaskInv
  <2> QED
    BY <1>9, <2>3, <2>4 DEF TaskFails
<1> QED
  BY <1>4, <1>5, <1>6, <1>7, <1>8, <1>9 DEF Update

\* What the fetches of a pod bring: a busy pod brings nothing.
LEMMA PodPrompt ==
    ASSUME Typed, PromptInv, setup.prompt, NEW p \in Pods,
           Fetched(p) \/ Unchanged(p) \/ Refused(p) \/ OtherUpdate(p) \/ Crash(p)
    PROVE  WriterInv' /\ TaskInv'
<1> USE DEF Typed, TypeOK, PromptInv
<1>0. WriterInv
  OBVIOUS
<1>1. CASE Fetched(p)
  <2>1. PICK v \in 1..current :
          /\ v > known[p] \/ (setup.stale /\ v # known[p])
          /\ known' = [known EXCEPT ![p] = IF v > @ THEN v ELSE @]
          /\ active' = [active EXCEPT ![p] = v]
          /\ tasks' = tasks \cup {[pod |-> p, lcut |-> v, pc |-> "check"]}
    BY <1>1, Zenon DEF Fetched
  <2>2. ~Busy(p) /\ UNCHANGED <<setup, leader, entry, touches>>
    BY <1>1 DEF Fetched
  <2> QED
    BY <2>1, <2>2 DEF WriterInv, TaskInv, Busy
<1>2. CASE Unchanged(p)
  <2>1. ~Busy(p) /\ known[p] # 0 /\ touches' = touches \cup {[pod |-> p, lcut |-> active[p]]}
        /\ UNCHANGED <<setup, leader, entry, known, active, tasks>>
    BY <1>2 DEF Unchanged
  <2> QED
    BY <2>1 DEF WriterInv, TaskInv, Busy
<1>3. CASE Refused(p)
  <2>1. /\ ~Busy(p) /\ known' = [known EXCEPT ![p] = 0]
        /\ tasks' = tasks \cup {[pod |-> p, lcut |-> 0, pc |-> "delete"]}
        /\ UNCHANGED <<setup, leader, entry, active, touches>>
    BY <1>3 DEF Refused
  <2> QED
    BY <2>1 DEF WriterInv, TaskInv, Busy
<1>4. CASE OtherUpdate(p)
  <2>1. UNCHANGED <<setup, entry, known, active, tasks, touches>>
        /\ (leader' = leader \/ leader' = Leased(p))
    BY <1>4 DEF OtherUpdate
  <2>2. WriterInv'
    <3>1. ASSUME NEW u \in tasks, u.pc = "write"
          PROVE  leader'.holder = u.pod
      <4>1. Leased(p).holder = u.pod /\ leader.holder = u.pod
        BY <1>0, <3>1, LeaseKept, Zenon DEF WriterInv
      <4> QED
        BY <2>1, <4>1
    <3> QED
      BY <2>1, <3>1 DEF WriterInv
  <2> QED
    BY <2>1, <2>2 DEF TaskInv
<1>5. CASE Crash(p)
  <2>1. /\ leader' = IF leader.holder = p THEN [leader EXCEPT !.holder = "gone"] ELSE leader
        /\ known' = [known EXCEPT ![p] = 0] /\ active' = [active EXCEPT ![p] = 0]
        /\ tasks' = {t \in tasks : t.pod # p}
        /\ touches' = {t \in touches : t.pod # p}
        /\ UNCHANGED <<setup, entry>>
    BY <1>5 DEF Crash
  <2> QED
    BY <2>1 DEF WriterInv, TaskInv
<1> QED
  BY <1>1, <1>2, <1>3, <1>4, <1>5

LEMMA PromptStep == Typed /\ PromptInv /\ [Next]_vars => PromptInv'
<1> SUFFICES ASSUME Typed, PromptInv, [Next]_vars, setup'.prompt
             PROVE  WriterInv' /\ TaskInv'
  BY DEF PromptInv
<1> USE DEF Typed, TypeOK, PromptInv
<1>1. setup' = setup /\ setup.prompt
  BY Zenon DEF Next, vars, Publish, LeaderExpire, EntryAge, Fetched, Unchanged, Refused, OtherUpdate,
         Crash, Update, Check, SetExpiry, Write, Skip, Delete, TaskFails, Touch
<1>2. CASE Publish
  BY <1>1, <1>2 DEF Publish, WriterInv, TaskInv
<1>3. CASE LeaderExpire
  BY <1>1, <1>3 DEF LeaderExpire, WriterInv, TaskInv
<1>4. CASE EntryAge
  <2>1. entry' = [entry EXCEPT !.fresh = FALSE] \/ entry' = NoBackup
    BY <1>4 DEF EntryAge
  <2>2. entry'.lcut = entry.lcut \/ entry'.lcut = 0
    BY <2>1 DEF NoBackup
  <2>3. \A t \in tasks : t.lcut \in Nat
    BY Numbers
  <2> QED
    BY <1>1, <1>4, <2>2, <2>3, Numbers DEF EntryAge, WriterInv, TaskInv
<1>5. ASSUME NEW t \in touches, Touch(t)
      PROVE  WriterInv' /\ TaskInv'
  <2>1. entry'.lcut = entry.lcut /\ touches' = touches \ {t}
        /\ UNCHANGED <<setup, leader, known, active, tasks>>
    BY <1>5 DEF Touch, Refresh
  <2> QED
    BY <1>1, <2>1 DEF WriterInv, TaskInv
<1>6. CASE UNCHANGED vars
  BY <1>1, <1>6 DEF vars, WriterInv, TaskInv
<1> QED
  BY <1>1, <1>2, <1>3, <1>4, <1>5, <1>6, PodPrompt, TaskPrompt, Zenon DEF Next

LEMMA PromptAlways == Spec => [](Typed /\ PromptInv)
  BY TypeInit, TypeStep, PromptInit, PromptStep, PTL DEF Spec

\* Whatever pods crash, lose the leader key or are refused, at most one of them is
\* about to write the backup, and what it writes is newer: the check made when it
\* was told to is still true (get_leader_and_lcut, then the second transaction).
THEOREM OneWriter == Spec => [](setup.prompt => WriterInv)
<1>1. PromptInv => (setup.prompt => WriterInv)
  BY DEF PromptInv
<1> QED
  BY <1>1, PromptAlways, PTL

\* The backup of a context never goes back while it lives (BackupForward).
THEOREM NeverBack == Spec => BackupForward
<1>1. Typed /\ PromptInv /\ [Next]_vars =>
        [setup.prompt /\ entry.lcut # 0 /\ entry'.lcut # 0 => entry'.lcut >= entry.lcut]_vars
  <2> SUFFICES ASSUME Typed, PromptInv, Next, setup.prompt, entry'.lcut # 0
               PROVE  entry'.lcut >= entry.lcut
    OBVIOUS
  <2> USE DEF Typed, TypeOK
  <2>1. entry.lcut \in Nat /\ \A t \in tasks : t.lcut \in Nat
    BY Numbers
  <2>2. CASE entry' = entry
    BY <2>1, <2>2
  <2>3. CASE EntryAge
    <3>1. entry' = [entry EXCEPT !.fresh = FALSE] \/ entry' = NoBackup
      BY <2>3 DEF EntryAge
    <3> QED
      BY <2>1, <3>1 DEF NoBackup
  <2>4. ASSUME NEW t \in tasks, Update(t)
        PROVE  entry'.lcut >= entry.lcut
    <3>1. CASE Write(t)
      BY <2>1, <3>1 DEF Write, PromptInv, WriterInv
    <3>2. CASE Skip(t)
      BY <2>1, <3>2 DEF Skip, Refresh
    <3>3. CASE Delete(t)
      BY <3>3 DEF Delete, NoBackup
    <3>4. CASE Check(t) \/ SetExpiry(t)
      BY <2>2, <3>4, Zenon DEF Check, SetExpiry
    <3> QED
      BY <2>4, <3>1, <3>2, <3>3, <3>4 DEF Update
  <2>5. ASSUME NEW t \in touches, Touch(t)
        PROVE  entry'.lcut >= entry.lcut
    BY <2>1, <2>5 DEF Touch, Refresh
  <2>6. CASE Publish \/ LeaderExpire
    BY <2>2, <2>6, Zenon DEF Publish, LeaderExpire
  <2>7. ASSUME NEW p \in Pods,
               Fetched(p) \/ Unchanged(p) \/ Refused(p) \/ OtherUpdate(p) \/ Crash(p)
        PROVE  entry'.lcut >= entry.lcut
    BY <2>2, <2>7, Zenon DEF Fetched, Unchanged, Refused, OtherUpdate, Crash
  <2>8. ASSUME NEW t \in tasks, TaskFails(t)
        PROVE  entry'.lcut >= entry.lcut
    BY <2>2, <2>8 DEF TaskFails
  <2> QED
    BY <2>3, <2>4, <2>5, <2>6, <2>7, <2>8 DEF Next
<1> QED
  BY <1>1, PromptAlways, PTL DEF Spec, BackupForward

\* What a pod renews is the version of the last payload it was given, whether or not
\* it was written, and with edges that are up to date none older than it has fetched
\* (RenewsWhatItKnows): "Never extend an older backup after a failed write".
THEOREM RenewsKnown == Spec => RenewsWhatItKnows
<1>1. Typed /\ PromptInv /\ [Next]_vars =>
        [setup.prompt => \A t \in tasks \cup touches :
           (t \notin tasks' \cup touches' /\ entry.lcut # 0 /\ entry'.lcut = entry.lcut
              /\ ~entry.fresh /\ entry'.fresh)
             => /\ entry.lcut = active[t.pod]
                /\ ~setup.stale => entry.lcut >= known[t.pod]]_vars
  <2> DEFINE Confirmed(t) == /\ entry.lcut = active[t.pod]
                             /\ ~setup.stale => entry.lcut >= known[t.pod]
  <2> SUFFICES ASSUME Typed, PromptInv, Next, setup.prompt, NEW t \in tasks \cup touches,
                      t \notin tasks' \cup touches', entry.lcut # 0, entry'.lcut = entry.lcut,
                      ~entry.fresh, entry'.fresh
               PROVE  Confirmed(t)
    OBVIOUS
  <2> USE DEF Typed, TypeOK
  <2>1. t.pod \in Pods /\ known[t.pod] \in Nat /\ entry.lcut \in Nat
    BY Numbers
  <2>2. entry' # entry
    OBVIOUS
  <2>3. ~EntryAge
    BY Zenon DEF EntryAge, NoBackup
  <2>4. ASSUME NEW u \in tasks, Update(u)
        PROVE  Confirmed(t)
    <3>1. Write(u) \/ Skip(u) \/ Delete(u)
      BY <2>2, <2>4, Zenon DEF Update, Check, SetExpiry
    <3>2. ~Delete(u)
      <4> SUFFICES ASSUME Delete(u) PROVE entry'.lcut = 0
        OBVIOUS
      <4> QED
        BY DEF Delete, NoBackup
    <3>3. ~Write(u)
      <4> SUFFICES ASSUME Write(u) PROVE entry'.lcut # entry.lcut
        OBVIOUS
      <4> QED
        BY Numbers DEF Write, PromptInv, WriterInv
    <3>4. Skip(u)
      BY <3>1, <3>2, <3>3
    <3>5. t = u /\ entry.lcut = u.lcut /\ u.pc = "skip"
      BY <2>2, <3>4 DEF Skip, Done, Refresh, Matches
    <3> QED
      BY <2>1, <3>5 DEF PromptInv, TaskInv
  <2>5. ASSUME NEW u \in touches, Touch(u)
        PROVE  Confirmed(t)
    <3>1. t = u /\ entry.lcut = u.lcut
      BY <2>2, <2>5 DEF Touch, Refresh, Matches
    <3> QED
      BY <2>1, <3>1 DEF PromptInv, TaskInv
  <2>6. ~Publish /\ ~LeaderExpire
    BY <2>2, Zenon DEF Publish, LeaderExpire
  <2>7. \A p \in Pods : ~(Fetched(p) \/ Unchanged(p) \/ Refused(p) \/ OtherUpdate(p) \/ Crash(p))
    BY <2>2, Zenon DEF Fetched, Unchanged, Refused, OtherUpdate, Crash
  <2>8. \A u \in tasks : ~TaskFails(u)
    BY <2>2, Zenon DEF TaskFails
  <2> QED
    BY <2>3, <2>4, <2>5, <2>6, <2>7, <2>8 DEF Next
<1> QED
  BY <1>1, PromptAlways, PTL DEF Spec, RenewsWhatItKnows
=============================================================================
