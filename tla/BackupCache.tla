---------------------------- MODULE BackupCache ----------------------------
(***************************************************************************)
(* The backup of one dcs context in Redis, kept by several pods.           *)
(*                                                                         *)
(* Every pod that fetches a version starts a task that decides, in one     *)
(* transaction, whether the pod is the leader of the fleet and whether the *)
(* version is newer than the backup.  The leader then writes, in a second  *)
(* transaction; everyone else renews the TTL of the backup if it is of     *)
(* the very version that was fetched.  A poll without news renews too, by  *)
(* the version the pod remembers (active_cache_keys).                      *)
(*                                                                         *)
(* The pipeline object is used again for each later transaction, so each   *)
(* of them starts by the commands of the first: SETNX of the leader key is *)
(* sent again with every write.                                            *)
(***************************************************************************)
EXTENDS Integers, FiniteSets

CONSTANTS Pods,
          MaxVersion, \* bound: versions the origin publishes
          MaxFaults,  \* bound: crashes, refusals and failed commands
          Setups      \* [prompt, stale]: whether Redis is faster than polls and
                      \* leases, and whether an edge that lags behind may answer
                      \* with an older version than it was asked from

ASSUME BackupAssumption ==
  /\ MaxVersion \in Nat \ {0} /\ MaxFaults \in Nat
  /\ Setups \subseteq [prompt : BOOLEAN, stale : BOOLEAN]
  /\ "gone" \notin Pods /\ "none" \notin Pods

Versions == 1..MaxVersion

VARIABLES
  setup,   \* in Setups
  current, \* the origin's version
  leader,  \* the leader key: [holder, ttl], ttl is whether it has one
  entry,   \* the hash of the context: [lcut, fresh], lcut 0 when there is none
  known,   \* per pod: the version it polls from, 0 when unregistered
  active,  \* per pod: active_cache_keys, 0 before the first payload
  tasks,   \* update_impl in progress: [pod, lcut, pc]
  touches, \* touch in progress: [pod, lcut]
  faults   \* faults left

vars == <<setup, current, leader, entry, known, active, tasks, touches, faults>>

NoLeader == [holder |-> "none", ttl |-> FALSE]
NoBackup == [lcut |-> 0, fresh |-> FALSE]

TypeOK ==
  /\ setup \in Setups /\ current \in Versions
  /\ leader \in [holder : Pods \cup {"none", "gone"}, ttl : BOOLEAN]
  /\ entry \in [lcut : 0..MaxVersion, fresh : BOOLEAN] /\ (entry.fresh => entry.lcut # 0)
  /\ known \in [Pods -> 0..MaxVersion] /\ active \in [Pods -> 0..MaxVersion]
  /\ tasks \subseteq [pod : Pods, lcut : 0..MaxVersion,
                      pc : {"check", "expire", "write", "skip", "delete"}]
  /\ touches \subseteq [pod : Pods, lcut : Versions]
  /\ faults \in 0..MaxFaults

Init ==
  /\ setup \in Setups /\ current = 1
  /\ leader = NoLeader /\ entry = NoBackup
  /\ known = [p \in Pods |-> 0] /\ active = [p \in Pods |-> 0]
  /\ tasks = {} /\ touches = {}
  /\ faults = MaxFaults

Fault == faults > 0 /\ faults' = faults - 1

Busy(p) == (\E t \in tasks : t.pod = p) \/ (\E t \in touches : t.pod = p)

Done(t) == tasks' = tasks \ {t}
Proceed(t, pc) == tasks' = (tasks \ {t}) \cup {[t EXCEPT !.pc = pc]}

----------------------------------------------------------------------------
(* Redis                                                                   *)

\* SETNX of the leader key.
Claimed(p) == IF leader.holder = "none" THEN [holder |-> p, ttl |-> FALSE] ELSE leader

\* The same, followed by EXPIRE of the leader key.
Leased(p) == [Claimed(p) EXCEPT !.ttl = TRUE]

Matches_any(lcut) == entry.lcut # 0

\* REFRESH_TTL_SCRIPT: EXPIRE if the lcut of the hash is the expected one.
Matches(lcut) == entry.lcut # 0 /\ entry.lcut = lcut

Refresh(lcut) == entry' = IF Matches(lcut) THEN [entry EXCEPT !.fresh = TRUE] ELSE entry

LeaderExpire ==
  /\ leader.ttl
  /\ setup.prompt => \A t \in tasks : t.pc # "write"
  /\ leader' = NoLeader
  /\ UNCHANGED <<setup, current, entry, known, active, tasks, touches, faults>>

\* The TTL of the backup runs down, a day after the last renewal.
EntryAge ==
  /\ entry.lcut # 0
  /\ entry' = IF entry.fresh THEN [entry EXCEPT !.fresh = FALSE] ELSE NoBackup
  /\ UNCHANGED <<setup, current, leader, known, active, tasks, touches, faults>>

----------------------------------------------------------------------------
(* What the fetches of a pod bring                                         *)

Publish ==
  /\ current < MaxVersion
  /\ current' = current + 1
  /\ UNCHANGED <<setup, leader, entry, known, active, tasks, touches, faults>>

\* A version that differs from the one the pod asked from, perhaps of an edge that
\* lags behind.  The pod asks from the newest it has seen; the backup is told of
\* every answer, and remembers it before the first command is sent.
Fetched(p) ==
  /\ setup.prompt => ~Busy(p)
  /\ \E v \in 1..current :
       /\ v > known[p] \/ (setup.stale /\ v # known[p])
       /\ known' = [known EXCEPT ![p] = IF v > @ THEN v ELSE @]
       /\ active' = [active EXCEPT ![p] = v]
       /\ tasks' = tasks \cup {[pod |-> p, lcut |-> v, pc |-> "check"]}
  /\ UNCHANGED <<setup, current, leader, entry, touches, faults>>

\* A poll without news: touch reads what is remembered.
Unchanged(p) ==
  /\ setup.prompt => ~Busy(p)
  /\ known[p] # 0 /\ active[p] # 0
  /\ touches' = touches \cup {[pod |-> p, lcut |-> active[p]]}
  /\ UNCHANGED <<setup, current, leader, entry, known, active, tasks, faults>>

\* A 401 with clear_datastore_on_unauthorized: what is remembered stays.
Refused(p) ==
  /\ known[p] # 0 /\ Fault
  /\ setup.prompt => ~Busy(p)
  /\ known' = [known EXCEPT ![p] = 0]
  /\ tasks' = tasks \cup {[pod |-> p, lcut |-> 0, pc |-> "delete"]}
  /\ UNCHANGED <<setup, current, leader, entry, active, touches>>

----------------------------------------------------------------------------
(* update_impl and touch                                                   *)

\* A leader key without a TTL, held by someone else, is given one.
LacksTTL_never(p) == FALSE

LacksTTL(p) == leader.holder \notin {"none", p} /\ ~leader.ttl

ShouldUpdate_leaderOnly(p, lcut) == Claimed(p).holder = p

ShouldUpdate(p, lcut) == Claimed(p).holder = p /\ entry.lcut < lcut

Check(t) ==
  /\ t.pc = "check"
  /\ leader' = Claimed(t.pod)
  /\ Proceed(t, CASE ShouldUpdate(t.pod, t.lcut) -> "write"
                  [] LacksTTL(t.pod)             -> "expire"
                  [] OTHER                       -> "skip")
  /\ UNCHANGED <<setup, current, entry, known, active, touches, faults>>

SetExpiry(t) ==
  /\ t.pc = "expire"
  /\ leader' = Leased(t.pod)
  /\ Proceed(t, "skip")
  /\ UNCHANGED <<setup, current, entry, known, active, touches, faults>>

\* The holder is not asked again.
Write(t) ==
  /\ t.pc = "write"
  /\ leader' = Leased(t.pod)
  /\ entry' = [lcut |-> t.lcut, fresh |-> TRUE]
  /\ Done(t)
  /\ UNCHANGED <<setup, current, known, active, touches, faults>>

Skip(t) ==
  /\ t.pc = "skip"
  /\ Refresh(t.lcut)
  /\ Done(t)
  /\ UNCHANGED <<setup, current, leader, known, active, touches, faults>>

Delete(t) ==
  /\ t.pc = "delete"
  /\ entry' = NoBackup
  /\ Done(t)
  /\ UNCHANGED <<setup, current, leader, known, active, touches, faults>>

\* A command fails, and none is tried again.  A pod that could not check does not
\* write, and still tries to renew.  The check may have failed after Redis ran it;
\* for the others that is the same as success, which nobody waits for.
TaskFails(t) ==
  /\ Fault
  /\ Done(t) \/ (t.pc \in {"check", "expire"} /\ Proceed(t, "skip"))
  /\ leader' = leader \/ (t.pc = "check" /\ leader' = Claimed(t.pod))
  /\ UNCHANGED <<setup, current, entry, known, active, touches>>

Touch(t) ==
  /\ Refresh(t.lcut)
  /\ touches' = touches \ {t}
  /\ UNCHANGED <<setup, current, leader, known, active, tasks, faults>>

\* The leader key is shared: an update of another context of the pod.
OtherUpdate(p) ==
  /\ leader' = IF Claimed(p).holder = p \/ LacksTTL(p) THEN Leased(p) ELSE leader
  /\ UNCHANGED <<setup, current, entry, known, active, tasks, touches, faults>>

\* A new process has a new uuid.
Crash(p) ==
  /\ Fault
  /\ leader' = IF leader.holder = p THEN [leader EXCEPT !.holder = "gone"] ELSE leader
  /\ known' = [known EXCEPT ![p] = 0] /\ active' = [active EXCEPT ![p] = 0]
  /\ tasks' = {t \in tasks : t.pod # p}
  /\ touches' = {t \in touches : t.pod # p}
  /\ UNCHANGED <<setup, current, entry>>

----------------------------------------------------------------------------
Update(t) == Check(t) \/ SetExpiry(t) \/ Write(t) \/ Skip(t) \/ Delete(t)

Next ==
  \/ Publish \/ LeaderExpire \/ EntryAge
  \/ \E p \in Pods : Fetched(p) \/ Unchanged(p) \/ Refused(p) \/ OtherUpdate(p) \/ Crash(p)
  \/ \E t \in tasks : Update(t) \/ TaskFails(t)
  \/ \E t \in touches : Touch(t)

Spec == Init /\ [][Next]_vars

\* Redis expires keys, and pods keep fetching updates of some context.
FairSpec ==
  /\ Spec
  /\ WF_vars(LeaderExpire)
  /\ WF_vars(\E t \in tasks : Update(t))
  /\ \A p \in Pods : WF_vars(OtherUpdate(p))

----------------------------------------------------------------------------
(* Properties                                                              *)

\* The backup is not replaced by an older version while it lives, by whichever
\* leader, as long as no write outlives the lease or the poll it belongs to.
BackupForward ==
  [][setup.prompt /\ entry.lcut # 0 /\ entry'.lcut # 0 => entry'.lcut >= entry.lcut]_vars

\* "Never extend an older backup after a failed write": what a pod renews is the
\* version of the last payload it was given, written or not, and none older than it
\* has fetched unless an edge has since answered with an older one.
RenewsWhatItKnows ==
  [][setup.prompt => \A t \in tasks \cup touches :
       (t \notin tasks' \cup touches' /\ entry.lcut # 0 /\ entry'.lcut = entry.lcut
          /\ ~entry.fresh /\ entry'.fresh)
         => /\ entry.lcut = active[t.pod]
            /\ ~setup.stale => entry.lcut >= known[t.pod]]_vars

\* "In case there was a crash without cleaning up the leader key": a dead leader
\* does not keep the key.
LeaderReplaced == (leader.holder = "gone") ~> (leader.holder # "gone")
=============================================================================
