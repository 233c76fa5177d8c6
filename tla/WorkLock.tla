------------------------------ MODULE WorkLock ------------------------------
(***************************************************************************)
(* The per-list claim and its renewal: RedisWorkLock (work_lock.rs: SET NX *)
(* EX, Lua-guarded EXPIRE and DEL) under ClaimRenewal (worker/run.rs: a    *)
(* task that renews every third of the TTL, a flag it raises when it       *)
(* fails, and a worker that reads the flag between its writes).  Time is   *)
(* discrete.  Nothing fences the worker's writes: what keeps two workers   *)
(* apart is time alone, so the delays of the program are constants here.   *)
(*                                                                         *)
(* A pod is one process, i.e. one holder id, and runs one worker; a        *)
(* restarted process is another pod.                                       *)
(***************************************************************************)
EXTENDS Integers

CONSTANTS
    Pods, NoPod,
    TTL,        \* lock_ttl_s
    Lag,        \* longest delay of a timer, or of half a Redis round trip
    Burst,      \* longest stretch of a worker between two looks at the flag
    Timely      \* whether the program keeps to Lag and Burst

ASSUME LockAssumption ==
    /\ NoPod \notin Pods
    /\ TTL \in Nat /\ TTL >= 3
    /\ Lag \in Nat \ {0}
    /\ Burst \in Nat \ {0}
    /\ Timely \in BOOLEAN

VARIABLES
    holder,     \* the value of the claim key, NoPod: no key
    ttl,        \* what is left of its TTL, 0: none
    pc,         \* the worker: idle, granted, held, release, dead
    age,        \* time since the worker's last step, or look at the flag
    loop,       \* the renewal task: off, sleep, wait, reply
    timer,      \* time since its last step
    renewed,    \* the pods whose last renewal the script confirmed
    lost,       \* the pods whose flag is up
    stray,      \* a release still on its way after its caller gave up: its age
    ghost       \* the pods with a renewal on its way after its task was stopped

workerVars == <<pc, age, lost>>
loopVars == <<loop, timer, renewed>>
vars == <<holder, ttl, workerVars, loopVars, stray, ghost>>

\* Mutant: two thirds of the TTL.
Interval_late == (2 * TTL) \div 3

Interval == IF TTL \div 3 > 1 THEN TTL \div 3 ELSE 1
NoStray == -1
Longest == Interval + Lag + Burst

Init ==
    /\ holder = NoPod
    /\ ttl = 0
    /\ pc = [w \in Pods |-> "idle"]
    /\ age = [w \in Pods |-> 0]
    /\ loop = [w \in Pods |-> "off"]
    /\ timer = [w \in Pods |-> 0]
    /\ renewed = {}
    /\ lost = {}
    /\ stray = [w \in Pods |-> NoStray]
    /\ ghost = {}

-----------------------------------------------------------------------------
(* The lock's three scripts.                                               *)

\* EXPIRE, if the key is still this holder's.
Renew(w) == ttl' = IF holder = w THEN TTL ELSE ttl

\* DEL, if the key is still this holder's.
Delete(w) ==
    /\ holder' = IF holder = w THEN NoPod ELSE holder
    /\ ttl' = IF holder = w THEN 0 ELSE ttl

\* Mutant: SET NX without EX.
TryAcquire_noExpiry(w) ==
    /\ pc[w] = "idle"
    /\ holder = NoPod
    /\ holder' = w
    /\ ttl' = 0
    /\ pc' = [pc EXCEPT ![w] = "granted"]
    /\ age' = [age EXCEPT ![w] = 0]
    /\ UNCHANGED <<lost, loopVars, stray, ghost>>

\* SET NX EX: granted, though the worker does not know it yet.
TryAcquire(w) ==
    /\ pc[w] = "idle"
    /\ holder = NoPod
    /\ holder' = w
    /\ ttl' = TTL
    /\ pc' = [pc EXCEPT ![w] = "granted"]
    /\ age' = [age EXCEPT ![w] = 0]
    /\ UNCHANGED <<lost, loopVars, stray, ghost>>

-----------------------------------------------------------------------------
(* The worker (run_once).                                                  *)

\* The answer arrives: ClaimRenewal::start, then run_claimed.
Start(w) ==
    /\ pc[w] = "granted"
    /\ pc' = [pc EXCEPT ![w] = "held"]
    /\ age' = [age EXCEPT ![w] = 0]
    /\ lost' = lost \ {w}
    /\ loop' = [loop EXCEPT ![w] = "sleep"]
    /\ timer' = [timer EXCEPT ![w] = 0]
    /\ UNCHANGED <<holder, ttl, renewed, stray, ghost>>

\* The answer is an error: nothing is released.
AcquireFail(w) ==
    /\ pc[w] = "granted"
    /\ pc' = [pc EXCEPT ![w] = "idle"]
    /\ age' = [age EXCEPT ![w] = 0]
    /\ UNCHANGED <<holder, ttl, lost, loopVars, stray, ghost>>

\* stop_and_release: the renewal task is cancelled, but not a renewal under way.
Leave(w) ==
    /\ pc' = [pc EXCEPT ![w] = "release"]
    /\ age' = [age EXCEPT ![w] = 0]
    /\ loop' = [loop EXCEPT ![w] = "off"]
    /\ timer' = [timer EXCEPT ![w] = 0]
    /\ ghost' = ghost \cup {v \in {w} : loop[v] = "wait"}

\* ensure_held.
EnsureHeld(w) ==
    /\ pc[w] = "held"
    /\ IF w \in lost
       THEN Leave(w)
       ELSE age' = [age EXCEPT ![w] = 0] /\ UNCHANGED <<pc, loop, timer, ghost>>
    /\ UNCHANGED <<holder, ttl, lost, renewed, stray>>

\* renew_now: the same look, and a renewal of the worker's own.
RenewNow(w) ==
    /\ pc[w] = "held"
    /\ w \notin lost
    /\ Renew(w)
    /\ IF holder = w
       THEN age' = [age EXCEPT ![w] = 0] /\ UNCHANGED <<pc, lost, loop, timer, ghost>>
       ELSE lost' = lost \cup {w} /\ Leave(w)
    /\ UNCHANGED <<holder, renewed, stray>>

\* The task is done, or failed.
Finish(w) ==
    /\ pc[w] = "held"
    /\ Leave(w)
    /\ UNCHANGED <<holder, ttl, lost, renewed, stray>>

Release(w) ==
    /\ pc[w] = "release"
    /\ Delete(w)
    /\ pc' = [pc EXCEPT ![w] = "idle"]
    /\ age' = [age EXCEPT ![w] = 0]
    /\ UNCHANGED <<lost, loopVars, stray, ghost>>

\* The release's connection fails: the command never reaches Redis, or later.
ReleaseFail(w) ==
    /\ pc[w] = "release"
    /\ pc' = [pc EXCEPT ![w] = "idle"]
    /\ age' = [age EXCEPT ![w] = 0]
    /\ \E s \in {age[w], stray[w]} : stray' = [stray EXCEPT ![w] = s]
    /\ UNCHANGED <<holder, ttl, lost, loopVars, ghost>>

\* The worker dies for good; Drop may still get a release out.
Crash(w) ==
    /\ pc[w] # "dead"
    /\ pc' = [pc EXCEPT ![w] = "dead"]
    /\ age' = [age EXCEPT ![w] = 0]
    /\ loop' = [loop EXCEPT ![w] = "off"]
    /\ timer' = [timer EXCEPT ![w] = 0]
    /\ ghost' = ghost \cup {v \in {w} : loop[v] = "wait"}
    /\ \E s \in {0, stray[w]} :
          /\ s = 0 => pc[w] \in {"held", "release"} \/ stray[w] = 0
          /\ stray' = [stray EXCEPT ![w] = s]
    /\ UNCHANGED <<holder, ttl, lost, renewed>>

-----------------------------------------------------------------------------
(* The renewal task.                                                       *)

RenewSend(w) ==
    /\ loop[w] = "sleep"
    /\ timer[w] >= Interval
    /\ loop' = [loop EXCEPT ![w] = "wait"]
    /\ timer' = [timer EXCEPT ![w] = 0]
    /\ UNCHANGED <<holder, ttl, workerVars, renewed, stray, ghost>>

RenewRun(w) ==
    /\ loop[w] = "wait"
    /\ Renew(w)
    /\ renewed' = IF holder = w THEN renewed \cup {w} ELSE renewed \ {w}
    /\ loop' = [loop EXCEPT ![w] = "reply"]
    /\ timer' = [timer EXCEPT ![w] = 0]
    /\ UNCHANGED <<holder, workerVars, stray, ghost>>

RenewReply(w) ==
    /\ loop[w] = "reply"
    /\ loop' = [loop EXCEPT ![w] = IF w \in renewed THEN "sleep" ELSE "off"]
    /\ lost' = lost \cup ({w} \ renewed)
    /\ timer' = [timer EXCEPT ![w] = 0]
    /\ UNCHANGED <<holder, ttl, pc, age, renewed, stray, ghost>>

\* An error, whether or not the script ran.
RenewFail(w) ==
    /\ loop[w] \in {"wait", "reply"}
    /\ loop' = [loop EXCEPT ![w] = "off"]
    /\ lost' = lost \cup {w}
    /\ timer' = [timer EXCEPT ![w] = 0]
    /\ UNCHANGED <<holder, ttl, pc, age, renewed, stray, ghost>>

-----------------------------------------------------------------------------
(* Redis and time.                                                         *)

StrayRelease(w) ==
    /\ stray[w] # NoStray
    /\ Delete(w)
    /\ stray' = [stray EXCEPT ![w] = NoStray]
    /\ UNCHANGED <<workerVars, loopVars, ghost>>

GhostRenew(w) ==
    /\ w \in ghost
    /\ Renew(w)
    /\ ghost' = ghost \ {w}
    /\ UNCHANGED <<holder, workerVars, loopVars, stray>>

\* Nothing of pod w is overdue.
OnTime(w) ==
    /\ pc[w] \in {"granted", "release"} => age[w] < Lag
    /\ pc[w] = "held" => age[w] < Burst
    /\ loop[w] = "sleep" => timer[w] < Interval + Lag
    /\ loop[w] \in {"wait", "reply"} => timer[w] < Lag
    /\ stray[w] < Lag

Later(t) == IF t < Longest THEN t + 1 ELSE t

Tick ==
    /\ Timely => \A w \in Pods : OnTime(w)
    /\ ttl' = IF ttl > 0 THEN ttl - 1 ELSE 0
    /\ holder' = IF ttl = 1 THEN NoPod ELSE holder
    /\ age' = [w \in Pods |-> IF pc[w] \in {"idle", "dead"} THEN 0 ELSE Later(age[w])]
    /\ timer' = [w \in Pods |-> IF loop[w] = "off" THEN 0 ELSE Later(timer[w])]
    /\ stray' = [w \in Pods |-> IF stray[w] = NoStray THEN NoStray ELSE Later(stray[w])]
    /\ UNCHANGED <<pc, lost, loop, renewed, ghost>>

-----------------------------------------------------------------------------
Worker(w) ==
    \/ Start(w) \/ AcquireFail(w) \/ EnsureHeld(w) \/ RenewNow(w) \/ Finish(w)
    \/ Release(w) \/ ReleaseFail(w)

Renewal(w) == RenewSend(w) \/ RenewRun(w) \/ RenewReply(w) \/ RenewFail(w)

Next ==
    \/ Tick
    \/ \E w \in Pods :
          \/ TryAcquire(w) \/ Worker(w) \/ Renewal(w) \/ Crash(w)
          \/ StrayRelease(w) \/ GhostRenew(w)

Spec == Init /\ [][Next]_vars

(***************************************************************************)
(* Time passes, and what the scheduler or the network owes happens: each   *)
(* is forced before the next Tick when it is late.                         *)
(***************************************************************************)
Fairness ==
    /\ WF_vars(Tick)
    /\ \A w \in Pods : /\ WF_vars(Worker(w))
                       /\ WF_vars(Renewal(w))
                       /\ WF_vars(StrayRelease(w))

FairSpec == Spec /\ Fairness

-----------------------------------------------------------------------------
(* Properties.                                                             *)

TypeOK ==
    /\ holder \in Pods \cup {NoPod}
    /\ ttl \in 0..TTL
    /\ pc \in [Pods -> {"idle", "granted", "held", "release", "dead"}]
    /\ age \in [Pods -> 0..Longest]
    /\ loop \in [Pods -> {"off", "sleep", "wait", "reply"}]
    /\ timer \in [Pods -> 0..Longest]
    /\ renewed \subseteq Pods
    /\ lost \subseteq Pods
    /\ stray \in [Pods -> {NoStray} \cup 0..Longest]
    /\ ghost \subseteq Pods

\* A worker that is still writing owns the claim, whatever became of its
\* renewals and of releases that arrive late: the flag stops it before the
\* TTL lets another in (ensure_held, renew_now, the renewal interval).
WritersHoldClaim == \A w \in Pods : pc[w] = "held" => holder = w

\* A claim whose worker is gone is not stuck: after a crash, a lost release or
\* a failed acquire another worker can take the list over.
ClaimsFreed ==
    \A w \in Pods : holder = w /\ pc[w] \in {"idle", "dead"} ~> holder # w

Claim == INSTANCE WorkClaim WITH writers <- {w \in Pods : pc[w] = "held"}

\* Scripts, renewals, TTL and flag together are a claim: an answer that comes
\* late never starts a worker whose key is gone, and the key of a worker that
\* still writes neither expires nor falls to a late release (work_lock.rs,
\* run.rs).
ImplementsClaim == Claim!Spec
=============================================================================
