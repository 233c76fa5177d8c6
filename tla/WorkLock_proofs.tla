--------------------------- MODULE WorkLock_proofs ---------------------------
(***************************************************************************)
(* Why the claim excludes two workers: a race of the TTL against the       *)
(* renewal interval, four delays and one burst of writes, for any number   *)
(* of pods and any values of the delays that satisfy Slack.                *)
(***************************************************************************)
EXTENDS WorkLock, TLAPS

\* What the program's delays may add up to.
Slack == Interval + 4 * Lag + Burst < TTL

\* The key is w's for at least t more.
Owns(w, t) == holder = w /\ ttl >= t

(***************************************************************************)
(* The inductive invariant of one pod: how much of the TTL is left at each *)
(* stage of the worker, of its renewal task and of a late release.         *)
(***************************************************************************)
PodInv(w) ==
    /\ pc[w] = "granted" => Owns(w, TTL - age[w]) /\ age[w] <= Lag
    /\ pc[w] = "held" => age[w] <= Burst
    /\ pc[w] = "held" /\ loop[w] = "sleep" =>
          Owns(w, TTL - Lag - timer[w]) /\ timer[w] <= Interval + Lag
    /\ pc[w] = "held" /\ loop[w] = "wait" =>
          Owns(w, TTL - Interval - 2 * Lag - timer[w]) /\ timer[w] <= Lag
    /\ pc[w] = "held" /\ loop[w] = "reply" =>
          w \in renewed /\ Owns(w, TTL - timer[w]) /\ timer[w] <= Lag
    /\ pc[w] = "held" /\ loop[w] = "off" =>
          w \in lost /\ Owns(w, TTL - Interval - 3 * Lag - age[w])
    /\ pc[w] = "release" =>
          Owns(w, TTL - Interval - 3 * Lag - Burst - age[w]) /\ age[w] <= Lag
    /\ loop[w] # "off" => pc[w] = "held" /\ w \notin lost
    /\ stray[w] # NoStray =>
          /\ pc[w] \in {"idle", "dead"}
          /\ stray[w] <= Lag
          /\ pc[w] = "idle" => Owns(w, Lag - stray[w] + 1)

LockInv == TypeOK /\ \A w \in Pods : PodInv(w)

\* The steps of one pod and of the messages it has sent.
PodStep(w) ==
    \/ TryAcquire(w) \/ Worker(w) \/ Renewal(w) \/ Crash(w)
    \/ StrayRelease(w) \/ GhostRenew(w)

-----------------------------------------------------------------------------
(* Types.                                                                  *)

\* The renewal interval (ClaimRenewal::start) is a positive number of seconds.
LEMMA IntervalPositive == Interval \in Nat /\ Interval >= 1 /\ Longest \in Nat
  BY LockAssumption DEF Interval, Longest

\* The initial state is typed.
LEMMA TypeInit == Init => TypeOK
  BY LockAssumption, IntervalPositive DEF Init, TypeOK

\* Every step keeps the types: a saturated age stays within Longest.
LEMMA TypeStep == TypeOK /\ [Next]_vars => TypeOK'
  <1> SUFFICES ASSUME TypeOK, [Next]_vars PROVE TypeOK'
    OBVIOUS
  <1> USE LockAssumption, IntervalPositive
  <1>1. ASSUME NEW w \in Pods, TryAcquire(w) PROVE TypeOK'
    BY <1>1 DEF TypeOK, TryAcquire, loopVars
  <1>2. ASSUME NEW w \in Pods, Worker(w) PROVE TypeOK'
    <2>1. CASE Start(w) BY <2>1 DEF TypeOK, Start
    <2>2. CASE AcquireFail(w) BY <2>2 DEF TypeOK, AcquireFail, loopVars
    <2>3. CASE EnsureHeld(w)
      <3>1. CASE w \in lost BY <2>3, <3>1 DEF TypeOK, EnsureHeld, Leave
      <3>2. CASE w \notin lost BY <2>3, <3>2 DEF TypeOK, EnsureHeld
      <3> QED BY <3>1, <3>2
    <2>4. CASE RenewNow(w)
      <3>1. CASE holder = w BY <2>4, <3>1 DEF TypeOK, RenewNow, Renew
      <3>2. CASE holder # w BY <2>4, <3>2 DEF TypeOK, RenewNow, Renew, Leave
      <3> QED BY <3>1, <3>2
    <2>5. CASE Finish(w) BY <2>5 DEF TypeOK, Finish, Leave
    <2>6. CASE Release(w) BY <2>6 DEF TypeOK, Release, Delete, loopVars
    <2>7. CASE ReleaseFail(w) BY <2>7 DEF TypeOK, ReleaseFail, loopVars
    <2> QED BY <1>2, <2>1, <2>2, <2>3, <2>4, <2>5, <2>6, <2>7 DEF Worker
  <1>3. ASSUME NEW w \in Pods, Renewal(w) PROVE TypeOK'
    <2>1. CASE RenewSend(w) BY <2>1 DEF TypeOK, RenewSend, workerVars
    <2>2. CASE RenewRun(w) BY <2>2 DEF TypeOK, RenewRun, Renew, workerVars
    <2>3. CASE RenewReply(w) BY <2>3 DEF TypeOK, RenewReply
    <2>4. CASE RenewFail(w) BY <2>4 DEF TypeOK, RenewFail
    <2> QED BY <1>3, <2>1, <2>2, <2>3, <2>4 DEF Renewal
  <1>4. ASSUME NEW w \in Pods, Crash(w) PROVE TypeOK'
    BY <1>4 DEF TypeOK, Crash
  <1>5. ASSUME NEW w \in Pods, StrayRelease(w) PROVE TypeOK'
    BY <1>5 DEF TypeOK, StrayRelease, Delete, NoStray, workerVars, loopVars
  <1>6. ASSUME NEW w \in Pods, GhostRenew(w) PROVE TypeOK'
    BY <1>6 DEF TypeOK, GhostRenew, Renew, workerVars, loopVars
  <1>7. CASE Tick
    BY <1>7 DEF TypeOK, Tick, Later, NoStray
  <1>8. CASE UNCHANGED vars
    BY <1>8 DEF TypeOK, vars, workerVars, loopVars
  <1> QED BY <1>1, <1>2, <1>3, <1>4, <1>5, <1>6, <1>7, <1>8 DEF Next

-----------------------------------------------------------------------------
(* One pod's step.                                                         *)

\* No pod's step touches another pod's fields, nor takes the key, or time of its
\* TTL, from another (the scripts compare the holder id).
LEMMA OthersUntouched ==
  ASSUME TypeOK, NEW v \in Pods, NEW w \in Pods, v # w, PodStep(v)
  PROVE  /\ pc'[w] = pc[w] /\ age'[w] = age[w] /\ (w \in lost' <=> w \in lost)
         /\ loop'[w] = loop[w] /\ timer'[w] = timer[w] /\ (w \in renewed' <=> w \in renewed)
         /\ stray'[w] = stray[w]
         /\ holder = w => holder' = w /\ ttl' >= ttl
  <1> USE LockAssumption
  <1>1. CASE TryAcquire(v) BY <1>1 DEF TypeOK, TryAcquire, loopVars
  <1>2. CASE Start(v) BY <1>2 DEF TypeOK, Start
  <1>3. CASE AcquireFail(v) BY <1>3 DEF TypeOK, AcquireFail, loopVars
  <1>4. CASE EnsureHeld(v)
    <2>1. CASE v \in lost BY <1>4, <2>1 DEF TypeOK, EnsureHeld, Leave
    <2>2. CASE v \notin lost BY <1>4, <2>2 DEF TypeOK, EnsureHeld
    <2> QED BY <2>1, <2>2
  <1>5. CASE RenewNow(v)
    <2>1. CASE holder = v BY <1>5, <2>1 DEF TypeOK, RenewNow, Renew
    <2>2. CASE holder # v BY <1>5, <2>2 DEF TypeOK, RenewNow, Renew, Leave
    <2> QED BY <2>1, <2>2
  <1>6. CASE Finish(v) BY <1>6 DEF TypeOK, Finish, Leave
  <1>7. CASE Release(v) BY <1>7 DEF TypeOK, Release, Delete, loopVars
  <1>8. CASE ReleaseFail(v) BY <1>8 DEF TypeOK, ReleaseFail, loopVars
  <1>9. CASE RenewSend(v) BY <1>9 DEF TypeOK, RenewSend, workerVars
  <1>10. CASE RenewRun(v) BY <1>10 DEF TypeOK, RenewRun, Renew, workerVars
  <1>11. CASE RenewReply(v) BY <1>11 DEF TypeOK, RenewReply
  <1>12. CASE RenewFail(v) BY <1>12 DEF TypeOK, RenewFail
  <1>13. CASE Crash(v) BY <1>13 DEF TypeOK, Crash
  <1>14. CASE StrayRelease(v)
    BY <1>14 DEF TypeOK, StrayRelease, Delete, workerVars, loopVars
  <1>15. CASE GhostRenew(v)
    BY <1>15 DEF TypeOK, GhostRenew, Renew, workerVars, loopVars
  <1> QED BY <1>1, <1>2, <1>3, <1>4, <1>5, <1>6, <1>7, <1>8, <1>9, <1>10, <1>11,
             <1>12, <1>13, <1>14, <1>15 DEF PodStep, Worker, Renewal

\* So another pod's step keeps a pod's invariant.
LEMMA OthersStep ==
  ASSUME TypeOK, TypeOK', NEW v \in Pods, NEW w \in Pods, v # w, PodStep(v), PodInv(w)
  PROVE  PodInv(w)'
  BY OthersUntouched, SMTT(30), LockAssumption, IntervalPositive
     DEF PodInv, Owns, TypeOK, NoStray

\* A pod's own step keeps its invariant: each stage hands the next one less of
\* the TTL, and a renewal gives all of it back.
LEMMA OwnStep ==
  ASSUME Slack, TypeOK, NEW w \in Pods, PodStep(w), PodInv(w)
  PROVE  PodInv(w)'
  <1> USE LockAssumption, IntervalPositive DEF PodInv, Owns, TypeOK, NoStray, Slack
  <1>1. CASE TryAcquire(w) BY <1>1 DEF TryAcquire, loopVars
  <1>2. CASE Start(w) BY <1>2 DEF Start
  <1>3. CASE AcquireFail(w) BY <1>3 DEF AcquireFail, loopVars
  <1>4. CASE EnsureHeld(w)
    <2>1. CASE w \in lost BY <1>4, <2>1 DEF EnsureHeld, Leave
    <2>2. CASE w \notin lost BY <1>4, <2>2 DEF EnsureHeld
    <2> QED BY <2>1, <2>2
  <1>5. CASE RenewNow(w)
    BY <1>5 DEF RenewNow, Renew
  <1>6. CASE Finish(w) BY <1>6 DEF Finish, Leave
  <1>7. CASE Release(w) BY <1>7 DEF Release, Delete, loopVars
  <1>8. CASE ReleaseFail(w) BY <1>8 DEF ReleaseFail, loopVars
  <1>9. CASE RenewSend(w) BY <1>9 DEF RenewSend, workerVars
  <1>10. CASE RenewRun(w) BY <1>10 DEF RenewRun, Renew, workerVars
  <1>11. CASE RenewReply(w) BY <1>11 DEF RenewReply
  <1>12. CASE RenewFail(w) BY <1>12 DEF RenewFail
  <1>13. CASE Crash(w) BY <1>13 DEF Crash
  <1>14. CASE StrayRelease(w)
    BY <1>14 DEF StrayRelease, Delete, workerVars, loopVars
  <1>15. CASE GhostRenew(w)
    BY <1>15 DEF GhostRenew, Renew, workerVars, loopVars
  <1> QED BY <1>1, <1>2, <1>3, <1>4, <1>5, <1>6, <1>7, <1>8, <1>9, <1>10, <1>11,
             <1>12, <1>13, <1>14, <1>15 DEF PodStep, Worker, Renewal

\* Time keeps a pod's invariant as long as nothing of the pod is overdue: the
\* TTL it relies on never runs out.
LEMMA TickStep ==
  ASSUME Slack, Timely, TypeOK, NEW w \in Pods, Tick, PodInv(w)
  PROVE  PodInv(w)'
  <1> USE LockAssumption, IntervalPositive
  <1>1. OnTime(w)
    BY DEF Tick
  <1>2. /\ pc' = pc /\ loop' = loop /\ lost' = lost /\ renewed' = renewed
        /\ holder' = IF ttl = 1 THEN NoPod ELSE holder
        /\ ttl' = IF ttl > 0 THEN ttl - 1 ELSE 0
    BY DEF Tick
  <1>3. /\ pc[w] \notin {"idle", "dead"} /\ age[w] < Longest => age'[w] = age[w] + 1
        /\ loop[w] # "off" /\ timer[w] < Longest => timer'[w] = timer[w] + 1
        /\ stray[w] # NoStray /\ stray[w] < Longest => stray'[w] = stray[w] + 1
        /\ stray[w] = NoStray => stray'[w] = NoStray
    BY DEF Tick, Later, TypeOK
  <1> QED
    BY <1>1, <1>2, <1>3 DEF PodInv, Owns, OnTime, TypeOK, Slack, Longest, NoStray

-----------------------------------------------------------------------------
(* The theorem.                                                            *)

\* The invariant holds at the start.
LEMMA InvInit == Init => LockInv
  BY TypeInit, LockAssumption DEF Init, LockInv, PodInv, NoStray

\* Every step keeps the invariant, if the program keeps to its delays.
LEMMA InvStep == Slack /\ Timely /\ LockInv /\ [Next]_vars => LockInv'
  <1> SUFFICES ASSUME Slack, Timely, LockInv, [Next]_vars, NEW w \in Pods
               PROVE  PodInv(w)'
    BY TypeStep DEF LockInv
  <1>1. TypeOK /\ PodInv(w) /\ TypeOK'
    BY TypeStep DEF LockInv
  <1>2. CASE Tick
    BY <1>1, <1>2, TickStep
  <1>3. ASSUME NEW v \in Pods, PodStep(v) PROVE PodInv(w)'
    BY <1>1, <1>3, OwnStep, OthersStep
  <1>4. CASE UNCHANGED vars
    BY <1>1, <1>4 DEF PodInv, Owns, vars, workerVars, loopVars
  <1> QED
    BY <1>1, <1>2, <1>3, <1>4 DEF Next, PodStep

\* A worker never writes without the claim: whatever renewals fail, whatever
\* workers crash and however late a release arrives, if the renewal interval,
\* four delays and one burst of writes fit into the TTL (run.rs, work_lock.rs).
THEOREM WritersOwnTheClaim ==
  ASSUME Slack, Timely
  PROVE  Spec => []WritersHoldClaim
  <1>1. LockInv => WritersHoldClaim
    BY DEF LockInv, PodInv, Owns, TypeOK, WritersHoldClaim
  <1>2. LockInv /\ [Next]_vars => LockInv'
    BY InvStep
  <1> QED
    BY <1>1, <1>2, InvInit, PTL DEF Spec

-----------------------------------------------------------------------------
(* The refinement.                                                         *)

Writers == {w \in Pods : pc[w] = "held"}

\* Apart from a grant and a start, a step hands the key to nobody and makes
\* nobody a writer.
LEMMA OnlyLeave ==
  ASSUME TypeOK, NEW v \in Pods, PodStep(v), ~TryAcquire(v), ~Start(v)
  PROVE  Writers' \subseteq Writers /\ holder' \in {holder, NoPod}
  <1> USE DEF TypeOK, Writers
  <1>1. CASE AcquireFail(v) BY <1>1 DEF AcquireFail
  <1>2. CASE EnsureHeld(v) BY <1>2 DEF EnsureHeld, Leave
  <1>3. CASE RenewNow(v) BY <1>3 DEF RenewNow, Leave
  <1>4. CASE Finish(v) BY <1>4 DEF Finish, Leave
  <1>5. CASE Release(v) BY <1>5 DEF Release, Delete
  <1>6. CASE ReleaseFail(v) BY <1>6 DEF ReleaseFail
  <1>7. CASE RenewSend(v) BY <1>7 DEF RenewSend, workerVars
  <1>8. CASE RenewRun(v) BY <1>8 DEF RenewRun, workerVars
  <1>9. CASE RenewReply(v) BY <1>9 DEF RenewReply
  <1>10. CASE RenewFail(v) BY <1>10 DEF RenewFail
  <1>11. CASE Crash(v) BY <1>11 DEF Crash
  <1>12. CASE StrayRelease(v) BY <1>12 DEF StrayRelease, Delete, workerVars
  <1>13. CASE GhostRenew(v) BY <1>13 DEF GhostRenew, workerVars
  <1> QED BY <1>1, <1>2, <1>3, <1>4, <1>5, <1>6, <1>7, <1>8, <1>9, <1>10, <1>11,
             <1>12, <1>13 DEF PodStep, Worker, Renewal

\* Every step is one of the abstract claim, or none at all.  What time and late
\* messages take away was not a writer's, by the invariant of the next state.
LEMMA ClaimStep ==
  ASSUME LockInv, LockInv', [Next]_vars
  PROVE  [Claim!Next]_(Claim!vars)
  <1>1. TypeOK /\ TypeOK' /\ \A w \in Pods : PodInv(w) /\ PodInv(w)'
    BY DEF LockInv
  <1>2. \A w \in Writers' : holder' = w
    BY <1>1 DEF PodInv, Owns, TypeOK, Writers
  <1>3. ASSUME Writers' \subseteq Writers, holder' \in {holder, NoPod} PROVE Claim!Leave
    BY <1>2, <1>3, LockAssumption DEF Claim!Leave, Writers
  <1>4. CASE Tick
    <2>1. Writers' \subseteq Writers /\ holder' \in {holder, NoPod}
      BY <1>4 DEF Tick, Writers
    <2> QED
      BY <1>3, <2>1 DEF Claim!Next
  <1>5. ASSUME NEW v \in Pods, TryAcquire(v) PROVE Claim!Take(v)
    <2>1. holder = NoPod /\ holder' = v /\ Writers' = Writers
      BY <1>1, <1>5 DEF TryAcquire, Writers, TypeOK
    <2> QED
      BY <2>1 DEF Claim!Take, Writers
  <1>6. ASSUME NEW v \in Pods, Start(v) PROVE Claim!Enter(v)
    <2>1. holder = v /\ holder' = holder
      BY <1>1, <1>6 DEF Start, PodInv, Owns
    <2>2. Writers' = Writers \cup {v}
      BY <1>1, <1>6 DEF Start, TypeOK, Writers
    <2> QED
      BY <2>1, <2>2 DEF Claim!Enter, Writers
  <1>7. ASSUME NEW v \in Pods, PodStep(v) PROVE Claim!Next
    <2>1. CASE TryAcquire(v) \/ Start(v)
      BY <1>5, <1>6, <2>1 DEF Claim!Next
    <2>2. CASE ~TryAcquire(v) /\ ~Start(v)
      BY <1>1, <1>3, <1>7, <2>2, OnlyLeave DEF Claim!Next
    <2> QED
      BY <2>1, <2>2
  <1>8. CASE UNCHANGED vars
    BY <1>8 DEF vars, workerVars, Claim!vars
  <1> QED
    BY <1>4, <1>7, <1>8 DEF Next, PodStep

\* The lock with its renewals implements the claim that the id-list workers
\* rely on, for any number of pods and any delays that satisfy Slack.
THEOREM LockIsClaim ==
  ASSUME Slack, Timely
  PROVE  Spec => ImplementsClaim
  <1>1. Init => Claim!Init
    BY DEF Init, Claim!Init
  <1>2. LockInv /\ [Next]_vars => LockInv'
    BY InvStep
  <1>3. LockInv /\ LockInv' /\ [Next]_vars => [Claim!Next]_(Claim!vars)
    BY ClaimStep
  <1> QED
    BY <1>1, <1>2, <1>3, InvInit, PTL DEF Spec, ImplementsClaim, Claim!Spec
=============================================================================
