---------------------------- MODULE DeltasStore ----------------------------
(***************************************************************************)
(* Config deltas of one SDK key.                                           *)
(*                                                                         *)
(* A background loop polls the origin for the delta since a position it    *)
(* keeps per request context, and the store keeps the last few             *)
(* answers of all contexts of the key, in the order of their config times. *)
(* A client that names the time of its config is answered with the         *)
(* envelopes of every kept delta that ends at that time or later.          *)
(*                                                                         *)
(* Positions and entries are written by three parties that do not wait for *)
(* each other: the delta loop, the config loop (which registers a context  *)
(* and forgets a refused one) and the clients (which register themselves   *)
(* with the time they have).                                               *)
(***************************************************************************)
EXTENDS Integers, Sequences, FiniteSets, SequencesExt

CONSTANTS Ctxs,        \* request contexts: encodings and capabilities
          Specs,       \* the parts of a config
          MaxTime,
          Setups       \* which contexts, bounds and faults are considered

ASSUME DeltasAssumption ==
  /\ MaxTime \in Nat \ {0}
  /\ \A s \in Setups :
       /\ s.ctxs \subseteq Ctxs /\ s.asks \in s.ctxs /\ s.budget \in Nat
       /\ {s.keep, s.changes} \subseteq Nat \ {0}

None == -1
Times == 0..MaxTime

VARIABLES
  setup,
  log,     \* the changes the origin recorded: [time, spec], times not decreasing
  key,     \* the sdk key store: per context the position, or None
  records, \* the kept deltas: [since, lcut, holds]
  poll,    \* per context: the request of the delta loop
  dcs,     \* per context: what the config loop does
  client,  \* one client, of context setup.asks: [pc, since, has]
  jumps,   \* positions that were not reached by keeping a delta
  spent    \* faults so far

vars == <<setup, log, key, records, poll, dcs, client, jumps, spent>>

Latest == log[Len(log)].time

\* The changes of one part of the config within a period.
Between(x, s, t) == {n \in DOMAIN log : log[n].spec = x /\ s <= log[n].time /\ log[n].time <= t}

\* What the origin sends for a period: the newest value of each part that
\* changed in it.  A value is named by its place in the log.
Delta(s, t) == [x \in Specs |-> Max(Between(x, s, t) \cup {0})]

NoPoll == [pc |-> "none", since |-> 0, lcut |-> 0, time |-> 0,
           holds |-> [x \in Specs |-> 0]]

Values == [Specs -> 0..setup.changes]

TypeOK ==
  /\ setup \in Setups /\ spent \in 0..setup.budget /\ jumps \subseteq Times
  /\ log \in Seq([time : Times, spec : Specs]) /\ Len(log) \in 1..setup.changes
  /\ key \in [Ctxs -> Times \cup {None}]
  /\ records \in Seq([since : Times, lcut : Times, holds : Values]) /\ Len(records) <= setup.keep
  /\ \A x \in Ctxs :
       /\ poll[x].pc \in {"none", "sent", "data", "kept", "refused", "forget"}
       /\ poll[x].since \in Times /\ poll[x].lcut \in Times /\ poll[x].holds \in Values
  /\ dcs \in [Ctxs -> {"free", "register", "forget"}]
  /\ client.pc \in {"idle", "check", "read"}
  /\ client.since \in Times /\ client.has \in Values

Init ==
  /\ setup \in Setups
  /\ log = <<[time |-> 1, spec |-> CHOOSE x \in Specs : TRUE]>>
  /\ key = [x \in Ctxs |-> None] /\ records = <<>>
  /\ poll = [x \in Ctxs |-> NoPoll]
  /\ dcs = [x \in Ctxs |-> "free"]
  /\ client = [pc |-> "idle", since |-> 0, has |-> [x \in Specs |-> 0]]
  /\ jumps = {} /\ spent = 0

Fault(kind) == kind \in setup.faults /\ spent < setup.budget /\ spent' = spent + 1

-----------------------------------------------------------------------------
(* The positions. *)

\* SdkKeyStore::upsert moves a position forward only.
Upsert(x, t) == key' = [key EXCEPT ![x] = IF t > @ THEN t ELSE @]

\* A position taken from a client or from the config loop.
Registered(x, t) ==
  /\ Upsert(x, t)
  /\ jumps' = IF t > key[x] THEN jumps \cup {t} ELSE jumps

-----------------------------------------------------------------------------
(* The delta loop. *)

\* A cycle starts from a copy of the registered positions, and ends when all
\* its requests have.
PollCycle ==
  /\ \A x \in Ctxs : poll[x].pc = "none"
  /\ \E x \in Ctxs : key[x] # None
  /\ poll' = [x \in Ctxs |-> IF key[x] = None THEN NoPoll
                             ELSE [NoPoll EXCEPT !.pc = "sent", !.since = key[x]]]
  /\ UNCHANGED <<setup, log, key, records, dcs, client, jumps, spent>>

\* The origin's answer for the config of time t.  An edge may be behind; the
\* header with the config's time may be missing (parse_since_time).  Observers
\* hear of it unless that time is the one asked for (process_result).
Answered(x, t, lcut) ==
  /\ poll[x].pc = "sent"
  /\ poll' = [poll EXCEPT ![x] =
                IF lcut = poll[x].since THEN NoPoll
                ELSE [@ EXCEPT !.pc = "data", !.lcut = lcut, !.time = t,
                               !.holds = Delta(poll[x].since, t)]]

PollData(x) ==
  /\ poll[x].since < Latest
  /\ \/ Answered(x, Latest, Latest) /\ UNCHANGED spent
     \/ Fault("lag") /\ \E t \in 1..(Latest - 1) : Answered(x, t, t)
     \/ Fault("header") /\ Answered(x, Latest, 0)
  /\ UNCHANGED <<setup, log, key, records, dcs, client, jumps>>

\* Nothing new, an error or a time-out: nobody is told.  The deltas' backup
\* cache is the disabled one.
PollNothing(x) ==
  /\ poll[x].pc = "sent"
  /\ (poll[x].since >= Latest /\ UNCHANGED spent) \/ Fault("error")
  /\ poll' = [poll EXCEPT ![x] = NoPoll]
  /\ UNCHANGED <<setup, log, key, records, dcs, client, jumps>>

\* A client error; or the key is refused and refused keys are cleared.
PollRefused(x) ==
  /\ poll[x].pc = "sent" /\ Fault("refuse")
  /\ poll' = [poll EXCEPT ![x].pc = "refused"]
  /\ UNCHANGED <<setup, log, key, records, dcs, client, jumps>>

\* Appended without looking at the times.
Insert_append(entry) == Append(records, entry)
\* persist_delta: entries with the same time stay in the order they came.
Insert(entry) ==
  LET later == {i \in DOMAIN records : records[i].lcut > entry.lcut} IN
  InsertAt(records, IF later = {} THEN Len(records) + 1 ELSE Min(later), entry)

\* The newest goes when there are too many.
Trim_newest(seq) == SubSeq(seq, 1, IF Len(seq) > setup.keep THEN setup.keep ELSE Len(seq))
\* The oldest go when there are too many.
Trim(seq) == SubSeq(seq, IF Len(seq) > setup.keep THEN Len(seq) - setup.keep + 1 ELSE 1, Len(seq))

PersistDelta(x) ==
  /\ poll[x].pc = "data"
  /\ poll' = [poll EXCEPT ![x].pc = "kept"]
  /\ \/ /\ records' = Trim(Insert([since |-> poll[x].since, lcut |-> poll[x].time,
                                   holds |-> poll[x].holds]))
        /\ UNCHANGED <<spent, jumps>>
     \/ /\ Fault("undecodable")
        /\ jumps' = jumps \cup {poll[x].lcut}
        /\ UNCHANGED records
  /\ UNCHANGED <<setup, log, key, dcs, client>>

\* The position moves on, also past a delta that could not be decoded.
MovePosition(x) ==
  /\ poll[x].pc = "kept"
  /\ IF key[x] = None THEN Registered(x, poll[x].lcut)
     ELSE Upsert(x, poll[x].lcut) /\ UNCHANGED jumps
  /\ poll' = [poll EXCEPT ![x] = NoPoll]
  /\ UNCHANGED <<setup, log, records, dcs, client, spent>>

\* remove_sdk_key: the position of the context, then the deltas of the key.
PollForget(x) ==
  /\ \/ /\ poll[x].pc = "refused"
        /\ key' = [key EXCEPT ![x] = None] /\ UNCHANGED records
        /\ poll' = [poll EXCEPT ![x].pc = "forget"]
     \/ /\ poll[x].pc = "forget"
        /\ records' = <<>> /\ UNCHANGED key
        /\ poll' = [poll EXCEPT ![x] = NoPoll]
  /\ UNCHANGED <<setup, log, dcs, client, jumps, spent>>

-----------------------------------------------------------------------------
(* The config loop, for contexts that take protos and deltas. *)

\* Every new config is announced; only the first one of a context counts.
DcsData(x) ==
  /\ dcs[x] = "free" /\ key[x] = None /\ x \in setup.ctxs
  /\ dcs' = [dcs EXCEPT ![x] = "register"]
  /\ UNCHANGED <<setup, log, key, records, poll, client, jumps, spent>>

DcsRegister(x) ==
  /\ dcs[x] = "register"
  /\ \E t \in {Latest} \cup (IF "lag" \in setup.faults THEN {Latest - 1} ELSE {}) :
       Registered(x, t)
  /\ dcs' = [dcs EXCEPT ![x] = "free"]
  /\ UNCHANGED <<setup, log, records, poll, client, spent>>

DcsRefused(x) ==
  /\ dcs[x] = "free" /\ x \in setup.ctxs /\ Fault("refuse")
  /\ key' = [key EXCEPT ![x] = None]
  /\ dcs' = [dcs EXCEPT ![x] = "forget"]
  /\ UNCHANGED <<setup, log, records, poll, client, jumps>>

DcsForget(x) ==
  /\ dcs[x] = "forget" /\ records' = <<>>
  /\ dcs' = [dcs EXCEPT ![x] = "free"]
  /\ UNCHANGED <<setup, log, key, poll, client, jumps, spent>>

-----------------------------------------------------------------------------
(* Clients. *)

\* Another client of the key asks for deltas.  The endpoint takes any time but 0;
\* an SDK sends the time of a config it was given, so never one to come.
OtherRegisters(x, t) ==
  /\ Fault("register") /\ x \in setup.ctxs /\ t \in 1..Latest
  /\ Registered(x, t)
  /\ UNCHANGED <<setup, log, records, poll, dcs, client>>

\* get_download_config_specs with accept_deltas.
AskConfig ==
  /\ client.pc = "idle"
  /\ client' = [client EXCEPT !.pc = "check"]
  /\ UNCHANGED <<setup, log, key, records, poll, dcs, jumps, spent>>

\* get_download_config_specs_deltas registers the client before it answers.
AskDeltas ==
  /\ client.pc = "idle" /\ setup.direct /\ client.since > 0
  /\ Registered(setup.asks, client.since)
  /\ client' = [client EXCEPT !.pc = "check"]
  /\ UNCHANGED <<setup, log, records, poll, dcs, spent>>

\* Without a delta answer the client takes the whole config.
WholeConfig ==
  client' = [client EXCEPT !.pc = "idle", !.since = Latest, !.has = Delta(0, Latest)]

\* build_combined_delta_proto_payload: is the context registered?
CheckKey ==
  /\ client.pc = "check"
  /\ IF key[setup.asks] = None THEN WholeConfig
     ELSE client' = [client EXCEPT !.pc = "read"]
  /\ UNCHANGED <<setup, log, key, records, poll, dcs, jumps, spent>>

LatestLcut == records[Len(records)].lcut

\* A client is never too old for the kept deltas.
TooOld_never(s) == FALSE
TooOld(s) == \A i \in DOMAIN records : s < records[i].since

Selected(s) == SelectSeq(records, LAMBDA d : d.lcut >= s)

\* The values of the newest delta that has one, or the client's own.
Combine(has, deltas) ==
  FoldLeft(LAMBDA held, d : [x \in Specs |-> IF d.holds[x] # 0 THEN d.holds[x] ELSE held[x]],
           has, deltas)

BuildCombined ==
  /\ client.pc = "read"
  /\ IF records = <<>> \/ TooOld(client.since) THEN WholeConfig
     ELSE IF Selected(client.since) = <<>> \/ client.since = LatestLcut
     THEN client' = [client EXCEPT !.pc = "idle"]
     ELSE client' = [client EXCEPT !.pc = "idle", !.since = LatestLcut,
                                   !.has = Combine(@, Selected(client.since))]
  /\ UNCHANGED <<setup, log, key, records, poll, dcs, jumps, spent>>

-----------------------------------------------------------------------------
\* A config time can record several versions.
Change(x, t) ==
  /\ Len(log) < setup.changes /\ t \in {Latest, Latest + 1} /\ t <= MaxTime
  /\ log' = Append(log, [time |-> t, spec |-> x])
  /\ UNCHANGED <<setup, key, records, poll, dcs, client, jumps, spent>>

Next ==
  \/ PollCycle
  \/ \E x \in Ctxs :
       \/ PollData(x) \/ PollNothing(x) \/ PollRefused(x)
       \/ PersistDelta(x) \/ MovePosition(x) \/ PollForget(x)
       \/ DcsData(x) \/ DcsRegister(x) \/ DcsRefused(x) \/ DcsForget(x)
       \/ \E t \in Times : OtherRegisters(x, t)
  \/ AskConfig \/ AskDeltas \/ CheckKey \/ BuildCombined
  \/ \E x \in Specs, t \in Times : Change(x, t)

Spec == Init /\ [][Next]_vars

\* The loop polls and its requests end; the client asks again and again.
FairSpec ==
  /\ Spec
  /\ WF_vars(PollCycle)
  /\ \A x \in Ctxs : /\ WF_vars(PollData(x) \/ PollNothing(x) \/ PollRefused(x))
                     /\ WF_vars(PersistDelta(x)) /\ WF_vars(MovePosition(x))
                     /\ WF_vars(PollForget(x))
                     /\ WF_vars(DcsRegister(x)) /\ WF_vars(DcsForget(x))
  /\ WF_vars(AskConfig) /\ WF_vars(CheckKey) /\ WF_vars(BuildCombined)

-----------------------------------------------------------------------------
\* A position between the two times was taken from elsewhere, so that the
\* loop never asked for the delta before it.
Jumped(s, t) == \E q \in jumps : s < q /\ q <= t

(* "Safe ... to ensure we do not miss updates" (deltas_store.rs:121): a      *)
(* client that was moved to a time by deltas has every change before that    *)
(* time, whichever contexts the deltas came from, in whatever order and      *)
(* however many were dropped.  The one exception is a change before a        *)
(* position that was not reached by keeping deltas.                          *)
NothingMissed ==
  \A n \in DOMAIN log :
    LET c == log[n] IN
    c.time < client.since /\ client.has[c.spec] < n => Jumped(c.time, client.since)

(* A client never goes back to an older config: the end of a combined answer *)
(* is the newest kept delta (persist_delta's order).                         *)
ClientForward == [][client'.since >= client.since]_vars

(* A client does not stay behind the origin: the loop fetches what is new    *)
(* and the answers reach it.  Again a jumped position is the exception: then *)
(* the client is told there is nothing new until the next change.            *)
CatchesUp ==
  <>[](client.since = Latest \/ Jumped(client.since, Latest))
=============================================================================
