---------------------------- MODULE TokenRefresh ----------------------------
(***************************************************************************)
(* The Entra token Redis connections authenticate with, and the pools of   *)
(* connections that use it.                                                *)
(*                                                                         *)
(* The process builds its pools one after the other.  The first one in     *)
(* oauth mode fetches a token, retrying until a deadline; the outcome,     *)
(* failure included, is shared by all of them.  The first pool that comes  *)
(* up starts the only refresh task, which mints the next token one refresh *)
(* margin ahead of the expiry of the published one.  A connection keeps    *)
(* the token it was opened with: it is refused at checkout when that token *)
(* has less than HardMargin to live, dropped at check-in when a newer      *)
(* token was published, and reaped when idle and older than the cap its    *)
(* pool was built with.                                                    *)
(*                                                                         *)
(* Times are numbers of one unit and count down: a deadline is the time    *)
(* left to it.  A timer fires in the unit it is due and a token request    *)
(* ends within RequestTimeout, so Tick waits for both.                     *)
(***************************************************************************)
EXTENDS Integers, Sequences

CONSTANTS Pools,          \* the pools in the order the process builds them
          Conns, PoolOf,  \* places for connections, and the pool of each
          Setups,         \* the environments considered
          Reported,       \* the values of expires_in considered
          MinRefreshDelay, MinBackoff, MaxBackoff, MinLifetime, MaxLifetime,
          MinMargin, HardMargin, MinConnAge, RequestTimeout,
          Hold            \* how long a command keeps a connection

NoMargin == 0             \* no refresh margin is configured

ASSUME TimesAssumption ==
  /\ {MinRefreshDelay, MinBackoff, MaxBackoff, MinLifetime, MaxLifetime, MinMargin,
      HardMargin, MinConnAge, RequestTimeout} \subseteq Nat \ {0}
  /\ Hold \in Nat
  /\ MinRefreshDelay + MinMargin <= MinLifetime /\ MinLifetime <= MaxLifetime
  /\ 2 * MinRefreshDelay <= MinLifetime
  /\ MinBackoff <= MaxBackoff
  /\ HardMargin + RequestTimeout < MinMargin
  /\ RequestTimeout + Hold <= HardMargin

\* What the environment variables of the Redis connections tell apart: the auth
\* mode ("other" is no known one), whether the Entra settings are complete, TLS
\* and the consent to do without it, an https authority, the refresh margin.
\* timeout is the startup budget of the command line.
RedisEnvConfig ==
  [mode : {"password", "oauth", "other"}, complete : BOOLEAN, tls : BOOLEAN,
   plaintext : {"unset", "yes", "no", "malformed"}, https : BOOLEAN,
   margin : Nat, timeout : Nat]

ASSUME EnvAssumption == Setups \subseteq RedisEnvConfig

ASSUME PoolsAssumption ==
  /\ Pools \in Seq(STRING) /\ PoolOf \in [Conns -> DOMAIN Pools]
  /\ Reported \subseteq Nat
  /\ \A s \in Setups : s.margin \in Nat /\ s.timeout \in Nat

VARIABLES
  setup,    \* in Setups
  provider, \* SHARED_ENTRA_PROVIDER: "unset", "starting", "ready" or "failed"
  budget,   \* time left to the deadline of the initial fetch
  token,    \* the published snapshot
  mint,     \* whoever requests tokens: the initial fetch, then the refresh task
  pool,     \* per pool: [at, cap], cap is its max_lifetime
  conn,     \* per place: the connection in it
  outage,   \* the token endpoint does not serve usable tokens
  calm      \* time without an outage since the refresh task runs

vars == <<setup, provider, budget, token, mint, pool, conn, outage, calm>>

Least(a, b) == IF a < b THEN a ELSE b
Most(a, b) == IF a > b THEN a ELSE b
Less1(n) == IF n > 0 THEN n - 1 ELSE 0

-----------------------------------------------------------------------------
(* The arithmetic of margins. *)

UsableLifetime(l) == l >= MinLifetime

ShortestDelay(l) == Least(MinRefreshDelay, l \div 2)

MarginFits(l, m) == m <= l - ShortestDelay(l)

\* The margin without the floor: a quarter of a short life is too little.
RefreshMargin_nofloor(l, m) ==
  Least(IF m # NoMargin /\ MarginFits(l, m) THEN m ELSE l \div 4, l - ShortestDelay(l))
RefreshMargin(l, m) ==
  Least(Most(IF m # NoMargin /\ MarginFits(l, m) THEN m ELSE l \div 4, MinMargin),
        l - ShortestDelay(l))

\* A margin beyond the lifetime is honoured instead of replaced.
RefreshDelay_oversized(l, m) == IF m > l THEN 0 ELSE l - RefreshMargin(l, m)
RefreshDelay(l, m) == l - RefreshMargin(l, m)

MaxConnectionLifetime(l, m) ==
  Least(Most((RefreshMargin(l, m) * 3) \div 4, MinConnAge), Most(l \div 2, 1))

-----------------------------------------------------------------------------
(* The environment. *)

Oauth == setup.mode = "oauth"

\* entra_config_from_env refuses the settings of oauth mode.
EntraRefused(s) ==
  \/ ~s.complete
  \/ s.plaintext = "malformed" \/ (~s.tls /\ s.plaintext # "yes")
  \/ ~s.https
  \/ s.margin # NoMargin /\ s.margin < MinMargin

Refused(s) == s.mode = "other" \/ (s.mode = "oauth" /\ EntraRefused(s))

-----------------------------------------------------------------------------
NoToken == [life |-> 0, real |-> 0, due |-> 0, age |-> 0, behind |-> FALSE, cap |-> 1]
NoConn == [at |-> "none", life |-> 0, real |-> 0, age |-> 0, held |-> 0, current |-> FALSE]
Idle == [at |-> "idle", elapsed |-> 0, wait |-> 0, backoff |-> MinBackoff]

\* The refresh task runs; before that, mint is the initial fetch.
Running == mint.at \in {"sleep", "request", "pause"} /\ provider = "ready"

Recovery == MaxBackoff + RequestTimeout + 1

Tokens == [life : Nat, real : Nat, due : Nat, age : Nat, behind : BOOLEAN, cap : Nat]
Mints == [at : {"idle", "sleep", "request", "pause"}, elapsed : Nat, wait : Nat, backoff : Nat]
PoolStates ==
  [at : {"wait", "token", "build", "up", "down", "notoken", "halt"}, cap : Nat]
Connections ==
  [at : {"none", "opening", "idle", "out"}, life : Nat, real : Nat, age : Nat, held : Nat,
   current : BOOLEAN]

TypeOK ==
  /\ setup \in Setups /\ provider \in {"unset", "starting", "ready", "failed"}
  /\ budget \in Nat /\ token \in Tokens /\ mint \in Mints
  /\ pool \in [DOMAIN Pools -> PoolStates] /\ conn \in [Conns -> Connections]
  /\ outage \in BOOLEAN /\ calm \in 0..Recovery

Init ==
  /\ setup \in Setups /\ provider = "unset" /\ budget = 0
  /\ token = NoToken /\ mint = Idle
  /\ pool = [p \in DOMAIN Pools |-> [at |-> "wait", cap |-> 0]]
  /\ conn = [c \in Conns |-> NoConn]
  /\ outage \in BOOLEAN /\ calm = 0

-----------------------------------------------------------------------------
(* create_redis_pool_at: settings, token, pool, refresh task. *)

Done == {"up", "down", "notoken"}

\* main builds its pools one by one, and goes on without those that fail.
InTurn(p) == pool[p].at = "wait" /\ \A q \in 1..(p - 1) : pool[q].at \in Done

\* The first caller of shared_entra_provider runs the initial fetch.
StartPool(p) ==
  /\ InTurn(p)
  /\ ~Refused(setup) /\ Oauth /\ provider = "unset"
  /\ pool' = [pool EXCEPT ![p].at = "token"]
  /\ provider' = "starting" /\ budget' = setup.timeout
  /\ mint' = [Idle EXCEPT !.at = "request"]
  /\ UNCHANGED <<setup, token, conn, outage, calm>>

\* A later caller, or one in password mode, has its answer at once.  Refused
\* settings end the process.
StartPoolKnown(p) ==
  /\ InTurn(p)
  /\ \/ Refused(setup) /\ pool' = [pool EXCEPT ![p].at = "halt"]
     \/ ~Refused(setup) /\ ~Oauth /\ pool' = [pool EXCEPT ![p].at = "build"]
     \/ ~Refused(setup) /\ Oauth /\ provider = "failed"
        /\ pool' = [pool EXCEPT ![p].at = "notoken"]
     \/ ~Refused(setup) /\ Oauth /\ provider = "ready"
        /\ pool' = [pool EXCEPT ![p] = [at |-> "build", cap |-> token.cap]]
  /\ UNCHANGED <<setup, provider, budget, token, mint, conn, outage, calm>>

\* The pool is up, and the first pool to be up starts the refresh task.  Until
\* then nothing replaces the token: it may be due already, or dead, since a pool
\* with a min_idle of 0 opens no connection to be built.
Built(p) ==
  /\ pool[p].at = "build"
  /\ pool' = [pool EXCEPT ![p].at = "up"]
  /\ IF Oauth /\ ~Running
     THEN /\ mint' = [Idle EXCEPT !.at = "sleep"]
          /\ token' = [token EXCEPT !.behind = token.due = 0]
     ELSE UNCHANGED <<mint, token>>
  /\ UNCHANGED <<setup, provider, budget, conn, outage, calm>>

BuildFails(p) ==
  /\ pool[p].at = "build"
  /\ pool' = [pool EXCEPT ![p].at = "down"]
  /\ UNCHANGED <<setup, provider, budget, token, mint, conn, outage, calm>>

-----------------------------------------------------------------------------
(* Minting: the initial fetch (connect) and the refresh task (refresh_loop). *)

Wake ==
  /\ mint.at = "sleep" /\ token.due = 0
  /\ mint' = [Idle EXCEPT !.at = "request"]
  /\ UNCHANGED <<setup, provider, budget, token, pool, conn, outage, calm>>

Resume ==
  /\ mint.at = "pause" /\ mint.wait = 0
  /\ mint' = [mint EXCEPT !.at = "request", !.elapsed = 0]
  /\ UNCHANGED <<setup, provider, budget, token, pool, conn, outage, calm>>

\* refresh: the endpoint made the token lag units ago, the proxy counts its
\* life from now.  Connections opened before are of an older generation.
Published(l, lag) ==
  LET life == Least(l, MaxLifetime) IN
  /\ token' = [life |-> life, real |-> l - lag,
               due |-> RefreshDelay(life, setup.margin), age |-> 0, behind |-> FALSE,
               cap |-> MaxConnectionLifetime(life, setup.margin)]
  /\ conn' = [c \in Conns |-> [conn[c] EXCEPT !.current = FALSE]]

Mint(l, lag) ==
  /\ mint.at = "request" /\ ~outage
  /\ UsableLifetime(l) /\ lag <= mint.elapsed
  /\ Published(l, lag)
  /\ IF Running
     THEN mint' = [Idle EXCEPT !.at = "sleep"] /\ UNCHANGED <<provider, pool>>
     ELSE /\ mint' = Idle /\ provider' = "ready"
          /\ pool' = [p \in DOMAIN Pools |->
                        IF pool[p].at = "token"
                        THEN [at |-> "build", cap |-> token'.cap] ELSE pool[p]]
  /\ UNCHANGED <<setup, budget, outage, calm>>

\* A second failure waits for a whole lifetime.
NextBackoff_long(b) == MaxLifetime
NextBackoff(b) == Least(2 * b, MaxBackoff)

\* Transport error, time-out, refused redirect, status, malformed or blank
\* token, or a lifetime too short: the published token stays.
MintFails ==
  /\ mint.at = "request" /\ outage
  /\ IF ~Running /\ budget = 0
     THEN /\ mint' = Idle /\ provider' = "failed"
          /\ pool' = [p \in DOMAIN Pools |->
                        IF pool[p].at = "token"
                        THEN [pool[p] EXCEPT !.at = "notoken"] ELSE pool[p]]
     ELSE /\ mint' = [mint EXCEPT !.at = "pause",
                                  !.wait = IF Running THEN mint.backoff
                                           ELSE Least(mint.backoff, budget),
                                  !.backoff = NextBackoff(mint.backoff)]
          /\ UNCHANGED <<provider, pool>>
  /\ token' = [token EXCEPT !.behind = TRUE]
  /\ UNCHANGED <<setup, budget, conn, outage, calm>>

-----------------------------------------------------------------------------
(* Connections: the manager's connect, is_valid and has_broken, called by    *)
(* the pool.                                                                 *)

Open(c) ==
  /\ pool[PoolOf[c]].at = "up" /\ conn[c].at = "none"
  /\ conn' = [conn EXCEPT ![c] = [at |-> "opening", life |-> token.life,
                                  real |-> token.real, age |-> 0, held |-> 0,
                                  current |-> TRUE]]
  /\ UNCHANGED <<setup, provider, budget, token, mint, pool, outage, calm>>

\* Redis refuses a dead token.
Alive(c) == Oauth => conn[c].real > 0

Handshake(c) ==
  /\ conn[c].at = "opening"
  /\ \/ Alive(c) /\ conn' = [conn EXCEPT ![c].at = "idle"]
     \/ conn' = [conn EXCEPT ![c] = NoConn]
  /\ UNCHANGED <<setup, provider, budget, token, mint, pool, outage, calm>>

\* The guard looks at the published token instead of the connection's own.
IsExpiring_published(c) == Oauth /\ token.life <= HardMargin
IsExpiring(c) == Oauth /\ conn[c].life <= HardMargin

CheckOut(c) ==
  /\ conn[c].at = "idle"
  /\ \/ ~IsExpiring(c) /\ Alive(c) /\ conn' = [conn EXCEPT ![c].at = "out"]
     \/ conn' = [conn EXCEPT ![c] = NoConn]
  /\ UNCHANGED <<setup, provider, budget, token, mint, pool, outage, calm>>

ShouldRetire(c) == Oauth /\ ~conn[c].current

CheckIn(c) ==
  /\ conn[c].at = "out"
  /\ conn' = [conn EXCEPT ![c] = IF ShouldRetire(c) THEN NoConn
                                 ELSE [@ EXCEPT !.at = "idle", !.held = 0]]
  /\ UNCHANGED <<setup, provider, budget, token, mint, pool, outage, calm>>

\* The pool is built without a max_lifetime.
Reap_off(c) == FALSE /\ UNCHANGED vars
Reap(c) ==
  /\ conn[c].at = "idle" /\ Oauth /\ conn[c].age >= pool[PoolOf[c]].cap
  /\ conn' = [conn EXCEPT ![c] = NoConn]
  /\ UNCHANGED <<setup, provider, budget, token, mint, pool, outage, calm>>

-----------------------------------------------------------------------------
(* Time and the endpoint. *)

OutageStarts == ~outage /\ outage' = TRUE /\ calm' = 0
                /\ UNCHANGED <<setup, provider, budget, token, mint, pool, conn>>

OutageEnds == outage /\ outage' = FALSE
              /\ UNCHANGED <<setup, provider, budget, token, mint, pool, conn, calm>>

Tick ==
  /\ mint.at = "request" => mint.elapsed < RequestTimeout
  /\ mint.at = "pause" => mint.wait > 0
  /\ mint.at = "sleep" => token.due > 0
  /\ \A c \in Conns : conn[c].at = "out" => conn[c].held < Hold
  /\ budget' = Less1(budget)
  /\ token' = [token EXCEPT !.life = Less1(@), !.real = Less1(@), !.due = Less1(@),
                            !.age = Least(@ + 1, MinRefreshDelay)]
  /\ mint' = [mint EXCEPT !.elapsed = IF mint.at = "request" THEN @ + 1 ELSE @,
                          !.wait = Less1(@)]
  /\ conn' = [c \in Conns |->
                IF conn[c].at = "none" THEN conn[c]
                ELSE [conn[c] EXCEPT !.life = Less1(@), !.real = Less1(@),
                                     !.age = Least(@ + 1, pool[PoolOf[c]].cap),
                                     !.held = IF conn[c].at = "out" THEN @ + 1 ELSE @]]
  /\ calm' = IF outage \/ ~Running THEN 0 ELSE Least(calm + 1, Recovery)
  /\ UNCHANGED <<setup, provider, pool, outage>>

Answer == MintFails \/ \E l \in Reported, lag \in 0..RequestTimeout : Mint(l, lag)

Next ==
  \/ \E p \in DOMAIN Pools : StartPool(p) \/ StartPoolKnown(p) \/ Built(p) \/ BuildFails(p)
  \/ Wake \/ Resume \/ Answer
  \/ \E c \in Conns : Open(c) \/ Handshake(c) \/ CheckOut(c) \/ CheckIn(c) \/ Reap(c)
  \/ OutageStarts \/ OutageEnds \/ Tick

Spec == Init /\ [][Next]_vars

\* Time passes, timers fire, and a request, a handshake, a command and the
\* reaper of the pool come to their end.
Fairness ==
  /\ WF_vars(Tick) /\ WF_vars(Wake) /\ WF_vars(Resume) /\ WF_vars(Answer)
  /\ \A c \in Conns : WF_vars(Handshake(c)) /\ WF_vars(CheckIn(c)) /\ WF_vars(Reap(c))

FairSpec == Spec /\ Fairness

-----------------------------------------------------------------------------
(* Redis accepts the token of a connection for as long as a command holds    *)
(* it: what is_valid leaves at checkout outlasts the command, although the   *)
(* proxy counts a token's life from the answer and not from its making, and  *)
(* although the refresh may have failed for long.                            *)
HeldTokenAlive == \A c \in Conns : conn[c].at = "out" => Alive(c)

(* While refreshes succeed, the published token is never within the margin   *)
(* in which checkouts are refused, whatever lifetime the endpoint reports    *)
(* and whatever refresh margin is configured (refresh_margin, the floor      *)
(* MIN_REFRESH_MARGIN): the end of a token's life is not an outage.          *)
RefreshBeforeGuard == Running /\ ~token.behind => token.life > HardMargin

(* Once the endpoint has answered for the longest backoff and one request,   *)
(* the published token is good again, however long the outage was            *)
(* (refresh_loop never gives up).                                            *)
PromptRecovery == calm = Recovery => token.life > HardMargin

(* The refresh task never mints two tokens within MIN_REFRESH_DELAY, not     *)
(* even for a margin that exceeds the lifetime: it is no hot loop, and the   *)
(* pool is not rebuilt at that pace.                                         *)
MintSpacing ==
  [][Running /\ mint.at = "request" /\ mint'.at = "sleep" => token.age >= MinRefreshDelay]_vars

(* A connection opened with a superseded token does not stay: check-in or    *)
(* the reaper drops it, in use or idle.                                      *)
StaleRetired ==
  \A c \in Conns : Oauth /\ conn[c].at # "none" /\ ~conn[c].current ~> conn[c].at = "none"
=============================================================================
