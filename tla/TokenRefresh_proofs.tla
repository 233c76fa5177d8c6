------------------------ MODULE TokenRefresh_proofs ------------------------
(***************************************************************************)
(* For every set of margins, delays and lifetimes that satisfies           *)
(* TimesAssumption: no command runs on a connection whose token is dead,   *)
(* refreshes that succeed keep the published token clear of the checkout   *)
(* guard, it is good again soon after an outage, and tokens are not minted *)
(* in a hot loop.                                                          *)
(***************************************************************************)
EXTENDS TokenRefresh, TLAPS

(* The delay before a refresh is never below the floor, and what is left of  *)
(* the token when it is over is at least the smallest margin.                *)
LEMMA Margins ==
  ASSUME NEW l \in Nat, l >= MinLifetime, NEW m \in Nat
  PROVE  /\ RefreshMargin(l, m) \in Nat /\ RefreshMargin(l, m) >= MinMargin
         /\ RefreshDelay(l, m) \in Nat /\ RefreshDelay(l, m) >= MinRefreshDelay
         /\ l = RefreshDelay(l, m) + RefreshMargin(l, m)
         /\ MaxConnectionLifetime(l, m) \in Nat
<1>1. /\ MinRefreshDelay \in Nat /\ MinMargin \in Nat /\ MinLifetime \in Nat /\ MinConnAge \in Nat
      /\ MinRefreshDelay + MinMargin <= MinLifetime /\ 2 * MinRefreshDelay <= MinLifetime
  BY TimesAssumption
<1>2. /\ l \div 2 \in Nat /\ l \div 2 >= MinRefreshDelay /\ l \div 4 \in Nat
  BY <1>1
<1>3. ShortestDelay(l) = MinRefreshDelay
  BY <1>1, <1>2 DEF ShortestDelay, Least
<1>4. /\ RefreshMargin(l, m) \in Nat /\ RefreshMargin(l, m) >= MinMargin
      /\ RefreshMargin(l, m) <= l - MinRefreshDelay
  BY <1>1, <1>2, <1>3 DEF RefreshMargin, Least, Most
<1>5. /\ RefreshDelay(l, m) \in Nat /\ RefreshDelay(l, m) >= MinRefreshDelay
      /\ l = RefreshDelay(l, m) + RefreshMargin(l, m)
  BY <1>1, <1>4 DEF RefreshDelay
<1>6. (RefreshMargin(l, m) * 3) \div 4 \in Nat
  BY <1>4
<1>7. MaxConnectionLifetime(l, m) \in Nat
  BY <1>1, <1>2, <1>6 DEF MaxConnectionLifetime, Least, Most
<1>. QED  BY <1>4, <1>5, <1>7

(* Constants and settings as numbers. *)
LEMMA Numbers ==
  /\ MinRefreshDelay \in Nat /\ MinBackoff \in Nat /\ MaxBackoff \in Nat
  /\ MinLifetime \in Nat /\ MaxLifetime \in Nat /\ MinMargin \in Nat /\ HardMargin \in Nat
  /\ RequestTimeout \in Nat /\ Hold \in Nat /\ Recovery \in Nat
  /\ MinRefreshDelay > 0 /\ MinBackoff <= MaxBackoff /\ MinLifetime <= MaxLifetime
  /\ HardMargin + RequestTimeout < MinMargin /\ RequestTimeout + Hold <= HardMargin
BY TimesAssumption DEF Recovery

LEMMA LessNat == ASSUME NEW n \in Nat PROVE Less1(n) \in Nat
BY DEF Less1

LEMMA LeastNat == ASSUME NEW a \in Nat, NEW b \in Nat PROVE Least(a, b) \in Nat
BY DEF Least

-----------------------------------------------------------------------------
(* Type correctness. *)

LEMMA PublishedTyped ==
  ASSUME TypeOK, NEW l \in Reported, NEW lag \in 0..RequestTimeout,
         UsableLifetime(l), Published(l, lag)
  PROVE  /\ token' \in Tokens
         /\ token'.life = Least(l, MaxLifetime) /\ token'.real = l - lag
         /\ token'.due = RefreshDelay(token'.life, setup.margin)
         /\ token'.age = 0 /\ token'.behind = FALSE
         /\ token'.life \in Nat /\ token'.life >= MinLifetime
         /\ setup.margin \in Nat
         /\ conn' \in [Conns -> Connections]
<1>1. setup.margin \in Nat /\ l \in Nat /\ lag \in Nat /\ lag <= RequestTimeout
  BY PoolsAssumption, Numbers DEF TypeOK
<1>2. RequestTimeout <= MinLifetime
  BY TimesAssumption
<1>3. Least(l, MaxLifetime) \in Nat /\ Least(l, MaxLifetime) >= MinLifetime /\ l - lag \in Nat
  BY <1>1, <1>2, Numbers DEF Least, UsableLifetime
<1>4. /\ RefreshDelay(Least(l, MaxLifetime), setup.margin) \in Nat
      /\ MaxConnectionLifetime(Least(l, MaxLifetime), setup.margin) \in Nat
  BY <1>1, <1>3, Margins
<1>5. conn' \in [Conns -> Connections]
  BY DEF Published, TypeOK, Connections
<1>. QED  BY <1>1, <1>3, <1>4, <1>5 DEF Published, Tokens

LEMMA TickTyped == ASSUME TypeOK, Tick PROVE TypeOK'
<1>1. budget' \in Nat
  BY LessNat DEF Tick, TypeOK
<1>2. token' \in Tokens
  <2>1. /\ Less1(token.life) \in Nat /\ Less1(token.real) \in Nat /\ Less1(token.due) \in Nat
        /\ Least(token.age + 1, MinRefreshDelay) \in Nat
    <3>1. token.life \in Nat /\ token.real \in Nat /\ token.due \in Nat /\ token.age \in Nat
      BY DEF TypeOK, Tokens
    <3>. QED  BY <3>1, Numbers DEF Less1, Least
  <2>. QED  BY <2>1 DEF Tick, TypeOK, Tokens
<1>3. mint' \in Mints
  <2>1. /\ Less1(mint.wait) \in Nat
        /\ (IF mint.at = "request" THEN mint.elapsed + 1 ELSE mint.elapsed) \in Nat
    BY LessNat DEF TypeOK, Mints
  <2>. QED  BY <2>1 DEF Tick, TypeOK, Mints
<1>4. conn' \in [Conns -> Connections]
  <2>. SUFFICES ASSUME NEW c \in Conns PROVE conn'[c] \in Connections
    BY DEF Tick
  <2>1. pool[PoolOf[c]].cap \in Nat /\ conn[c] \in Connections
    BY PoolsAssumption DEF TypeOK, PoolStates
  <2>2. /\ Less1(conn[c].life) \in Nat /\ Less1(conn[c].real) \in Nat
        /\ Least(conn[c].age + 1, pool[PoolOf[c]].cap) \in Nat
        /\ (IF conn[c].at = "out" THEN conn[c].held + 1 ELSE conn[c].held) \in Nat
    <3>1. /\ conn[c].life \in Nat /\ conn[c].real \in Nat
          /\ conn[c].age \in Nat /\ conn[c].held \in Nat
      BY <2>1 DEF Connections
    <3>. QED  BY <2>1, <3>1 DEF Less1, Least
  <2>. QED  BY <2>1, <2>2 DEF Tick, Connections
<1>5. calm' \in 0..Recovery
  <2>1. calm \in Nat
    BY Numbers DEF TypeOK
  <2>2. Least(calm + 1, Recovery) \in 0..Recovery /\ 0 \in 0..Recovery
    BY <2>1, Numbers DEF Least
  <2>. QED  BY <2>2, Zenon DEF Tick
<1>. QED  BY <1>1, <1>2, <1>3, <1>4, <1>5 DEF Tick, TypeOK

LEMMA IdleTyped == /\ Idle \in Mints /\ [Idle EXCEPT !.at = "request"] \in Mints
                   /\ [Idle EXCEPT !.at = "sleep"] \in Mints
BY Numbers DEF Idle, Mints

LEMMA PoolTyped ==
  ASSUME TypeOK, NEW p \in DOMAIN Pools,
         StartPool(p) \/ StartPoolKnown(p) \/ Built(p) \/ BuildFails(p)
  PROVE  TypeOK'
<1>1. CASE StartPool(p)
  <2>1. budget' \in Nat
    BY <1>1, PoolsAssumption DEF StartPool, TypeOK
  <2>2. pool' \in [DOMAIN Pools -> PoolStates]
    BY <1>1 DEF StartPool, TypeOK, PoolStates
  <2>. QED  BY <1>1, <2>1, <2>2, IdleTyped DEF StartPool, TypeOK
<1>2. CASE StartPoolKnown(p)
  <2>1. token.cap \in Nat
    BY DEF TypeOK, Tokens
  <2>2. pool' \in [DOMAIN Pools -> PoolStates]
    BY <1>2, <2>1 DEF StartPoolKnown, TypeOK, PoolStates
  <2>. QED  BY <1>2, <2>2 DEF StartPoolKnown, TypeOK
<1>3. CASE Built(p)
  <2>1. pool' \in [DOMAIN Pools -> PoolStates]
    BY <1>3 DEF Built, TypeOK, PoolStates
  <2>2. token' \in Tokens
    BY <1>3 DEF Built, TypeOK, Tokens
  <2>. QED  BY <1>3, <2>1, <2>2, IdleTyped DEF Built, TypeOK
<1>4. CASE BuildFails(p)
  <2>1. pool' \in [DOMAIN Pools -> PoolStates]
    BY <1>4 DEF BuildFails, TypeOK, PoolStates
  <2>. QED  BY <1>4, <2>1 DEF BuildFails, TypeOK
<1>. QED  BY <1>1, <1>2, <1>3, <1>4

LEMMA MintTyped == ASSUME TypeOK, Wake \/ Resume \/ Answer PROVE TypeOK'
<1>1. CASE Wake
  BY <1>1, IdleTyped DEF Wake, TypeOK
<1>2. CASE Resume
  <2>1. mint' \in Mints
    BY <1>2 DEF Resume, TypeOK, Mints
  <2>. QED  BY <1>2, <2>1 DEF Resume, TypeOK
<1>3. CASE MintFails
  <2>1. token' \in Tokens
    BY <1>3 DEF MintFails, TypeOK, Tokens
  <2>2. Least(mint.backoff, budget) \in Nat /\ NextBackoff(mint.backoff) \in Nat
    <3>1. mint.backoff \in Nat /\ budget \in Nat
      BY DEF TypeOK, Mints
    <3>. QED  BY <3>1, Numbers DEF NextBackoff, Least
  <2>3. mint' \in Mints
    BY <1>3, <2>2, IdleTyped DEF MintFails, TypeOK, Mints
  <2>4. pool' \in [DOMAIN Pools -> PoolStates] /\ provider' \in {"ready", "starting", "failed", "unset"}
    BY <1>3 DEF MintFails, TypeOK, PoolStates
  <2>. QED  BY <1>3, <2>1, <2>3, <2>4 DEF MintFails, TypeOK
<1>4. ASSUME NEW l \in Reported, NEW lag \in 0..RequestTimeout, Mint(l, lag)
      PROVE  TypeOK'
  <2>1. UsableLifetime(l) /\ Published(l, lag)
    BY <1>4 DEF Mint
  <2>2. token' \in Tokens /\ conn' \in [Conns -> Connections]
    BY <2>1, PublishedTyped
  <2>3. token'.cap \in Nat
    BY <2>2 DEF Tokens
  <2>4. pool' \in [DOMAIN Pools -> PoolStates] /\ provider' \in {"ready", "starting", "failed", "unset"}
    BY <1>4, <2>3 DEF Mint, TypeOK, PoolStates
  <2>5. mint' \in Mints
    BY <1>4, IdleTyped DEF Mint
  <2>. QED  BY <1>4, <2>2, <2>4, <2>5 DEF Mint, TypeOK
<1>. QED  BY <1>1, <1>2, <1>3, <1>4 DEF Answer

LEMMA ConnTyped ==
  ASSUME TypeOK, NEW c \in Conns,
         Open(c) \/ Handshake(c) \/ CheckOut(c) \/ CheckIn(c) \/ Reap(c)
  PROVE  TypeOK'
<1>1. NoConn \in Connections /\ conn[c] \in Connections
  BY DEF NoConn, Connections, TypeOK
<1>2. [conn[c] EXCEPT !.at = "idle", !.held = 0] \in Connections
  BY <1>1 DEF Connections
<1>3. token.life \in Nat /\ token.real \in Nat
  BY DEF TypeOK, Tokens
<1>4. CASE Open(c)
  BY <1>3, <1>4 DEF Open, TypeOK, Connections
<1>5. CASE Handshake(c)
  <2>1. [conn[c] EXCEPT !.at = "idle"] \in Connections
    BY <1>1 DEF Connections
  <2>. QED  BY <1>1, <1>5, <2>1 DEF Handshake, TypeOK
<1>6. CASE CheckOut(c)
  <2>1. [conn[c] EXCEPT !.at = "out"] \in Connections
    BY <1>1 DEF Connections
  <2>. QED  BY <1>1, <1>6, <2>1 DEF CheckOut, TypeOK
<1>7. CASE CheckIn(c)
  BY <1>1, <1>2, <1>7 DEF CheckIn, TypeOK
<1>8. CASE Reap(c)
  BY <1>1, <1>8 DEF Reap, TypeOK
<1>. QED  BY <1>4, <1>5, <1>6, <1>7, <1>8

LEMMA InitTyped == Init => TypeOK
<1>1. NoToken \in Tokens /\ NoConn \in Connections /\ [at |-> "wait", cap |-> 0] \in PoolStates
  BY DEF NoToken, NoConn, Tokens, Connections, PoolStates
<1>. QED  BY <1>1, IdleTyped, Numbers DEF Init, TypeOK

LEMMA NextTyped == ASSUME TypeOK, [Next]_vars PROVE TypeOK'
<1>1. CASE UNCHANGED vars
  BY <1>1 DEF TypeOK, vars
<1>2. CASE OutageStarts \/ OutageEnds
  <2>1. calm' \in 0..Recovery
    <3>1. calm' = 0 \/ calm' = calm
      BY <1>2 DEF OutageStarts, OutageEnds
    <3>. QED  BY <3>1, Numbers DEF TypeOK
  <2>. QED  BY <1>2, <2>1 DEF TypeOK, OutageStarts, OutageEnds
<1>. QED  BY <1>1, <1>2, TickTyped, PoolTyped, MintTyped, ConnTyped DEF Next

(* Every variable keeps its type, the published snapshot included.           *)
THEOREM TypeCorrect == Spec => []TypeOK
BY InitTyped, NextTyped, PTL DEF Spec

-----------------------------------------------------------------------------
(* The connections. *)

(* What the proxy believes of a token exceeds the truth by one request at    *)
(* most, and what a connection in use had left at checkout was more than     *)
(* the hard margin.                                                          *)
ConnInv ==
  /\ token.life <= token.real + RequestTimeout
  /\ \A c \in Conns :
       /\ conn[c].life <= conn[c].real + RequestTimeout
       /\ conn[c].at # "out" => conn[c].held = 0
       /\ conn[c].held <= Hold
       /\ conn[c].at = "out" /\ Oauth => conn[c].life + conn[c].held > HardMargin

LEMMA ConnInvTick == ASSUME TypeOK, ConnInv, Tick PROVE ConnInv'
<1>1. token'.life <= token'.real + RequestTimeout
  <2>1. token.life \in Nat /\ token.real \in Nat
    BY DEF TypeOK, Tokens
  <2>2. token'.life = Less1(token.life) /\ token'.real = Less1(token.real)
    BY DEF Tick, TypeOK, Tokens
  <2>. QED  BY <2>1, <2>2, Numbers DEF ConnInv, Less1
<1>2. ASSUME NEW c \in Conns
      PROVE  /\ conn'[c].life <= conn'[c].real + RequestTimeout
             /\ conn'[c].at # "out" => conn'[c].held = 0
             /\ conn'[c].held <= Hold
             /\ conn'[c].at = "out" /\ Oauth' => conn'[c].life + conn'[c].held > HardMargin
  <2>1. /\ conn[c].life \in Nat /\ conn[c].real \in Nat /\ conn[c].held \in Nat
        /\ conn[c] \in Connections
    BY DEF TypeOK, Connections
  <2>2. CASE conn[c].at = "none"
    BY <2>1, <2>2 DEF Tick, ConnInv, Oauth
  <2>3. CASE conn[c].at # "none"
    <3>1. /\ conn'[c].at = conn[c].at
          /\ conn'[c].life = Less1(conn[c].life) /\ conn'[c].real = Less1(conn[c].real)
          /\ conn'[c].held = IF conn[c].at = "out" THEN conn[c].held + 1 ELSE conn[c].held
      BY <2>1, <2>3 DEF Tick, Connections
    <3>2. conn[c].at = "out" => conn[c].held < Hold
      BY DEF Tick
    <3>3. Oauth' <=> Oauth
      BY DEF Tick, Oauth
    <3>. QED  BY <2>1, <3>1, <3>2, <3>3, Numbers DEF ConnInv, Less1
  <2>. QED  BY <2>2, <2>3
<1>. QED  BY <1>1, <1>2 DEF ConnInv

LEMMA ConnInvConn ==
  ASSUME TypeOK, ConnInv, NEW c \in Conns,
         Open(c) \/ Handshake(c) \/ CheckOut(c) \/ CheckIn(c) \/ Reap(c)
  PROVE  ConnInv'
<1>1. token' = token /\ (Oauth' <=> Oauth)
  BY DEF Open, Handshake, CheckOut, CheckIn, Reap, Oauth
<1>2. /\ conn[c].life \in Nat /\ conn[c].real \in Nat /\ conn[c].held \in Nat
      /\ conn[c] \in Connections /\ token.life \in Nat /\ token.real \in Nat
  BY DEF TypeOK, Connections, Tokens
<1>3. /\ conn'[c].life <= conn'[c].real + RequestTimeout
      /\ conn'[c].at # "out" => conn'[c].held = 0
      /\ conn'[c].held <= Hold
      /\ conn'[c].at = "out" /\ Oauth => conn'[c].life + conn'[c].held > HardMargin
  <2>1. CASE Open(c)
    BY <1>2, <2>1, Numbers DEF Open, ConnInv, TypeOK
  <2>2. CASE conn'[c] = NoConn
    BY <2>2, Numbers DEF NoConn
  <2>3. CASE Handshake(c) /\ conn' = [conn EXCEPT ![c].at = "idle"]
    BY <1>2, <2>3 DEF Handshake, ConnInv, TypeOK, Connections
  <2>4. CASE CheckOut(c) /\ ~IsExpiring(c) /\ conn' = [conn EXCEPT ![c].at = "out"]
    <3>1. /\ conn'[c].at = "out" /\ conn'[c].life = conn[c].life
          /\ conn'[c].real = conn[c].real /\ conn'[c].held = conn[c].held
      BY <1>2, <2>4 DEF TypeOK, Connections
    <3>2. conn[c].held = 0 /\ (Oauth => conn[c].life > HardMargin)
      BY <1>2, <2>4, Numbers DEF CheckOut, ConnInv, IsExpiring
    <3>. QED  BY <1>2, <3>1, <3>2, Numbers DEF ConnInv
  <2>5. CASE CheckIn(c) /\ conn' = [conn EXCEPT ![c] = [@ EXCEPT !.at = "idle", !.held = 0]]
    BY <1>2, <2>5, Numbers DEF ConnInv, TypeOK, Connections
  <2>6. \/ conn'[c] = NoConn \/ Open(c)
        \/ Handshake(c) /\ conn' = [conn EXCEPT ![c].at = "idle"]
        \/ CheckOut(c) /\ ~IsExpiring(c) /\ conn' = [conn EXCEPT ![c].at = "out"]
        \/ CheckIn(c) /\ conn' = [conn EXCEPT ![c] = [@ EXCEPT !.at = "idle", !.held = 0]]
    BY DEF Handshake, CheckOut, CheckIn, Reap, TypeOK
  <2>. QED  BY <2>1, <2>2, <2>3, <2>4, <2>5, <2>6
<1>4. \A d \in Conns \ {c} : conn'[d] = conn[d]
  BY DEF Open, Handshake, CheckOut, CheckIn, Reap, TypeOK
<1>. QED  BY <1>1, <1>3, <1>4 DEF ConnInv

LEMMA ConnInvMint ==
  ASSUME TypeOK, ConnInv, NEW l \in Reported, NEW lag \in 0..RequestTimeout, Mint(l, lag)
  PROVE  ConnInv'
<1>1. token'.life = Least(l, MaxLifetime) /\ token'.real = l - lag
  BY PublishedTyped DEF Mint
<1>2. l \in Nat /\ lag \in Nat /\ lag <= RequestTimeout
  BY PoolsAssumption, Numbers
<1>3. token'.life <= token'.real + RequestTimeout
  BY <1>1, <1>2, Numbers DEF Least
<1>4. ASSUME NEW c \in Conns
      PROVE  /\ conn'[c].at = conn[c].at /\ conn'[c].life = conn[c].life
             /\ conn'[c].real = conn[c].real /\ conn'[c].held = conn[c].held
  <2>1. conn[c] \in Connections
    BY DEF TypeOK
  <2>2. conn'[c] = [conn[c] EXCEPT !.current = FALSE]
    BY DEF Mint, Published
  <2>. QED  BY <2>1, <2>2 DEF Connections
<1>5. Oauth' <=> Oauth
  BY DEF Mint, Oauth
<1>. QED  BY <1>3, <1>4, <1>5 DEF ConnInv

LEMMA ConnInvNext == ASSUME TypeOK, ConnInv, [Next]_vars PROVE ConnInv'
<1>1. CASE UNCHANGED <<token, conn, setup>>
  BY <1>1 DEF ConnInv, Oauth
<1>2. CASE \E p \in DOMAIN Pools : Built(p)
  <2>1. conn' = conn /\ setup' = setup /\ token'.life = token.life /\ token'.real = token.real
    BY <1>2 DEF Built, TypeOK, Tokens
  <2>. QED  BY <2>1 DEF ConnInv, Oauth
<1>3. CASE MintFails
  <2>1. conn' = conn /\ setup' = setup /\ token'.life = token.life /\ token'.real = token.real
    BY <1>3 DEF MintFails, TypeOK, Tokens
  <2>. QED  BY <2>1 DEF ConnInv, Oauth
<1>4. CASE UNCHANGED vars
  BY <1>1, <1>4 DEF vars
<1>5. CASE Wake \/ Resume \/ OutageStarts \/ OutageEnds
  BY <1>1, <1>5 DEF Wake, Resume, OutageStarts, OutageEnds
<1>6. CASE \E p \in DOMAIN Pools : StartPool(p) \/ StartPoolKnown(p) \/ BuildFails(p)
  BY <1>1, <1>6 DEF StartPool, StartPoolKnown, BuildFails
<1>. QED  BY <1>2, <1>3, <1>4, <1>5, <1>6, ConnInvTick, ConnInvConn, ConnInvMint DEF Next, Answer

(* No command runs on a connection whose token Redis has expired             *)
(* (is_valid, TOKEN_HARD_EXPIRY_MARGIN): for any lifetimes, outages and      *)
(* schedules of the refresh task.                                            *)
THEOREM HeldAlive == Spec => []HeldTokenAlive
<1>1. Init => ConnInv
  BY Numbers DEF Init, ConnInv, NoToken, NoConn, Oauth
<1>2. TypeOK /\ ConnInv => HeldTokenAlive
  <2>. SUFFICES ASSUME TypeOK, ConnInv, NEW c \in Conns, conn[c].at = "out", Oauth
                PROVE  conn[c].real > 0
    BY DEF HeldTokenAlive, Alive
  <2>1. conn[c].life \in Nat /\ conn[c].real \in Nat /\ conn[c].held \in Nat
    BY DEF TypeOK, Connections
  <2>. QED  BY <2>1, Numbers DEF ConnInv
<1>. QED  BY <1>1, <1>2, TypeCorrect, ConnInvNext, PTL DEF Spec

-----------------------------------------------------------------------------
(* The refresh task. *)

(* Between a refresh and the next the token keeps one margin more than the   *)
(* time left to wait; a request takes from the margin no more than it lasts. *)
(* A token that is behind is being replaced, and the time of calm is bounded *)
(* by what is left of the backoff and the request.                           *)
MintInv ==
  /\ mint.elapsed <= RequestTimeout /\ mint.backoff <= MaxBackoff /\ mint.wait <= MaxBackoff
  /\ outage \/ ~Running => calm = 0
  /\ provider = "ready" => /\ token.due + token.age >= MinRefreshDelay
                           /\ token.due > 0 => token.life >= token.due + MinMargin
  /\ Running /\ mint.at = "sleep" =>
       /\ token.behind => token.due = 0 /\ calm = 0
       /\ ~token.behind => token.life >= token.due + MinMargin
  /\ Running /\ mint.at = "request" =>
       /\ token.due = 0
       /\ token.behind => calm <= MaxBackoff + mint.elapsed
       /\ ~token.behind => token.life + mint.elapsed >= MinMargin
  /\ Running /\ mint.at = "pause" =>
       token.due = 0 /\ token.behind /\ calm + mint.wait <= MaxBackoff

(* The fields as numbers. *)
LEMMA Fields ==
  ASSUME TypeOK
  PROVE  /\ token.life \in Nat /\ token.due \in Nat /\ token.age \in Nat
         /\ token.behind \in BOOLEAN
         /\ mint.at \in {"idle", "sleep", "request", "pause"}
         /\ mint.elapsed \in Nat /\ mint.wait \in Nat /\ mint.backoff \in Nat
         /\ calm \in Nat /\ budget \in Nat
BY Numbers DEF TypeOK, Tokens, Mints

LEMMA MintInvTick == ASSUME TypeOK, MintInv, Tick PROVE MintInv'
<1>1. /\ token'.life = Less1(token.life) /\ token'.due = Less1(token.due)
      /\ token'.age = Least(token.age + 1, MinRefreshDelay)
      /\ token'.behind = token.behind
  BY DEF Tick, TypeOK, Tokens
<1>2. /\ mint'.at = mint.at /\ mint'.wait = Less1(mint.wait)
      /\ mint'.elapsed = (IF mint.at = "request" THEN mint.elapsed + 1 ELSE mint.elapsed)
      /\ mint'.backoff = mint.backoff
  BY DEF Tick, TypeOK, Mints
<1>3. /\ mint.at = "request" => mint.elapsed < RequestTimeout
      /\ mint.at = "pause" => mint.wait > 0
      /\ mint.at = "sleep" => token.due > 0
      /\ provider' = provider /\ (outage' <=> outage)
  BY DEF Tick
<1>4. Running' <=> Running
  BY <1>2, <1>3 DEF Running
<1>5. /\ outage \/ ~Running => calm' = 0
      /\ calm' <= calm + 1 /\ calm' \in Nat
  <2>1. calm' = 0 \/ (~outage /\ Running /\ calm' = Least(calm + 1, Recovery))
    BY DEF Tick
  <2>. QED  BY <2>1, Fields, Numbers DEF Least
<1>6. mint'.elapsed <= RequestTimeout /\ mint'.backoff <= MaxBackoff /\ mint'.wait <= MaxBackoff
  BY <1>2, <1>3, Fields, Numbers DEF MintInv, Less1
<1>7. provider = "ready" => /\ token'.due + token'.age >= MinRefreshDelay
                            /\ token'.due > 0 => token'.life >= token'.due + MinMargin
  BY <1>1, Fields, Numbers DEF MintInv, Less1, Least
<1>8. ASSUME Running, mint.at = "sleep"
      PROVE  /\ ~token.behind
             /\ token'.life >= token'.due + MinMargin
  BY <1>1, <1>3, <1>8, Fields, Numbers DEF MintInv, Less1
<1>9. ASSUME Running, mint.at = "request"
      PROVE  /\ token'.due = 0
             /\ token.behind => calm' <= MaxBackoff + mint'.elapsed
             /\ ~token.behind => token'.life + mint'.elapsed >= MinMargin
  BY <1>1, <1>2, <1>3, <1>5, <1>9, Fields, Numbers DEF MintInv, Less1
<1>10. ASSUME Running, mint.at = "pause"
       PROVE  token'.due = 0 /\ token.behind /\ calm' + mint'.wait <= MaxBackoff
  <2>1. token.due = 0 /\ token.behind /\ calm + mint.wait <= MaxBackoff
    BY <1>10 DEF MintInv
  <2>2. token'.due = 0
    BY <1>1, <2>1 DEF Less1
  <2>3. mint'.wait = mint.wait - 1
    BY <1>2, <1>3, <1>10, Fields DEF Less1
  <2>4. calm' + mint'.wait <= MaxBackoff
    <3>1. calm + mint.wait <= MaxBackoff
      BY <2>1
    <3>2. calm' <= calm + 1 /\ calm' \in Nat
      BY <1>5
    <3>3. calm \in Nat /\ mint.wait \in Nat /\ MaxBackoff \in Nat
      BY Fields, Numbers
    <3>. QED  BY <2>3, <3>1, <3>2, <3>3
  <2>. QED  BY <2>1, <2>2, <2>4
<1>. QED  BY <1>1, <1>2, <1>3, <1>4, <1>5, <1>6, <1>7, <1>8, <1>9, <1>10 DEF MintInv

LEMMA MintInvMint ==
  ASSUME TypeOK, MintInv, NEW l \in Reported, NEW lag \in 0..RequestTimeout, Mint(l, lag)
  PROVE  MintInv'
<1>1. /\ token'.life \in Nat /\ token'.life >= MinLifetime /\ setup.margin \in Nat
      /\ token'.due = RefreshDelay(token'.life, setup.margin)
      /\ token'.age = 0 /\ token'.behind = FALSE
  BY PublishedTyped DEF Mint
<1>2. /\ token'.due \in Nat /\ token'.due >= MinRefreshDelay
      /\ token'.life >= token'.due + MinMargin
  BY <1>1, Margins, Numbers
<1>3. /\ mint'.elapsed = 0 /\ mint'.wait = 0 /\ mint'.backoff = MinBackoff
      /\ mint'.at \in {"idle", "sleep"}
  BY DEF Mint, Idle
<1>4. Running' <=> Running
  BY DEF Mint, Running, Idle
<1>5. (outage' <=> outage) /\ calm' = calm
  BY DEF Mint
<1>6. mint'.at = "sleep" => Running
  BY DEF Mint, Idle
<1>7. outage' \/ ~Running' => calm' = 0
  BY <1>4, <1>5 DEF MintInv
<1>. QED  BY <1>1, <1>2, <1>3, <1>6, <1>7, Numbers DEF MintInv

LEMMA MintInvFails == ASSUME TypeOK, MintInv, MintFails PROVE MintInv'
<1>1. /\ token'.life = token.life /\ token'.due = token.due /\ token'.age = token.age
      /\ token'.behind = TRUE
  BY DEF MintFails, TypeOK, Tokens
<1>2. calm = 0 /\ calm' = calm /\ mint.at = "request"
  BY DEF MintFails, MintInv
<1>3. Running' <=> Running
  BY <1>2, Fields DEF MintFails, Running, Idle, TypeOK, Mints
<1>4. CASE ~Running /\ budget = 0
  <2>1. mint' = Idle /\ provider' = "failed"
    BY <1>4 DEF MintFails
  <2>. QED  BY <1>2, <1>3, <1>4, <2>1, Numbers DEF MintInv, Idle
<1>5. CASE ~(~Running /\ budget = 0)
  <2>1. /\ mint'.at = "pause" /\ mint'.elapsed = mint.elapsed /\ provider' = provider
        /\ mint'.wait = (IF Running THEN mint.backoff ELSE Least(mint.backoff, budget))
        /\ mint'.backoff = NextBackoff(mint.backoff)
    BY <1>5 DEF MintFails, TypeOK, Mints
  <2>2. mint'.wait <= MaxBackoff /\ mint'.backoff <= MaxBackoff /\ mint'.wait \in Nat
    BY <2>1, Fields, Numbers DEF MintInv, NextBackoff, Least
  <2>. QED  BY <1>1, <1>2, <1>3, <2>1, <2>2, Fields, Numbers DEF MintInv
<1>. QED  BY <1>4, <1>5

LEMMA MintInvBuilt == ASSUME TypeOK, MintInv, NEW p \in DOMAIN Pools, Built(p) PROVE MintInv'
<1>1. CASE Oauth /\ ~Running
  <2>1. /\ token'.life = token.life /\ token'.due = token.due /\ token'.age = token.age
        /\ token'.behind = (token.due = 0)
    BY <1>1 DEF Built, TypeOK, Tokens
  <2>2. /\ mint'.at = "sleep" /\ mint'.elapsed = 0 /\ mint'.wait = 0
        /\ mint'.backoff = MinBackoff
    BY <1>1 DEF Built, Idle
  <2>3. provider' = provider /\ calm' = calm /\ calm = 0
    BY <1>1 DEF Built, MintInv
  <2>4. Running' => provider = "ready"
    BY <2>3 DEF Running
  <2>5. ASSUME ~token'.behind, provider = "ready" PROVE token'.life >= token'.due + MinMargin
    <3>1. token.due # 0
      BY <2>1, <2>5
    <3>2. token.due > 0
      BY <3>1, Fields
    <3>3. token.life >= token.due + MinMargin
      BY <2>5, <3>2 DEF MintInv
    <3>. QED  BY <2>1, <3>3
  <2>6. token'.behind => token'.due = 0
    BY <2>1
  <2>. QED  BY <2>1, <2>2, <2>3, <2>4, <2>5, <2>6, Numbers DEF MintInv
<1>2. CASE ~(Oauth /\ ~Running)
  <2>1. UNCHANGED <<mint, token, provider, calm, outage>>
    BY <1>2 DEF Built
  <2>. QED  BY <2>1 DEF MintInv, Running
<1>. QED  BY <1>1, <1>2

LEMMA MintInvNext == ASSUME TypeOK, MintInv, [Next]_vars PROVE MintInv'
<1>1. CASE UNCHANGED <<mint, token, provider, calm, outage>>
  BY <1>1 DEF MintInv, Running
<1>2. CASE Wake
  <2>1. /\ mint.at = "sleep" /\ token.due = 0 /\ mint'.at = "request" /\ mint'.elapsed = 0
        /\ mint'.wait = 0 /\ mint'.backoff = MinBackoff
        /\ UNCHANGED <<token, provider, calm, outage>>
    BY <1>2 DEF Wake, Idle
  <2>2. Running' <=> Running
    BY <2>1 DEF Running
  <2>. QED  BY <2>1, <2>2, Fields, Numbers DEF MintInv
<1>3. CASE Resume
  <2>1. /\ mint.at = "pause" /\ mint.wait = 0 /\ mint'.at = "request" /\ mint'.elapsed = 0
        /\ mint'.wait = 0 /\ mint'.backoff = mint.backoff
        /\ UNCHANGED <<token, provider, calm, outage>>
    BY <1>3 DEF Resume, TypeOK, Mints
  <2>2. Running' <=> Running
    BY <2>1 DEF Running
  <2>. QED  BY <2>1, <2>2, Fields, Numbers DEF MintInv
<1>4. CASE OutageStarts
  <2>1. calm' = 0 /\ UNCHANGED <<mint, token, provider>>
    BY <1>4 DEF OutageStarts
  <2>2. Running' <=> Running
    BY <2>1 DEF Running
  <2>. QED  BY <2>1, <2>2, Fields, Numbers DEF MintInv
<1>5. CASE OutageEnds
  <2>1. outage /\ UNCHANGED <<mint, token, provider, calm>>
    BY <1>5 DEF OutageEnds
  <2>2. Running' <=> Running
    BY <2>1 DEF Running
  <2>. QED  BY <2>1, <2>2 DEF MintInv
<1>6. ASSUME NEW p \in DOMAIN Pools, StartPool(p) PROVE MintInv'
  <2>1. /\ provider = "unset" /\ provider' = "starting" /\ UNCHANGED <<token, calm, outage>>
        /\ mint'.elapsed = 0 /\ mint'.wait = 0 /\ mint'.backoff = MinBackoff
    BY <1>6 DEF StartPool, Idle
  <2>. QED  BY <2>1, Numbers DEF MintInv, Running
<1>7. CASE \E p \in DOMAIN Pools : StartPoolKnown(p) \/ BuildFails(p)
  BY <1>1, <1>7 DEF StartPoolKnown, BuildFails
<1>8. CASE \E c \in Conns : Open(c) \/ Handshake(c) \/ CheckOut(c) \/ CheckIn(c) \/ Reap(c)
  BY <1>1, <1>8 DEF Open, Handshake, CheckOut, CheckIn, Reap
<1>9. CASE UNCHANGED vars
  BY <1>1, <1>9 DEF vars
<1>. QED
  BY <1>2, <1>3, <1>4, <1>5, <1>6, <1>7, <1>8, <1>9, MintInvTick, MintInvMint, MintInvFails,
     MintInvBuilt DEF Next, Answer

LEMMA MintInvAlways == Spec => [](TypeOK /\ MintInv)
<1>1. Init => MintInv
  BY Numbers DEF Init, MintInv, Running, Idle, NoToken
<1>. QED  BY <1>1, TypeCorrect, MintInvNext, PTL DEF Spec

(* While refreshes succeed no checkout is refused for the published token    *)
(* (refresh_margin against TOKEN_HARD_EXPIRY_MARGIN), for every lifetime the *)
(* endpoint reports and every configured margin.                             *)
THEOREM AheadOfGuard == Spec => []RefreshBeforeGuard
<1>1. TypeOK /\ MintInv => RefreshBeforeGuard
  <2>. SUFFICES ASSUME TypeOK, MintInv, Running, ~token.behind PROVE token.life > HardMargin
    BY DEF RefreshBeforeGuard
  <2>1. mint.at # "pause"
    BY DEF MintInv
  <2>2. CASE mint.at = "sleep"
    BY <2>2, Fields, Numbers DEF MintInv
  <2>3. CASE mint.at = "request"
    BY <2>3, Fields, Numbers DEF MintInv
  <2>. QED  BY <2>1, <2>2, <2>3 DEF Running
<1>. QED  BY <1>1, MintInvAlways, PTL

(* After any outage, the longest backoff and one request are enough          *)
(* (refresh_loop, MAX_RETRY_BACKOFF, TOKEN_REQUEST_TIMEOUT).                 *)
THEOREM Recovers == Spec => []PromptRecovery
<1>1. TypeOK /\ MintInv /\ RefreshBeforeGuard => PromptRecovery
  <2>. SUFFICES ASSUME TypeOK, MintInv, RefreshBeforeGuard, calm = Recovery, token.behind
                PROVE  FALSE
    <3>. SUFFICES ASSUME TypeOK, MintInv, RefreshBeforeGuard, calm = Recovery
                  PROVE  ~token.behind => token.life > HardMargin
      BY DEF PromptRecovery
    <3>1. Recovery # 0
      BY Numbers DEF Recovery
    <3>2. Running
      BY <3>1 DEF MintInv
    <3>. QED  BY <3>2 DEF RefreshBeforeGuard
  <2>1. Recovery > MaxBackoff + RequestTimeout /\ Recovery > 0
    BY Numbers DEF Recovery
  <2>2. Running
    BY <2>1, Numbers DEF MintInv
  <2>3. mint.at # "sleep" /\ mint.at # "pause"
    BY <2>1, <2>2, Fields, Numbers DEF MintInv
  <2>4. mint.at # "request"
    BY <2>1, <2>2, Fields, Numbers DEF MintInv
  <2>. QED  BY <2>2, <2>3, <2>4 DEF Running
<1>. QED  BY <1>1, MintInvAlways, AheadOfGuard, PTL

(* Two tokens are never minted within MIN_REFRESH_DELAY of each other.       *)
THEOREM NoHotLoop == Spec => MintSpacing
<1>1. TypeOK /\ MintInv /\ [Next]_vars =>
        [Running /\ mint.at = "request" /\ mint'.at = "sleep" => token.age >= MinRefreshDelay]_vars
  <2>. SUFFICES ASSUME TypeOK, MintInv, Running, mint.at = "request"
                PROVE  token.age >= MinRefreshDelay
    OBVIOUS
  <2>. QED  BY Fields, Numbers DEF MintInv, Running
<1>. QED  BY <1>1, MintInvAlways, PTL DEF Spec, MintSpacing
=============================================================================
