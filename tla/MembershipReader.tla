-------------------------- MODULE MembershipReader --------------------------
(***************************************************************************)
(* Which id lists is an id in?  One server key asks for one id.            *)
(*                                                                         *)
(* A request takes the company of the key and the lists its manifest       *)
(* shows, has the company's fetcher, and reads Redis.  With the reverse    *)
(* index Redis holds tokens of lists per id, and the fetcher names them    *)
(* from a cached dictionary.  Without it Redis holds sets of ids per       *)
(* version of a list, and the request reads the version first and the set  *)
(* after it.  The answer is cut to the lists the key sees after the last   *)
(* read.                                                                   *)
(*                                                                         *)
(* The cached dictionary is replaced by a periodic refresh and extended by *)
(* lookups of unknown tokens, which run concurrently.  What the            *)
(* synchronisation does to Redis meanwhile is given by the actions of the  *)
(* last part: IdListSync models how it comes about.                        *)
(***************************************************************************)
EXTENDS Integers, FiniteSets

CONSTANTS Companies, Lists, Requests,
          MaxToken, MaxVersion,
          Setups       \* modes, participants and bounds considered

Unknown == "unknown"      \* no company, no manifest, no name

ASSUME ReaderAssumption ==
  /\ {MaxToken, MaxVersion} \subseteq Nat \ {0}
  /\ Unknown \notin Companies /\ {Unknown, "none", "ask"} \cap Lists = {}
  /\ \A s \in Setups : /\ s.companies \subseteq Companies /\ s.lists \subseteq Lists
                       /\ s.requests \subseteq Requests /\ {s.moves, s.faults} \subseteq Nat

Tokens == 1..MaxToken
Versions == 1..MaxVersion
Pairs == Companies \X Lists

VARIABLES
  setup,
  company, \* the company of the key, or Unknown
  visible, \* the lists of the key's manifest, or {}
  token,   \* per list: its token in the Redis dictionary, or 0
  given,   \* per company: the last token allocated
  rev,     \* per company: the tokens under the id
  set,     \* per list: [version, loading, holds], the versions that hold the id
  cell,    \* per company: its fetcher is "empty", "busy" or "ready"
  dict,    \* per company: the cached names of tokens
  refresh, \* per company: the periodic refresh
  tried,   \* per company: tokens looked up within the retry time
  lookup,  \* per company and token: the lookup of an unknown token
  req,     \* per request
  spent    \* [moves, faults] so far

redisVars == <<token, given, rev, set>>
cacheVars == <<cell, dict, refresh, tried, lookup>>
keyVars == <<company, visible>>
vars == <<setup, keyVars, redisVars, cacheVars, req, spent>>

Reverse == setup.reverse

NoNames == [t \in Tokens |-> Unknown]
Resting == [pc |-> "idle", snap |-> NoNames]
NoRequest == [pc |-> "idle", company |-> Unknown, visible |-> {}, tokens |-> {},
              version |-> [l \in Lists |-> 0], names |-> {},
              held |-> {}, owners |-> {}, shown |-> {}, steady |-> {}]

TypeOK ==
  /\ setup \in Setups /\ company \in Companies \cup {Unknown} /\ visible \subseteq Lists
  /\ token \in [Pairs -> 0..MaxToken] /\ given \in [Companies -> 0..MaxToken]
  /\ rev \in [Companies -> SUBSET Tokens]
  /\ set \in [Pairs -> [version : 0..MaxVersion, loading : 0..MaxVersion, holds : SUBSET Versions]]
  /\ cell \in [Companies -> {"empty", "busy", "ready"}]
  /\ dict \in [Companies -> [Tokens -> Lists \cup {Unknown}]]
  /\ refresh \in [Companies -> [pc : {"idle", "locked", "loaded"},
                                snap : [Tokens -> Lists \cup {Unknown}]]]
  /\ tried \in [Companies -> SUBSET Tokens]
  /\ lookup \in [Companies \X Tokens -> {"none", "ask"} \cup Lists]
  /\ \A r \in Requests :
       /\ req[r].pc \in {"idle", "scope", "cell", "load", "visible", "tokens", "names",
                         "versions", "sets", "company", "filter"}
       /\ req[r].names \subseteq Lists /\ req[r].tokens \subseteq Tokens

\* A process starts without a company and a manifest.  The requests before either
\* is known fail and leave nothing behind, so the model may also start later.
Init ==
  /\ setup \in Setups
  /\ company \in setup.companies \cup {Unknown} /\ visible \in {{}, setup.lists}
  /\ token = [p \in Pairs |-> 0] /\ given = [c \in Companies |-> 0]
  /\ rev = [c \in Companies |-> {}]
  /\ set = [p \in Pairs |-> [version |-> 0, loading |-> 0, holds |-> {}]]
  /\ cell = [c \in Companies |-> "empty"] /\ dict = [c \in Companies |-> NoNames]
  /\ refresh = [c \in Companies |-> Resting]
  /\ tried = [c \in Companies |-> {}]
  /\ lookup = [x \in Companies \X Tokens |-> "none"]
  /\ req = [r \in Requests |-> NoRequest]
  /\ spent = [moves |-> 0, faults |-> 0]

Move == spent.moves < setup.moves /\ spent' = [spent EXCEPT !.moves = @ + 1]
Fault == spent.faults < setup.faults /\ spent' = [spent EXCEPT !.faults = @ + 1]

-----------------------------------------------------------------------------
(* What is true while a request runs. *)

\* The names in Redis of a company's tokens.
Names(c) ==
  [t \in Tokens |-> IF \E l \in Lists : token[<<c, l>>] = t
                    THEN CHOOSE l \in Lists : token[<<c, l>>] = t ELSE Unknown]

Served(s) == IF s.version # 0 THEN s.version ELSE s.loading

\* The lists the id is in, by the part of Redis the mode reads.
Members ==
  {p \in Pairs : IF Reverse THEN token[p] \in rev[p[1]] ELSE Served(set[p]) \in set[p].holds}

Shown == {company} \X visible

\* The lists a request started now must not miss.
Certain ==
  {p \in Members \cap Shown :
     Reverse /\ cell[p[1]] = "ready" => dict[p[1]][token[p]] = p[2]}

\* After a step outside the requests.
Observe ==
  req' = [r \in Requests |->
            IF req[r].pc = "idle" THEN req[r]
            ELSE [req[r] EXCEPT !.held = @ \cup Members', !.owners = @ \cup {company'},
                                !.shown = @ \cup visible',
                                !.steady = @ \cap Members' \cap Shown']]

-----------------------------------------------------------------------------
(* A request: CompanyKeyResolver::resolve and the fetcher. *)

Goto(r, pc) == req' = [req EXCEPT ![r].pc = pc]
Fail(r) == req' = [req EXCEPT ![r] = NoRequest]

Arrive(r) ==
  /\ r \in setup.requests /\ req[r].pc = "idle"
  /\ req' = [req EXCEPT ![r] = [NoRequest EXCEPT !.pc = "scope", !.held = Members,
                                                 !.steady = Certain]]
  /\ UNCHANGED <<setup, keyVars, redisVars, cacheVars, spent>>

Scope(r) ==
  /\ req[r].pc = "scope"
  /\ IF company = Unknown \/ visible = {} THEN req' = [req EXCEPT ![r] = NoRequest]
     ELSE req' = [req EXCEPT ![r].pc = "cell", ![r].company = company]
  /\ UNCHANGED <<setup, keyVars, redisVars, cacheVars, spent>>

\* get_or_try_init: one request builds the fetcher, the others wait for it.
GetFetcher(r) ==
  LET c == req[r].company IN
  /\ req[r].pc = "cell" /\ cell[c] # "busy"
  /\ IF cell[c] = "empty" /\ Reverse
     THEN Goto(r, "load") /\ cell' = [cell EXCEPT ![c] = "busy"]
     ELSE Goto(r, "visible") /\ cell' = [cell EXCEPT ![c] = "ready"]
  /\ UNCHANGED <<setup, keyVars, redisVars, dict, refresh, tried, lookup, spent>>

\* The failed load keeps the cell.
LoadFails_keeps(r) ==
  /\ req[r].pc = "load" /\ Fault /\ Fail(r)
  /\ UNCHANGED <<setup, keyVars, redisVars, cacheVars>>
\* A failed load leaves the cell empty for the next request.
LoadFails(r) ==
  /\ req[r].pc = "load" /\ Fault /\ Fail(r)
  /\ cell' = [cell EXCEPT ![req[r].company] = "empty"]
  /\ UNCHANGED <<setup, keyVars, redisVars, dict, refresh, tried, lookup>>

Load(r) ==
  LET c == req[r].company IN
  /\ req[r].pc = "load"
  /\ dict' = [dict EXCEPT ![c] = Names(c)] /\ cell' = [cell EXCEPT ![c] = "ready"]
  /\ Goto(r, "visible")
  /\ UNCHANGED <<setup, keyVars, redisVars, refresh, tried, lookup, spent>>

ReadVisible(r) ==
  /\ req[r].pc = "visible"
  /\ req' = [req EXCEPT ![r].visible = visible,
                        ![r].pc = IF Reverse THEN "tokens"
                                  ELSE IF visible = {} THEN "company" ELSE "versions"]
  /\ UNCHANGED <<setup, keyVars, redisVars, cacheVars, spent>>

ReadTokens(r) ==
  /\ req[r].pc = "tokens"
  /\ req' = [req EXCEPT ![r].pc = "names", ![r].tokens = rev[req[r].company],
                        ![r].owners = {company}, ![r].shown = visible]
  /\ UNCHANGED <<setup, keyVars, redisVars, cacheVars, spent>>

Named(c, tokens) == {dict[c][t] : t \in tokens} \ {Unknown}

\* schedule_targeted_refresh for the tokens the dictionary lacks.
NameTokens(r) ==
  LET c == req[r].company
      lacking == {t \in req[r].tokens : dict[c][t] = Unknown} \ tried[c]
  IN
  /\ req[r].pc = "names"
  /\ req' = [req EXCEPT ![r].pc = "company",
                        ![r].names = Named(c, req[r].tokens)]
  /\ tried' = [tried EXCEPT ![c] = @ \cup lacking]
  /\ lookup' = [x \in DOMAIN lookup |->
                  IF x[1] = c /\ x[2] \in lacking THEN "ask" ELSE lookup[x]]
  /\ UNCHANGED <<setup, keyVars, redisVars, cell, dict, refresh, spent>>

\* The version being loaded is read first.
Generation_loading(s) == IF s.loading # 0 THEN s.loading ELSE s.version
\* The current version; during a first load, the one being loaded.
Generation(s) == IF s.version # 0 THEN s.version ELSE s.loading

ReadVersions(r) ==
  /\ req[r].pc = "versions"
  /\ req' = [req EXCEPT ![r].pc = "sets",
                        ![r].version = [l \in Lists |->
                           IF l \in req[r].visible THEN Generation(set[<<req[r].company, l>>])
                           ELSE 0]]
  /\ UNCHANGED <<setup, keyVars, redisVars, cacheVars, spent>>

ReadSets(r) ==
  /\ req[r].pc = "sets"
  /\ req' = [req EXCEPT ![r].pc = "company", ![r].owners = {company}, ![r].shown = visible,
                        ![r].names = {l \in Lists : req[r].version[l]
                                                      \in set[<<req[r].company, l>>].holds}]
  /\ UNCHANGED <<setup, keyVars, redisVars, cacheVars, spent>>

\* Redis or the pool fails, or the time-out of the read passes.
ReadFails(r) ==
  /\ req[r].pc \in {"tokens", "versions", "sets"} /\ Fault /\ Fail(r)
  /\ UNCHANGED <<setup, keyVars, redisVars, cacheVars>>

\* The company is not looked at again.
CheckCompany_off(r) ==
  /\ req[r].pc = "company" /\ Goto(r, "filter")
  /\ UNCHANGED <<setup, keyVars, redisVars, cacheVars, spent>>
CheckCompany(r) ==
  /\ req[r].pc = "company"
  /\ IF company = req[r].company THEN Goto(r, "filter")
     ELSE req' = [req EXCEPT ![r] = NoRequest]
  /\ UNCHANGED <<setup, keyVars, redisVars, cacheVars, spent>>

Answer(r) == req[r].names \cap visible

Respond(r) ==
  /\ req[r].pc = "filter" /\ req' = [req EXCEPT ![r] = NoRequest]
  /\ UNCHANGED <<setup, keyVars, redisVars, cacheVars, spent>>

-----------------------------------------------------------------------------
(* The cached dictionary of a company. *)

\* The lock is taken only to store the snapshot.
Locked_store(c) == FALSE
\* dict_update_lock is held from before the load to after the store.
Locked(c) == refresh[c].pc # "idle"

RefreshStart(c) ==
  /\ Reverse /\ cell[c] = "ready" /\ refresh[c].pc = "idle"
  /\ refresh' = [refresh EXCEPT ![c].pc = "locked"]
  /\ UNCHANGED <<setup, keyVars, redisVars, cell, dict, tried, lookup, req, spent>>

RefreshLoad(c) ==
  /\ refresh[c].pc = "locked"
  /\ refresh' = [refresh EXCEPT ![c] = [pc |-> "loaded", snap |-> Names(c)]]
  /\ UNCHANGED <<setup, keyVars, redisVars, cell, dict, tried, lookup, req, spent>>

\* The loop ends with the failed refresh.
RefreshFails_ends(c) ==
  /\ refresh[c].pc = "locked" /\ Fault
  /\ refresh' = [refresh EXCEPT ![c].pc = "ended"]
  /\ UNCHANGED <<setup, keyVars, redisVars, cell, dict, tried, lookup, req>>
RefreshFails(c) ==
  /\ refresh[c].pc = "locked" /\ Fault
  /\ refresh' = [refresh EXCEPT ![c] = Resting]
  /\ UNCHANGED <<setup, keyVars, redisVars, cell, dict, tried, lookup, req>>

RefreshStore(c) ==
  /\ refresh[c].pc = "loaded"
  /\ dict' = [dict EXCEPT ![c] = refresh[c].snap]
  /\ refresh' = [refresh EXCEPT ![c] = Resting]
  /\ UNCHANGED <<setup, keyVars, redisVars, cell, tried, lookup, req, spent>>

\* HGET of the token: its name, or none and no retry for a while.
LookUp(c, t) ==
  /\ lookup[<<c, t>>] = "ask"
  /\ lookup' = [lookup EXCEPT ![<<c, t>>] = IF Names(c)[t] = Unknown THEN "none" ELSE Names(c)[t]]
  /\ UNCHANGED <<setup, keyVars, redisVars, cell, dict, refresh, tried, req, spent>>

LookUpFails(c, t) ==
  /\ lookup[<<c, t>>] = "ask" /\ Fault
  /\ lookup' = [lookup EXCEPT ![<<c, t>>] = "none"]
  /\ tried' = [tried EXCEPT ![c] = @ \ {t}]
  /\ UNCHANGED <<setup, keyVars, redisVars, cell, dict, refresh, req>>

Learn(c, t) ==
  /\ lookup[<<c, t>>] \in Lists /\ ~Locked(c)
  /\ dict' = [dict EXCEPT ![c][t] = lookup[<<c, t>>]]
  /\ tried' = [tried EXCEPT ![c] = @ \ {t}]
  /\ lookup' = [lookup EXCEPT ![<<c, t>>] = "none"]
  /\ UNCHANGED <<setup, keyVars, redisVars, cell, refresh, req, spent>>

\* UNKNOWN_TOKEN_RETRY_S after the attempt, which takes far less.
RetryDue(c, t) ==
  /\ t \in tried[c] /\ lookup[<<c, t>>] = "none"
  /\ tried' = [tried EXCEPT ![c] = @ \ {t}]
  /\ UNCHANGED <<setup, keyVars, redisVars, cell, dict, refresh, lookup, req, spent>>

-----------------------------------------------------------------------------
(* What changes around the reader. *)

\* The discovery loop asks for a config of a key whose company is missing.
Discover ==
  /\ company = Unknown /\ Move
  /\ company' \in setup.companies
  /\ UNCHANGED <<setup, visible, redisVars, cacheVars>> /\ Observe

\* CompanyIdStore::update: a new config of the key names its company; a refused
\* key loses it; nothing else changes a company that is known.
CompanyChanges ==
  /\ Move
  /\ company' \in (setup.companies \cup {Unknown}) \ {company}
  /\ UNCHANGED <<setup, visible, redisVars, cacheVars>> /\ Observe

ManifestChanges ==
  /\ Move
  /\ visible' \in SUBSET setup.lists \ {visible}
  /\ UNCHANGED <<setup, company, redisVars, cacheVars>> /\ Observe

\* Tokens are never given twice.
Allocate(c, l) ==
  /\ Reverse /\ token[<<c, l>>] = 0 /\ given[c] < MaxToken
  /\ given' = [given EXCEPT ![c] = @ + 1]
  /\ token' = [token EXCEPT ![<<c, l>>] = given[c] + 1]

\* The id joins or leaves the list, or the removed list gives up its token.
TokenChanges(c, l) ==
  LET t == token[<<c, l>>] IN
  /\ Move
  /\ \/ Allocate(c, l) /\ UNCHANGED rev
     \/ /\ t # 0
        /\ rev' = [rev EXCEPT ![c] = IF t \in @ THEN @ \ {t} ELSE @ \cup {t}]
        /\ UNCHANGED <<token, given>>
     \/ /\ t # 0 /\ t \notin rev[c]
        /\ token' = [token EXCEPT ![<<c, l>>] = 0] /\ UNCHANGED <<given, rev>>
  /\ UNCHANGED <<setup, keyVars, set, cacheVars>> /\ Observe

\* No request is between reading this version of the list and reading its set.
Unread(l, v) == \A r \in Requests : req[r].pc = "sets" => req[r].version[l] # v

\* A version is loaded under a name of its own and becomes the current one;
\* the one it replaces stays until its time to live is over, which is longer
\* than a read takes; ids come and go; a removed list goes at once, and when it
\* comes back its versions have the names of its files again.  From one load to
\* the next takes longer than a read, too.
SetChanges(c, l) ==
  LET s == set[<<c, l>>]
      next == IF s.version > s.loading THEN s.version + 1 ELSE s.loading + 1
      Put(new) == set' = [set EXCEPT ![<<c, l>>] = new]
  IN
  /\ ~Reverse /\ Move
  /\ \/ s.loading = 0 /\ next \in Versions /\ Unread(l, next) /\ Put([s EXCEPT !.loading = next])
     \/ s.loading # 0 /\ Put([s EXCEPT !.version = s.loading, !.loading = 0])
     \/ \E v \in {s.version, s.loading} \ {0} :
          Put([s EXCEPT !.holds = IF v \in @ THEN @ \ {v} ELSE @ \cup {v}])
     \/ \E v \in s.holds \ {s.version, s.loading} :
          Unread(l, v) /\ Put([s EXCEPT !.holds = @ \ {v}])
     \/ Put([version |-> 0, loading |-> 0, holds |-> {}])
  /\ UNCHANGED <<setup, keyVars, token, given, rev, cacheVars>> /\ Observe

-----------------------------------------------------------------------------
RequestStep(r) ==
  \/ Scope(r) \/ GetFetcher(r) \/ LoadFails(r) \/ Load(r) \/ ReadVisible(r)
  \/ ReadTokens(r) \/ NameTokens(r) \/ ReadVersions(r) \/ ReadSets(r) \/ ReadFails(r)
  \/ CheckCompany(r) \/ Respond(r)

RefreshStep(c) == RefreshStart(c) \/ RefreshLoad(c) \/ RefreshFails(c) \/ RefreshStore(c)
LookUpStep(c, t) == LookUp(c, t) \/ LookUpFails(c, t) \/ Learn(c, t)

Next ==
  \/ \E r \in Requests : Arrive(r) \/ RequestStep(r)
  \/ \E c \in Companies : RefreshStep(c)
  \/ \E c \in Companies, t \in Tokens : LookUpStep(c, t) \/ RetryDue(c, t)
  \/ Discover \/ CompanyChanges \/ ManifestChanges
  \/ \E c \in setup.companies, l \in setup.lists : TokenChanges(c, l) \/ SetChanges(c, l)

Spec == Init /\ [][Next]_vars

\* Reads end, by an answer or by their time-out, and the refresh comes round.
FairSpec ==
  /\ Spec
  /\ \A r \in Requests : WF_vars(RequestStep(r))
  /\ \A c \in Companies : WF_vars(RefreshStep(c))

-----------------------------------------------------------------------------
Answering(r) == req[r].pc = "filter"

\* A name in an answer is that of a list of the key's company that held the id
\* while the request ran: tokens and names of Redis, the cached dictionary and
\* the versions read before their sets never combine to a list the id was not
\* in (RedisIdListMembershipFetcher::fetch and fetch_forward).
AnswerTrue ==
  \A r \in Requests : Answering(r) =>
    \A l \in Answer(r) : <<req[r].company, l>> \in req[r].held

\* However the company and the manifest of the key change while Redis is read,
\* the answer only names lists the key saw, and comes from the company the key
\* belonged to, after the last read (CompanyKeyResolver::resolve).
NothingHidden ==
  \A r \in Requests : Answering(r) /\ Answer(r) # {} =>
    Answer(r) \subseteq req[r].shown /\ req[r].company \in req[r].owners

\* A list that held the id, and that the key saw, all through the request is in
\* the answer: no version change and no refresh of the dictionary, full or
\* targeted, hides a list whose token was known when the request came.
NothingMissing ==
  \A r \in Requests : Answering(r) =>
    {p[2] : p \in req[r].steady} \subseteq Answer(r)

\* Every request ends, whatever becomes of the request that builds the fetcher
\* it waits for (get_or_try_init).
EveryRequestEnds == \A r \in Requests : req[r].pc # "idle" ~> req[r].pc = "idle"

\* Once the tokens of Redis stop changing (after setup.moves steps at most) the
\* dictionary of every fetcher comes to name them all and keeps them, failed
\* refreshes notwithstanding, without any lookup having to succeed
\* (spawn_dictionary_refresh_loop).
TokensNamed ==
  <>[](\A c \in Companies, l \in Lists :
         cell[c] = "ready" /\ token[<<c, l>>] # 0 => dict[c][token[<<c, l>>]] = l)
=============================================================================
