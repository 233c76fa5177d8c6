----------------------- MODULE MembershipReader_proofs -----------------------
(***************************************************************************)
(* What a membership answer says, for every set of companies, lists and    *)
(* requests and for any number of changes while the requests run.          *)
(***************************************************************************)
EXTENDS MembershipReader, TLAPS

-----------------------------------------------------------------------------
(* Shapes *)

RequestStates ==
  {"idle", "scope", "cell", "load", "visible", "tokens", "names", "versions", "sets",
   "company", "filter"}

RequestRecord ==
  [pc : RequestStates, company : Companies \cup {Unknown}, visible : SUBSET Lists,
   tokens : SUBSET Tokens, version : [Lists -> 0..MaxVersion], names : SUBSET Lists,
   held : SUBSET Pairs, owners : SUBSET (Companies \cup {Unknown}),
   shown : SUBSET Lists, steady : SUBSET Pairs]

SetRecord == [version : 0..MaxVersion, loading : 0..MaxVersion, holds : SUBSET Versions]

\* TypeOK with every field of a request, and the company of a request that has one.
Typed ==
  /\ TypeOK /\ req \in [Requests -> RequestRecord]
  /\ \A r \in Requests : req[r].pc \notin {"idle", "scope"} => req[r].company \in Companies

LEMMA Numbers ==
    /\ MaxToken \in Nat /\ MaxToken > 0 /\ MaxVersion \in Nat /\ MaxVersion > 0
    /\ Unknown \notin Companies /\ Unknown \notin Lists /\ "none" \notin Lists /\ "ask" \notin Lists
    /\ \A s \in Setups : s.companies \subseteq Companies /\ s.lists \subseteq Lists
    /\ 0 \notin Tokens /\ 0 \notin Versions /\ Tokens \subseteq Nat /\ Versions \subseteq Nat
<1>1. MaxToken \in Nat \ {0} /\ MaxVersion \in Nat \ {0}
  BY ReaderAssumption, Zenon
<1>2. Unknown \notin Companies /\ Unknown \notin Lists /\ "none" \notin Lists /\ "ask" \notin Lists
  BY ReaderAssumption, Zenon
<1>3. \A s \in Setups : s.companies \subseteq Companies /\ s.lists \subseteq Lists
  BY ReaderAssumption, Zenon
<1>4. 0 \notin Tokens /\ 0 \notin Versions /\ Tokens \subseteq Nat /\ Versions \subseteq Nat
  BY <1>1 DEF Tokens, Versions
<1> QED
  BY <1>1, <1>2, <1>3, <1>4

\* Pairs are known by their parts.
LEMMA Parts ==
    /\ \A c \in Companies, l \in Lists : <<c, l>> \in Pairs /\ <<c, l>>[1] = c /\ <<c, l>>[2] = l
    /\ \A p \in Pairs : p[1] \in Companies /\ p[2] \in Lists /\ p = <<p[1], p[2]>>
    /\ \A c, d, l, m : <<c, l>> = <<d, m>> => c = d /\ l = m
  BY DEF Pairs

LEMMA NobodysFields ==
    /\ NoRequest \in RequestRecord /\ NoRequest.pc = "idle" /\ NoRequest.names = {}
    /\ NoRequest.company = Unknown /\ NoRequest.version = [l \in Lists |-> 0]
    /\ NoRequest.tokens = {} /\ NoRequest.visible = {} /\ NoRequest.owners = {}
    /\ NoRequest.shown = {} /\ NoRequest.held = {} /\ NoRequest.steady = {}
<1>1. 0 \in 0..MaxVersion
  BY Numbers
<1>2. [l \in Lists |-> 0] \in [Lists -> 0..MaxVersion]
  BY <1>1, Zenon
<1> QED
  BY <1>2, Zenon DEF NoRequest, RequestRecord, RequestStates

LEMMA Shapes ==
    ASSUME TypeOK
    PROVE  /\ token \in [Pairs -> 0..MaxToken] /\ given \in [Companies -> 0..MaxToken]
           /\ rev \in [Companies -> SUBSET Tokens] /\ set \in [Pairs -> SetRecord]
           /\ cell \in [Companies -> {"empty", "busy", "ready"}]
           /\ dict \in [Companies -> [Tokens -> Lists \cup {Unknown}]]
           /\ refresh \in [Companies -> [pc : {"idle", "locked", "loaded"},
                                         snap : [Tokens -> Lists \cup {Unknown}]]]
           /\ tried \in [Companies -> SUBSET Tokens]
           /\ lookup \in [Companies \X Tokens -> {"none", "ask"} \cup Lists]
           /\ setup \in Setups /\ company \in Companies \cup {Unknown} /\ visible \subseteq Lists
  BY Zenon DEF TypeOK, SetRecord

-----------------------------------------------------------------------------
(* Redis as a request sees it *)

\* An id is in a list by its token, or by the version that is served.
Holds(c, l) ==
  IF Reverse THEN token[<<c, l>>] \in rev[c]
  ELSE Served(set[<<c, l>>]) \in set[<<c, l>>].holds

LEMMA MemberOf ==
    /\ Members \subseteq Pairs
    /\ \A c \in Companies, l \in Lists : <<c, l>> \in Members <=> Holds(c, l)
<1>1. \A c \in Companies, l \in Lists : <<c, l>> \in Members <=> Holds(c, l)
  BY Parts, Zenon DEF Members, Holds
<1> QED
  BY <1>1, Zenon DEF Members

LEMMA ShownIs ==
    \A c, l : <<c, l>> \in Shown <=> c = company /\ l \in visible
  BY Zenon DEF Shown

LEMMA NamesOf ==
    ASSUME NEW c \in Companies
    PROVE  /\ Names(c) \in [Tokens -> Lists \cup {Unknown}]
           /\ \A t \in Tokens, l \in Lists : Names(c)[t] = l => token[<<c, l>>] = t
           /\ \A t \in Tokens, l \in Lists :
                token[<<c, l>>] = t => Names(c)[t] \in Lists
<1> DEFINE Name(t) == IF \E l \in Lists : token[<<c, l>>] = t
                      THEN CHOOSE l \in Lists : token[<<c, l>>] = t ELSE Unknown
<1>1. Names(c) = [t \in Tokens |-> Name(t)]
  BY Zenon DEF Names
<1>2. ASSUME NEW t \in Tokens, \E l \in Lists : token[<<c, l>>] = t
      PROVE  Name(t) \in Lists /\ token[<<c, Name(t)>>] = t
  BY <1>2, Zenon
<1>3. ASSUME NEW t \in Tokens, ~(\E l \in Lists : token[<<c, l>>] = t)
      PROVE  Name(t) = Unknown
  BY <1>3, Zenon
<1> HIDE DEF Name
<1>4. \A t \in Tokens : Names(c)[t] = Name(t) /\ Name(t) \in Lists \cup {Unknown}
  BY <1>1, <1>2, <1>3, Zenon
<1>5. ASSUME NEW t \in Tokens, NEW l \in Lists, Names(c)[t] = l
      PROVE  token[<<c, l>>] = t
  <2>1. Name(t) = l /\ l # Unknown
    BY <1>4, <1>5, Numbers, Zenon
  <2>2. \E m \in Lists : token[<<c, m>>] = t
    BY <1>3, <2>1, Zenon
  <2> QED
    BY <1>2, <2>1, <2>2, Zenon
<1>6. ASSUME NEW t \in Tokens, NEW l \in Lists, token[<<c, l>>] = t
      PROVE  Names(c)[t] \in Lists
  BY <1>2, <1>4, <1>6, Zenon
<1>7. Names(c) \in [Tokens -> Lists \cup {Unknown}]
  BY <1>1, <1>4, Zenon
<1> QED
  BY <1>5, <1>6, <1>7, Zenon
-----------------------------------------------------------------------------
(* The steps of a request, field by field *)

\* Only r's record changes.
Puts(r, rec) ==
  /\ req' \in [Requests -> RequestRecord] /\ req'[r] = rec
  /\ \A q \in Requests \ {r} : req'[q] = req[q]

LEMMA Putting ==
    ASSUME Typed, NEW r \in Requests, NEW rec \in RequestRecord, req' = [req EXCEPT ![r] = rec]
    PROVE  Puts(r, rec)
<1>1. req \in [Requests -> RequestRecord]
  BY Zenon DEF Typed
<1> QED
  BY <1>1, Zenon DEF Puts

\* What a step that reads leaves of the record.
Keeps(r) ==
  /\ req'[r].company = req[r].company /\ req'[r].held = req[r].held
  /\ req'[r].steady = req[r].steady

Others(r) ==
  req' \in [Requests -> RequestRecord] /\ \A q \in Requests \ {r} : req'[q] = req[q]

LEMMA GotoFields ==
    ASSUME Typed, NEW r \in Requests, NEW pc \in RequestStates, Goto(r, pc)
    PROVE  /\ Others(r) /\ Keeps(r) /\ req'[r].pc = pc /\ req'[r].visible = req[r].visible
           /\ req'[r].tokens = req[r].tokens /\ req'[r].version = req[r].version
           /\ req'[r].names = req[r].names /\ req'[r].owners = req[r].owners
           /\ req'[r].shown = req[r].shown
<1> DEFINE rec == [req[r] EXCEPT !.pc = pc]
<1>1. req[r] \in RequestRecord
  BY Zenon DEF Typed
<1>2. /\ rec \in RequestRecord /\ rec.pc = pc /\ rec.visible = req[r].visible
      /\ rec.tokens = req[r].tokens /\ rec.version = req[r].version /\ rec.names = req[r].names
      /\ rec.owners = req[r].owners /\ rec.shown = req[r].shown
      /\ rec.company = req[r].company /\ rec.held = req[r].held /\ rec.steady = req[r].steady
  BY <1>1, Zenon DEF RequestRecord
<1>3. req' = [req EXCEPT ![r] = rec]
  BY Zenon DEF Goto
<1> HIDE DEF rec
<1> QED
  BY <1>2, <1>3, Putting, Zenon DEF Puts, Others, Keeps

LEMMA FailFields ==
    ASSUME Typed, NEW r \in Requests, req' = [req EXCEPT ![r] = NoRequest]
    PROVE  Others(r) /\ req'[r] = NoRequest
  BY Putting, NobodysFields, Zenon DEF Puts, Others

LEMMA ArriveFields ==
    ASSUME Typed, NEW r \in Requests, Arrive(r)
    PROVE  /\ Others(r) /\ req'[r].pc = "scope" /\ req'[r].names = {}
           /\ req'[r].held = Members /\ req'[r].steady = Certain
<1> DEFINE rec == [NoRequest EXCEPT !.pc = "scope", !.held = Members, !.steady = Certain]
<1>1. Members \in SUBSET Pairs /\ Certain \in SUBSET Pairs
  BY MemberOf, Zenon DEF Certain
<1>2. /\ rec \in RequestRecord /\ rec.pc = "scope" /\ rec.names = NoRequest.names
      /\ rec.held = Members /\ rec.steady = Certain
  BY <1>1, NobodysFields, Zenon DEF RequestRecord, RequestStates
<1>3. req' = [req EXCEPT ![r] = rec]
  BY Zenon DEF Arrive
<1> HIDE DEF rec
<1> QED
  BY <1>2, <1>3, Putting, NobodysFields, Zenon DEF Puts, Others

LEMMA ScopeFields ==
    ASSUME Typed, NEW r \in Requests, Scope(r)
    PROVE  /\ Others(r)
           /\ \/ req'[r] = NoRequest
              \/ /\ company \in Companies /\ req'[r].company = company /\ req'[r].pc = "cell"
                 /\ req'[r].held = req[r].held /\ req'[r].steady = req[r].steady
                 /\ req'[r].names = req[r].names
<1>1. CASE company = Unknown \/ visible = {}
  BY <1>1, FailFields, Zenon DEF Scope
<1>2. CASE ~(company = Unknown \/ visible = {})
  <2> DEFINE rec == [req[r] EXCEPT !.pc = "cell", !.company = company]
  <2>1. req[r] \in RequestRecord /\ company \in Companies
    BY <1>2, Zenon DEF Typed, TypeOK
  <2>2. /\ rec \in RequestRecord /\ rec.pc = "cell" /\ rec.company = company
        /\ rec.names = req[r].names /\ rec.held = req[r].held /\ rec.steady = req[r].steady
    BY <2>1, Zenon DEF RequestRecord, RequestStates
  <2>3. req' = [req EXCEPT ![r] = rec]
    BY <1>2, Zenon DEF Scope
  <2> HIDE DEF rec
  <2> QED
    BY <2>1, <2>2, <2>3, Putting, Zenon DEF Puts, Others
<1> QED
  BY <1>1, <1>2, Zenon

LEMMA ReadVisibleFields ==
    ASSUME Typed, NEW r \in Requests, ReadVisible(r)
    PROVE  /\ Others(r) /\ Keeps(r) /\ req'[r].visible = visible /\ req'[r].names = req[r].names
           /\ req'[r].pc = IF Reverse THEN "tokens" ELSE IF visible = {} THEN "company" ELSE "versions"
<1> DEFINE pc == IF Reverse THEN "tokens" ELSE IF visible = {} THEN "company" ELSE "versions"
           rec == [req[r] EXCEPT !.visible = visible, !.pc = pc]
<1>1. req[r] \in RequestRecord /\ visible \in SUBSET Lists
  BY Zenon DEF Typed, TypeOK
<1>2. pc \in RequestStates
  BY Zenon DEF RequestStates
<1>3. req' = [req EXCEPT ![r] = rec]
  BY Zenon DEF ReadVisible
<1> HIDE DEF pc
<1>4. /\ rec \in RequestRecord /\ rec.pc = pc /\ rec.company = req[r].company
      /\ rec.visible = visible
      /\ rec.names = req[r].names /\ rec.held = req[r].held /\ rec.steady = req[r].steady
  BY <1>1, <1>2, Zenon DEF RequestRecord
<1> HIDE DEF rec
<1>5. Others(r) /\ Keeps(r) /\ req'[r].visible = visible /\ req'[r].names = req[r].names /\ req'[r].pc = pc
  BY <1>3, <1>4, Putting, Zenon DEF Puts, Others, Keeps
<1> QED
  BY <1>5, Zenon DEF pc

LEMMA ReadTokensFields ==
    ASSUME Typed, NEW r \in Requests, ReadTokens(r)
    PROVE  /\ Others(r) /\ Keeps(r) /\ req'[r].pc = "names" /\ req'[r].names = req[r].names
           /\ req'[r].tokens = rev[req[r].company] /\ req'[r].owners = {company}
           /\ req'[r].shown = visible
<1> DEFINE rec == [req[r] EXCEPT !.pc = "names", !.tokens = rev[req[r].company],
                                 !.owners = {company}, !.shown = visible]
<1>1. req[r] \in RequestRecord /\ visible \in SUBSET Lists /\ {company} \in SUBSET (Companies \cup {Unknown})
  BY Zenon DEF Typed, TypeOK
<1>2. rev[req[r].company] \in SUBSET Tokens
  BY Shapes, Zenon DEF Typed, ReadTokens
<1>3. req' = [req EXCEPT ![r] = rec]
  BY Zenon DEF ReadTokens
<1>4. /\ rec \in RequestRecord /\ rec.pc = "names" /\ rec.company = req[r].company
      /\ rec.tokens = rev[req[r].company] /\ rec.owners = {company} /\ rec.shown = visible
      /\ rec.names = req[r].names /\ rec.held = req[r].held /\ rec.steady = req[r].steady
  BY <1>1, <1>2, Zenon DEF RequestRecord, RequestStates
<1> HIDE DEF rec
<1> QED
  BY <1>3, <1>4, Putting, Zenon DEF Puts, Others, Keeps

LEMMA NameTokensFields ==
    ASSUME Typed, NEW r \in Requests, NameTokens(r)
    PROVE  /\ Others(r) /\ Keeps(r) /\ req'[r].pc = "company"
           /\ req'[r].names = Named(req[r].company, req[r].tokens)
           /\ req'[r].owners = req[r].owners /\ req'[r].shown = req[r].shown
<1> DEFINE names == Named(req[r].company, req[r].tokens)
           rec == [req[r] EXCEPT !.pc = "company", !.names = names]
<1>1. req[r] \in RequestRecord /\ req[r].company \in Companies /\ req[r].tokens \subseteq Tokens
  BY Zenon DEF Typed, NameTokens, RequestRecord
<1>2. \A t \in Tokens : dict[req[r].company][t] \in Lists \cup {Unknown}
  BY <1>1, Shapes DEF Typed
<1>3. names \in SUBSET Lists
  BY <1>1, <1>2, Zenon DEF Named
<1>4. req' = [req EXCEPT ![r] = rec]
  BY Zenon DEF NameTokens
<1> HIDE DEF names
<1>5. /\ rec \in RequestRecord /\ rec.pc = "company" /\ rec.names = names
      /\ rec.owners = req[r].owners /\ rec.shown = req[r].shown
      /\ rec.company = req[r].company /\ rec.held = req[r].held /\ rec.steady = req[r].steady
  BY <1>1, <1>3, Zenon DEF RequestRecord, RequestStates
<1> HIDE DEF rec
<1> QED
  BY <1>4, <1>5, Putting, Zenon DEF Puts, Others, Keeps, names

LEMMA SetShapes ==
    ASSUME Typed, NEW c \in Companies, NEW l \in Lists
    PROVE  /\ set[<<c, l>>] \in SetRecord
           /\ set[<<c, l>>].version \in 0..MaxVersion /\ set[<<c, l>>].loading \in 0..MaxVersion
           /\ set[<<c, l>>].holds \in SUBSET Versions
<1>1. set[<<c, l>>] \in SetRecord
  BY Parts, Shapes, Zenon DEF Typed
<1> QED
  BY <1>1, Zenon DEF SetRecord

LEMMA ReadVersionsFields ==
    ASSUME Typed, NEW r \in Requests, ReadVersions(r)
    PROVE  /\ Others(r) /\ Keeps(r) /\ req'[r].pc = "sets" /\ req'[r].names = req[r].names
           /\ req[r].company \in Companies
           /\ \A l \in Lists :
                req'[r].version[l] = IF l \in req[r].visible
                                     THEN Generation(set[<<req[r].company, l>>]) ELSE 0
<1> DEFINE V(l) == IF l \in req[r].visible THEN Generation(set[<<req[r].company, l>>]) ELSE 0
           version == [l \in Lists |-> V(l)]
           rec == [req[r] EXCEPT !.pc = "sets", !.version = version]
<1>1. req[r] \in RequestRecord /\ req[r].company \in Companies
  BY Zenon DEF Typed, ReadVersions
<1>2. ASSUME NEW l \in Lists PROVE V(l) \in 0..MaxVersion
  <2>1. 0 \in 0..MaxVersion
    BY Numbers
  <2> QED
    BY <1>1, <2>1, SetShapes, Zenon DEF Generation
<1>3. req' = [req EXCEPT ![r] = rec]
  BY Zenon DEF ReadVersions
<1> HIDE DEF V
<1>4. version \in [Lists -> 0..MaxVersion] /\ \A l \in Lists : version[l] = V(l)
  BY <1>2, Zenon
<1> HIDE DEF version
<1>5. /\ rec \in RequestRecord /\ rec.pc = "sets" /\ rec.version = version
      /\ rec.names = req[r].names
      /\ rec.company = req[r].company /\ rec.held = req[r].held /\ rec.steady = req[r].steady
  BY <1>1, <1>4, Zenon DEF RequestRecord, RequestStates
<1> HIDE DEF rec
<1>6. /\ Others(r) /\ Keeps(r) /\ req'[r].pc = "sets" /\ req'[r].names = req[r].names
      /\ req'[r].version = version
  BY <1>3, <1>5, Putting, Zenon DEF Puts, Others, Keeps
<1> QED
  BY <1>1, <1>4, <1>6, Zenon DEF V

LEMMA ReadSetsFields ==
    ASSUME Typed, NEW r \in Requests, ReadSets(r)
    PROVE  /\ Others(r) /\ Keeps(r) /\ req'[r].pc = "company" /\ req'[r].owners = {company}
           /\ req'[r].shown = visible /\ req[r].company \in Companies
           /\ req'[r].names = {l \in Lists : req[r].version[l] \in set[<<req[r].company, l>>].holds}
<1> DEFINE names == {l \in Lists : req[r].version[l] \in set[<<req[r].company, l>>].holds}
           rec == [req[r] EXCEPT !.pc = "company", !.owners = {company}, !.shown = visible,
                                 !.names = names]
<1>1. /\ req[r] \in RequestRecord /\ req[r].company \in Companies /\ visible \in SUBSET Lists
      /\ {company} \in SUBSET (Companies \cup {Unknown})
  BY Zenon DEF Typed, TypeOK, ReadSets
<1>2. names \in SUBSET Lists
  BY Zenon
<1>3. req' = [req EXCEPT ![r] = rec]
  BY Zenon DEF ReadSets
<1> HIDE DEF names
<1>4. /\ rec \in RequestRecord /\ rec.pc = "company" /\ rec.names = names
      /\ rec.owners = {company} /\ rec.shown = visible
      /\ rec.company = req[r].company /\ rec.held = req[r].held /\ rec.steady = req[r].steady
  BY <1>1, <1>2, Zenon DEF RequestRecord, RequestStates
<1> HIDE DEF rec
<1> QED
  BY <1>1, <1>3, <1>4, Putting, Zenon DEF Puts, Others, Keeps, names

\* What a step outside the requests adds to them, and takes away.
Watched(r) ==
  /\ req'[r].pc = req[r].pc /\ req'[r].company = req[r].company
  /\ req'[r].visible = req[r].visible /\ req'[r].tokens = req[r].tokens
  /\ req'[r].version = req[r].version /\ req'[r].names = req[r].names
  /\ req[r].pc # "idle" =>
       /\ req'[r].held = req[r].held \cup Members'
       /\ req'[r].owners = req[r].owners \cup {company'}
       /\ req'[r].shown = req[r].shown \cup visible'
       /\ req'[r].steady = req[r].steady \cap Members' \cap Shown'

LEMMA ObserveFields ==
    ASSUME Typed, Observe, Members' \subseteq Pairs, company' \in Companies \cup {Unknown},
           visible' \in SUBSET Lists
    PROVE  req' \in [Requests -> RequestRecord] /\ \A r \in Requests : Watched(r)
<1> DEFINE held == Members'
           shown == Shown'
           New(r) == IF req[r].pc = "idle" THEN req[r]
                     ELSE [req[r] EXCEPT !.held = @ \cup held, !.owners = @ \cup {company'},
                                         !.shown = @ \cup visible',
                                         !.steady = @ \cap held \cap shown]
<1>1. req' = [r \in Requests |-> New(r)]
  BY Zenon DEF Observe
<1>2. held \subseteq Pairs
  BY Zenon
<1>3. \A r \in Requests : req[r] \in RequestRecord
  BY Zenon DEF Typed
<1> HIDE DEF held, shown
<1>4. ASSUME NEW r \in Requests
      PROVE  /\ New(r) \in RequestRecord
             /\ New(r).pc = req[r].pc /\ New(r).company = req[r].company
             /\ New(r).visible = req[r].visible /\ New(r).tokens = req[r].tokens
             /\ New(r).version = req[r].version /\ New(r).names = req[r].names
             /\ req[r].pc # "idle" =>
                  /\ New(r).held = req[r].held \cup held
                  /\ New(r).owners = req[r].owners \cup {company'}
                  /\ New(r).shown = req[r].shown \cup visible'
                  /\ New(r).steady = req[r].steady \cap held \cap shown
  <2>1. CASE req[r].pc = "idle"
    BY <1>3, <2>1, Zenon
  <2>2. CASE req[r].pc # "idle"
    <3> DEFINE h == req[r].held \cup held
               o == req[r].owners \cup {company'}
               v == req[r].shown \cup visible'
               y == req[r].steady \cap held \cap shown
    <3>1. New(r) = [req[r] EXCEPT !.held = h, !.owners = o, !.shown = v, !.steady = y]
      BY <2>2, Zenon
    <3>2. req[r] \in RequestRecord
      BY <1>3, Zenon
    <3>3. /\ h \in SUBSET Pairs /\ o \in SUBSET (Companies \cup {Unknown})
          /\ v \in SUBSET Lists /\ y \in SUBSET Pairs
      BY <1>2, <3>2, Zenon DEF RequestRecord
    <3> HIDE DEF h, o, v, y, New
    <3>4. /\ New(r) \in RequestRecord
          /\ New(r).pc = req[r].pc /\ New(r).company = req[r].company
          /\ New(r).visible = req[r].visible /\ New(r).tokens = req[r].tokens
          /\ New(r).version = req[r].version /\ New(r).names = req[r].names
          /\ New(r).held = h /\ New(r).owners = o /\ New(r).shown = v /\ New(r).steady = y
      BY <3>1, <3>2, <3>3, Zenon DEF RequestRecord
    <3> QED
      BY <3>4, Zenon DEF h, o, v, y
  <2> QED
    BY <2>1, <2>2, Zenon
<1> HIDE DEF New
<1>5. req' \in [Requests -> RequestRecord] /\ \A r \in Requests : req'[r] = New(r)
  BY <1>1, <1>4, Zenon
<1>6. ASSUME NEW r \in Requests
      PROVE  Watched(r)
  <2>1. req'[r] = New(r)
    BY <1>5, Zenon
  <2> QED
    BY <1>4, <2>1, Zenon DEF Watched, held, shown
<1> QED
  BY <1>5, <1>6, Zenon

-----------------------------------------------------------------------------
(* Type correctness *)

KeyTyped == setup \in Setups /\ company \in Companies \cup {Unknown} /\ visible \in SUBSET Lists

RedisTyped ==
  /\ token \in [Pairs -> 0..MaxToken] /\ given \in [Companies -> 0..MaxToken]
  /\ rev \in [Companies -> SUBSET Tokens] /\ set \in [Pairs -> SetRecord]

Dictionary == [Tokens -> Lists \cup {Unknown}]
Refreshing == [pc : {"idle", "locked", "loaded"}, snap : Dictionary]

CacheTyped ==
  /\ cell \in [Companies -> {"empty", "busy", "ready"}]
  /\ dict \in [Companies -> Dictionary] /\ refresh \in [Companies -> Refreshing]
  /\ tried \in [Companies -> SUBSET Tokens]
  /\ lookup \in [Companies \X Tokens -> {"none", "ask"} \cup Lists]

ReqTyped ==
  /\ req \in [Requests -> RequestRecord]
  /\ \A r \in Requests : req[r].pc \notin {"idle", "scope"} => req[r].company \in Companies

LEMMA TypedParts == Typed => KeyTyped /\ RedisTyped /\ CacheTyped /\ ReqTyped
  BY Zenon DEF Typed, TypeOK, KeyTyped, RedisTyped, CacheTyped, ReqTyped, Dictionary, Refreshing,
     SetRecord

LEMMA TypedWhole == KeyTyped /\ RedisTyped /\ CacheTyped /\ ReqTyped => Typed
<1> SUFFICES ASSUME KeyTyped, RedisTyped, CacheTyped, ReqTyped PROVE Typed
  BY Zenon
<1>1. ASSUME NEW r \in Requests
      PROVE  /\ req[r].pc \in RequestStates
             /\ req[r].names \subseteq Lists /\ req[r].tokens \subseteq Tokens
  <2>1. req[r] \in RequestRecord
    BY Zenon DEF ReqTyped
  <2> QED
    BY <2>1, Zenon DEF RequestRecord
<1> QED
  BY <1>1, Zenon DEF Typed, TypeOK, KeyTyped, RedisTyped, CacheTyped, ReqTyped, Dictionary,
     Refreshing, SetRecord, RequestStates

LEMMA TypedNext == (KeyTyped /\ RedisTyped /\ CacheTyped /\ ReqTyped)' => Typed'
  BY TypedWhole, PTL

\* The key and Redis as they were.
Quiet == UNCHANGED <<setup, keyVars, redisVars>>

LEMMA QuietTyped == Typed /\ Quiet => KeyTyped' /\ RedisTyped'
  BY TypedParts, Zenon DEF Quiet, keyVars, redisVars, KeyTyped, RedisTyped

LEMMA CacheSame == Typed /\ UNCHANGED cacheVars => CacheTyped'
  BY TypedParts, Zenon DEF cacheVars, CacheTyped

LEMMA Returns ==
    ASSUME Typed, NEW r \in Requests, Others(r),
           req'[r] = NoRequest \/ req'[r].pc = "scope" \/ req'[r].company \in Companies
    PROVE  ReqTyped'
<1>1. ASSUME NEW q \in Requests, req'[q].pc \notin {"idle", "scope"}
      PROVE  req'[q].company \in Companies
  BY <1>1, NobodysFields, Zenon DEF Others, Typed
<1> QED
  BY <1>1, Zenon DEF Others, ReqTyped

\* A request reads: neither Redis nor the cache changes.
Reads(r) ==
  \/ Arrive(r) \/ Scope(r) \/ ReadVisible(r) \/ ReadTokens(r) \/ ReadVersions(r) \/ ReadSets(r)
  \/ ReadFails(r) \/ CheckCompany(r) \/ Respond(r)

LEMMA FilterState == {"filter", "visible", "load"} \subseteq RequestStates
  BY Zenon DEF RequestStates

LEMMA CheckFields ==
    ASSUME Typed, NEW r \in Requests, CheckCompany(r)
    PROVE  \/ Others(r) /\ req'[r] = NoRequest
           \/ company = req[r].company /\ Goto(r, "filter")
  BY FailFields, Zenon DEF CheckCompany

LEMMA ReadsTyped ==
    ASSUME Typed, NEW r \in Requests, Reads(r)
    PROVE  Quiet /\ UNCHANGED cacheVars /\ Typed'
<1>1. Quiet /\ UNCHANGED cacheVars
  BY Zenon DEF Reads, Arrive, Scope, ReadVisible, ReadTokens, ReadVersions, ReadSets, ReadFails,
     CheckCompany, Respond, Quiet
<1>2. ReqTyped'
  <2>0. req[r].pc \notin {"idle", "scope"} => req[r].company \in Companies
    BY Zenon DEF Typed
  <2>1. CASE Arrive(r)
    BY <2>1, ArriveFields, Returns, Zenon
  <2>2. CASE Scope(r)
    BY <2>2, ScopeFields, Returns, Zenon
  <2>3. CASE ReadVisible(r)
    <3>1. req[r].company \in Companies
      BY <2>0, <2>3, Zenon DEF ReadVisible
    <3> QED
      BY <2>3, <3>1, ReadVisibleFields, Returns, Zenon DEF Keeps
  <2>4. CASE ReadTokens(r)
    <3>1. req[r].company \in Companies
      BY <2>0, <2>4, Zenon DEF ReadTokens
    <3> QED
      BY <2>4, <3>1, ReadTokensFields, Returns, Zenon DEF Keeps
  <2>5. CASE ReadVersions(r)
    BY <2>5, ReadVersionsFields, Returns, Zenon DEF Keeps
  <2>6. CASE ReadSets(r)
    BY <2>6, ReadSetsFields, Returns, Zenon DEF Keeps
  <2>7. CASE ReadFails(r) \/ Respond(r)
    BY <2>7, FailFields, Returns, Zenon DEF ReadFails, Respond, Fail
  <2>8. CASE CheckCompany(r)
    <3>1. req[r].company \in Companies
      BY <2>0, <2>8, Zenon DEF CheckCompany
    <3> QED
      BY <2>8, <3>1, CheckFields, GotoFields, FilterState, Returns, Zenon DEF Keeps
  <2> QED
    BY <2>1, <2>2, <2>3, <2>4, <2>5, <2>6, <2>7, <2>8, Zenon DEF Reads
<1> QED
  BY <1>1, <1>2, QuietTyped, CacheSame, TypedNext, Zenon

\* A request has the fetcher, or builds it.
LEMMA GetFetcherFields ==
    ASSUME Typed, NEW r \in Requests, GetFetcher(r)
    PROVE  /\ Quiet /\ UNCHANGED <<dict, refresh, tried, lookup>> /\ Typed'
           /\ req[r].pc = "cell" /\ req[r].company \in Companies /\ cell[req[r].company] # "busy"
           /\ \A c \in Companies \ {req[r].company} : cell'[c] = cell[c]
           /\ \/ /\ cell[req[r].company] = "empty" /\ Reverse /\ Goto(r, "load")
                 /\ cell'[req[r].company] = "busy"
              \/ /\ ~(cell[req[r].company] = "empty" /\ Reverse) /\ Goto(r, "visible")
                 /\ cell'[req[r].company] = "ready"
<1> DEFINE c == req[r].company
<1>1. Quiet /\ UNCHANGED <<dict, refresh, tried, lookup>> /\ req[r].pc = "cell" /\ cell[c] # "busy"
  BY Zenon DEF GetFetcher, Quiet
<1>2. c \in Companies /\ cell \in [Companies -> {"empty", "busy", "ready"}]
  BY <1>1, Shapes, Zenon DEF Typed
<1>3. \/ /\ cell[c] = "empty" /\ Reverse /\ Goto(r, "load") /\ cell' = [cell EXCEPT ![c] = "busy"]
      \/ /\ ~(cell[c] = "empty" /\ Reverse) /\ Goto(r, "visible")
         /\ cell' = [cell EXCEPT ![c] = "ready"]
  BY Zenon DEF GetFetcher
<1>4. CacheTyped'
  <2>1. cell' \in [Companies -> {"empty", "busy", "ready"}]
    BY <1>2, <1>3, Zenon
  <2> QED
    BY <1>1, <2>1, TypedParts, Zenon DEF CacheTyped
<1>5. ReqTyped'
  BY <1>2, <1>3, GotoFields, FilterState, Returns, Zenon DEF Keeps
<1> QED
  BY <1>1, <1>2, <1>3, <1>4, <1>5, QuietTyped, TypedNext, Zenon

LEMMA LoadFailsFields ==
    ASSUME Typed, NEW r \in Requests, LoadFails(r)
    PROVE  /\ Quiet /\ UNCHANGED <<dict, refresh, tried, lookup>> /\ Typed'
           /\ req[r].pc = "load" /\ req[r].company \in Companies
           /\ cell'[req[r].company] = "empty"
           /\ \A c \in Companies \ {req[r].company} : cell'[c] = cell[c]
           /\ Others(r) /\ req'[r] = NoRequest
<1> DEFINE c == req[r].company
<1>1. /\ Quiet /\ UNCHANGED <<dict, refresh, tried, lookup>> /\ req[r].pc = "load"
      /\ Others(r) /\ req'[r] = NoRequest
  BY FailFields, Zenon DEF LoadFails, Fail, Quiet
<1>2. c \in Companies /\ cell \in [Companies -> {"empty", "busy", "ready"}]
  BY <1>1, Shapes, Zenon DEF Typed
<1>3. cell' = [cell EXCEPT ![c] = "empty"]
  BY Zenon DEF LoadFails
<1>4. CacheTyped'
  <2>1. cell' \in [Companies -> {"empty", "busy", "ready"}]
    BY <1>2, <1>3, Zenon
  <2> QED
    BY <1>1, <2>1, TypedParts, Zenon DEF CacheTyped
<1>5. ReqTyped'
  BY <1>1, Returns, Zenon
<1> QED
  BY <1>1, <1>2, <1>3, <1>4, <1>5, QuietTyped, TypedNext, Zenon

LEMMA LoadFields ==
    ASSUME Typed, NEW r \in Requests, Load(r)
    PROVE  /\ Quiet /\ UNCHANGED <<refresh, tried, lookup>> /\ Typed'
           /\ req[r].pc = "load" /\ req[r].company \in Companies
           /\ cell'[req[r].company] = "ready" /\ dict'[req[r].company] = Names(req[r].company)
           /\ \A c \in Companies \ {req[r].company} : cell'[c] = cell[c] /\ dict'[c] = dict[c]
           /\ Goto(r, "visible")
<1> DEFINE c == req[r].company
<1>1. /\ Quiet /\ UNCHANGED <<refresh, tried, lookup>> /\ req[r].pc = "load" /\ Goto(r, "visible")
  BY Zenon DEF Load, Quiet
<1>2. /\ c \in Companies /\ cell \in [Companies -> {"empty", "busy", "ready"}]
      /\ dict \in [Companies -> Dictionary]
  BY <1>1, Shapes, Zenon DEF Typed, Dictionary
<1>3. cell' = [cell EXCEPT ![c] = "ready"] /\ dict' = [dict EXCEPT ![c] = Names(c)]
  BY Zenon DEF Load
<1>4. CacheTyped'
  <2>1. cell' \in [Companies -> {"empty", "busy", "ready"}]
    BY <1>2, <1>3, Zenon
  <2>2. Names(c) \in Dictionary
    BY <1>2, NamesOf, Zenon DEF Dictionary
  <2>3. dict' \in [Companies -> Dictionary]
    BY <1>2, <1>3, <2>2, Zenon
  <2> QED
    BY <1>1, <2>1, <2>3, TypedParts, Zenon DEF CacheTyped
<1>5. ReqTyped'
  BY <1>1, <1>2, GotoFields, FilterState, Returns, Zenon DEF Keeps
<1> QED
  BY <1>1, <1>2, <1>3, <1>4, <1>5, QuietTyped, TypedNext, Zenon

LEMMA NameTokensCache ==
    ASSUME Typed, NEW r \in Requests, NameTokens(r)
    PROVE  /\ Quiet /\ UNCHANGED <<cell, dict, refresh>> /\ Typed'
           /\ req[r].pc = "names" /\ req[r].company \in Companies
           /\ \A c \in Companies, t \in Tokens :
                lookup'[<<c, t>>] = lookup[<<c, t>>] \/ lookup'[<<c, t>>] = "ask"
<1> DEFINE c == req[r].company
           lacking == {t \in req[r].tokens : dict[c][t] = Unknown} \ tried[c]
           Asks(x) == IF x[1] = c /\ x[2] \in lacking THEN "ask" ELSE lookup[x]
<1>1. Quiet /\ UNCHANGED <<cell, dict, refresh>> /\ req[r].pc = "names"
  BY Zenon DEF NameTokens, Quiet
<1>2. /\ c \in Companies /\ tried \in [Companies -> SUBSET Tokens] /\ req[r].tokens \subseteq Tokens
      /\ lookup \in [Companies \X Tokens -> {"none", "ask"} \cup Lists]
  BY <1>1, Shapes, Zenon DEF Typed, TypeOK
<1>3. /\ tried' = [tried EXCEPT ![c] = @ \cup lacking]
      /\ lookup' = [x \in Companies \X Tokens |-> Asks(x)]
  BY <1>2, Zenon DEF NameTokens
<1>4. lacking \subseteq Tokens
  BY <1>2, Zenon
<1> HIDE DEF lacking
<1>5. ASSUME NEW x \in Companies \X Tokens
      PROVE  Asks(x) \in {"none", "ask"} \cup Lists /\ (Asks(x) = lookup[x] \/ Asks(x) = "ask")
  BY <1>2, Zenon
<1> HIDE DEF Asks
<1>6. /\ lookup' \in [Companies \X Tokens -> {"none", "ask"} \cup Lists]
      /\ \A x \in Companies \X Tokens : lookup'[x] = Asks(x)
  BY <1>3, <1>5, Zenon
<1>7. tried' \in [Companies -> SUBSET Tokens]
  BY <1>2, <1>3, <1>4, Zenon
<1>8. CacheTyped'
  BY <1>1, <1>6, <1>7, TypedParts, Zenon DEF CacheTyped
<1>9. ReqTyped'
  BY <1>2, NameTokensFields, Returns, Zenon DEF Keeps
<1>10. \A d \in Companies, t \in Tokens : <<d, t>> \in Companies \X Tokens
  BY Zenon
<1> QED
  BY <1>1, <1>2, <1>5, <1>6, <1>8, <1>9, <1>10, QuietTyped, TypedNext, Zenon

-----------------------------------------------------------------------------
(* The steps of the cache *)

\* The requests as they were, too.
Apart == Quiet /\ req' = req

LEMMA ApartTyped == Typed /\ Apart /\ CacheTyped' => Typed'
<1> SUFFICES ASSUME Typed, Apart, CacheTyped' PROVE Typed'
  BY Zenon
<1>1. ReqTyped'
  BY TypedParts, Zenon DEF Apart, ReqTyped
<1> QED
  BY <1>1, QuietTyped, TypedNext, Zenon DEF Apart

LEMMA RefreshFields ==
    ASSUME Typed, NEW c \in Companies, RefreshStep(c)
    PROVE  /\ Apart /\ UNCHANGED <<cell, tried, lookup>> /\ Typed'
           /\ \A d \in Companies \ {c} : refresh'[d] = refresh[d] /\ dict'[d] = dict[d]
           /\ \/ /\ cell[c] = "ready" /\ dict'[c] = dict[c] /\ refresh[c].pc = "idle"
                 /\ refresh'[c].pc = "locked" /\ refresh'[c].snap = refresh[c].snap
              \/ /\ refresh[c].pc = "locked" /\ dict'[c] = dict[c]
                 /\ refresh'[c].pc = "loaded" /\ refresh'[c].snap = Names(c)
              \/ refresh[c].pc = "locked" /\ dict'[c] = dict[c] /\ refresh'[c] = Resting
              \/ /\ refresh[c].pc = "loaded" /\ dict'[c] = refresh[c].snap
                 /\ refresh'[c] = Resting
<1>1. Apart /\ UNCHANGED <<cell, tried, lookup>>
  BY Zenon DEF RefreshStep, RefreshStart, RefreshLoad, RefreshFails, RefreshStore, Apart, Quiet
<1>2. /\ refresh \in [Companies -> Refreshing] /\ dict \in [Companies -> Dictionary]
      /\ refresh[c] \in Refreshing /\ refresh[c].snap \in Dictionary
  <2>1. refresh \in [Companies -> Refreshing] /\ dict \in [Companies -> Dictionary]
    BY TypedParts, Zenon DEF CacheTyped
  <2>2. refresh[c] \in Refreshing
    BY <2>1, Zenon
  <2> QED
    BY <2>1, <2>2, Zenon DEF Refreshing
<1>3. Resting \in Refreshing /\ Resting.pc = "idle" /\ Resting.snap = NoNames
  <2>1. NoNames \in Dictionary
    BY Zenon DEF NoNames, Dictionary
  <2> QED
    BY <2>1, Zenon DEF Resting, Refreshing
<1>4. ASSUME NEW rec \in Refreshing, refresh' = [refresh EXCEPT ![c] = rec]
      PROVE  /\ refresh' \in [Companies -> Refreshing] /\ refresh'[c] = rec
             /\ \A d \in Companies \ {c} : refresh'[d] = refresh[d]
  BY <1>2, <1>4, Zenon
<1>5. CASE RefreshStart(c)
  <2> DEFINE rec == [refresh[c] EXCEPT !.pc = "locked"]
  <2>1. rec \in Refreshing /\ rec.pc = "locked" /\ rec.snap = refresh[c].snap
    BY <1>2, Zenon DEF Refreshing
  <2>2. /\ refresh' = [refresh EXCEPT ![c] = rec] /\ cell[c] = "ready" /\ refresh[c].pc = "idle"
        /\ dict' = dict
    BY <1>5, Zenon DEF RefreshStart
  <2> HIDE DEF rec
  <2>3. /\ refresh' \in [Companies -> Refreshing] /\ refresh'[c] = rec
        /\ \A d \in Companies \ {c} : refresh'[d] = refresh[d]
    BY <1>4, <2>1, <2>2, Zenon
  <2>4. CacheTyped'
    BY <1>1, <2>2, <2>3, TypedParts, Zenon DEF CacheTyped
  <2> QED
    BY <1>1, <2>1, <2>2, <2>3, <2>4, ApartTyped, Zenon
<1>6. CASE RefreshLoad(c)
  <2> DEFINE rec == [pc |-> "loaded", snap |-> Names(c)]
  <2>0. Names(c) \in Dictionary
    BY NamesOf, Zenon DEF Dictionary
  <2>1. rec \in Refreshing /\ rec.pc = "loaded" /\ rec.snap = Names(c)
    BY <2>0, Zenon DEF Refreshing
  <2>2. refresh' = [refresh EXCEPT ![c] = rec] /\ refresh[c].pc = "locked" /\ dict' = dict
    BY <1>6, Zenon DEF RefreshLoad
  <2> HIDE DEF rec
  <2>3. /\ refresh' \in [Companies -> Refreshing] /\ refresh'[c] = rec
        /\ \A d \in Companies \ {c} : refresh'[d] = refresh[d]
    BY <1>4, <2>1, <2>2, Zenon
  <2>4. CacheTyped'
    BY <1>1, <2>2, <2>3, TypedParts, Zenon DEF CacheTyped
  <2> QED
    BY <1>1, <2>1, <2>2, <2>3, <2>4, ApartTyped, Zenon
<1>7. CASE RefreshFails(c) \/ RefreshStore(c)
  <2>1. refresh' = [refresh EXCEPT ![c] = Resting]
    BY <1>7, Zenon DEF RefreshFails, RefreshStore
  <2>2. /\ refresh' \in [Companies -> Refreshing] /\ refresh'[c] = Resting
        /\ \A d \in Companies \ {c} : refresh'[d] = refresh[d]
    BY <1>3, <1>4, <2>1, Zenon
  <2>3. \/ refresh[c].pc = "locked" /\ dict' = dict
        \/ refresh[c].pc = "loaded" /\ dict' = [dict EXCEPT ![c] = refresh[c].snap]
    BY <1>7, Zenon DEF RefreshFails, RefreshStore
  <2>4. /\ dict' \in [Companies -> Dictionary]
        /\ \A d \in Companies \ {c} : dict'[d] = dict[d]
        /\ \/ refresh[c].pc = "locked" /\ dict'[c] = dict[c]
           \/ refresh[c].pc = "loaded" /\ dict'[c] = refresh[c].snap
    BY <1>2, <2>3, Zenon
  <2>5. CacheTyped'
    BY <1>1, <2>2, <2>4, TypedParts, Zenon DEF CacheTyped
  <2> QED
    BY <1>1, <2>2, <2>4, <2>5, ApartTyped, Zenon
<1> QED
  BY <1>5, <1>6, <1>7, Zenon DEF RefreshStep

LEMMA LookUpFields ==
    ASSUME Typed, NEW c \in Companies, NEW t \in Tokens, LookUpStep(c, t) \/ RetryDue(c, t)
    PROVE  /\ Apart /\ UNCHANGED <<cell, refresh>> /\ Typed'
           /\ \A d \in Companies, u \in Tokens : <<d, u>> # <<c, t>> =>
                lookup'[<<d, u>>] = lookup[<<d, u>>] /\ dict'[d][u] = dict[d][u]
           /\ \/ dict'[c][t] = dict[c][t] /\ lookup'[<<c, t>>] \in {"none", Names(c)[t], lookup[<<c, t>>]}
              \/ /\ refresh[c].pc = "idle" /\ dict'[c][t] = lookup[<<c, t>>]
                 /\ lookup[<<c, t>>] \in Lists /\ lookup'[<<c, t>>] = "none"
<1> DEFINE Asked == {"none", "ask"} \cup Lists
<1>1. Apart /\ UNCHANGED <<cell, refresh>>
  BY Zenon DEF LookUpStep, LookUp, LookUpFails, Learn, RetryDue, Apart, Quiet
<1>2. /\ lookup \in [Companies \X Tokens -> Asked] /\ tried \in [Companies -> SUBSET Tokens]
      /\ dict \in [Companies -> Dictionary] /\ dict[c] \in Dictionary
      /\ <<c, t>> \in Companies \X Tokens
      /\ \A d \in Companies, u \in Tokens : <<d, u>> \in Companies \X Tokens
  <2>1. /\ lookup \in [Companies \X Tokens -> Asked] /\ tried \in [Companies -> SUBSET Tokens]
        /\ dict \in [Companies -> Dictionary]
    BY TypedParts, Zenon DEF CacheTyped
  <2>2. /\ <<c, t>> \in Companies \X Tokens
        /\ \A d \in Companies, u \in Tokens : <<d, u>> \in Companies \X Tokens
    BY Zenon
  <2> QED
    BY <2>1, <2>2, Zenon
<1>3. tried' \in [Companies -> SUBSET Tokens]
  <2>1. tried' = tried \/ tried' = [tried EXCEPT ![c] = @ \ {t}]
    BY Zenon DEF LookUpStep, LookUp, LookUpFails, Learn, RetryDue
  <2> QED
    BY <1>2, <2>1, Zenon
<1>4. ASSUME NEW x \in Asked, lookup' = [lookup EXCEPT ![<<c, t>>] = x]
      PROVE  /\ lookup' \in [Companies \X Tokens -> Asked] /\ lookup'[<<c, t>>] = x
             /\ \A d \in Companies, u \in Tokens : <<d, u>> # <<c, t>> => lookup'[<<d, u>>] = lookup[<<d, u>>]
  BY <1>2, <1>4, Zenon
<1>5. CASE LookUp(c, t) \/ LookUpFails(c, t) \/ RetryDue(c, t)
  <2>1. dict' = dict
    BY <1>5, Zenon DEF LookUp, LookUpFails, RetryDue
  <2>2. \/ lookup' = lookup
        \/ \E x \in Asked : x \in {"none", Names(c)[t]} /\ lookup' = [lookup EXCEPT ![<<c, t>>] = x]
    <3>1. CASE LookUp(c, t)
      <4> DEFINE x == IF Names(c)[t] = Unknown THEN "none" ELSE Names(c)[t]
      <4>1. lookup' = [lookup EXCEPT ![<<c, t>>] = x]
        BY <3>1, Zenon DEF LookUp
      <4>2. Names(c)[t] \in Lists \cup {Unknown}
        BY NamesOf, Zenon
      <4>3. x \in Asked /\ x \in {"none", Names(c)[t]}
        BY <4>2, Zenon
      <4> QED
        BY <4>1, <4>3, Zenon
    <3>2. CASE LookUpFails(c, t)
      BY <3>2, Zenon DEF LookUpFails
    <3>3. CASE RetryDue(c, t)
      BY <3>3, Zenon DEF RetryDue
    <3> QED
      BY <1>5, <3>1, <3>2, <3>3, Zenon
  <2>3. /\ lookup' \in [Companies \X Tokens -> Asked]
        /\ lookup'[<<c, t>>] \in {"none", Names(c)[t], lookup[<<c, t>>]}
        /\ \A d \in Companies, u \in Tokens : <<d, u>> # <<c, t>> => lookup'[<<d, u>>] = lookup[<<d, u>>]
    BY <1>2, <1>4, <2>2, Zenon
  <2>4. CacheTyped'
    BY <1>1, <1>3, <2>1, <2>3, TypedParts, Zenon DEF CacheTyped
  <2> QED
    BY <1>1, <2>1, <2>3, <2>4, ApartTyped, Zenon
<1>6. CASE Learn(c, t)
  <2>1. /\ lookup[<<c, t>>] \in Lists /\ refresh[c].pc = "idle"
        /\ dict' = [dict EXCEPT ![c] = [dict[c] EXCEPT ![t] = lookup[<<c, t>>]]]
        /\ lookup' = [lookup EXCEPT ![<<c, t>>] = "none"]
    BY <1>6, Zenon DEF Learn, Locked
  <2>2. /\ lookup' \in [Companies \X Tokens -> Asked] /\ lookup'[<<c, t>>] = "none"
        /\ \A d \in Companies, u \in Tokens : <<d, u>> # <<c, t>> => lookup'[<<d, u>>] = lookup[<<d, u>>]
    BY <1>4, <2>1, Zenon
  <2> DEFINE new == [dict[c] EXCEPT ![t] = lookup[<<c, t>>]]
  <2>3. /\ new \in Dictionary /\ new[t] = lookup[<<c, t>>]
        /\ \A u \in Tokens \ {t} : new[u] = dict[c][u]
    BY <1>2, <2>1, Zenon DEF Dictionary
  <2>4. dict' = [dict EXCEPT ![c] = new]
    BY <2>1, Zenon
  <2> HIDE DEF new
  <2>5. /\ dict' \in [Companies -> Dictionary] /\ dict'[c] = new
        /\ \A d \in Companies \ {c} : dict'[d] = dict[d]
    BY <1>2, <2>3, <2>4, Zenon
  <2>6. \A d \in Companies, u \in Tokens : <<d, u>> # <<c, t>> => dict'[d][u] = dict[d][u]
    BY <2>3, <2>5, Zenon
  <2>7. CacheTyped'
    BY <1>1, <1>3, <2>2, <2>5, TypedParts, Zenon DEF CacheTyped
  <2>8. Typed'
    BY <1>1, <2>7, ApartTyped, Zenon
  <2>9. dict'[c][t] = lookup[<<c, t>>]
    BY <2>3, <2>5, Zenon
  <2> QED
    BY <1>1, <2>1, <2>2, <2>6, <2>8, <2>9
<1> QED
  BY <1>5, <1>6, Zenon DEF LookUpStep

-----------------------------------------------------------------------------
(* The steps around the reader *)

\* The cache stays, and the requests are told.
Outside == UNCHANGED <<setup, cacheVars>> /\ \A r \in Requests : Watched(r)

LEMMA OutsideTyped ==
    ASSUME Typed, UNCHANGED <<setup, cacheVars>>, Observe, RedisTyped',
           company' \in Companies \cup {Unknown}, visible' \in SUBSET Lists
    PROVE  Outside /\ Typed'
<1>1. Members' \subseteq Pairs
  BY Zenon DEF Members
<1>2. req' \in [Requests -> RequestRecord] /\ \A r \in Requests : Watched(r)
  BY <1>1, ObserveFields, Zenon
<1>3. ReqTyped'
  BY <1>2, Zenon DEF ReqTyped, Watched, Typed
<1>4. KeyTyped' /\ CacheTyped'
  BY CacheSame, TypedParts, Zenon DEF KeyTyped
<1> QED
  BY <1>2, <1>3, <1>4, TypedNext, Zenon DEF Outside

LEMMA KeyFields ==
    ASSUME Typed, Discover \/ CompanyChanges \/ ManifestChanges
    PROVE  Outside /\ Typed' /\ UNCHANGED redisVars
<1>1. UNCHANGED <<setup, cacheVars>> /\ Observe /\ UNCHANGED redisVars
  BY Zenon DEF Discover, CompanyChanges, ManifestChanges
<1>2. RedisTyped'
  BY <1>1, TypedParts, Zenon DEF RedisTyped, redisVars
<1>3. setup.companies \subseteq Companies /\ setup.lists \subseteq Lists
  BY Numbers, TypedParts, Zenon DEF KeyTyped
<1>4. company' \in Companies \cup {Unknown} /\ visible' \in SUBSET Lists
  BY <1>3, TypedParts, Zenon DEF KeyTyped, Discover, CompanyChanges, ManifestChanges
<1> QED
  BY <1>1, <1>2, <1>4, OutsideTyped, Zenon

LEMMA TokenFields ==
    ASSUME Typed, NEW c \in Companies, NEW l \in Lists, TokenChanges(c, l)
    PROVE  /\ Outside /\ Typed' /\ UNCHANGED <<keyVars, set>>
           /\ \A p \in Pairs \ {<<c, l>>} : token'[p] = token[p]
           /\ \A d \in Companies \ {c} : given'[d] = given[d] /\ rev'[d] = rev[d]
           /\ \/ /\ Reverse /\ token[<<c, l>>] = 0 /\ token'[<<c, l>>] = given[c] + 1
                 /\ given'[c] = given[c] + 1 /\ rev'[c] = rev[c]
              \/ /\ token'[<<c, l>>] = token[<<c, l>>] /\ given'[c] = given[c] /\ token[<<c, l>>] # 0
                 /\ rev'[c] \in {rev[c] \ {token[<<c, l>>]}, rev[c] \cup {token[<<c, l>>]}}
              \/ /\ token[<<c, l>>] \notin rev[c] /\ token'[<<c, l>>] = 0
                 /\ given'[c] = given[c] /\ rev'[c] = rev[c] /\ token[<<c, l>>] # 0
<1> DEFINE t == token[<<c, l>>]
<1>1. /\ <<c, l>> \in Pairs /\ token \in [Pairs -> 0..MaxToken] /\ t \in 0..MaxToken
      /\ given \in [Companies -> 0..MaxToken] /\ rev \in [Companies -> SUBSET Tokens]
      /\ set \in [Pairs -> SetRecord]
  BY Parts, TypedParts, Zenon DEF RedisTyped
<1>2. UNCHANGED <<setup, cacheVars>> /\ Observe /\ UNCHANGED <<keyVars, set>>
  BY Zenon DEF TokenChanges
<1>3. /\ token' \in [Pairs -> 0..MaxToken]
      /\ given' \in [Companies -> 0..MaxToken] /\ rev' \in [Companies -> SUBSET Tokens]
      /\ \A p \in Pairs \ {<<c, l>>} : token'[p] = token[p]
      /\ \A d \in Companies \ {c} : given'[d] = given[d] /\ rev'[d] = rev[d]
      /\ \/ /\ Reverse /\ t = 0 /\ token'[<<c, l>>] = given[c] + 1
            /\ given'[c] = given[c] + 1 /\ rev'[c] = rev[c]
         \/ /\ token'[<<c, l>>] = t /\ given'[c] = given[c] /\ t # 0
            /\ rev'[c] \in {rev[c] \ {t}, rev[c] \cup {t}}
         \/ /\ t \notin rev[c] /\ token'[<<c, l>>] = 0
            /\ given'[c] = given[c] /\ rev'[c] = rev[c] /\ t # 0
  <2>1. CASE Allocate(c, l) /\ UNCHANGED rev
    <3>1. given[c] \in 0..MaxToken /\ given[c] < MaxToken
      BY <1>1, <2>1, Zenon DEF Allocate
    <3>2. given[c] + 1 \in 0..MaxToken
      BY <3>1, Numbers
    <3>3. /\ given' = [given EXCEPT ![c] = given[c] + 1]
          /\ token' = [token EXCEPT ![<<c, l>>] = given[c] + 1] /\ Reverse /\ t = 0 /\ rev' = rev
      BY <2>1, Zenon DEF Allocate
    <3> QED
      BY <1>1, <3>2, <3>3, Zenon
  <2>2. CASE /\ t # 0
             /\ rev' = [rev EXCEPT ![c] = IF t \in @ THEN @ \ {t} ELSE @ \cup {t}]
             /\ UNCHANGED <<token, given>>
    <3>1. rev' = [rev EXCEPT ![c] = IF t \in rev[c] THEN rev[c] \ {t} ELSE rev[c] \cup {t}]
      BY <2>2, Zenon
    <3>2. \E x \in SUBSET Tokens : x \in {rev[c] \ {t}, rev[c] \cup {t}} /\ rev' = [rev EXCEPT ![c] = x]
      <4>1. t \in Tokens
        BY <1>1, <2>2, Numbers DEF Tokens
      <4>2. rev[c] \in SUBSET Tokens
        BY <1>1, Zenon
      <4> QED
        BY <3>1, <4>1, <4>2, Zenon
    <3> QED
      BY <1>1, <2>2, <3>2, Zenon
  <2>3. CASE /\ t # 0 /\ t \notin rev[c]
             /\ token' = [token EXCEPT ![<<c, l>>] = 0] /\ UNCHANGED <<given, rev>>
    <3>1. 0 \in 0..MaxToken
      BY Numbers
    <3> QED
      BY <1>1, <2>3, <3>1, Zenon
  <2> QED
    BY <2>1, <2>2, <2>3, Zenon DEF TokenChanges
<1>4. RedisTyped'
  BY <1>1, <1>2, <1>3, Zenon DEF RedisTyped
<1>5. company' \in Companies \cup {Unknown} /\ visible' \in SUBSET Lists
  BY <1>2, TypedParts, Zenon DEF KeyTyped, keyVars
<1>6. Outside /\ Typed'
  BY <1>2, <1>4, <1>5, OutsideTyped, Zenon
<1> QED
  BY <1>2, <1>3, <1>6, Zenon

\* What a step makes of the set of a list.
SetMoves(c, l) ==
  LET s == set[<<c, l>>]
      n == set'[<<c, l>>]
  IN
  \/ /\ s.loading = 0 /\ n.version = s.version /\ n.holds = s.holds
     /\ n.loading # 0 /\ n.loading > s.version /\ Unread(l, n.loading)
  \/ s.loading # 0 /\ n.version = s.loading /\ n.loading = 0 /\ n.holds = s.holds
  \/ /\ n.version = s.version /\ n.loading = s.loading
     /\ \E v \in {s.version, s.loading} \ {0} : n.holds \in {s.holds \ {v}, s.holds \cup {v}}
  \/ /\ n.version = s.version /\ n.loading = s.loading
     /\ \E v \in s.holds \ {s.version, s.loading} : Unread(l, v) /\ n.holds = s.holds \ {v}
  \/ n.version = 0 /\ n.loading = 0 /\ n.holds = {}

LEMMA SetUpdates ==
    ASSUME NEW s \in SetRecord
    PROVE  /\ \A x : [s EXCEPT !.loading = x] = [version |-> s.version, loading |-> x, holds |-> s.holds]
           /\ \A x : [s EXCEPT !.holds = x] = [version |-> s.version, loading |-> s.loading, holds |-> x]
           /\ [s EXCEPT !.version = s.loading, !.loading = 0]
                = [version |-> s.loading, loading |-> 0, holds |-> s.holds]
<1>1. ASSUME NEW x PROVE [s EXCEPT !.loading = x] = [version |-> s.version, loading |-> x, holds |-> s.holds]
  BY DEF SetRecord
<1>2. ASSUME NEW x PROVE [s EXCEPT !.holds = x] = [version |-> s.version, loading |-> s.loading, holds |-> x]
  BY DEF SetRecord
<1>3. [s EXCEPT !.version = s.loading, !.loading = 0]
        = [version |-> s.loading, loading |-> 0, holds |-> s.holds]
  <2> DEFINE u == [s EXCEPT !.version = s.loading]
  <2>1. u = [version |-> s.loading, loading |-> s.loading, holds |-> s.holds]
    BY DEF SetRecord
  <2>2. [s EXCEPT !.version = s.loading, !.loading = 0] = [u EXCEPT !.loading = 0]
    BY Zenon
  <2>3. [u EXCEPT !.loading = 0] = [version |-> s.loading, loading |-> 0, holds |-> s.holds]
    <3> HIDE DEF u
    <3> QED
      BY <2>1
  <2> QED
    BY <2>2, <2>3, Zenon
<1> QED
  BY <1>1, <1>2, <1>3, Zenon

LEMMA SetFields ==
    ASSUME Typed, NEW c \in Companies, NEW l \in Lists, SetChanges(c, l)
    PROVE  /\ Outside /\ Typed' /\ ~Reverse /\ UNCHANGED <<keyVars, token, given, rev>>
           /\ \A p \in Pairs \ {<<c, l>>} : set'[p] = set[p]
           /\ SetMoves(c, l)
<1> DEFINE s == set[<<c, l>>]
           next == IF s.version > s.loading THEN s.version + 1 ELSE s.loading + 1
<1>1. <<c, l>> \in Pairs /\ set \in [Pairs -> SetRecord]
  BY Parts, TypedParts, Zenon DEF RedisTyped
<1>2. /\ s \in SetRecord /\ s.version \in 0..MaxVersion /\ s.loading \in 0..MaxVersion
      /\ s.holds \in SUBSET Versions
  BY SetShapes, Zenon
<1>3. UNCHANGED <<setup, cacheVars>> /\ Observe /\ ~Reverse /\ UNCHANGED <<keyVars, token, given, rev>>
  BY Zenon DEF SetChanges
<1>4. ASSUME NEW v \in 0..MaxVersion, NEW w \in 0..MaxVersion, NEW h \in SUBSET Versions
      PROVE  LET new == [version |-> v, loading |-> w, holds |-> h]
             IN  new \in SetRecord /\ new.version = v /\ new.loading = w /\ new.holds = h
  BY Zenon DEF SetRecord
<1>6. /\ \A x : [s EXCEPT !.loading = x] = [version |-> s.version, loading |-> x, holds |-> s.holds]
      /\ \A x : [s EXCEPT !.holds = x] = [version |-> s.version, loading |-> s.loading, holds |-> x]
      /\ [s EXCEPT !.version = s.loading, !.loading = 0]
           = [version |-> s.loading, loading |-> 0, holds |-> s.holds]
  BY <1>2, SetUpdates, Zenon
<1>7. 0 \in 0..MaxVersion /\ {} \in SUBSET Versions
  BY Numbers
<1>8. ASSUME NEW new \in SetRecord, set' = [set EXCEPT ![<<c, l>>] = new]
      PROVE  /\ set' \in [Pairs -> SetRecord] /\ set'[<<c, l>>] = new
             /\ \A p \in Pairs \ {<<c, l>>} : set'[p] = set[p]
  BY <1>1, <1>8, Zenon
<1>9. /\ set' \in [Pairs -> SetRecord] /\ \A p \in Pairs \ {<<c, l>>} : set'[p] = set[p]
      /\ SetMoves(c, l)
  <2>1. CASE /\ s.loading = 0 /\ next \in Versions /\ Unread(l, next)
             /\ set' = [set EXCEPT ![<<c, l>>] = [s EXCEPT !.loading = next]]
    <3>1. next \in 0..MaxVersion /\ next > s.version /\ next # 0
      BY <1>2, <2>1, Numbers DEF Versions
    <3> HIDE DEF next
    <3> DEFINE new == [version |-> s.version, loading |-> next, holds |-> s.holds]
    <3>2. new \in SetRecord /\ new.version = s.version /\ new.loading = next /\ new.holds = s.holds
      BY <1>2, <1>4, <3>1, Zenon
    <3>3. set' = [set EXCEPT ![<<c, l>>] = new]
      BY <1>6, <2>1, Zenon
    <3> HIDE DEF new
    <3>4. /\ set' \in [Pairs -> SetRecord] /\ set'[<<c, l>>] = new
          /\ \A p \in Pairs \ {<<c, l>>} : set'[p] = set[p]
      BY <1>8, <3>2, <3>3, Zenon
    <3> QED
      BY <2>1, <3>1, <3>2, <3>4, Zenon DEF SetMoves
  <2>2. CASE /\ s.loading # 0
             /\ set' = [set EXCEPT ![<<c, l>>] = [s EXCEPT !.version = s.loading, !.loading = 0]]
    <3> DEFINE new == [version |-> s.loading, loading |-> 0, holds |-> s.holds]
    <3>2. new \in SetRecord /\ new.version = s.loading /\ new.loading = 0 /\ new.holds = s.holds
      BY <1>2, <1>4, <1>7, Zenon
    <3>3. set' = [set EXCEPT ![<<c, l>>] = new]
      BY <1>6, <2>2, Zenon
    <3> HIDE DEF new
    <3>4. /\ set' \in [Pairs -> SetRecord] /\ set'[<<c, l>>] = new
          /\ \A p \in Pairs \ {<<c, l>>} : set'[p] = set[p]
      BY <1>8, <3>2, <3>3, Zenon
    <3> QED
      BY <2>2, <3>2, <3>4, Zenon DEF SetMoves
  <2>3. ASSUME NEW h \in SUBSET Versions, set' = [set EXCEPT ![<<c, l>>] = [s EXCEPT !.holds = h]]
        PROVE  /\ set' \in [Pairs -> SetRecord]
               /\ \A p \in Pairs \ {<<c, l>>} : set'[p] = set[p]
               /\ set'[<<c, l>>].version = s.version /\ set'[<<c, l>>].loading = s.loading
               /\ set'[<<c, l>>].holds = h
    <3> DEFINE new == [version |-> s.version, loading |-> s.loading, holds |-> h]
    <3>2. new \in SetRecord /\ new.version = s.version /\ new.loading = s.loading /\ new.holds = h
      BY <1>2, <1>4, Zenon
    <3>3. set' = [set EXCEPT ![<<c, l>>] = new]
      BY <1>6, <2>3, Zenon
    <3> HIDE DEF new
    <3> QED
      BY <1>8, <3>2, <3>3, Zenon
  <2>4. CASE \E v \in {s.version, s.loading} \ {0} :
               set' = [set EXCEPT ![<<c, l>>] =
                         [s EXCEPT !.holds = IF v \in @ THEN @ \ {v} ELSE @ \cup {v}]]
    <3>1. PICK v \in {s.version, s.loading} \ {0} :
               set' = [set EXCEPT ![<<c, l>>] =
                         [s EXCEPT !.holds = IF v \in s.holds THEN s.holds \ {v} ELSE s.holds \cup {v}]]
      BY <2>4, Zenon
    <3> DEFINE h == IF v \in s.holds THEN s.holds \ {v} ELSE s.holds \cup {v}
    <3>2. v \in Versions
      BY <1>2 DEF Versions
    <3>3. h \in SUBSET Versions /\ h \in {s.holds \ {v}, s.holds \cup {v}}
      BY <1>2, <3>2, Zenon
    <3>4. set' = [set EXCEPT ![<<c, l>>] = [s EXCEPT !.holds = h]]
      BY <3>1, Zenon
    <3> HIDE DEF h
    <3> QED
      BY <2>3, <3>3, <3>4, Zenon DEF SetMoves
  <2>5. CASE \E v \in s.holds \ {s.version, s.loading} :
               Unread(l, v) /\ set' = [set EXCEPT ![<<c, l>>] = [s EXCEPT !.holds = @ \ {v}]]
    <3>1. PICK v \in s.holds \ {s.version, s.loading} :
               Unread(l, v) /\ set' = [set EXCEPT ![<<c, l>>] = [s EXCEPT !.holds = s.holds \ {v}]]
      BY <2>5, Zenon
    <3>2. s.holds \ {v} \in SUBSET Versions
      BY <1>2, Zenon
    <3> QED
      BY <2>3, <3>1, <3>2, Zenon DEF SetMoves
  <2>6. CASE set' = [set EXCEPT ![<<c, l>>] = [version |-> 0, loading |-> 0, holds |-> {}]]
    <3> DEFINE new == [version |-> 0, loading |-> 0, holds |-> {}]
    <3>2. new \in SetRecord /\ new.version = 0 /\ new.loading = 0 /\ new.holds = {}
      BY <1>4, <1>7, Zenon
    <3>3. set' = [set EXCEPT ![<<c, l>>] = new]
      BY <2>6, Zenon
    <3> HIDE DEF new
    <3> QED
      BY <1>8, <3>2, <3>3, Zenon DEF SetMoves
  <2> QED
    BY <2>1, <2>2, <2>4, <2>5, <2>6, Zenon DEF SetChanges
<1>10. RedisTyped'
  BY <1>3, <1>9, TypedParts, Zenon DEF RedisTyped
<1>11. company' \in Companies \cup {Unknown} /\ visible' \in SUBSET Lists
  BY <1>3, TypedParts, Zenon DEF KeyTyped, keyVars
<1>12. Outside /\ Typed'
  BY <1>3, <1>10, <1>11, OutsideTyped, Zenon
<1> QED
  BY <1>3, <1>9, <1>12, Zenon

-----------------------------------------------------------------------------
LEMMA InitTyped == Init => Typed
<1> SUFFICES ASSUME Init PROVE Typed
  BY Zenon
<1>1. KeyTyped
  BY Numbers, Zenon DEF Init, KeyTyped
<1>2. 0 \in 0..MaxToken /\ 0 \in 0..MaxVersion
  BY Numbers
<1>3. [version |-> 0, loading |-> 0, holds |-> {}] \in SetRecord
  BY <1>2, Zenon DEF SetRecord
<1>4. RedisTyped
  BY <1>2, <1>3, Zenon DEF Init, RedisTyped
<1>5. NoNames \in Dictionary
  BY Zenon DEF NoNames, Dictionary
<1>6. Resting \in Refreshing
  BY <1>5, Zenon DEF Resting, Refreshing
<1>7. CacheTyped
  BY <1>5, <1>6, Zenon DEF Init, CacheTyped
<1>8. ReqTyped
  BY NobodysFields, Zenon DEF Init, ReqTyped
<1> QED
  BY <1>1, <1>4, <1>7, <1>8, TypedWhole, Zenon

LEMMA StutterTyped == Typed /\ UNCHANGED vars => Typed'
<1> SUFFICES ASSUME Typed, UNCHANGED vars PROVE Typed'
  BY Zenon
<1>1. Quiet /\ UNCHANGED cacheVars /\ req' = req
  BY Zenon DEF vars, Quiet
<1> QED
  BY <1>1, CacheSame, ApartTyped, Zenon DEF Apart

\* The steps of a request that are not only reads.
LEMMA RequestSteps ==
    ASSUME NEW r \in Requests, Arrive(r) \/ RequestStep(r)
    PROVE  Reads(r) \/ GetFetcher(r) \/ LoadFails(r) \/ Load(r) \/ NameTokens(r)
  BY Zenon DEF RequestStep, Reads

\* The kinds of a step, with the ranges its parameters have.
LEMMA Kinds ==
    ASSUME Typed, Next
    PROVE  \/ \E r \in Requests : Reads(r) \/ GetFetcher(r) \/ LoadFails(r) \/ Load(r) \/ NameTokens(r)
           \/ \E c \in Companies : RefreshStep(c)
           \/ \E c \in Companies, t \in Tokens : LookUpStep(c, t) \/ RetryDue(c, t)
           \/ Discover \/ CompanyChanges \/ ManifestChanges
           \/ \E c \in Companies, l \in Lists : TokenChanges(c, l) \/ SetChanges(c, l)
<1>1. setup.companies \subseteq Companies /\ setup.lists \subseteq Lists
  BY Numbers, TypedParts, Zenon DEF KeyTyped
<1> QED
  BY <1>1, RequestSteps, Zenon DEF Next

LEMMA StepTyped == Typed /\ [Next]_vars => Typed'
<1> SUFFICES ASSUME Typed, Next PROVE Typed'
  BY StutterTyped, Zenon
<1>1. CASE \E r \in Requests : Reads(r) \/ GetFetcher(r) \/ LoadFails(r) \/ Load(r) \/ NameTokens(r)
  BY <1>1, ReadsTyped, GetFetcherFields, LoadFailsFields, LoadFields, NameTokensCache, Zenon
<1>2. CASE \E c \in Companies : RefreshStep(c)
  BY <1>2, RefreshFields, Zenon
<1>3. CASE \E c \in Companies, t \in Tokens : LookUpStep(c, t) \/ RetryDue(c, t)
  BY <1>3, LookUpFields, Zenon
<1>4. CASE Discover \/ CompanyChanges \/ ManifestChanges
  BY <1>4, KeyFields, Zenon
<1>5. CASE \E c \in Companies, l \in Lists : TokenChanges(c, l) \/ SetChanges(c, l)
  BY <1>5, TokenFields, SetFields, Zenon
<1> QED
  BY <1>1, <1>2, <1>3, <1>4, <1>5, Kinds, Zenon

\* The variables keep their types, and a request past its start has a company:
\* the company the key had when CompanyKeyResolver::resolve looked it up.
THEOREM TypeCorrect == Spec => []TypeOK
<1>1. Typed => TypeOK
  BY Zenon DEF Typed
<1> QED
  BY <1>1, InitTyped, StepTyped, PTL DEF Spec

-----------------------------------------------------------------------------
(* The inductive invariant *)

\* Some place names the token: Redis, the dictionary, a snapshot or a lookup.
Says(c, t, l) ==
  token[<<c, l>>] = t \/ dict[c][t] = l \/ refresh[c].snap[t] = l \/ lookup[<<c, t>>] = l

\* A token that is named was given, and has one name everywhere.
TokenInv ==
  \A c \in Companies, t \in Tokens, l \in Lists : Says(c, t, l) =>
    t <= given[c] /\ \A m \in Lists : Says(c, t, m) => m = l

\* A token under the id is the token of a list.
RevInv == \A c \in Companies : \A t \in rev[c] : \E l \in Lists : token[<<c, l>>] = t

\* A version being loaded is newer than the current one.
SetInv ==
  \A c \in Companies, l \in Lists :
    set[<<c, l>>].loading # 0 => set[<<c, l>>].loading > set[<<c, l>>].version

\* The snapshot to be stored forgets no name that still holds.
SnapInv ==
  \A c \in Companies :
    /\ refresh[c].pc # "idle" => cell[c] = "ready"
    /\ refresh[c].pc = "loaded" =>
         \A l \in Lists, t \in Tokens :
           dict[c][t] = l /\ token[<<c, l>>] = t => refresh[c].snap[t] = l

\* One request at most builds the fetcher of a company.
CellInv ==
  \A r \in Requests : req[r].pc = "load" =>
    /\ cell[req[r].company] = "busy"
    /\ \A q \in Requests : req[q].pc = "load" /\ req[q].company = req[r].company => q = r

\* What is noted of a request that runs.
Running(r) ==
  req[r].pc # "idle" =>
    /\ Members \subseteq req[r].held
    /\ req[r].steady \subseteq Members /\ req[r].steady \subseteq Shown
    /\ \A c \in Companies, l \in Lists : <<c, l>> \in req[r].steady =>
         /\ req[r].pc # "scope" => c = req[r].company
         /\ Reverse /\ cell[c] = "ready" => dict[c][token[<<c, l>>]] = l

\* Where the mode and the fetcher put a request.
Reading(r) ==
  /\ req[r].pc \in {"load", "tokens", "names"} => Reverse
  /\ req[r].pc \in {"versions", "sets"} => ~Reverse
  /\ Reverse /\ req[r].pc \in {"visible", "tokens", "names"} => cell[req[r].company] = "ready"
  /\ req[r].pc = "versions" =>
       \A l \in Lists : <<req[r].company, l>> \in req[r].steady => l \in req[r].visible

\* Between the tokens and their names.
TokensRead(r) ==
  req[r].pc = "names" =>
    /\ \A t \in req[r].tokens :
         /\ t <= given[req[r].company]
         /\ \A l \in Lists : Says(req[r].company, t, l) => <<req[r].company, l>> \in req[r].held
    /\ \A l \in Lists : <<req[r].company, l>> \in req[r].steady =>
         token[<<req[r].company, l>>] \in req[r].tokens

\* Between a version and its set.
SetRead(r, l) ==
  LET s == set[<<req[r].company, l>>]
      v == req[r].version[l]
  IN
  /\ v \in s.holds => <<req[r].company, l>> \in req[r].held
  /\ v # 0 /\ s.loading = v => s.version = 0
  /\ <<req[r].company, l>> \in req[r].steady => v \in s.holds

SetsRead(r) == req[r].pc = "sets" => \A l \in Lists : SetRead(r, l)

\* The names that were read.
Told(r) ==
  /\ req[r].pc \notin {"company", "filter"} => req[r].names = {}
  /\ req[r].pc \in {"company", "filter"} =>
       /\ \A l \in req[r].names : <<req[r].company, l>> \in req[r].held
       /\ \A l \in Lists : <<req[r].company, l>> \in req[r].steady => l \in req[r].names

\* What the key was and saw since the last read.
Seen(r) ==
  /\ req[r].pc = "names" \/ (req[r].pc \in {"company", "filter"} /\ req[r].names # {}) =>
       company \in req[r].owners /\ visible \subseteq req[r].shown
  /\ req[r].pc = "filter" /\ req[r].names # {} => req[r].company \in req[r].owners

RequestInv(r) ==
  Running(r) /\ Reading(r) /\ TokensRead(r) /\ SetsRead(r) /\ Told(r) /\ Seen(r)

StoreInv == TokenInv /\ RevInv /\ SetInv /\ SnapInv /\ CellInv

ReaderInv == Typed /\ StoreInv /\ \A r \in Requests : RequestInv(r)

-----------------------------------------------------------------------------
(* Steps that leave Redis and the key alone *)

LEMMA QuietMembers == Quiet => Members' = Members /\ Shown' = Shown /\ Reverse' = Reverse
<1> SUFFICES ASSUME Quiet PROVE Members' = Members /\ Shown' = Shown /\ Reverse' = Reverse
  BY Zenon
<1>1. /\ setup' = setup /\ token' = token /\ rev' = rev /\ set' = set
      /\ company' = company /\ visible' = visible
  BY Zenon DEF Quiet, keyVars, redisVars
<1>2. Members' = Members
  BY <1>1, Zenon DEF Members, Reverse
<1>3. Shown' = Shown /\ Reverse' = Reverse
  BY <1>1, Zenon DEF Shown, Reverse
<1> QED
  BY <1>2, <1>3, Zenon

\* The names in use only become fewer, and a fetcher keeps what it knew.
Gentle ==
  /\ Quiet
  /\ \A c \in Companies, t \in Tokens, l \in Lists : Says(c, t, l)' => Says(c, t, l)
  /\ \A c \in Companies : cell[c] = "ready" => cell'[c] = "ready"
  /\ Reverse => \A c \in Companies, t \in Tokens, l \in Lists :
       cell'[c] = "ready" /\ token[<<c, l>>] = t /\ (cell[c] = "ready" => dict[c][t] = l) =>
         dict'[c][t] = l

LEMMA GentleStore ==
    ASSUME Typed, TokenInv, RevInv, SetInv, Gentle
    PROVE  TokenInv' /\ RevInv' /\ SetInv'
<1>1. token' = token /\ given' = given /\ rev' = rev /\ set' = set
  BY Zenon DEF Gentle, Quiet, redisVars
<1>2. TokenInv'
  BY <1>1, Zenon DEF Gentle, TokenInv
<1>3. RevInv' /\ SetInv'
  BY <1>1, Zenon DEF RevInv, SetInv
<1> QED
  BY <1>2, <1>3, Zenon

LEMMA TokenOfMember ==
    ASSUME Typed, NEW c \in Companies, NEW l \in Lists, <<c, l>> \in Members, Reverse
    PROVE  token[<<c, l>>] \in rev[c] /\ token[<<c, l>>] \in Tokens
<1>1. token[<<c, l>>] \in rev[c]
  BY MemberOf, Zenon DEF Holds
<1>2. rev[c] \in SUBSET Tokens
  BY TypedParts, Zenon DEF RedisTyped
<1> QED
  BY <1>1, <1>2, Zenon

\* What a request keeps whose record the step leaves alone.
LEMMA GentleRequest ==
    ASSUME Typed, Gentle, NEW r \in Requests, RequestInv(r), req'[r] = req[r]
    PROVE  RequestInv(r)'
<1>1. /\ Members' = Members /\ Shown' = Shown /\ Reverse' = Reverse /\ token' = token
      /\ given' = given /\ set' = set /\ company' = company /\ visible' = visible
  BY QuietMembers, Zenon DEF Gentle, Quiet, redisVars, keyVars
<1>2. Running(r)'
  <2>1. CASE req[r].pc = "idle"
    BY <2>1, Zenon DEF Running
  <2>2. CASE req[r].pc # "idle"
    <3>1. ASSUME NEW c \in Companies, NEW l \in Lists, <<c, l>> \in req[r].steady,
                 Reverse, cell'[c] = "ready"
          PROVE  dict'[c][token[<<c, l>>]] = l
      <4>1. token[<<c, l>>] \in Tokens
        BY <2>2, <3>1, TokenOfMember, Zenon DEF RequestInv, Running
      <4>2. cell[c] = "ready" => dict[c][token[<<c, l>>]] = l
        BY <2>2, <3>1, Zenon DEF RequestInv, Running
      <4> QED
        BY <3>1, <4>1, <4>2, Zenon DEF Gentle
    <3> QED
      BY <1>1, <2>2, <3>1, Zenon DEF RequestInv, Running
  <2> QED
    BY <2>1, <2>2, Zenon
<1>3. Reading(r)'
  <2>1. req[r].pc \in {"visible", "tokens", "names"} => req[r].company \in Companies
    BY Zenon DEF Typed
  <2> QED
    BY <1>1, <2>1, Zenon DEF RequestInv, Reading, Gentle
<1>4. TokensRead(r)'
  <2> SUFFICES ASSUME req[r].pc = "names" PROVE TokensRead(r)'
    BY Zenon DEF TokensRead
  <2>1. req[r].company \in Companies /\ req[r].tokens \subseteq Tokens
    BY Zenon DEF Typed, TypeOK
  <2>2. \A t \in req[r].tokens, l \in Lists :
          Says(req[r].company, t, l)' => Says(req[r].company, t, l)
    BY <2>1, Zenon DEF Gentle
  <2> QED
    BY <1>1, <2>2, Zenon DEF RequestInv, TokensRead
<1>5. SetsRead(r)'
  BY <1>1, Zenon DEF RequestInv, SetsRead, SetRead
<1>6. Told(r)' /\ Seen(r)'
  BY <1>1, Zenon DEF RequestInv, Told, Seen
<1> QED
  BY <1>2, <1>3, <1>4, <1>5, <1>6, Zenon DEF RequestInv

LEMMA ReadsGentle ==
    ASSUME Quiet, UNCHANGED cacheVars
    PROVE  Gentle /\ (SnapInv => SnapInv')
<1>1. cell' = cell /\ dict' = dict /\ refresh' = refresh /\ lookup' = lookup /\ token' = token
  BY Zenon DEF Quiet, redisVars, cacheVars
<1>2. \A c \in Companies, t \in Tokens, l \in Lists : Says(c, t, l)' => Says(c, t, l)
  BY <1>1, Zenon DEF Says
<1>3. SnapInv => SnapInv'
  <2> SUFFICES ASSUME SnapInv, NEW c \in Companies
               PROVE  /\ refresh'[c].pc # "idle" => cell'[c] = "ready"
                      /\ refresh'[c].pc = "loaded" =>
                           \A l \in Lists, t \in Tokens :
                             dict'[c][t] = l /\ token'[<<c, l>>] = t => refresh'[c].snap[t] = l
    BY Zenon DEF SnapInv
  <2> QED
    BY <1>1 DEF SnapInv
<1>4. \A c \in Companies, t \in Tokens, l \in Lists :
        cell'[c] = "ready" /\ (cell[c] = "ready" => dict[c][t] = l) => dict'[c][t] = l
  BY <1>1, Zenon
<1>5. \A c \in Companies : cell[c] = "ready" => cell'[c] = "ready"
  BY <1>1, Zenon
<1> QED
  BY <1>2, <1>3, <1>4, <1>5, Zenon DEF Gentle

\* A request that does not start to build leaves the others to build.
LEMMA CellKept ==
    ASSUME Typed, CellInv, NEW r \in Requests, Others(r), req'[r].pc # "load",
           \A c \in Companies :
             cell'[c] = cell[c] \/ cell[c] # "busy" \/ (c = req[r].company /\ req[r].pc = "load")
    PROVE  CellInv'
<1> SUFFICES ASSUME NEW q \in Requests, req'[q].pc = "load"
             PROVE  /\ cell'[req'[q].company] = "busy"
                    /\ \A p \in Requests : req'[p].pc = "load" /\ req'[p].company = req'[q].company => p = q
  BY Zenon DEF CellInv
<1>1. q # r /\ req'[q] = req[q]
  BY Zenon DEF Others
<1>2. req[q].company \in Companies /\ cell[req[q].company] = "busy"
  BY <1>1, Zenon DEF CellInv, Typed
<1>3. ~(req[q].company = req[r].company /\ req[r].pc = "load")
  BY <1>1, Zenon DEF CellInv
<1>4. cell'[req[q].company] = "busy"
  BY <1>2, <1>3, Zenon
<1>5. ASSUME NEW p \in Requests, req'[p].pc = "load", req'[p].company = req'[q].company
      PROVE  p = q
  <2>1. p # r /\ req'[p] = req[p]
    BY <1>5, Zenon DEF Others
  <2> QED
    BY <1>1, <1>5, <2>1, Zenon DEF CellInv
<1> QED
  BY <1>1, <1>4, <1>5, Zenon

LEMMA IdleInv ==
    ASSUME NEW r \in Requests, req'[r] = NoRequest
    PROVE  RequestInv(r)' /\ req'[r].pc # "load"
<1>1. req'[r].pc = "idle" /\ req'[r].names = {}
  BY NobodysFields, Zenon
<1> QED
  BY <1>1, Zenon DEF RequestInv, Running, Reading, TokensRead, SetsRead, Told, Seen

\* A step of a request with its record, company and past kept.
LEMMA RunningKept ==
    ASSUME Typed, Gentle, NEW r \in Requests, Running(r), Keeps(r), req[r].pc \notin {"idle", "scope"}
    PROVE  Running(r)'
<1>1. /\ Members' = Members /\ Shown' = Shown /\ Reverse' = Reverse /\ token' = token
  BY QuietMembers, Zenon DEF Gentle, Quiet, redisVars
<1>2. ASSUME NEW c \in Companies, NEW l \in Lists, <<c, l>> \in req[r].steady
      PROVE  c = req[r].company /\ (Reverse /\ cell'[c] = "ready" => dict'[c][token[<<c, l>>]] = l)
  <2>1. Reverse => token[<<c, l>>] \in Tokens
    BY <1>2, TokenOfMember, Zenon DEF Running
  <2>2. Reverse /\ cell[c] = "ready" => dict[c][token[<<c, l>>]] = l
    BY <1>2, Zenon DEF Running
  <2>3. c = req[r].company
    BY <1>2, Zenon DEF Running
  <2> QED
    BY <2>1, <2>2, <2>3, Zenon DEF Gentle
<1> QED
  BY <1>1, <1>2, Zenon DEF Running, Keeps

LEMMA ArriveInv ==
    ASSUME Typed, NEW r \in Requests, Arrive(r), Quiet, UNCHANGED cacheVars
    PROVE  RequestInv(r)' /\ Others(r) /\ req'[r].pc # "load"
<1>1. /\ Members' = Members /\ Shown' = Shown /\ Reverse' = Reverse /\ token' = token
      /\ cell' = cell /\ dict' = dict
  BY QuietMembers, Zenon DEF Quiet, redisVars, cacheVars
<1>2. /\ Others(r) /\ req'[r].pc = "scope" /\ req'[r].names = {}
      /\ req'[r].held = Members /\ req'[r].steady = Certain
  BY ArriveFields, Zenon
<1>3. Certain \subseteq Members /\ Certain \subseteq Shown
  BY Zenon DEF Certain
<1>4. ASSUME NEW c \in Companies, NEW l \in Lists, <<c, l>> \in Certain
      PROVE  Reverse /\ cell[c] = "ready" => dict[c][token[<<c, l>>]] = l
  BY <1>4, Parts, Zenon DEF Certain
<1>5. Running(r)'
  BY <1>1, <1>2, <1>3, <1>4, Zenon DEF Running
<1> QED
  BY <1>2, <1>5, Zenon DEF RequestInv, Reading, TokensRead, SetsRead, Told, Seen

LEMMA ScopeInv ==
    ASSUME Typed, NEW r \in Requests, RequestInv(r), Scope(r), Quiet, UNCHANGED cacheVars
    PROVE  RequestInv(r)' /\ Others(r) /\ req'[r].pc # "load"
<1>1. /\ Members' = Members /\ Shown' = Shown /\ Reverse' = Reverse /\ token' = token
      /\ cell' = cell /\ dict' = dict
  BY QuietMembers, Zenon DEF Quiet, redisVars, cacheVars
<1>2. Others(r) /\ req[r].pc = "scope"
  BY ScopeFields, Zenon DEF Scope
<1>3. CASE req'[r] = NoRequest
  BY <1>2, <1>3, IdleInv, Zenon
<1>4. CASE /\ req'[r].company = company /\ req'[r].pc = "cell"
           /\ req'[r].held = req[r].held /\ req'[r].steady = req[r].steady
           /\ req'[r].names = req[r].names
  <2>1. Running(r) /\ req[r].names = {}
    BY <1>2, Zenon DEF RequestInv, Told
  <2>2. ASSUME NEW c \in Companies, NEW l \in Lists, <<c, l>> \in req[r].steady
        PROVE  c = company /\ (Reverse /\ cell[c] = "ready" => dict[c][token[<<c, l>>]] = l)
    <3>1. <<c, l>> \in Shown
      BY <1>2, <2>1, <2>2, Zenon DEF Running
    <3> QED
      BY <1>2, <2>1, <2>2, <3>1, ShownIs, Zenon DEF Running
  <2>3. Running(r)'
    BY <1>1, <1>2, <1>4, <2>1, <2>2, Zenon DEF Running
  <2> QED
    BY <1>2, <1>4, <2>1, <2>3, Zenon DEF RequestInv, Reading, TokensRead, SetsRead, Told, Seen
<1> QED
  BY <1>3, <1>4, ScopeFields, Zenon

LEMMA GotoInv ==
    ASSUME Typed, Gentle, NEW r \in Requests, RequestInv(r), req[r].pc \notin {"idle", "scope"},
           Others(r), Keeps(r), req'[r].pc \notin {"idle", "scope", "load"},
           Reading(r)', TokensRead(r)', SetsRead(r)', Told(r)', Seen(r)'
    PROVE  RequestInv(r)' /\ Others(r) /\ req'[r].pc # "load"
<1>1. Running(r)'
  BY RunningKept, Zenon DEF RequestInv
<1> QED
  BY <1>1, Zenon DEF RequestInv

\* What the lists a request must not miss are, once it has a company.
LEMMA SteadyIs ==
    ASSUME Typed, NEW r \in Requests, Running(r), req[r].pc \notin {"idle", "scope"},
           NEW l \in Lists, <<req[r].company, l>> \in req[r].steady
    PROVE  /\ req[r].company \in Companies /\ Holds(req[r].company, l)
           /\ l \in visible /\ req[r].company = company
           /\ <<req[r].company, l>> \in req[r].held
<1>1. req[r].company \in Companies
  BY Zenon DEF Typed
<1>2. <<req[r].company, l>> \in Members /\ <<req[r].company, l>> \in Shown
  BY Zenon DEF Running
<1>3. <<req[r].company, l>> \in req[r].held
  BY <1>2, Zenon DEF Running
<1> QED
  BY <1>1, <1>2, <1>3, MemberOf, ShownIs, Zenon

LEMMA ReadVisibleInv ==
    ASSUME Typed, NEW r \in Requests, RequestInv(r), ReadVisible(r), Quiet, UNCHANGED cacheVars
    PROVE  RequestInv(r)' /\ Others(r) /\ req'[r].pc # "load"
<1>1. /\ Reverse' = Reverse /\ cell' = cell /\ visible' = visible /\ company' = company
  BY QuietMembers, Zenon DEF Quiet, keyVars, cacheVars
<1>2. /\ Others(r) /\ Keeps(r) /\ req'[r].visible = visible /\ req'[r].names = req[r].names
      /\ req'[r].pc = IF Reverse THEN "tokens" ELSE IF visible = {} THEN "company" ELSE "versions"
      /\ req[r].pc = "visible"
  BY ReadVisibleFields, Zenon DEF ReadVisible
<1>3. Gentle
  BY ReadsGentle, Zenon
<1>4. req[r].names = {} /\ (Reverse => cell[req[r].company] = "ready")
  BY <1>2, Zenon DEF RequestInv, Told, Reading
<1>5. \A l \in Lists : <<req[r].company, l>> \in req[r].steady => l \in visible
  BY <1>2, SteadyIs, Zenon DEF RequestInv
<1>6. CASE Reverse
  <2>1. req'[r].pc = "tokens"
    BY <1>2, <1>6, Zenon
  <2>2. Reading(r)' /\ TokensRead(r)' /\ SetsRead(r)' /\ Told(r)' /\ Seen(r)'
    BY <1>1, <1>2, <1>4, <1>6, <2>1, Zenon DEF Reading, TokensRead, SetsRead, Told, Seen, Keeps
  <2> QED
    BY <1>2, <1>3, <2>1, <2>2, GotoInv, Zenon
<1>7. CASE ~Reverse /\ visible = {}
  <2>1. req'[r].pc = "company"
    BY <1>2, <1>7, Zenon
  <2>2. Reading(r)' /\ TokensRead(r)' /\ SetsRead(r)' /\ Told(r)' /\ Seen(r)'
    BY <1>1, <1>2, <1>4, <1>5, <1>7, <2>1, Zenon DEF Reading, TokensRead, SetsRead, Told, Seen, Keeps
  <2> QED
    BY <1>2, <1>3, <2>1, <2>2, GotoInv, Zenon
<1>8. CASE ~Reverse /\ visible # {}
  <2>1. req'[r].pc = "versions"
    BY <1>2, <1>8, Zenon
  <2>2. Reading(r)' /\ TokensRead(r)' /\ SetsRead(r)' /\ Told(r)' /\ Seen(r)'
    BY <1>1, <1>2, <1>4, <1>5, <1>8, <2>1, Zenon DEF Reading, TokensRead, SetsRead, Told, Seen, Keeps
  <2> QED
    BY <1>2, <1>3, <2>1, <2>2, GotoInv, Zenon
<1> QED
  BY <1>6, <1>7, <1>8, Zenon

LEMMA ReadTokensInv ==
    ASSUME Typed, TokenInv, RevInv, NEW r \in Requests, RequestInv(r), ReadTokens(r), Quiet,
           UNCHANGED cacheVars
    PROVE  RequestInv(r)' /\ Others(r) /\ req'[r].pc # "load"
<1>0. PICK c \in Companies : c = req[r].company
  BY Zenon DEF Typed, ReadTokens
<1>1. /\ Reverse' = Reverse /\ cell' = cell /\ visible' = visible /\ company' = company
      /\ token' = token /\ given' = given
  BY QuietMembers, Zenon DEF Quiet, keyVars, cacheVars, redisVars
<1>2. /\ Others(r) /\ Keeps(r) /\ req'[r].pc = "names" /\ req'[r].names = req[r].names
      /\ req'[r].tokens = rev[c] /\ req'[r].company = c /\ req'[r].owners = {company}
      /\ req'[r].shown = visible /\ req[r].pc = "tokens"
  BY <1>0, ReadTokensFields, Zenon DEF ReadTokens, Keeps
<1>3. Gentle
  BY ReadsGentle, Zenon
<1>4. req[r].names = {} /\ Reverse /\ cell[c] = "ready" /\ rev[c] \in SUBSET Tokens
  BY <1>0, <1>2, TypedParts, Zenon DEF RequestInv, Told, Reading, RedisTyped
<1>5. ASSUME NEW t \in rev[c]
      PROVE  /\ t <= given[c]
             /\ \A l \in Lists : Says(c, t, l) => <<c, l>> \in req[r].held
  <2>1. t \in Tokens
    BY <1>4, Zenon
  <2>2. PICK m \in Lists : token[<<c, m>>] = t
    BY <1>4, Zenon DEF RevInv
  <2>3. Says(c, t, m)
    BY <2>2, Zenon DEF Says
  <2>4. t <= given[c] /\ \A l \in Lists : Says(c, t, l) => l = m
    BY <1>4, <2>1, <2>3, Zenon DEF TokenInv
  <2>5. <<c, m>> \in Members
    BY <1>4, <2>2, MemberOf, Zenon DEF Holds
  <2>6. <<c, m>> \in req[r].held
    BY <1>2, <2>5, Zenon DEF RequestInv, Running
  <2> QED
    BY <2>4, <2>6, Zenon
<1>6. \A l \in Lists : <<c, l>> \in req[r].steady => token[<<c, l>>] \in rev[c]
  BY <1>0, <1>2, <1>4, SteadyIs, Zenon DEF RequestInv, Holds
<1>7. TokensRead(r)'
  <2>1. \A t \in Tokens, l \in Lists : Says(c, t, l)' => Says(c, t, l)
    BY <1>3, Zenon DEF Gentle
  <2>2. \A t \in rev[c], l \in Lists : Says(c, t, l)' => <<c, l>> \in req[r].held
    BY <1>4, <1>5, <2>1, Zenon
  <2> QED
    BY <1>1, <1>2, <1>5, <1>6, <2>2, Zenon DEF TokensRead, Keeps
<1>8. Reading(r)' /\ SetsRead(r)' /\ Told(r)' /\ Seen(r)'
  BY <1>1, <1>2, <1>4, Zenon DEF Reading, SetsRead, Told, Seen
<1> QED
  BY <1>2, <1>3, <1>7, <1>8, GotoInv, Zenon

LEMMA ReadVersionsInv ==
    ASSUME Typed, SetInv, NEW r \in Requests, RequestInv(r), ReadVersions(r), Quiet,
           UNCHANGED cacheVars
    PROVE  RequestInv(r)' /\ Others(r) /\ req'[r].pc # "load"
<1>0. PICK c \in Companies : c = req[r].company
  BY Zenon DEF Typed, ReadVersions
<1>1. Reverse' = Reverse /\ set' = set
  BY QuietMembers, Zenon DEF Quiet, redisVars
<1>2. /\ Others(r) /\ Keeps(r) /\ req'[r].pc = "sets" /\ req'[r].names = req[r].names
      /\ req'[r].company = c /\ req[r].pc = "versions" /\ req'[r].held = req[r].held
      /\ req'[r].steady = req[r].steady
  BY <1>0, ReadVersionsFields, Zenon DEF ReadVersions, Keeps
<1>a. \A l \in Lists : req'[r].version[l] = IF l \in req[r].visible THEN Served(set[<<c, l>>]) ELSE 0
  <2>1. \A l \in Lists :
          req'[r].version[l] = IF l \in req[r].visible THEN Generation(set[<<c, l>>]) ELSE 0
    BY <1>0, ReadVersionsFields, Zenon
  <2> QED
    BY <2>1, Zenon DEF Generation, Served
<1>3. Gentle
  BY ReadsGentle, Zenon
<1>4. ~Reverse /\ req[r].names = {} /\ Running(r)
  BY <1>2, Zenon DEF RequestInv, Reading, Told
<1>5. ASSUME NEW l \in Lists PROVE SetRead(r, l)'
  <2> DEFINE s == set[<<c, l>>]
             v == req'[r].version[l]
  <2>1. /\ s.version \in 0..MaxVersion /\ s.loading \in 0..MaxVersion /\ s.holds \in SUBSET Versions
        /\ 0 \notin s.holds
    BY SetShapes, Numbers, Zenon
  <2>2. v = IF l \in req[r].visible THEN Served(s) ELSE 0
    BY <1>a, Zenon
  <2>3. v \in s.holds => <<c, l>> \in req[r].held
    <3>1. v \in s.holds => <<c, l>> \in Members
      BY <1>4, <2>1, <2>2, MemberOf, Zenon DEF Holds
    <3> QED
      BY <1>2, <1>4, <3>1, Zenon DEF Running
  <2>4. v # 0 /\ s.loading = v => s.version = 0
    <3>1. s.loading # 0 => s.loading > s.version
      BY Zenon DEF SetInv
    <3>2. s.loading # 0 => s.loading # s.version
      BY <2>1, <3>1
    <3> QED
      BY <2>2, <3>2, Zenon DEF Served
  <2>5. <<c, l>> \in req[r].steady => v \in s.holds
    <3>1. <<c, l>> \in req[r].steady => l \in req[r].visible
      BY <1>0, <1>2, Zenon DEF RequestInv, Reading
    <3>2. <<c, l>> \in req[r].steady => Served(s) \in s.holds
      BY <1>0, <1>2, <1>4, SteadyIs, Zenon DEF Holds
    <3> QED
      BY <2>2, <3>1, <3>2, Zenon
  <2> QED
    BY <1>1, <1>2, <2>3, <2>4, <2>5, Zenon DEF SetRead
<1>6. Reading(r)' /\ TokensRead(r)' /\ SetsRead(r)' /\ Told(r)' /\ Seen(r)'
  BY <1>1, <1>2, <1>4, <1>5, Zenon DEF Reading, TokensRead, SetsRead, Told, Seen
<1> QED
  BY <1>2, <1>3, <1>6, GotoInv, Zenon

LEMMA ReadSetsInv ==
    ASSUME Typed, NEW r \in Requests, RequestInv(r), ReadSets(r), Quiet, UNCHANGED cacheVars
    PROVE  RequestInv(r)' /\ Others(r) /\ req'[r].pc # "load"
<1>0. PICK c \in Companies : c = req[r].company
  BY Zenon DEF Typed, ReadSets
<1>1. company' = company /\ visible' = visible
  BY Zenon DEF Quiet, keyVars
<1>2. /\ Others(r) /\ Keeps(r) /\ req'[r].pc = "company" /\ req'[r].owners = {company}
      /\ req'[r].shown = visible /\ req'[r].company = c /\ req[r].pc = "sets"
      /\ req'[r].held = req[r].held /\ req'[r].steady = req[r].steady
      /\ req'[r].names = {l \in Lists : req[r].version[l] \in set[<<c, l>>].holds}
  BY <1>0, ReadSetsFields, Zenon DEF ReadSets, Keeps
<1>3. Gentle
  BY ReadsGentle, Zenon
<1>4. \A l \in Lists :
        /\ req[r].version[l] \in set[<<c, l>>].holds => <<c, l>> \in req[r].held
        /\ <<c, l>> \in req[r].steady => req[r].version[l] \in set[<<c, l>>].holds
  BY <1>0, <1>2, Zenon DEF RequestInv, SetsRead, SetRead
<1>5. Reading(r)' /\ TokensRead(r)' /\ SetsRead(r)' /\ Seen(r)'
  BY <1>1, <1>2, Zenon DEF Reading, TokensRead, SetsRead, Seen
<1>6. Told(r)'
  BY <1>2, <1>4, Zenon DEF Told
<1> QED
  BY <1>2, <1>3, <1>5, <1>6, GotoInv, Zenon

LEMMA CheckInv ==
    ASSUME Typed, NEW r \in Requests, RequestInv(r), CheckCompany(r), Quiet, UNCHANGED cacheVars
    PROVE  RequestInv(r)' /\ Others(r) /\ req'[r].pc # "load"
<1>1. company' = company /\ visible' = visible /\ req[r].pc = "company"
  BY Zenon DEF Quiet, keyVars, CheckCompany
<1>2. CASE Others(r) /\ req'[r] = NoRequest
  BY <1>2, IdleInv, Zenon
<1>3. CASE company = req[r].company /\ Goto(r, "filter")
  <2>1. /\ Others(r) /\ Keeps(r) /\ req'[r].pc = "filter" /\ req'[r].names = req[r].names
        /\ req'[r].owners = req[r].owners /\ req'[r].shown = req[r].shown
    BY <1>3, FilterState, GotoFields, Zenon
  <2>2. Reading(r)' /\ TokensRead(r)' /\ SetsRead(r)'
    BY <2>1, Zenon DEF Reading, TokensRead, SetsRead
  <2>3. Told(r)' /\ Seen(r)'
    BY <1>1, <1>3, <2>1, Zenon DEF RequestInv, Told, Seen, Keeps
  <2> QED
    BY <1>1, <2>1, <2>2, <2>3, GotoInv, ReadsGentle, Zenon
<1> QED
  BY <1>2, <1>3, CheckFields, Zenon

\* A step that only reads keeps the invariant.
LEMMA ReadsInv ==
    ASSUME ReaderInv, NEW r \in Requests, Reads(r)
    PROVE  ReaderInv'
<1>1. Quiet /\ UNCHANGED cacheVars /\ Typed' /\ Typed
  BY ReadsTyped, Zenon DEF ReaderInv
<1>2. Gentle /\ SnapInv'
  BY <1>1, ReadsGentle, Zenon DEF ReaderInv, StoreInv
<1>3. RequestInv(r) /\ TokenInv /\ RevInv /\ SetInv /\ CellInv
  BY Zenon DEF ReaderInv, StoreInv
<1>4. RequestInv(r)' /\ Others(r) /\ req'[r].pc # "load"
  <2>1. CASE Arrive(r)
    BY <1>1, <2>1, ArriveInv, Zenon
  <2>2. CASE Scope(r) \/ ReadVisible(r)
    BY <1>1, <1>3, <2>2, ScopeInv, ReadVisibleInv, Zenon
  <2>3. CASE ReadTokens(r) \/ ReadVersions(r)
    BY <1>1, <1>3, <2>3, ReadTokensInv, ReadVersionsInv, Zenon
  <2>4. CASE ReadSets(r) \/ CheckCompany(r)
    BY <1>1, <1>3, <2>4, ReadSetsInv, CheckInv, Zenon
  <2>5. CASE ReadFails(r) \/ Respond(r)
    <3>1. req' = [req EXCEPT ![r] = NoRequest]
      BY <2>5, Zenon DEF ReadFails, Respond, Fail
    <3> QED
      BY <1>1, <3>1, FailFields, IdleInv, Zenon
  <2> QED
    BY <2>1, <2>2, <2>3, <2>4, <2>5, Zenon DEF Reads
<1>5. CellInv'
  <2>1. \A c \in Companies : cell'[c] = cell[c]
    BY <1>1, Zenon DEF cacheVars
  <2> QED
    BY <1>1, <1>3, <1>4, <2>1, CellKept, Zenon
<1>6. TokenInv' /\ RevInv' /\ SetInv'
  BY <1>1, <1>2, <1>3, GentleStore, Zenon
<1>7. ASSUME NEW q \in Requests PROVE RequestInv(q)'
  <2>1. CASE q = r
    BY <1>4, <2>1, Zenon
  <2>2. CASE q # r
    <3>1. req'[q] = req[q] /\ RequestInv(q)
      BY <1>4, <2>2, Zenon DEF Others, ReaderInv
    <3> QED
      BY <1>1, <1>2, <3>1, GentleRequest, Zenon
  <2> QED
    BY <2>1, <2>2, Zenon
<1> QED
  BY <1>1, <1>2, <1>5, <1>6, <1>7, Zenon DEF ReaderInv, StoreInv

-----------------------------------------------------------------------------
(* Steps of the cached dictionary *)

\* The invariant after a gentle step, from what is left to show of it.
LEMMA GentleInv ==
    ASSUME ReaderInv, Gentle, Typed', SnapInv', CellInv', NEW R \in SUBSET Requests,
           \A r \in R : RequestInv(r)', \A q \in Requests \ R : req'[q] = req[q]
    PROVE  ReaderInv'
<1>1. Typed /\ TokenInv /\ RevInv /\ SetInv
  BY Zenon DEF ReaderInv, StoreInv
<1>2. TokenInv' /\ RevInv' /\ SetInv'
  BY <1>1, GentleStore, Zenon
<1>3. ASSUME NEW q \in Requests \ R PROVE RequestInv(q)'
  <2>1. req'[q] = req[q] /\ RequestInv(q)
    BY Zenon DEF ReaderInv
  <2> QED
    BY <1>1, <2>1, GentleRequest, Zenon
<1>4. \A q \in Requests : RequestInv(q)'
  BY <1>3, Zenon
<1> QED
  BY <1>2, <1>4, Zenon DEF ReaderInv, StoreInv

LEMMA GetFetcherInv ==
    ASSUME ReaderInv, NEW r \in Requests, GetFetcher(r)
    PROVE  ReaderInv'
<1>0. Typed /\ SnapInv /\ CellInv /\ RequestInv(r)
  BY Zenon DEF ReaderInv, StoreInv
<1>1. PICK c \in Companies : c = req[r].company
  BY <1>0, GetFetcherFields, Zenon
<1>2. /\ Quiet /\ UNCHANGED <<dict, refresh, tried, lookup>> /\ Typed'
      /\ req[r].pc = "cell" /\ cell[c] # "busy"
      /\ \A d \in Companies \ {c} : cell'[d] = cell[d]
      /\ \/ cell[c] = "empty" /\ Reverse /\ Goto(r, "load") /\ cell'[c] = "busy"
         \/ ~(cell[c] = "empty" /\ Reverse) /\ Goto(r, "visible") /\ cell'[c] = "ready"
  BY <1>0, <1>1, GetFetcherFields, Zenon
<1>3. dict' = dict /\ refresh' = refresh /\ lookup' = lookup /\ token' = token /\ Reverse' = Reverse
  BY <1>2, QuietMembers, Zenon DEF Quiet, redisVars
<1>4. \A d \in Companies, t \in Tokens, l \in Lists : Says(d, t, l)' => Says(d, t, l)
  BY <1>3, Zenon DEF Says
<1>5. cell[c] \in {"empty", "busy", "ready"}
  BY <1>0, TypedParts, Zenon DEF CacheTyped
<1>6. ASSUME NEW d \in Companies
      PROVE  /\ cell[d] = "ready" => cell'[d] = "ready"
             /\ Reverse /\ cell'[d] = "ready" => cell[d] = "ready"
  BY <1>2, <1>5, Zenon
<1>7. \A d \in Companies, t \in Tokens, l \in Lists :
        Reverse /\ cell'[d] = "ready" /\ (cell[d] = "ready" => dict[d][t] = l) => dict'[d][t] = l
  BY <1>3, <1>6, Zenon
<1>8. Gentle
  BY <1>2, <1>4, <1>6, <1>7, Zenon DEF Gentle
<1>9. SnapInv'
  <2> SUFFICES ASSUME NEW d \in Companies
               PROVE  /\ refresh'[d].pc # "idle" => cell'[d] = "ready"
                      /\ refresh'[d].pc = "loaded" =>
                           \A l \in Lists, t \in Tokens :
                             dict'[d][t] = l /\ token'[<<d, l>>] = t => refresh'[d].snap[t] = l
    BY Zenon DEF SnapInv
  <2>1. refresh'[d].pc # "idle" => cell'[d] = "ready"
    BY <1>0, <1>3, <1>6, Zenon DEF SnapInv
  <2> QED
    BY <1>0, <1>3, <2>1 DEF SnapInv
<1>10. CASE cell[c] = "empty" /\ Reverse /\ Goto(r, "load") /\ cell'[c] = "busy"
  <2>1. /\ Others(r) /\ Keeps(r) /\ req'[r].pc = "load" /\ req'[r].names = req[r].names
        /\ req'[r].company = c
    BY <1>0, <1>1, <1>10, FilterState, GotoFields, Zenon DEF Keeps
  <2>2. ASSUME NEW q \in Requests \ {r}, req'[q].pc = "load"
        PROVE  /\ req'[q] = req[q] /\ req[q].pc = "load" /\ req[q].company \in Companies \ {c}
               /\ cell'[req[q].company] = "busy"
    <3>1. req'[q] = req[q] /\ req[q].pc = "load"
      BY <2>1, <2>2, Zenon DEF Others
    <3>2. req[q].company \in Companies /\ cell[req[q].company] = "busy"
      BY <1>0, <3>1, Zenon DEF Typed, CellInv
    <3> QED
      BY <1>2, <3>1, <3>2, Zenon
  <2>3. CellInv'
    <3>1. ASSUME NEW q \in Requests, req'[q].pc = "load"
          PROVE  cell'[req'[q].company] = "busy"
      BY <1>10, <2>1, <2>2, <3>1, Zenon
    <3>2. ASSUME NEW q \in Requests, NEW p \in Requests, req'[q].pc = "load", req'[p].pc = "load",
                 req'[p].company = req'[q].company
          PROVE  p = q
      <4>1. CASE q = r \/ p = r
        BY <2>1, <2>2, <3>2, <4>1, Zenon
      <4>2. CASE q # r /\ p # r
        <5>1. req'[q] = req[q] /\ req'[p] = req[p]
          BY <2>2, <3>2, <4>2, Zenon
        <5> QED
          BY <1>0, <3>2, <5>1, Zenon DEF CellInv
      <4> QED
        BY <4>1, <4>2, Zenon
    <3> QED
      BY <3>1, <3>2, Zenon DEF CellInv
  <2>4. Running(r)'
    BY <1>0, <1>2, <1>8, <2>1, RunningKept, Zenon DEF RequestInv
  <2>5. RequestInv(r)'
    BY <1>0, <1>2, <1>3, <1>10, <2>1, <2>4, Zenon
    DEF RequestInv, Reading, TokensRead, SetsRead, Told, Seen
  <2> QED
    BY <1>2, <1>8, <1>9, <2>1, <2>3, <2>5, GentleInv, Zenon DEF Others
<1>11. CASE ~(cell[c] = "empty" /\ Reverse) /\ Goto(r, "visible") /\ cell'[c] = "ready"
  <2>1. /\ Others(r) /\ Keeps(r) /\ req'[r].pc = "visible" /\ req'[r].names = req[r].names
        /\ req'[r].company = c
    BY <1>0, <1>1, <1>11, FilterState, GotoFields, Zenon DEF Keeps
  <2>2. CellInv'
    BY <1>0, <1>2, <2>1, CellKept, Zenon
  <2>3. Running(r)'
    BY <1>0, <1>2, <1>8, <2>1, RunningKept, Zenon DEF RequestInv
  <2>4. RequestInv(r)'
    BY <1>0, <1>2, <1>3, <1>11, <2>1, <2>3, Zenon
    DEF RequestInv, Reading, TokensRead, SetsRead, Told, Seen
  <2> QED
    BY <1>2, <1>8, <1>9, <2>1, <2>2, <2>4, GentleInv, Zenon DEF Others
<1> QED
  BY <1>2, <1>10, <1>11, Zenon

LEMMA LoadFailsInv ==
    ASSUME ReaderInv, NEW r \in Requests, LoadFails(r)
    PROVE  ReaderInv'
<1>0. Typed /\ SnapInv /\ CellInv
  BY Zenon DEF ReaderInv, StoreInv
<1>1. PICK c \in Companies : c = req[r].company
  BY <1>0, LoadFailsFields, Zenon
<1>2. /\ Quiet /\ UNCHANGED <<dict, refresh, tried, lookup>> /\ Typed'
      /\ req[r].pc = "load" /\ cell'[c] = "empty"
      /\ \A d \in Companies \ {c} : cell'[d] = cell[d]
      /\ Others(r) /\ req'[r] = NoRequest
  BY <1>0, <1>1, LoadFailsFields, Zenon
<1>3. dict' = dict /\ refresh' = refresh /\ lookup' = lookup /\ token' = token
  BY <1>2, Zenon DEF Quiet, redisVars
<1>4. \A d \in Companies, t \in Tokens, l \in Lists : Says(d, t, l)' => Says(d, t, l)
  BY <1>3, Zenon DEF Says
<1>5. cell[c] = "busy"
  BY <1>0, <1>1, <1>2, Zenon DEF CellInv
<1>6. ASSUME NEW d \in Companies PROVE cell[d] = "ready" <=> cell'[d] = "ready"
  BY <1>2, <1>5, Zenon
<1>7. \A d \in Companies, t \in Tokens, l \in Lists :
        cell'[d] = "ready" /\ (cell[d] = "ready" => dict[d][t] = l) => dict'[d][t] = l
  BY <1>3, <1>6, Zenon
<1>8. Gentle
  BY <1>2, <1>4, <1>6, <1>7, Zenon DEF Gentle
<1>9. SnapInv'
  <2> SUFFICES ASSUME NEW d \in Companies
               PROVE  /\ refresh'[d].pc # "idle" => cell'[d] = "ready"
                      /\ refresh'[d].pc = "loaded" =>
                           \A l \in Lists, t \in Tokens :
                             dict'[d][t] = l /\ token'[<<d, l>>] = t => refresh'[d].snap[t] = l
    BY Zenon DEF SnapInv
  <2>1. refresh'[d].pc # "idle" => cell'[d] = "ready"
    BY <1>0, <1>3, <1>6, Zenon DEF SnapInv
  <2> QED
    BY <1>0, <1>3, <2>1 DEF SnapInv
<1>10. RequestInv(r)' /\ req'[r].pc # "load"
  BY <1>2, IdleInv, Zenon
<1>11. CellInv'
  BY <1>0, <1>1, <1>2, <1>10, CellKept, Zenon
<1> QED
  BY <1>2, <1>8, <1>9, <1>10, <1>11, GentleInv, Zenon DEF Others

\* The names of Redis are the ones every place has.
LEMMA NamesRight ==
    ASSUME TokenInv, NEW c \in Companies, NEW t \in Tokens, NEW l \in Lists
    PROVE  Names(c)[t] = l <=> token[<<c, l>>] = t
<1>1. Names(c)[t] = l => token[<<c, l>>] = t
  BY NamesOf, Zenon
<1>2. ASSUME token[<<c, l>>] = t PROVE Names(c)[t] = l
  <2>1. PICK m \in Lists : Names(c)[t] = m
    BY <1>2, NamesOf, Zenon
  <2>2. token[<<c, m>>] = t
    BY <2>1, NamesOf, Zenon
  <2>3. Says(c, t, l) /\ Says(c, t, m)
    BY <1>2, <2>2, Zenon DEF Says
  <2> QED
    BY <2>1, <2>3, Zenon DEF TokenInv
<1> QED
  BY <1>1, <1>2, Zenon

LEMMA LoadInv ==
    ASSUME ReaderInv, NEW r \in Requests, Load(r)
    PROVE  ReaderInv'
<1>0. Typed /\ SnapInv /\ CellInv /\ TokenInv /\ RequestInv(r)
  BY Zenon DEF ReaderInv, StoreInv
<1>1. PICK c \in Companies : c = req[r].company
  BY <1>0, LoadFields, Zenon
<1>2. /\ Quiet /\ UNCHANGED <<refresh, tried, lookup>> /\ Typed'
      /\ req[r].pc = "load" /\ cell'[c] = "ready" /\ dict'[c] = Names(c)
      /\ \A d \in Companies \ {c} : cell'[d] = cell[d] /\ dict'[d] = dict[d]
      /\ Goto(r, "visible")
  BY <1>0, <1>1, LoadFields, Zenon
<1>3. refresh' = refresh /\ lookup' = lookup /\ token' = token /\ Reverse' = Reverse
  BY <1>2, QuietMembers, Zenon DEF Quiet, redisVars
<1>a. ASSUME NEW t \in Tokens, NEW l \in Lists PROVE dict'[c][t] = l <=> token[<<c, l>>] = t
  <2>1. dict'[c][t] = Names(c)[t]
    BY <1>2, Zenon
  <2>2. Names(c)[t] = l <=> token[<<c, l>>] = t
    BY <1>0, NamesRight, Zenon
  <2> QED
    BY <2>1, <2>2, Zenon
<1>4. ASSUME NEW d \in Companies, NEW t \in Tokens, NEW l \in Lists, Says(d, t, l)'
      PROVE  Says(d, t, l)
  <2>1. token[<<d, l>>] = t \/ dict'[d][t] = l \/ refresh[d].snap[t] = l \/ lookup[<<d, t>>] = l
    BY <1>3, <1>4, Zenon DEF Says
  <2>2. dict'[d][t] = l => dict[d][t] = l \/ token[<<d, l>>] = t
    <3>1. CASE d = c
      BY <1>a, <3>1, Zenon
    <3>2. CASE d # c
      BY <1>2, <3>2, Zenon
    <3> QED
      BY <3>1, <3>2, Zenon
  <2> QED
    BY <2>1, <2>2, Zenon DEF Says
<1>5. cell[c] = "busy" /\ Reverse
  BY <1>0, <1>1, <1>2, Zenon DEF CellInv, RequestInv, Reading
<1>6. refresh[c].pc = "idle" /\ \A d \in Companies : cell[d] = "ready" => cell'[d] = "ready"
  BY <1>0, <1>2, <1>5, Zenon DEF SnapInv
<1>7. ASSUME NEW d \in Companies, NEW t \in Tokens, NEW l \in Lists, cell'[d] = "ready",
             token[<<d, l>>] = t, cell[d] = "ready" => dict[d][t] = l
      PROVE  dict'[d][t] = l
  <2>1. CASE d = c
    BY <1>a, <1>7, <2>1, Zenon
  <2>2. CASE d # c
    BY <1>2, <1>7, <2>2, Zenon
  <2> QED
    BY <2>1, <2>2, Zenon
<1>8. Gentle
  BY <1>2, <1>4, <1>6, <1>7, Zenon DEF Gentle
<1>9. SnapInv'
  <2> SUFFICES ASSUME NEW d \in Companies
               PROVE  /\ refresh'[d].pc # "idle" => cell'[d] = "ready"
                      /\ refresh'[d].pc = "loaded" =>
                           \A l \in Lists, t \in Tokens :
                             dict'[d][t] = l /\ token'[<<d, l>>] = t => refresh'[d].snap[t] = l
    BY Zenon DEF SnapInv
  <2>1. CASE d = c
    BY <1>3, <1>6, <2>1, Zenon
  <2>2. CASE d # c
    <3>1. dict'[d] = dict[d] /\ cell'[d] = cell[d]
      BY <1>2, <2>2, Zenon
    <3> QED
      BY <1>0, <1>3, <3>1 DEF SnapInv
  <2> QED
    BY <2>1, <2>2, Zenon
<1>10. /\ Others(r) /\ Keeps(r) /\ req'[r].pc = "visible" /\ req'[r].names = req[r].names
       /\ req'[r].company = c
  BY <1>0, <1>1, <1>2, FilterState, GotoFields, Zenon DEF Keeps
<1>11. CellInv'
  BY <1>0, <1>1, <1>2, <1>10, CellKept, Zenon
<1>12. Running(r)'
  BY <1>0, <1>2, <1>8, <1>10, RunningKept, Zenon DEF RequestInv
<1>13. RequestInv(r)'
  BY <1>0, <1>2, <1>3, <1>10, <1>12, Zenon
  DEF RequestInv, Reading, TokensRead, SetsRead, Told, Seen
<1> QED
  BY <1>2, <1>8, <1>9, <1>10, <1>11, <1>13, GentleInv, Zenon DEF Others

LEMMA NameTokensInv ==
    ASSUME ReaderInv, NEW r \in Requests, NameTokens(r)
    PROVE  ReaderInv'
<1>0. Typed /\ SnapInv /\ CellInv /\ TokenInv /\ RequestInv(r)
  BY Zenon DEF ReaderInv, StoreInv
<1>1. PICK c \in Companies : c = req[r].company
  BY <1>0, NameTokensCache, Zenon
<1>2. /\ Quiet /\ UNCHANGED <<cell, dict, refresh>> /\ Typed' /\ req[r].pc = "names"
      /\ \A d \in Companies, t \in Tokens :
           lookup'[<<d, t>>] = lookup[<<d, t>>] \/ lookup'[<<d, t>>] = "ask"
  BY <1>0, NameTokensCache, Zenon
<1>3. /\ cell' = cell /\ dict' = dict /\ refresh' = refresh /\ token' = token
      /\ company' = company /\ visible' = visible
  BY <1>2, Zenon DEF Quiet, redisVars, keyVars
<1>4. ASSUME NEW d \in Companies, NEW t \in Tokens, NEW l \in Lists, Says(d, t, l)'
      PROVE  Says(d, t, l)
  <2>1. token[<<d, l>>] = t \/ dict[d][t] = l \/ refresh[d].snap[t] = l \/ lookup'[<<d, t>>] = l
    BY <1>3, <1>4, Zenon DEF Says
  <2>2. lookup'[<<d, t>>] = l => lookup[<<d, t>>] = l
    BY <1>2, Numbers, Zenon
  <2> QED
    BY <2>1, <2>2, Zenon DEF Says
<1>5. \A d \in Companies, t \in Tokens, l \in Lists :
        cell'[d] = "ready" /\ (cell[d] = "ready" => dict[d][t] = l) => dict'[d][t] = l
  BY <1>3, Zenon
<1>6. \A d \in Companies : cell[d] = "ready" => cell'[d] = "ready"
  BY <1>3, Zenon
<1>7. Gentle
  BY <1>2, <1>4, <1>5, <1>6, Zenon DEF Gentle
<1>8. SnapInv'
  <2> SUFFICES ASSUME NEW d \in Companies
               PROVE  /\ refresh'[d].pc # "idle" => cell'[d] = "ready"
                      /\ refresh'[d].pc = "loaded" =>
                           \A l \in Lists, t \in Tokens :
                             dict'[d][t] = l /\ token'[<<d, l>>] = t => refresh'[d].snap[t] = l
    BY Zenon DEF SnapInv
  <2> QED
    BY <1>0, <1>3 DEF SnapInv
<1>9. /\ Others(r) /\ Keeps(r) /\ req'[r].pc = "company"
      /\ req'[r].names = Named(c, req[r].tokens) /\ req'[r].company = c
      /\ req'[r].owners = req[r].owners /\ req'[r].shown = req[r].shown
      /\ req'[r].held = req[r].held /\ req'[r].steady = req[r].steady
  BY <1>0, <1>1, NameTokensFields, Zenon DEF Keeps
<1>10. CellInv'
  <2>1. \A d \in Companies : cell'[d] = cell[d]
    BY <1>3, Zenon
  <2> QED
    BY <1>0, <1>9, <2>1, CellKept, Zenon
<1>11. \A l \in Named(c, req[r].tokens) : <<c, l>> \in req[r].held
  <2> SUFFICES ASSUME NEW t \in req[r].tokens, dict[c][t] # Unknown
               PROVE  <<c, dict[c][t]>> \in req[r].held
    BY Zenon DEF Named
  <2>1. t \in Tokens
    BY <1>0, Zenon DEF Typed, TypeOK
  <2>2. dict[c] \in Dictionary
    BY <1>0, TypedParts, Zenon DEF CacheTyped
  <2>3. dict[c][t] \in Lists
    BY <2>1, <2>2, Zenon DEF Dictionary
  <2>4. Says(c, t, dict[c][t])
    BY Zenon DEF Says
  <2> QED
    BY <1>0, <1>1, <1>2, <2>3, <2>4, Zenon DEF RequestInv, TokensRead
<1>12. ASSUME NEW l \in Lists, <<c, l>> \in req[r].steady PROVE l \in Named(c, req[r].tokens)
  <2>1. token[<<c, l>>] \in req[r].tokens
    BY <1>0, <1>1, <1>2, <1>12, Zenon DEF RequestInv, TokensRead
  <2>2. Reverse /\ cell[c] = "ready"
    BY <1>0, <1>1, <1>2, Zenon DEF RequestInv, Reading
  <2>3. dict[c][token[<<c, l>>]] = l
    BY <1>0, <1>2, <1>12, <2>2, Zenon DEF RequestInv, Running
  <2>4. l # Unknown
    BY Numbers, Zenon
  <2> QED
    BY <2>1, <2>3, <2>4, Zenon DEF Named
<1>13. Told(r)'
  BY <1>9, <1>11, <1>12, Zenon DEF Told
<1>14. Seen(r)' /\ Reading(r)' /\ TokensRead(r)' /\ SetsRead(r)'
  BY <1>0, <1>2, <1>3, <1>9, Zenon DEF RequestInv, Seen, Reading, TokensRead, SetsRead
<1>15. RequestInv(r)'
  BY <1>0, <1>2, <1>7, <1>9, <1>13, <1>14, GotoInv, Zenon
<1> QED
  BY <1>2, <1>7, <1>8, <1>9, <1>10, <1>15, GentleInv, Zenon DEF Others

\* Steps of the cache alone.
LEMMA ApartInv ==
    ASSUME ReaderInv, Gentle, Typed', req' = req, UNCHANGED cell, SnapInv'
    PROVE  ReaderInv'
<1>1. CellInv'
  BY Zenon DEF ReaderInv, StoreInv, CellInv
<1>2. \A q \in Requests \ {} : req'[q] = req[q]
  BY Zenon
<1>3. {} \in SUBSET Requests /\ \A r \in {} : RequestInv(r)'
  BY Zenon
<1> QED
  BY <1>1, <1>2, <1>3, GentleInv, Zenon

LEMMA RestingFields ==
    /\ Resting.pc = "idle" /\ \A t \in Tokens, l \in Lists : Resting.snap[t] # l
<1>1. Resting.pc = "idle" /\ Resting.snap = NoNames
  BY Zenon DEF Resting
<1>2. \A t \in Tokens : NoNames[t] = Unknown
  BY Zenon DEF NoNames
<1> QED
  BY <1>1, <1>2, Numbers, Zenon

LEMMA RefreshInv ==
    ASSUME ReaderInv, NEW c \in Companies, RefreshStep(c)
    PROVE  ReaderInv'
<1>0. Typed /\ SnapInv /\ TokenInv
  BY Zenon DEF ReaderInv, StoreInv
<1>1. /\ Apart /\ UNCHANGED <<cell, tried, lookup>> /\ Typed'
      /\ \A d \in Companies \ {c} : refresh'[d] = refresh[d] /\ dict'[d] = dict[d]
  BY <1>0, RefreshFields, Zenon
<1>2. cell' = cell /\ lookup' = lookup /\ token' = token /\ req' = req /\ Quiet
  BY <1>1, Zenon DEF Apart, Quiet, redisVars
<1>3. /\ refresh'[c].pc # "idle" => cell[c] = "ready"
      /\ \A t \in Tokens, l \in Lists :
           /\ dict'[c][t] = l => Says(c, t, l)
           /\ refresh'[c].snap[t] = l => Says(c, t, l)
           /\ dict[c][t] = l /\ token[<<c, l>>] = t => dict'[c][t] = l
           /\ refresh'[c].pc = "loaded" /\ token[<<c, l>>] = t => refresh'[c].snap[t] = l
  <2>1. CASE /\ cell[c] = "ready" /\ dict'[c] = dict[c] /\ refresh[c].pc = "idle"
             /\ refresh'[c].pc = "locked" /\ refresh'[c].snap = refresh[c].snap
    BY <2>1, Zenon DEF Says
  <2>2. CASE /\ refresh[c].pc = "locked" /\ dict'[c] = dict[c]
             /\ refresh'[c].pc = "loaded" /\ refresh'[c].snap = Names(c)
    <3>1. cell[c] = "ready"
      BY <1>0, <2>2, Zenon DEF SnapInv
    <3>2. \A t \in Tokens, l \in Lists : refresh'[c].snap[t] = l <=> token[<<c, l>>] = t
      <4> TAKE t \in Tokens, l \in Lists
      <4>1. refresh'[c].snap[t] = Names(c)[t]
        BY <2>2, Zenon
      <4>2. Names(c)[t] = l <=> token[<<c, l>>] = t
        BY <1>0, NamesRight, Zenon
      <4> QED
        BY <4>1, <4>2, Zenon
    <3> QED
      BY <2>2, <3>1, <3>2, Zenon DEF Says
  <2>3. CASE refresh[c].pc = "locked" /\ dict'[c] = dict[c] /\ refresh'[c] = Resting
    BY <2>3, RestingFields, Zenon DEF Says
  <2>4. CASE /\ refresh[c].pc = "loaded" /\ dict'[c] = refresh[c].snap
             /\ refresh'[c] = Resting
    <3>1. \A t \in Tokens, l \in Lists :
            dict[c][t] = l /\ token[<<c, l>>] = t => refresh[c].snap[t] = l
      BY <1>0, <2>4 DEF SnapInv
    <3> QED
      BY <2>4, <3>1, RestingFields, Zenon DEF Says
  <2> QED
    BY <1>0, <2>1, <2>2, <2>3, <2>4, RefreshFields, Zenon
<1>4. ASSUME NEW d \in Companies, NEW t \in Tokens, NEW l \in Lists, Says(d, t, l)'
      PROVE  Says(d, t, l)
  <2>1. token[<<d, l>>] = t \/ dict'[d][t] = l \/ refresh'[d].snap[t] = l \/ lookup[<<d, t>>] = l
    BY <1>2, <1>4, Zenon DEF Says
  <2>2. CASE d = c
    BY <1>3, <2>1, <2>2, Zenon DEF Says
  <2>3. CASE d # c
    BY <1>1, <2>1, <2>3, Zenon DEF Says
  <2> QED
    BY <2>2, <2>3, Zenon
<1>5. ASSUME NEW d \in Companies, NEW t \in Tokens, NEW l \in Lists, token[<<d, l>>] = t, dict[d][t] = l
      PROVE  dict'[d][t] = l
  <2>1. CASE d = c
    BY <1>3, <1>5, <2>1, Zenon
  <2>2. CASE d # c
    BY <1>1, <1>5, <2>2, Zenon
  <2> QED
    BY <2>1, <2>2, Zenon
<1>6. \A d \in Companies : cell[d] = "ready" <=> cell'[d] = "ready"
  BY <1>2, Zenon
<1>7. Gentle
  BY <1>2, <1>4, <1>5, <1>6 DEF Gentle
<1>8. SnapInv'
  <2> SUFFICES ASSUME NEW d \in Companies
               PROVE  /\ refresh'[d].pc # "idle" => cell'[d] = "ready"
                      /\ refresh'[d].pc = "loaded" =>
                           \A l \in Lists, t \in Tokens :
                             dict'[d][t] = l /\ token'[<<d, l>>] = t => refresh'[d].snap[t] = l
    BY Zenon DEF SnapInv
  <2>1. CASE d = c
    BY <1>2, <1>3, <2>1, Zenon
  <2>2. CASE d # c
    <3>1. refresh'[d] = refresh[d] /\ dict'[d] = dict[d]
      BY <1>1, <2>2, Zenon
    <3> QED
      BY <1>0, <1>2, <3>1 DEF SnapInv
  <2> QED
    BY <2>1, <2>2, Zenon
<1> QED
  BY <1>1, <1>2, <1>7, <1>8, ApartInv, Zenon

LEMMA LookUpInv ==
    ASSUME ReaderInv, NEW c \in Companies, NEW t \in Tokens, LookUpStep(c, t) \/ RetryDue(c, t)
    PROVE  ReaderInv'
<1>0. Typed /\ SnapInv /\ TokenInv
  BY Zenon DEF ReaderInv, StoreInv
<1>1. /\ Apart /\ UNCHANGED <<cell, refresh>> /\ Typed'
      /\ \A d \in Companies, u \in Tokens : <<d, u>> # <<c, t>> =>
           lookup'[<<d, u>>] = lookup[<<d, u>>] /\ dict'[d][u] = dict[d][u]
      /\ \/ dict'[c][t] = dict[c][t] /\ lookup'[<<c, t>>] \in {"none", Names(c)[t], lookup[<<c, t>>]}
         \/ /\ refresh[c].pc = "idle" /\ dict'[c][t] = lookup[<<c, t>>]
            /\ lookup[<<c, t>>] \in Lists /\ lookup'[<<c, t>>] = "none"
  BY <1>0, LookUpFields, Zenon
<1>2. /\ cell' = cell /\ refresh' = refresh /\ token' = token /\ req' = req /\ Quiet
  BY <1>1, Zenon DEF Apart, Quiet, redisVars
<1>3. ASSUME NEW l \in Lists
      PROVE  /\ dict'[c][t] = l => Says(c, t, l)
             /\ lookup'[<<c, t>>] = l => Says(c, t, l)
             /\ token[<<c, l>>] = t /\ dict[c][t] = l => dict'[c][t] = l
             /\ refresh[c].pc # "idle" /\ dict'[c][t] = l => dict[c][t] = l
  <2>1. CASE dict'[c][t] = dict[c][t] /\ lookup'[<<c, t>>] \in {"none", Names(c)[t], lookup[<<c, t>>]}
    <3>1. Names(c)[t] = l => token[<<c, l>>] = t
      BY <1>0, NamesRight, Zenon
    <3> QED
      BY <2>1, <3>1, Numbers, Zenon DEF Says
  <2>2. CASE /\ refresh[c].pc = "idle" /\ dict'[c][t] = lookup[<<c, t>>]
             /\ lookup[<<c, t>>] \in Lists /\ lookup'[<<c, t>>] = "none"
    <3>1. dict'[c][t] = l => Says(c, t, l)
      BY <2>2, Zenon DEF Says
    <3>2. ASSUME token[<<c, l>>] = t, dict[c][t] = l PROVE dict'[c][t] = l
      <4>1. dict'[c][t] \in Lists
        BY <2>2, Zenon
      <4>2. Says(c, t, dict'[c][t]) /\ Says(c, t, l)
        BY <2>2, <3>2, Zenon DEF Says
      <4> QED
        BY <1>0, <4>1, <4>2, Zenon DEF TokenInv
    <3> QED
      BY <2>2, <3>1, <3>2, Numbers, Zenon
  <2> QED
    BY <1>1, <2>1, <2>2, Zenon
<1>4. ASSUME NEW d \in Companies, NEW u \in Tokens, NEW l \in Lists, Says(d, u, l)'
      PROVE  Says(d, u, l)
  <2>1. token[<<d, l>>] = u \/ dict'[d][u] = l \/ refresh[d].snap[u] = l \/ lookup'[<<d, u>>] = l
    BY <1>2, <1>4, Zenon DEF Says
  <2>2. CASE d = c /\ u = t
    BY <1>3, <2>1, <2>2, Zenon DEF Says
  <2>3. CASE ~(d = c /\ u = t)
    <3>1. lookup'[<<d, u>>] = lookup[<<d, u>>] /\ dict'[d][u] = dict[d][u]
      BY <1>1, <2>3, Parts, Zenon
    <3> QED
      BY <2>1, <3>1, Zenon DEF Says
  <2> QED
    BY <2>2, <2>3, Zenon
<1>5. ASSUME NEW d \in Companies, NEW u \in Tokens, NEW l \in Lists
      PROVE  /\ token[<<d, l>>] = u /\ dict[d][u] = l => dict'[d][u] = l
             /\ refresh[d].pc # "idle" /\ dict'[d][u] = l => dict[d][u] = l
  <2>1. CASE d = c /\ u = t
    BY <1>3, <2>1, Zenon
  <2>2. CASE ~(d = c /\ u = t)
    <3>1. dict'[d][u] = dict[d][u]
      BY <1>1, <2>2, Parts, Zenon
    <3> QED
      BY <3>1, Zenon
  <2> QED
    BY <2>1, <2>2, Zenon
<1>6. \A d \in Companies : cell[d] = "ready" <=> cell'[d] = "ready"
  BY <1>2, Zenon
<1>7. Gentle
  BY <1>2, <1>4, <1>5, <1>6 DEF Gentle
<1>8. SnapInv'
  <2> SUFFICES ASSUME NEW d \in Companies
               PROVE  /\ refresh'[d].pc # "idle" => cell'[d] = "ready"
                      /\ refresh'[d].pc = "loaded" =>
                           \A l \in Lists, u \in Tokens :
                             dict'[d][u] = l /\ token'[<<d, l>>] = u => refresh'[d].snap[u] = l
    BY Zenon DEF SnapInv
  <2>1. refresh[d].pc # "idle" => cell[d] = "ready"
    BY <1>0, Zenon DEF SnapInv
  <2>2. ASSUME refresh[d].pc = "loaded", NEW l \in Lists, NEW u \in Tokens, dict'[d][u] = l,
               token[<<d, l>>] = u
        PROVE  refresh[d].snap[u] = l
    <3>1. dict[d][u] = l
      BY <1>5, <2>2
    <3> QED
      BY <1>0, <2>2, <3>1 DEF SnapInv
  <2> QED
    BY <1>2, <2>1, <2>2, Zenon
<1> QED
  BY <1>1, <1>2, <1>7, <1>8, ApartInv, Zenon

-----------------------------------------------------------------------------
(* Steps around the reader *)

\* Tokens that were given keep their lists or lose them.
Fresh ==
  /\ \A c \in Companies, t \in Tokens : t <= given[c] => t <= given'[c]
  /\ \A c \in Companies, t \in Tokens, l \in Lists :
       token'[<<c, l>>] = t => token[<<c, l>>] = t \/ ~(t <= given[c])

LEMMA OutsideSays ==
    ASSUME Outside, Fresh, NEW c \in Companies, NEW t \in Tokens, NEW l \in Lists, Says(c, t, l)'
    PROVE  Says(c, t, l) \/ (token'[<<c, l>>] = t /\ ~(t <= given[c]))
<1>1. dict' = dict /\ refresh' = refresh /\ lookup' = lookup
  BY Zenon DEF Outside, cacheVars
<1>2. token'[<<c, l>>] = t \/ dict[c][t] = l \/ refresh[c].snap[t] = l \/ lookup[<<c, t>>] = l
  BY <1>1, Zenon DEF Says
<1>3. token'[<<c, l>>] = t => token[<<c, l>>] = t \/ ~(t <= given[c])
  BY Zenon DEF Fresh
<1> QED
  BY <1>2, <1>3, Zenon DEF Says

LEMMA OutsideStore ==
    ASSUME ReaderInv, Outside, Fresh
    PROVE  SnapInv' /\ CellInv'
<1>0. SnapInv /\ CellInv /\ TokenInv
  BY Zenon DEF ReaderInv, StoreInv
<1>1. cell' = cell /\ dict' = dict /\ refresh' = refresh
  BY Zenon DEF Outside, cacheVars
<1>2. SnapInv'
  <2> SUFFICES ASSUME NEW c \in Companies
               PROVE  /\ refresh'[c].pc # "idle" => cell'[c] = "ready"
                      /\ refresh'[c].pc = "loaded" =>
                           \A l \in Lists, t \in Tokens :
                             dict'[c][t] = l /\ token'[<<c, l>>] = t => refresh'[c].snap[t] = l
    BY Zenon DEF SnapInv
  <2>1. refresh[c].pc # "idle" => cell[c] = "ready"
    BY <1>0, Zenon DEF SnapInv
  <2>2. ASSUME refresh[c].pc = "loaded", NEW l \in Lists, NEW t \in Tokens, dict[c][t] = l,
               token'[<<c, l>>] = t
        PROVE  refresh[c].snap[t] = l
    <3>1. Says(c, t, l)
      BY <2>2, Zenon DEF Says
    <3>2. t <= given[c]
      BY <1>0, <3>1, Zenon DEF TokenInv
    <3>3. token[<<c, l>>] = t
      BY <2>2, <3>2, Zenon DEF Fresh
    <3> QED
      BY <1>0, <2>2, <3>3 DEF SnapInv
  <2> QED
    BY <1>1, <2>1, <2>2, Zenon
<1>3. CellInv'
  <2>1. \A r \in Requests : req'[r].pc = req[r].pc /\ req'[r].company = req[r].company
    BY Zenon DEF Outside, Watched
  <2> QED
    BY <1>0, <1>1, <2>1 DEF CellInv
<1> QED
  BY <1>2, <1>3, Zenon

LEMMA WatchedInv ==
    ASSUME ReaderInv, Outside, Fresh, NEW r \in Requests,
           \A c \in Companies, l \in Lists : Reverse /\ <<c, l>> \in Members /\ <<c, l>> \in Members' =>
             token'[<<c, l>>] = token[<<c, l>>]
    PROVE  Running(r)' /\ Reading(r)' /\ TokensRead(r)' /\ Told(r)' /\ Seen(r)'
<1>0. Typed /\ RequestInv(r)
  BY Zenon DEF ReaderInv
<1>1. cell' = cell /\ dict' = dict /\ Reverse' = Reverse
  BY Zenon DEF Outside, cacheVars, Reverse
<1>2. /\ req'[r].pc = req[r].pc /\ req'[r].company = req[r].company
      /\ req'[r].visible = req[r].visible /\ req'[r].tokens = req[r].tokens
      /\ req'[r].names = req[r].names
  BY Zenon DEF Outside, Watched
<1>3. CASE req[r].pc = "idle"
  BY <1>0, <1>2, <1>3, Zenon DEF RequestInv, Running, Reading, TokensRead, Told, Seen
<1>4. CASE req[r].pc # "idle"
  <2>1. /\ req'[r].held = req[r].held \cup Members'
        /\ req'[r].owners = req[r].owners \cup {company'}
        /\ req'[r].shown = req[r].shown \cup visible'
        /\ req'[r].steady = req[r].steady \cap Members' \cap Shown'
    BY <1>4, Zenon DEF Outside, Watched
  <2>2. /\ req[r].held \subseteq req'[r].held /\ Members' \subseteq req'[r].held
        /\ req'[r].steady \subseteq req[r].steady /\ req'[r].steady \subseteq Members'
        /\ req'[r].steady \subseteq Shown' /\ company' \in req'[r].owners
        /\ visible' \subseteq req'[r].shown /\ req[r].owners \subseteq req'[r].owners
    BY <2>1, Zenon
  <2>3. ASSUME NEW c \in Companies, NEW l \in Lists, <<c, l>> \in req'[r].steady
        PROVE  /\ req[r].pc # "scope" => c = req[r].company
               /\ Reverse => token'[<<c, l>>] = token[<<c, l>>]
               /\ Reverse /\ cell[c] = "ready" => dict[c][token[<<c, l>>]] = l
    <3>1. <<c, l>> \in req[r].steady /\ <<c, l>> \in Members'
      BY <2>2, <2>3, Zenon
    <3>2. <<c, l>> \in Members
      BY <1>0, <1>4, <3>1, Zenon DEF RequestInv, Running
    <3>3. /\ req[r].pc # "scope" => c = req[r].company
          /\ Reverse /\ cell[c] = "ready" => dict[c][token[<<c, l>>]] = l
      BY <1>0, <1>4, <3>1, Zenon DEF RequestInv, Running
    <3> QED
      BY <3>1, <3>2, <3>3, Zenon
  <2>4. Running(r)'
    BY <1>1, <1>2, <1>4, <2>2, <2>3 DEF Running
  <2>5. Reading(r)'
    BY <1>0, <1>1, <1>2, <2>2, Zenon DEF RequestInv, Reading
  <2>6. Told(r)' /\ Seen(r)'
    BY <1>0, <1>2, <2>2, Zenon DEF RequestInv, Told, Seen
  <2>7. TokensRead(r)'
    <3> SUFFICES ASSUME req[r].pc = "names" PROVE TokensRead(r)'
      BY <1>2, Zenon DEF TokensRead
    <3>1. PICK c \in Companies : c = req[r].company
      BY <1>0, Zenon DEF Typed
    <3>2. req[r].tokens \subseteq Tokens /\ Reverse
      BY <1>0, Zenon DEF Typed, TypeOK, RequestInv, Reading
    <3>3. ASSUME NEW t \in req[r].tokens
          PROVE  t <= given'[c] /\ \A l \in Lists : Says(c, t, l)' => <<c, l>> \in req'[r].held
      <4>1. t \in Tokens /\ t <= given[c]
        BY <1>0, <3>1, <3>2, Zenon DEF RequestInv, TokensRead
      <4>2. \A l \in Lists : Says(c, t, l) => <<c, l>> \in req[r].held
        BY <1>0, <3>1, Zenon DEF RequestInv, TokensRead
      <4>3. \A l \in Lists : Says(c, t, l)' => Says(c, t, l)
        BY <4>1, OutsideSays, Zenon
      <4>4. t <= given'[c]
        BY <4>1, Zenon DEF Fresh
      <4> QED
        BY <2>2, <4>2, <4>3, <4>4, Zenon
    <3>4. ASSUME NEW l \in Lists, <<c, l>> \in req'[r].steady
          PROVE  token'[<<c, l>>] \in req[r].tokens
      <4>1. token'[<<c, l>>] = token[<<c, l>>]
        BY <2>3, <3>2, <3>4, Zenon
      <4>2. token[<<c, l>>] \in req[r].tokens
        BY <1>0, <2>2, <3>1, <3>4, Zenon DEF RequestInv, TokensRead
      <4> QED
        BY <4>1, <4>2, Zenon
    <3> QED
      BY <1>2, <3>1, <3>3, <3>4, Zenon DEF TokensRead
  <2> QED
    BY <2>4, <2>5, <2>6, <2>7, Zenon
<1> QED
  BY <1>3, <1>4, Zenon

LEMMA SetsSame ==
    ASSUME ReaderInv, Outside, set' = set, NEW r \in Requests
    PROVE  SetsRead(r)'
<1>1. /\ req'[r].pc = req[r].pc /\ req'[r].company = req[r].company /\ req'[r].version = req[r].version
      /\ req[r].pc = "sets" => /\ req[r].held \subseteq req'[r].held
                               /\ req'[r].steady \subseteq req[r].steady
  BY Zenon DEF Outside, Watched
<1>2. SetsRead(r)
  BY Zenon DEF ReaderInv, RequestInv
<1> QED
  BY <1>1, <1>2, Zenon DEF SetsRead, SetRead

\* The invariant after a step around the reader, from what is left to show of it.
LEMMA OutsideInv ==
    ASSUME ReaderInv, Outside, Typed', Fresh, TokenInv', RevInv', SetInv',
           \A r \in Requests : SetsRead(r)',
           \A c \in Companies, l \in Lists : Reverse /\ <<c, l>> \in Members /\ <<c, l>> \in Members' =>
             token'[<<c, l>>] = token[<<c, l>>]
    PROVE  ReaderInv'
<1>1. SnapInv' /\ CellInv'
  BY OutsideStore, Zenon
<1>2. ASSUME NEW r \in Requests PROVE RequestInv(r)'
  BY WatchedInv, Zenon DEF RequestInv
<1> QED
  BY <1>1, <1>2, Zenon DEF ReaderInv, StoreInv

\* Steps that leave the tokens alone.
LEMMA TokensSame ==
    ASSUME ReaderInv, Outside, UNCHANGED <<token, given, rev>>
    PROVE  /\ Fresh /\ TokenInv' /\ RevInv'
           /\ \A c \in Companies, l \in Lists : token'[<<c, l>>] = token[<<c, l>>]
<1>1. token' = token /\ given' = given /\ rev' = rev
  BY Zenon
<1>2. TokenInv /\ RevInv
  BY Zenon DEF ReaderInv, StoreInv
<1>3. Fresh
  BY <1>1, Zenon DEF Fresh
<1>4. \A c \in Companies, t \in Tokens, l \in Lists : Says(c, t, l)' <=> Says(c, t, l)
  <2>1. dict' = dict /\ refresh' = refresh /\ lookup' = lookup
    BY Zenon DEF Outside, cacheVars
  <2> QED
    BY <1>1, <2>1, Zenon DEF Says
<1>5. TokenInv'
  BY <1>1, <1>2, <1>4, Zenon DEF TokenInv
<1>6. RevInv'
  BY <1>1, <1>2, Zenon DEF RevInv
<1> QED
  BY <1>1, <1>3, <1>5, <1>6, Zenon

LEMMA KeyInv ==
    ASSUME ReaderInv, Discover \/ CompanyChanges \/ ManifestChanges
    PROVE  ReaderInv'
<1>1. Outside /\ Typed' /\ UNCHANGED redisVars
  BY KeyFields, Zenon DEF ReaderInv
<1>2. UNCHANGED <<token, given, rev>> /\ set' = set
  BY <1>1, Zenon DEF redisVars
<1>3. SetInv'
  BY <1>2, Zenon DEF ReaderInv, StoreInv, SetInv
<1>4. \A r \in Requests : SetsRead(r)'
  BY <1>1, <1>2, SetsSame, Zenon
<1> QED
  BY <1>1, <1>2, <1>3, <1>4, TokensSame, OutsideInv, Zenon

LEMMA TokenStepInv ==
    ASSUME ReaderInv, NEW c \in Companies, NEW l \in Lists, TokenChanges(c, l)
    PROVE  ReaderInv'
<1>0. Typed /\ TokenInv /\ RevInv /\ SetInv
  BY Zenon DEF ReaderInv, StoreInv
<1>1. /\ Outside /\ Typed' /\ UNCHANGED <<keyVars, set>>
      /\ \A p \in Pairs \ {<<c, l>>} : token'[p] = token[p]
      /\ \A d \in Companies \ {c} : given'[d] = given[d] /\ rev'[d] = rev[d]
      /\ \/ /\ Reverse /\ token[<<c, l>>] = 0 /\ token'[<<c, l>>] = given[c] + 1
            /\ given'[c] = given[c] + 1 /\ rev'[c] = rev[c]
         \/ /\ token'[<<c, l>>] = token[<<c, l>>] /\ given'[c] = given[c] /\ token[<<c, l>>] # 0
            /\ rev'[c] \in {rev[c] \ {token[<<c, l>>]}, rev[c] \cup {token[<<c, l>>]}}
         \/ /\ token[<<c, l>>] \notin rev[c] /\ token'[<<c, l>>] = 0
            /\ given'[c] = given[c] /\ rev'[c] = rev[c] /\ token[<<c, l>>] # 0
  BY <1>0, TokenFields, Zenon
<1>2. given[c] \in Nat /\ rev[c] \in SUBSET Tokens /\ rev[c] \subseteq Tokens
  <2>1. given[c] \in 0..MaxToken /\ rev[c] \in SUBSET Tokens
    BY <1>0, TypedParts, Zenon DEF RedisTyped
  <2> QED
    BY <2>1, Numbers
<1>3. \A d \in Companies, m \in Lists : ~(d = c /\ m = l) => token'[<<d, m>>] = token[<<d, m>>]
  BY <1>1, Parts, Zenon
<1>4. \A t \in Tokens : t \in Nat /\ t # 0
  BY Numbers, Zenon
<1>5. /\ \A t \in Tokens : t <= given[c] => t <= given'[c]
      /\ \A t \in Tokens : token'[<<c, l>>] = t /\ token[<<c, l>>] # t =>
           ~(t <= given[c]) /\ t <= given'[c]
  BY <1>1, <1>2, <1>4
<1>6. Fresh
  <2>1. ASSUME NEW d \in Companies, NEW t \in Tokens, t <= given[d]
        PROVE  t <= given'[d]
    <3>1. CASE d = c
      BY <1>5, <2>1, <3>1, Zenon
    <3>2. CASE d # c
      <4>1. given'[d] = given[d]
        BY <1>1, <3>2, Zenon
      <4> QED
        BY <2>1, <4>1, Zenon
    <3> QED
      BY <3>1, <3>2, Zenon
  <2>2. ASSUME NEW d \in Companies, NEW t \in Tokens, NEW m \in Lists, token'[<<d, m>>] = t
        PROVE  token[<<d, m>>] = t \/ ~(t <= given[d])
    BY <1>3, <1>5, <2>2, Zenon
  <2> QED
    BY <2>1, <2>2, Zenon DEF Fresh
<1>7. TokenInv'
  <2>1. ASSUME NEW d \in Companies, NEW t \in Tokens, NEW m \in Lists,
               token'[<<d, m>>] = t, ~(t <= given[d])
        PROVE  d = c /\ m = l /\ t <= given'[d]
    <3>1. ~Says(d, t, m)
      BY <1>0, <2>1, Zenon DEF TokenInv
    <3>2. token[<<d, m>>] # t
      BY <3>1, Zenon DEF Says
    <3>3. d = c /\ m = l
      BY <1>3, <2>1, <3>2, Zenon
    <3> QED
      BY <1>5, <2>1, <3>2, <3>3, Zenon
  <2>2. ASSUME NEW d \in Companies, NEW t \in Tokens, NEW m \in Lists, Says(d, t, m)'
        PROVE  /\ t <= given'[d]
               /\ \A n \in Lists : Says(d, t, n)' => n = m
    <3>1. CASE Says(d, t, m)
      <4>1. t <= given[d]
        BY <1>0, <3>1, Zenon DEF TokenInv
      <4>2. t <= given'[d]
        BY <1>6, <4>1, Zenon DEF Fresh
      <4>3. ASSUME NEW n \in Lists, Says(d, t, n)' PROVE n = m
        <5>1. Says(d, t, n)
          BY <1>1, <1>6, <4>1, <4>3, OutsideSays, Zenon
        <5> QED
          BY <1>0, <3>1, <5>1, Zenon DEF TokenInv
      <4> QED
        BY <4>2, <4>3, Zenon
    <3>2. CASE ~Says(d, t, m)
      <4>1. token'[<<d, m>>] = t /\ ~(t <= given[d])
        BY <1>1, <1>6, <2>2, <3>2, OutsideSays, Zenon
      <4>2. m = l /\ t <= given'[d]
        BY <2>1, <4>1, Zenon
      <4>3. ASSUME NEW n \in Lists, Says(d, t, n)' PROVE n = m
        <5>1. ~Says(d, t, n)
          BY <1>0, <4>1, Zenon DEF TokenInv
        <5>2. token'[<<d, n>>] = t
          BY <1>1, <1>6, <4>3, <5>1, OutsideSays, Zenon
        <5> QED
          BY <2>1, <4>1, <4>2, <5>2, Zenon
      <4> QED
        BY <4>2, <4>3, Zenon
    <3> QED
      BY <3>1, <3>2, Zenon
  <2> QED
    BY <2>2, Zenon DEF TokenInv
<1>8. RevInv'
  <2> SUFFICES ASSUME NEW d \in Companies, NEW t \in rev'[d]
               PROVE  \E m \in Lists : token'[<<d, m>>] = t
    BY Zenon DEF RevInv
  <2>1. CASE d # c
    <3>1. t \in rev[d]
      BY <1>1, <2>1, Zenon
    <3>2. PICK m \in Lists : token[<<d, m>>] = t
      BY <1>0, <3>1, Zenon DEF RevInv
    <3>3. token'[<<d, m>>] = t
      BY <1>3, <2>1, <3>2, Zenon
    <3> QED
      BY <3>3, Zenon
  <2>2. CASE d = c /\ t = token'[<<c, l>>]
    BY <2>2, Zenon
  <2>3. CASE d = c /\ t # token'[<<c, l>>]
    <3>1. t \in rev[c] /\ t # token[<<c, l>>]
      <4>1. CASE token[<<c, l>>] = 0 /\ rev'[c] = rev[c]
        BY <1>2, <1>4, <2>3, <4>1, Zenon
      <4>2. CASE /\ token'[<<c, l>>] = token[<<c, l>>]
                 /\ rev'[c] \in {rev[c] \ {token[<<c, l>>]}, rev[c] \cup {token[<<c, l>>]}}
        BY <2>3, <4>2, Zenon
      <4>3. CASE token[<<c, l>>] \notin rev[c] /\ rev'[c] = rev[c]
        BY <2>3, <4>3, Zenon
      <4> QED
        BY <1>1, <4>1, <4>2, <4>3, Zenon
    <3>2. PICK m \in Lists : token[<<c, m>>] = t
      BY <1>0, <3>1, Zenon DEF RevInv
    <3>3. m # l
      BY <3>1, <3>2, Zenon
    <3>4. token'[<<c, m>>] = t
      BY <1>3, <3>2, <3>3, Zenon
    <3> QED
      BY <2>3, <3>4, Zenon
  <2> QED
    BY <2>1, <2>2, <2>3, Zenon
<1>9. ASSUME NEW d \in Companies, NEW m \in Lists, Reverse, <<d, m>> \in Members
      PROVE  \/ token'[<<d, m>>] = token[<<d, m>>] \/ ~(<<d, m>> \in Members')
  <2>1. token[<<d, m>>] \in rev[d] /\ token[<<d, m>>] \in Tokens
    BY <1>0, <1>9, TokenOfMember, Zenon
  <2>2. CASE ~(d = c /\ m = l)
    BY <1>3, <2>2, Zenon
  <2>3. CASE d = c /\ m = l
    <3>1. token[<<c, l>>] \in rev[c] /\ token[<<c, l>>] # 0
      BY <1>4, <2>1, <2>3, Zenon
    <3>2. token'[<<c, l>>] = token[<<c, l>>]
      BY <1>1, <3>1, Zenon
    <3> QED
      BY <2>3, <3>2, Zenon
  <2> QED
    BY <2>2, <2>3, Zenon
<1>10. SetInv' /\ \A r \in Requests : SetsRead(r)'
  <2>1. set' = set
    BY <1>1, Zenon
  <2> QED
    BY <1>0, <1>1, <2>1, SetsSame, Zenon DEF SetInv
<1> QED
  BY <1>1, <1>6, <1>7, <1>8, <1>9, <1>10, OutsideInv, Zenon

\* A version between its read and the read of its set, when the set changes.
LEMMA SetMovesRead ==
    ASSUME ReaderInv, NEW c \in Companies, NEW l \in Lists, Outside, Typed', ~Reverse, SetMoves(c, l),
           NEW r \in Requests, req[r].pc = "sets", req[r].company = c
    PROVE  SetRead(r, l)'
<1> DEFINE s == set[<<c, l>>]
           n == set'[<<c, l>>]
           v == req[r].version[l]
<1>1. SetRead(r, l)
  BY Zenon DEF ReaderInv, RequestInv, SetsRead
<1>2. /\ v \in s.holds => <<c, l>> \in req[r].held
      /\ v # 0 /\ s.loading = v => s.version = 0
      /\ <<c, l>> \in req[r].steady => v \in s.holds
  BY <1>1, Zenon DEF SetRead
<1>3. /\ req'[r].version = req[r].version /\ req'[r].company = c
      /\ req'[r].held = req[r].held \cup Members'
      /\ req'[r].steady = req[r].steady \cap Members' \cap Shown'
  BY Zenon DEF Outside, Watched
<1>4. <<c, l>> \in Members' <=> Served(n) \in n.holds
  <2>1. ~Reverse'
    BY Zenon DEF Outside, Reverse
  <2>2. <<c, l>> \in Members' <=> Holds(c, l)'
    BY Parts, Zenon DEF Members, Holds
  <2> QED
    BY <2>1, <2>2, Zenon DEF Holds
<1>5. SUFFICES /\ v \in n.holds => <<c, l>> \in req[r].held \/ <<c, l>> \in Members'
               /\ v # 0 /\ n.loading = v => n.version = 0
               /\ <<c, l>> \in req[r].steady /\ <<c, l>> \in Members' => v \in n.holds
  BY <1>3, Zenon DEF SetRead
<1>6. CASE /\ s.loading = 0 /\ n.version = s.version /\ n.holds = s.holds
           /\ n.loading # 0 /\ n.loading > s.version /\ Unread(l, n.loading)
  <2>1. v # n.loading
    BY <1>6, Zenon DEF Unread
  <2> QED
    BY <1>2, <1>6, <2>1, Zenon
<1>7. CASE s.loading # 0 /\ n.version = s.loading /\ n.loading = 0 /\ n.holds = s.holds
  BY <1>2, <1>7, Zenon
<1>8. CASE /\ n.version = s.version /\ n.loading = s.loading
           /\ \E w \in {s.version, s.loading} \ {0} : n.holds \in {s.holds \ {w}, s.holds \cup {w}}
  <2>1. PICK w \in {s.version, s.loading} \ {0} : n.holds \in {s.holds \ {w}, s.holds \cup {w}}
    BY <1>8, Zenon
  <2>2. CASE v # w
    <3>1. v \in n.holds <=> v \in s.holds
      BY <2>1, <2>2, Zenon
    <3> QED
      BY <1>2, <1>8, <3>1, Zenon
  <2>3. CASE v = w
    <3>1. v # 0 /\ (v = s.version \/ v = s.loading)
      BY <2>1, <2>3, Zenon
    <3>2. Served(n) = v
      BY <1>2, <1>8, <3>1, Zenon DEF Served
    <3> QED
      BY <1>2, <1>4, <1>8, <3>2, Zenon
  <2> QED
    BY <2>2, <2>3, Zenon
<1>9. CASE /\ n.version = s.version /\ n.loading = s.loading
           /\ \E w \in s.holds \ {s.version, s.loading} : Unread(l, w) /\ n.holds = s.holds \ {w}
  <2>1. PICK w \in s.holds \ {s.version, s.loading} : Unread(l, w) /\ n.holds = s.holds \ {w}
    BY <1>9, Zenon
  <2>2. v # w
    BY <2>1, Zenon DEF Unread
  <2> QED
    BY <1>2, <1>9, <2>1, <2>2, Zenon
<1>10. CASE n.version = 0 /\ n.loading = 0 /\ n.holds = {}
  BY <1>4, <1>10, Zenon
<1> QED
  BY <1>6, <1>7, <1>8, <1>9, <1>10, Zenon DEF SetMoves

LEMMA SetStepInv ==
    ASSUME ReaderInv, NEW c \in Companies, NEW l \in Lists, SetChanges(c, l)
    PROVE  ReaderInv'
<1>1. /\ Outside /\ Typed' /\ ~Reverse /\ UNCHANGED <<token, given, rev>>
      /\ \A p \in Pairs \ {<<c, l>>} : set'[p] = set[p]
      /\ SetMoves(c, l)
  BY SetFields, Zenon DEF ReaderInv
<1>2. \A d \in Companies, m \in Lists : ~(d = c /\ m = l) => set'[<<d, m>>] = set[<<d, m>>]
  BY <1>1, Parts, Zenon
<1>3. SetInv'
  <2> SUFFICES ASSUME NEW d \in Companies, NEW m \in Lists, set'[<<d, m>>].loading # 0
               PROVE  set'[<<d, m>>].loading > set'[<<d, m>>].version
    BY Zenon DEF SetInv
  <2>1. set[<<d, m>>].loading # 0 => set[<<d, m>>].loading > set[<<d, m>>].version
    BY Zenon DEF ReaderInv, StoreInv, SetInv
  <2>2. CASE d = c /\ m = l
    <3>1. \/ /\ set'[<<c, l>>].version = set[<<c, l>>].version
             /\ set'[<<c, l>>].loading > set[<<c, l>>].version
          \/ set'[<<c, l>>].loading = 0
          \/ /\ set'[<<c, l>>].version = set[<<c, l>>].version
             /\ set'[<<c, l>>].loading = set[<<c, l>>].loading
      BY <1>1, Zenon DEF SetMoves
    <3> QED
      BY <2>1, <2>2, <3>1, Zenon
  <2>3. CASE ~(d = c /\ m = l)
    BY <1>2, <2>1, <2>3, Zenon
  <2> QED
    BY <2>2, <2>3, Zenon
<1>4. ASSUME NEW r \in Requests, req'[r].pc = "sets", NEW m \in Lists
      PROVE  SetRead(r, m)'
  <2>1. /\ req[r].pc = "sets" /\ req'[r].company = req[r].company /\ req'[r].version = req[r].version
        /\ req[r].held \subseteq req'[r].held /\ req'[r].steady \subseteq req[r].steady
    BY <1>1, <1>4, Zenon DEF Outside, Watched
  <2>2. req[r].company \in Companies
    BY <2>1, Zenon DEF ReaderInv, Typed
  <2>3. CASE req[r].company = c /\ m = l
    BY <1>1, <2>1, <2>3, SetMovesRead, Zenon
  <2>4. CASE ~(req[r].company = c /\ m = l)
    <3>1. set'[<<req[r].company, m>>] = set[<<req[r].company, m>>]
      BY <1>2, <2>2, <2>4, Zenon
    <3>2. SetRead(r, m)
      BY <2>1, Zenon DEF ReaderInv, RequestInv, SetsRead
    <3> QED
      BY <2>1, <3>1, <3>2, Zenon DEF SetRead
  <2> QED
    BY <2>3, <2>4, Zenon
<1>5. \A r \in Requests : SetsRead(r)'
  BY <1>4, Zenon DEF SetsRead
<1> QED
  BY <1>1, <1>3, <1>5, TokensSame, OutsideInv, Zenon

-----------------------------------------------------------------------------
(* The theorems *)

LEMMA InitInv == Init => ReaderInv
<1> SUFFICES ASSUME Init PROVE ReaderInv
  BY Zenon
<1>1. Typed
  BY InitTyped, Zenon
<1>2. /\ token = [p \in Pairs |-> 0] /\ rev = [c \in Companies |-> {}]
      /\ set = [p \in Pairs |-> [version |-> 0, loading |-> 0, holds |-> {}]]
      /\ dict = [c \in Companies |-> NoNames] /\ refresh = [c \in Companies |-> Resting]
      /\ lookup = [x \in Companies \X Tokens |-> "none"] /\ req = [r \in Requests |-> NoRequest]
  BY Zenon DEF Init
<1>3. TokenInv
  <2> SUFFICES ASSUME NEW c \in Companies, NEW t \in Tokens, NEW l \in Lists PROVE ~Says(c, t, l)
    BY Zenon DEF TokenInv
  <2>1. token[<<c, l>>] # t
    BY <1>2, Parts, Numbers, Zenon
  <2>2. dict[c][t] # l
    BY <1>2, Numbers, Zenon DEF NoNames
  <2>3. refresh[c].snap[t] # l
    BY <1>2, RestingFields, Zenon
  <2>4. lookup[<<c, t>>] # l
    <3>1. <<c, t>> \in Companies \X Tokens
      BY Zenon
    <3> QED
      BY <1>2, <3>1, Numbers, Zenon
  <2> QED
    BY <2>1, <2>2, <2>3, <2>4, Zenon DEF Says
<1>4. RevInv
  BY <1>2, Zenon DEF RevInv
<1>5. SetInv
  <2>1. \A c \in Companies, l \in Lists : set[<<c, l>>].loading = 0
    BY <1>2, Parts, Zenon
  <2> QED
    BY <2>1, Zenon DEF SetInv
<1>6. SnapInv
  BY <1>2, RestingFields, Zenon DEF SnapInv
<1>7. \A r \in Requests : req[r] = NoRequest /\ req[r].pc = "idle" /\ req[r].names = {}
  BY <1>2, NobodysFields, Zenon
<1>8. CellInv /\ \A r \in Requests : RequestInv(r)
  BY <1>7, Zenon DEF CellInv, RequestInv, Running, Reading, TokensRead, SetsRead, Told, Seen
<1> QED
  BY <1>1, <1>3, <1>4, <1>5, <1>6, <1>8, Zenon DEF ReaderInv, StoreInv

LEMMA StutterInv == ReaderInv /\ UNCHANGED vars => ReaderInv'
<1> SUFFICES ASSUME ReaderInv, UNCHANGED vars PROVE ReaderInv'
  BY Zenon
<1>1. Quiet /\ UNCHANGED cacheVars /\ req' = req
  BY Zenon DEF vars, Quiet
<1>2. Typed' /\ Gentle /\ SnapInv'
  BY <1>1, StutterTyped, ReadsGentle, Zenon DEF ReaderInv, StoreInv
<1>3. UNCHANGED cell
  BY <1>1, Zenon DEF cacheVars
<1> QED
  BY <1>1, <1>2, <1>3, ApartInv, Zenon

LEMMA StepInv == ReaderInv /\ [Next]_vars => ReaderInv'
<1> SUFFICES ASSUME ReaderInv, Next PROVE ReaderInv'
  BY StutterInv, Zenon
<1>1. CASE \E r \in Requests : Reads(r) \/ GetFetcher(r) \/ LoadFails(r) \/ Load(r) \/ NameTokens(r)
  BY <1>1, ReadsInv, GetFetcherInv, LoadFailsInv, LoadInv, NameTokensInv, Zenon
<1>2. CASE \E c \in Companies : RefreshStep(c)
  BY <1>2, RefreshInv, Zenon
<1>3. CASE \E c \in Companies, t \in Tokens : LookUpStep(c, t) \/ RetryDue(c, t)
  BY <1>3, LookUpInv, Zenon
<1>4. CASE Discover \/ CompanyChanges \/ ManifestChanges
  BY <1>4, KeyInv, Zenon
<1>5. CASE \E c \in Companies, l \in Lists : TokenChanges(c, l) \/ SetChanges(c, l)
  BY <1>5, TokenStepInv, SetStepInv, Zenon
<1> QED
  BY <1>1, <1>2, <1>3, <1>4, <1>5, Kinds, Zenon DEF ReaderInv

\* For any companies, lists, requests and bounds, a name in an answer is that of
\* a list of the key's company that held the id while the request ran: the
\* tokens of Redis and the cached names of RedisIdListMembershipFetcher::fetch,
\* and the versions and sets of fetch_forward, never combine to another list.
THEOREM AnswersTrue == Spec => []AnswerTrue
<1>1. ReaderInv => AnswerTrue
  BY Zenon DEF ReaderInv, RequestInv, Told, AnswerTrue, Answering, Answer
<1> QED
  BY <1>1, InitInv, StepInv, PTL DEF Spec

\* However the company and the manifest of the key change while Redis is read,
\* CompanyKeyResolver::resolve answers only with lists the key saw, from the
\* company the key belonged to, since the last read.
THEOREM AnswersVisible == Spec => []NothingHidden
<1>1. ReaderInv => NothingHidden
  <2> SUFFICES ASSUME ReaderInv, NEW r \in Requests, Answering(r), Answer(r) # {}
               PROVE  Answer(r) \subseteq req[r].shown /\ req[r].company \in req[r].owners
    BY Zenon DEF NothingHidden
  <2>1. req[r].pc = "filter" /\ req[r].names # {}
    BY Zenon DEF Answering, Answer
  <2>2. visible \subseteq req[r].shown /\ req[r].company \in req[r].owners
    BY <2>1, Zenon DEF ReaderInv, RequestInv, Seen
  <2> QED
    BY <2>2, Zenon DEF Answer
<1> QED
  BY <1>1, InitInv, StepInv, PTL DEF Spec

\* A list that held the id and that the key saw all through the request, and whose
\* token was known when it came, is in the answer, whatever versions are loaded
\* and whatever refreshes and lookups of the dictionary run
\* (RedisIdListMembershipFetcher).
THEOREM MissesNothing == Spec => []NothingMissing
<1>1. ReaderInv => NothingMissing
  <2> SUFFICES ASSUME ReaderInv, NEW r \in Requests, Answering(r), NEW p \in req[r].steady
               PROVE  p[2] \in Answer(r)
    BY Zenon DEF NothingMissing
  <2>1. Typed /\ Running(r) /\ Told(r) /\ req[r].pc = "filter"
    BY Zenon DEF ReaderInv, RequestInv, Answering
  <2>2. p \in Pairs
    BY <2>1, MemberOf, Zenon DEF Running
  <2>3. PICK c \in Companies, l \in Lists : p = <<c, l>> /\ p[2] = l
    BY <2>2, Parts, Zenon
  <2>4. c = req[r].company
    BY <2>1, <2>3, Zenon DEF Running
  <2>5. l \in visible
    BY <2>1, <2>3, <2>4, SteadyIs, Zenon
  <2>6. l \in req[r].names
    BY <2>1, <2>3, <2>4, Zenon DEF Told
  <2> QED
    BY <2>3, <2>5, <2>6, Zenon DEF Answer
<1> QED
  BY <1>1, InitInv, StepInv, PTL DEF Spec
=============================================================================
