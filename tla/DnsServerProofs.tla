--------------------------- MODULE DnsServerProofs ---------------------------
(***************************************************************************)
(* Safety of a DNS server, for every set of configurations and all         *)
(* lifetimes that satisfy LinkAssumption and DnsAssumption.                *)
(*                                                                         *)
(* First its link to the Manager. EnforcedRecently is not inductive:       *)
(* nothing in it relates the age of the configuration to the remaining     *)
(* life of the JWT, nor to how long ago the configuration was replaced.    *)
(* Held adds both, for the client's memory and for the file alike.         *)
(*                                                                         *)
(* Then the data plane: it uses the link only as ManagerLink allows, it    *)
(* keeps protected zones hidden as promptly as the link lets it, and a     *)
(* listed address disappears from its answers. The link's inductive        *)
(* invariant carries over along the refinement. What the data plane adds   *)
(* is a relation between two clocks that the code never compares: how long *)
(* the checker has had an address, and how long Redis still keeps an       *)
(* answer with it.                                                         *)
(***************************************************************************)
EXTENDS DnsServer, ManagerLink, WellFoundedInduction, TLAPS

-----------------------------------------------------------------------------
(* The link. *)

\* What a client may hold: the configuration is not older than the token that
\* came with it, and was the Manager's when it was fetched.
HeldAt(s, outdated) ==
    \/ s = None
    \/ /\ s \in Session
       /\ s.left > 0 => s.age + s.left <= JwtLife
       /\ outdated[s.config] <= s.age

Held(s) == HeldAt(s, gone)

LinkInv ==
    /\ TypeOK
    /\ gone[current] = 0
    /\ Held(session)
    /\ Held(disk)

\* An outcome leaves good states, and renews only with accepted credentials.
GoodOutcome(r, s) ==
    /\ Held(r.session)
    /\ Held(r.disk)
    /\ r.session = s \/ r.session.gen \in rows
    /\ r.ok => r.session \in Session

\* A lost request changes nothing.
LEMMA NoAnswerGood ==
    ASSUME NEW s, NEW d, Held(s), Held(d)
    PROVE  \A r \in NoAnswer(s, d) : GoodOutcome(r, s) /\ ~r.ok
BY DEF NoAnswer, Out, GoodOutcome

\* A registration yields a session whose token and configuration are new.
LEMMA RegisterGood ==
    ASSUME LinkInv, NEW key \in Gens, NEW s, NEW d, Held(s), Held(d)
    PROVE  \A r \in Register(key, s, d) :
              GoodOutcome(r, s) /\ (r.ok => r.session.gen \in rows)
<1>1. Registered(key) \in Session
  BY LinkAssumption DEF Registered, Session, LinkInv, TypeOK
<1>2. Held(Registered(key))
  BY <1>1, LinkAssumption DEF Registered, Held, HeldAt, LinkInv, TypeOK
<1>3. ASSUME NEW r \in Register(key, s, d), key \in rows, r \notin NoAnswer(s, d)
      PROVE  GoodOutcome(r, s) /\ r.session.gen \in rows
  <2>1. PICK d2 \in SaveToCache(Registered(key), d) :
           r = Out(TRUE, Registered(key), d2)
    BY <1>3 DEF Register
  <2>2. Held(d2)
    BY <2>1, <1>2 DEF SaveToCache, Held, HeldAt
  <2>3. Registered(key).gen \in rows
    BY <1>3 DEF Registered
  <2>4. QED
    BY <2>1, <2>2, <2>3, <1>1, <1>2 DEF Out, GoodOutcome
<1>4. ASSUME NEW r \in Register(key, s, d), key \notin rows, r \notin NoAnswer(s, d)
      PROVE  GoodOutcome(r, s) /\ ~r.ok
  BY <1>4 DEF Register, Out, GoodOutcome
<1>5. QED
  BY <1>3, <1>4, NoAnswerGood

\* refresh_jwt only ever changes the session by registering.
LEMMA RefreshGood ==
    ASSUME LinkInv, NEW key \in Gens, NEW s, NEW d, Held(s), Held(d)
    PROVE  \A r \in RefreshJwt(key, s, d) :
              GoodOutcome(r, s) /\ (r.ok => r.session.gen \in rows)
BY RegisterGood, NoAnswerGood DEF RefreshJwt

\* A fetch with an accepted token brings the current configuration.
LEMMA FetchGood ==
    ASSUME LinkInv, NEW s \in Session, NEW d, Held(s), Held(d), s.gen \in rows
    PROVE  \A r \in Fetch(s, d) :
              GoodOutcome(r, s) /\ (r.session = s \/ r.session.gen \in rows)
<1>1. Fetched(s) \in Session
  BY LinkAssumption DEF Fetched, Session, LinkInv, TypeOK
<1>2. Held(Fetched(s))
  BY <1>1, LinkAssumption DEF Fetched, Held, HeldAt, Session, LinkInv, TypeOK
<1>3. Fetched(s).gen = s.gen
  BY DEF Fetched, Session
<1>4. ASSUME NEW r \in Fetch(s, d), r \notin NoAnswer(s, d)
      PROVE  GoodOutcome(r, s) /\ r.session.gen \in rows
  <2>1. PICK d2 \in SaveToCache(Fetched(s), d) : r = Out(TRUE, Fetched(s), d2)
    BY <1>4 DEF Fetch
  <2>2. Held(d2)
    BY <2>1, <1>2 DEF SaveToCache, Held, HeldAt
  <2>3. QED
    BY <2>1, <2>2, <1>1, <1>2, <1>3 DEF Out, GoodOutcome
<1>5. QED
  BY <1>4, NoAnswerGood DEF GoodOutcome

\* sync_config, with or without the detour through refresh_jwt.
LEMMA SyncGood ==
    ASSUME LinkInv, NEW key \in Gens, NEW s, NEW d, Held(s), Held(d)
    PROVE  \A r \in SyncConfig(key, s, d) : GoodOutcome(r, s)
<1>1. CASE s = None
  BY <1>1 DEF SyncConfig, Out, GoodOutcome
<1>2. CASE s # None /\ TokenAccepted(s)
  <2>1. s \in Session /\ s.gen \in rows
    BY <1>2 DEF Held, HeldAt, TokenAccepted
  <2>2. QED
    BY <2>1, <1>2, FetchGood DEF SyncConfig
<1>3. CASE s # None /\ ~TokenAccepted(s)
  <2>1. ASSUME NEW r0 \in RefreshJwt(key, s, d), r0.ok,
               NEW r \in Fetch(r0.session, r0.disk)
        PROVE  GoodOutcome(r, s)
    <3>1. GoodOutcome(r0, s) /\ r0.session.gen \in rows
      BY <2>1, RefreshGood
    <3>2. r0.session \in Session /\ Held(r0.session) /\ Held(r0.disk)
      BY <3>1, <2>1 DEF GoodOutcome
    <3>3. GoodOutcome(r, r0.session) /\ (r.session = r0.session \/ r.session.gen \in rows)
      BY <3>1, <3>2, FetchGood
    <3>4. QED
      BY <3>1, <3>3 DEF GoodOutcome
  <2>2. QED
    BY <2>1, <1>3, RefreshGood, NoAnswerGood DEF SyncConfig
<1>4. QED
  BY <1>1, <1>2, <1>3

\* heartbeat changes the session only by refreshing it.
LEMMA HeartbeatGood ==
    ASSUME LinkInv, NEW key \in Gens, NEW s, NEW d, Held(s), Held(d)
    PROVE  \A r \in Heartbeat(key, s, d) : GoodOutcome(r, s)
<1>1. ASSUME NEW r0 \in RefreshJwt(key, s, d)
      PROVE  GoodOutcome(Out(FALSE, r0.session, r0.disk), s)
  BY <1>1, RefreshGood DEF GoodOutcome, Out
<1>2. GoodOutcome(Out(FALSE, s, d), s)
  BY DEF GoodOutcome, Out
<1>3. QED
  BY <1>1, <1>2, NoAnswerGood DEF Heartbeat

\* check_mode changes the session only by refreshing it.
LEMMA CheckModeGood ==
    ASSUME LinkInv, NEW key \in Gens, NEW s, NEW d, Held(s), Held(d)
    PROVE  \A r \in CheckMode(key, s, d) :
              /\ Held(r.session) /\ Held(r.disk) /\ r.mode \in Modes
              /\ r.session = s \/ r.session.gen \in rows
<1>1. CASE IsJwtValid(s)
  BY <1>1 DEF CheckMode, Modes
<1>2. CASE ~IsJwtValid(s)
  <2>1. \A r \in RefreshJwt(key, s, d) : ModeAfter(r) \in Modes
    BY DEF ModeAfter, Modes
  <2>2. QED
    BY <1>2, <2>1, RefreshGood DEF CheckMode, GoodOutcome
<1>3. QED
  BY <1>1, <1>2

\* startup leaves the process with what it loaded or with a new session.
LEMMA StartupGood ==
    ASSUME LinkInv, NEW key \in Gens
    PROVE  \A r \in Startup(key, disk) : Held(r.session) /\ Held(r.disk)
<1>1. Held(disk)
  BY DEF LinkInv
<1>2. ASSUME NEW r0 \in Register(key, disk, disk), r0.ok,
             NEW r \in SyncConfig(key, r0.session, r0.disk)
      PROVE  Held(r.session) /\ Held(r.disk)
  <2>1. Held(r0.session) /\ Held(r0.disk)
    BY <1>1, <1>2, RegisterGood DEF GoodOutcome
  <2>2. QED
    BY <1>2, <2>1, SyncGood DEF GoodOutcome
<1>3. \A r \in Register(key, disk, disk) : Held(r.session) /\ Held(r.disk)
  BY <1>1, RegisterGood DEF GoodOutcome
<1>4. QED
  BY <1>1, <1>2, <1>3 DEF Startup, Out

-----------------------------------------------------------------------------
\* A unit of time more makes neither half of Held false.
LEMMA AgedHeld ==
    ASSUME LinkInv, Tick, NEW s, Held(s)
    PROVE  HeldAt(Aged(s), gone')
<1>1. CASE s = None
  BY <1>1 DEF Held, HeldAt, Aged
<1>2. CASE s # None
  <2>1. s \in Session /\ gone \in [Configs -> 0..CacheTtl] /\ gone[s.config] <= s.age
    BY <1>2 DEF Held, HeldAt, LinkInv, TypeOK
  <2> DEFINE a == Aged(s)
  <2>2. /\ a \in Session /\ a.config = s.config
        /\ a.left = IF s.left > 0 THEN s.left - 1 ELSE 0
        /\ a.age = Older(s.age)
    BY <1>2, <2>1, LinkAssumption DEF Aged, Older, Session
  <2>3. gone'[s.config] <= a.age
    BY <2>1, <2>2, LinkAssumption DEF Tick, Older, Session
  <2>4. a.left > 0 => a.age + a.left <= JwtLife
    BY <1>2, <2>1, <2>2, LinkAssumption DEF Held, HeldAt, Older, Session
  <2>5. QED
    BY <2>2, <2>3, <2>4 DEF Held, HeldAt
<1>3. QED
  BY <1>1, <1>2

\* The invariant holds initially: nothing is held.
LEMMA LinkInvInit == LinkInit => LinkInv
<1> SUFFICES ASSUME LinkInit PROVE LinkInv
  OBVIOUS
<1>1. gone \in [Configs -> 0..CacheTtl] /\ gone[current] = 0
  BY LinkAssumption DEF LinkInit
<1>2. rows \subseteq Gens /\ issued \in Gens /\ join_key \in Gens
  BY LinkAssumption DEF LinkInit, Gens
<1>3. QED
  BY <1>1, <1>2 DEF LinkInit, LinkInv, TypeOK, Held, HeldAt, Modes

\* Every step keeps the invariant.
LEMMA LinkInvNext == LinkInv /\ [LinkNext]_linkVars => LinkInv'
<1> SUFFICES ASSUME LinkInv, [LinkNext]_linkVars
             PROVE  LinkInv'
  OBVIOUS
<1> USE LinkAssumption
<1>1. CASE EditConfig
  <2>1. PICK c \in Configs : current' = c /\ gone' = [gone EXCEPT ![c] = 0]
    BY <1>1 DEF EditConfig
  <2>2. gone' \in [Configs -> 0..CacheTtl] /\ gone'[current'] = 0
    BY <2>1 DEF LinkInv, TypeOK
  <2>3. \A s : Held(s) => HeldAt(s, gone')
    BY <2>1 DEF Held, HeldAt, LinkInv, TypeOK, Session
  <2>4. QED
    BY <1>1, <2>1, <2>2, <2>3 DEF EditConfig, LinkInv, TypeOK, Held, HeldAt
<1>2. CASE CreateServer
  BY <1>2 DEF CreateServer, LinkInv, TypeOK, Held, HeldAt, Gens
<1>3. CASE RetireServer
  BY <1>3 DEF RetireServer, LinkInv, TypeOK, Held, HeldAt
<1>4. CASE NetworkChange
  BY <1>4 DEF NetworkChange, LinkInv, TypeOK, Held, HeldAt
<1>5. CASE Tick
  <2>1. Held(session)' /\ Held(disk)'
    <3>1. HeldAt(Aged(session), gone') /\ HeldAt(Aged(disk), gone')
      BY <1>5, AgedHeld DEF LinkInv
    <3>2. session' = Aged(session) /\ disk' = Aged(disk)
      BY <1>5 DEF Tick
    <3>3. QED
      BY <3>1, <3>2 DEF Held, HeldAt
  <2>2. gone' \in [Configs -> 0..CacheTtl] /\ gone'[current'] = 0
    BY <1>5 DEF Tick, Older, LinkInv, TypeOK
  <2>3. QED
    BY <1>5, <2>1, <2>2 DEF Tick, LinkInv, TypeOK, Held, HeldAt
<1>6. CASE Crash
  BY <1>6 DEF Crash, mgrVars, LinkInv, TypeOK, Held, HeldAt, Modes
<1>7. CASE Start
  <2>0. PICK key \in {join_key, issued} : \E r \in Startup(key, disk) : Started(key, r)
    BY <1>7 DEF Start
  <2>1. PICK r \in Startup(key, disk) : Started(key, r)
    BY <2>0
  <2>2. key \in Gens
    BY <2>1 DEF LinkInv, TypeOK
  <2>3. Held(r.session) /\ Held(r.disk)
    BY <2>1, <2>2, StartupGood
  <2>4. QED
    BY <2>1, <2>2, <2>3 DEF Started, mgrVars, LinkInv, TypeOK, Held, HeldAt
<1>8. CASE Health
  <2>1. PICK r \in CheckMode(join_key, session, disk) :
           mode' = r.mode /\ session' = r.session /\ disk' = r.disk
    BY <1>8 DEF Health
  <2>2. Held(r.session) /\ Held(r.disk) /\ r.mode \in Modes
    BY <2>1, CheckModeGood DEF LinkInv, TypeOK
  <2>3. QED
    BY <1>8, <2>1, <2>2 DEF Health, mgrVars, LinkInv, TypeOK, Held, HeldAt
<1>9. ASSUME NEW r, TakeOver(r), Held(r.session), Held(r.disk)
      PROVE  LinkInv'
  BY <1>9 DEF TakeOver, mgrVars, LinkInv, TypeOK, Held, HeldAt
<1>10. CASE SyncTask
  <2>1. PICK r \in SyncConfig(join_key, session, disk) : TakeOver(r)
    BY <1>10 DEF SyncTask
  <2>2. GoodOutcome(r, session)
    BY <2>1, SyncGood DEF LinkInv, TypeOK
  <2>3. QED
    BY <2>1, <2>2, <1>9 DEF GoodOutcome
<1>11. CASE HeartbeatTask
  <2>1. PICK r \in Heartbeat(join_key, session, disk) : TakeOver(r)
    BY <1>11 DEF HeartbeatTask
  <2>2. GoodOutcome(r, session)
    BY <2>1, HeartbeatGood DEF LinkInv, TypeOK
  <2>3. QED
    BY <2>1, <2>2, <1>9 DEF GoodOutcome
<1>12. CASE UNCHANGED linkVars
  BY <1>12 DEF linkVars, LinkInv, TypeOK, Held, HeldAt
<1>13. QED
  BY <1>1, <1>2, <1>3, <1>4, <1>5, <1>6, <1>7, <1>8, <1>10, <1>11, <1>12
  DEF LinkNext

\* The invariant gives both bounds on what the server enforces.
LEMMA LinkInvBounds == LinkInv => FreshWhileJwtValid /\ EnforcedRecently
<1> SUFFICES ASSUME LinkInv PROVE FreshWhileJwtValid /\ EnforcedRecently
  OBVIOUS
<1>1. ASSUME NEW s, Held(s), IsJwtValid(s) PROVE CacheUsable(s)
  BY <1>1, LinkAssumption DEF Held, HeldAt, IsJwtValid, CacheUsable, Session
<1>2. ASSUME NEW s, Held(s), CacheUsable(s) PROVE gone[s.config] < CacheTtl
  BY <1>2, LinkAssumption DEF Held, HeldAt, CacheUsable, Session, LinkInv, TypeOK
<1>3. QED
  BY <1>1, <1>2 DEF LinkInv, FreshWhileJwtValid, EnforcedRecently

\* Every reachable state is well typed.
THEOREM LinkTypeCorrect == LinkSpec => []TypeOK
<1>1. LinkInv => TypeOK
  BY DEF LinkInv
<1>2. QED
  BY <1>1, LinkInvInit, LinkInvNext, PTL DEF LinkSpec

\* A server that check_mode calls normal because its JWT is valid holds a
\* configuration younger than the cache TTL.
THEOREM LinkFresh == LinkSpec => []FreshWhileJwtValid
BY LinkInvInit, LinkInvNext, LinkInvBounds, PTL DEF LinkSpec

\* In normal and in cached mode the enforced configuration was the Manager's
\* within the last CacheTtl.
THEOREM LinkEnforcedRecently == LinkSpec => []EnforcedRecently
BY LinkInvInit, LinkInvNext, LinkInvBounds, PTL DEF LinkSpec
-----------------------------------------------------------------------------
\* A session on retired credentials, and what a step may leave of it.
RunsDown ==
    session # None /\ session.gen \notin rows /\ session' # None
      /\ session'.gen = session.gen /\ running
    => session'.left <= session.left /\ session'.age >= session.age

\* A step that keeps the session, or replaces it by one that the Manager's
\* rows accept, renews no retired session.
LEMMA KeptOrAccepted ==
    ASSUME LinkInv, session' = session \/ session'.gen \in rows
    PROVE  RunsDown
BY DEF RunsDown, LinkInv, Held, HeldAt, Session

\* No step renews a retired session; only time touches it.
LEMMA RetiredStep == LinkInv /\ [LinkNext]_linkVars => RunsDown
<1> SUFFICES ASSUME LinkInv, [LinkNext]_linkVars PROVE RunsDown
  OBVIOUS
<1>1. CASE EditConfig \/ CreateServer \/ RetireServer \/ NetworkChange \/ UNCHANGED linkVars
  BY <1>1, KeptOrAccepted
  DEF EditConfig, CreateServer, RetireServer, NetworkChange, linkVars
<1>2. CASE Tick
  BY <1>2, LinkAssumption
  DEF Tick, Aged, Older, RunsDown, LinkInv, TypeOK, Held, HeldAt, Session
<1>3. CASE Crash
  BY <1>3 DEF Crash, RunsDown
<1>4. CASE Start
  BY <1>4 DEF Start, Started, RunsDown
<1>5. CASE Health
  <2>1. PICK r \in CheckMode(join_key, session, disk) : session' = r.session
    BY <1>5 DEF Health
  <2>2. r.session = session \/ r.session.gen \in rows
    BY <2>1, CheckModeGood DEF LinkInv, TypeOK
  <2>3. QED
    BY <2>1, <2>2, KeptOrAccepted
<1>6. CASE SyncTask
  <2>1. PICK r \in SyncConfig(join_key, session, disk) : session' = r.session
    BY <1>6 DEF SyncTask, TakeOver
  <2>2. GoodOutcome(r, session)
    BY <2>1, SyncGood DEF LinkInv, TypeOK
  <2>3. QED
    BY <2>1, <2>2, KeptOrAccepted DEF GoodOutcome
<1>7. CASE HeartbeatTask
  <2>1. PICK r \in Heartbeat(join_key, session, disk) : session' = r.session
    BY <1>7 DEF HeartbeatTask, TakeOver
  <2>2. GoodOutcome(r, session)
    BY <2>1, HeartbeatGood DEF LinkInv, TypeOK
  <2>3. QED
    BY <2>1, <2>2, KeptOrAccepted DEF GoodOutcome
<1>8. QED
  BY <1>1, <1>2, <1>3, <1>4, <1>5, <1>6, <1>7 DEF LinkNext

\* A session whose credentials were retired at the Manager is never renewed.
THEOREM LinkRetiredNeverRenewed == LinkSpec => RetiredNeverRenewed
<1>1. LinkInv /\ [LinkNext]_linkVars => [RunsDown]_linkVars
  BY RetiredStep
<1>2. RetiredNeverRenewed <=> [][RunsDown]_linkVars
  BY PTL DEF RetiredNeverRenewed, RunsDown
<1>3. QED
  BY <1>1, <1>2, LinkInvInit, LinkInvNext, PTL DEF LinkSpec

-----------------------------------------------------------------------------
(* The lists of zones. *)

\* Every set of list positions that is not empty has a smallest one.
LEMMA MinOfPositions ==
    ASSUME NEW T, T \subseteq Nat, T # {}
    PROVE  Min(T) \in T
<1> DEFINE R == {p \in Nat \X Nat : p[1] < p[2]}
<1>1. IsWellFoundedOn(R, Nat)
  BY NatLessThanWellFounded DEF OpToRel
<1>2. PICK x \in T : \A y \in T : <<y, x>> \notin R
  BY <1>1, WFMin
<1>3. ASSUME NEW y \in T, y < x PROVE FALSE
  <2>1. <<y, x>> \in R
    BY <1>3
  <2>2. QED
    BY <1>2, <2>1
<1>4. \A y \in T : x <= y
  BY <1>3
<1>5. QED
  BY <1>4 DEF Min

\* The zone _find_zone_name gives is one of the list that the domain lies in
\* and that exists.
LEMMA FindZoneNameType ==
    ASSUME NEW d, NEW zones
    PROVE  LET z == FindZoneName(d, zones)
           IN  z = None \/ (z \in Zones /\ zones[z] # "absent")
<1> DEFINE hits == {i \in 1..Len(NameOrder) :
                       zones[NameOrder[i]] # "absent" /\ Contains(Under[d], NameOrder[i])}
<1>1. FindZoneName(d, zones) = IF hits = {} THEN None ELSE NameOrder[Min(hits)]
  BY DEF FindZoneName, FirstOf
<1>2. Len(NameOrder) \in Nat /\ NameOrder \in [1..Len(NameOrder) -> Zones]
  BY DnsAssumption
<1>3. hits # {} => Min(hits) \in hits
  <2>1. hits \subseteq Nat
    BY <1>2
  <2>2. QED
    BY <2>1, MinOfPositions
<1>4. QED
  BY <1>1, <1>2, <1>3

\* It gives none only if every zone the domain lies in is absent.
LEMMA FindZoneNameNone ==
    ASSUME NEW d, NEW zones, FindZoneName(d, zones) = None,
           NEW z \in Zones, Contains(Under[d], z)
    PROVE  zones[z] = "absent"
<1> DEFINE hits == {i \in 1..Len(NameOrder) :
                       zones[NameOrder[i]] # "absent" /\ Contains(Under[d], NameOrder[i])}
<1>1. FindZoneName(d, zones) = IF hits = {} THEN None ELSE NameOrder[Min(hits)]
  BY DEF FindZoneName, FirstOf
<1>2. Len(NameOrder) \in Nat /\ NameOrder \in [1..Len(NameOrder) -> Zones] /\ None \notin Zones
  BY DnsAssumption
<1>3. hits # {} => Min(hits) \in hits
  <2>1. hits \subseteq Nat
    BY <1>2
  <2>2. QED
    BY <2>1, MinOfPositions
<1>4. hits = {}
  BY <1>1, <1>2, <1>3
<1>5. PICK i \in 1..Len(NameOrder) : NameOrder[i] = z
  BY DnsAssumption DEF Contains
<1>6. QED
  BY <1>4, <1>5

\* The zone the router answers from is one of the domain's.
LEMMA FindZoneForDomainType ==
    ASSUME NEW d \in Domains
    PROVE  LET z == FindZoneForDomain(d)
           IN  z = None \/ (z \in Zones /\ Contains(Under[d], z))
<1> DEFINE hits == {i \in 1..Len(Under[d]) : router[Under[d][i]] # "absent"}
<1>1. FindZoneForDomain(d) = IF hits = {} THEN None ELSE Under[d][Min(hits)]
  BY DEF FindZoneForDomain, FirstOf
<1>2. Len(Under[d]) \in Nat /\ Under[d] \in [1..Len(Under[d]) -> Zones]
  BY DnsAssumption
<1>3. hits # {} => Min(hits) \in hits
  <2>1. hits \subseteq Nat
    BY <1>2
  <2>2. QED
    BY <2>1, MinOfPositions
<1>4. QED
  BY <1>1, <1>2, <1>3 DEF Contains

-----------------------------------------------------------------------------
(* check_mode called twice. *)

\* What a refresh leaves: a session just registered, or what there was.
LEMMA RefreshOutcome ==
    ASSUME NEW key, NEW s, NEW d
    PROVE  \A r \in RefreshJwt(key, s, d) :
              \/ r.ok /\ r.session = Registered(key)
              \/ ~r.ok /\ r.session = s /\ r.disk = d
BY DEF RefreshJwt, Register, NoAnswer, Out, SaveToCache

\* A session just registered is valid: the JWT outlives the margin.
LEMMA RegisteredValid ==
    ASSUME LinkInv, NEW key \in Gens
    PROVE  IsJwtValid(Registered(key)) /\ Registered(key) \in Session
<1>1. Registered(key) \in Session
  BY LinkAssumption DEF Registered, Session, LinkInv, TypeOK
<1>2. QED
  BY <1>1, DnsAssumption, LinkAssumption DEF IsJwtValid, Registered

\* The second of two check_mode calls in one handler ends where a single call
\* could have ended.
LEMMA CheckModeTwice ==
    ASSUME LinkInv, NEW key \in Gens, NEW s, NEW d,
           NEW r1 \in CheckMode(key, s, d),
           NEW r2 \in CheckMode(key, r1.session, r1.disk)
    PROVE  r2 \in CheckMode(key, s, d)
<1>1. CASE IsJwtValid(s)
  BY <1>1 DEF CheckMode
<1>2. CASE ~IsJwtValid(s)
  <2>1. PICK r \in RefreshJwt(key, s, d) :
           r1 = [mode |-> ModeAfter(r), session |-> r.session, disk |-> r.disk]
    BY <1>2 DEF CheckMode
  <2>2. CASE r.ok /\ r.session = Registered(key)
    <3>1. IsJwtValid(r1.session)
      BY <2>1, <2>2, RegisteredValid
    <3>2. r2 = [mode |-> "normal", session |-> r1.session, disk |-> r1.disk]
      BY <3>1 DEF CheckMode
    <3>3. ModeAfter(r) = "normal"
      BY <2>2 DEF ModeAfter
    <3>4. r2 = r1
      BY <2>1, <3>2, <3>3
    <3>5. QED
      BY <3>4
  <2>3. CASE ~r.ok /\ r.session = s /\ r.disk = d
    BY <2>1, <2>3
  <2>4. \/ r.ok /\ r.session = Registered(key)
        \/ ~r.ok /\ r.session = s /\ r.disk = d
    BY RefreshOutcome
  <2>5. QED
    BY <2>2, <2>3, <2>4
<1>3. QED
  BY <1>1, <1>2

\* Unless it calls the mode degraded, check_mode leaves a configuration that
\* was the Manager's within the last CacheTtl.
LEMMA CheckModeRecent ==
    ASSUME LinkInv, NEW key \in Gens, NEW s, NEW d, Held(s), Held(d),
           NEW r \in CheckMode(key, s, d), r.mode # "degraded"
    PROVE  r.session \in Session /\ gone[r.session.config] < CacheTtl
<1>1. Held(r.session)
  BY CheckModeGood
<1>2. IsJwtValid(r.session) \/ CacheUsable(r.session)
  <2>1. CASE IsJwtValid(s)
    BY <2>1 DEF CheckMode
  <2>2. CASE ~IsJwtValid(s)
    <3>1. PICK q \in RefreshJwt(key, s, d) :
             r = [mode |-> ModeAfter(q), session |-> q.session, disk |-> q.disk]
      BY <2>2 DEF CheckMode
    <3>2. CASE q.ok /\ q.session = Registered(key)
      BY <3>1, <3>2, RegisteredValid
    <3>3. CASE ~q.ok
      <4>1. ModeAfter(q) # "degraded"
        BY <3>1
      <4>2. QED
        BY <3>1, <3>3, <4>1 DEF ModeAfter
    <3>4. (q.ok /\ q.session = Registered(key)) \/ ~q.ok
      BY RefreshOutcome
    <3>5. QED
      BY <3>2, <3>3, <3>4
  <2>3. QED
    BY <2>1, <2>2
<1>3. r.session \in Session
  BY <1>1, <1>2 DEF IsJwtValid, CacheUsable, Held, HeldAt
<1>4. QED
  BY <1>1, <1>2, <1>3, LinkAssumption, DnsAssumption
  DEF IsJwtValid, CacheUsable, Held, HeldAt, Session, LinkInv, TypeOK

-----------------------------------------------------------------------------
(* Refinement of the link. *)

\* A query drives the link as one /health probe does.
LEMMA QueryIsHealth ==
    ASSUME LinkInv, NEW d, NEW token, Query(d, token)
    PROVE  Health
<1>0. PICK r1 \in CheckMode(join_key, session, disk) :
        \E r2 \in CheckMode(join_key, r1.session, r1.disk) :
           session' = r2.session /\ disk' = r2.disk /\ mode' = r2.mode
  BY DEF Query
<1>1. PICK r2 \in CheckMode(join_key, r1.session, r1.disk) :
           session' = r2.session /\ disk' = r2.disk /\ mode' = r2.mode
  BY <1>0
<1>2. r2 \in CheckMode(join_key, session, disk)
  BY <1>1, CheckModeTwice DEF LinkInv, TypeOK
<1>3. QED
  BY <1>1, <1>2 DEF Query, Health

\* Every step of the server is a step of the link, or leaves it alone.
LEMMA StepOfLink ==
    ASSUME LinkInv, [Next]_vars
    PROVE  [LinkNext]_linkVars
<1>1. CASE UNCHANGED vars
  BY <1>1 DEF vars, linkVars
<1>2. CASE Sent
  BY <1>2 DEF Sent
<1>3. CASE LinkStep
  BY <1>3 DEF LinkStep, LinkNext
<1>4. CASE DataTick
  BY <1>4 DEF DataTick, LinkNext
<1>5. CASE DataCrash
  BY <1>5 DEF DataCrash, LinkNext
<1>6. CASE DataStart
  BY <1>6 DEF DataStart, Start, LinkNext
<1>7. CASE DataSync
  BY <1>7 DEF DataSync, SyncTask, LinkNext
<1>8. CASE \E d \in Domains, t \in Tokens : Query(d, t)
  BY <1>8, QueryIsHealth DEF LinkNext
<1>9. QED
  BY <1>1, <1>2, <1>3, <1>4, <1>5, <1>6, <1>7, <1>8 DEF Next, Step

\* The invariant of the link is one of the server.
LEMMA LinkInvInServer == LinkInv /\ [Next]_vars => LinkInv'
BY StepOfLink, LinkInvNext

\* The data plane uses the link only as ManagerLink allows: every behaviour of
\* the server, seen through the link's variables, is one of the link.
THEOREM DnsImplementsLink == Spec => ImplementsLink
<1>1. Init => LinkInit
  BY DEF Init
<1>2. LinkInv /\ [Next]_vars => [LinkNext]_linkVars
  BY StepOfLink
<1>3. QED
  BY <1>1, <1>2, LinkInvInit, LinkInvInServer, PTL DEF Spec, ImplementsLink

-----------------------------------------------------------------------------
(* The data plane's own invariant. *)

CacheEntry == [src : Zones \cup {"publicdns"}, ip : Ips \cup {None}, left : 1..DnsTtl]

\* An answer kept with a listed address was kept before the address was listed:
\* it has to leave Redis before the address has been loaded for DnsTtl.
ExpiresInTime(kept, bad, since) ==
    \A d \in Domains :
        kept[d] # None /\ kept[d].ip \in bad => since[kept[d].ip] + kept[d].left <= DnsTtl

\* What Redis keeps for a domain came from a zone the domain lies in, or from
\* public DNS.
KeptFromItsZones(kept) ==
    \A d \in Domains : kept[d] # None /\ kept[d].src \in Zones => Contains(Under[d], kept[d].src)

DataInv ==
    /\ router \in [Zones -> Visibility]
    /\ ioc \subseteq Indicators
    /\ listed \in [Indicators -> 0..DnsTtl]
    /\ cache \in [Domains -> CacheEntry \cup {None}]
    /\ ExpiresInTime(cache, ioc, listed)
    /\ KeptFromItsZones(cache)

\* What a query may leave in last. The next step takes it away.
ReplyInv ==
    /\ last = None \/ last \in Reply
    /\ replaced \in BOOLEAN
    /\ ListedIpExpires
    /\ ProtectedZoneHidden

ServerInv == LinkInv /\ DataInv /\ ReplyInv

\* The zones and the feeds of anything the client may hold.
LEMMA HeldData ==
    ASSUME NEW s, Held(s)
    PROVE  ZonesOf(s) \in [Zones -> Visibility] /\ FeedsOf(s) \subseteq SUBSET Indicators
<1>1. CASE s = None
  BY <1>1 DEF ZonesOf, FeedsOf, NoZones, Visibility
<1>2. CASE s # None
  <2>1. s.config \in Configs
    BY <1>2 DEF Held, HeldAt, Session
  <2>2. s.config \in [zones : [Zones -> Visibility], feeds : SUBSET SUBSET Indicators]
    BY <2>1, DnsAssumption
  <2>3. QED
    BY <1>2, <2>2 DEF ZonesOf, FeedsOf
<1>3. QED
  BY <1>1, <1>2

\* Loading a held configuration gives well-typed copies.
LEMMA LoadedData ==
    ASSUME NEW s, Held(s), NEW zones \in [Zones -> Visibility], NEW bad \in SUBSET Indicators
    PROVE  RouterAfter(s, zones) \in [Zones -> Visibility] /\ FeedsAfter(s, bad) \subseteq Indicators
BY HeldData DEF RouterAfter, FeedsAfter

\* Loading feeds restarts the clock of every indicator that is new, and Redis
\* keeps nothing for longer than DnsTtl.
LEMMA LoadKeeps ==
    ASSUME DataInv, NEW new \in SUBSET Indicators, Load(new), cache' = cache,
           router' \in [Zones -> Visibility]
    PROVE  DataInv'
<1>1. ioc' = new /\ listed' \in [Indicators -> 0..DnsTtl]
  BY DnsAssumption DEF Load, ListedAfter, DataInv
<1>2. ASSUME NEW d \in Domains, cache[d] # None, cache[d].ip \in new
      PROVE  listed'[cache[d].ip] + cache[d].left <= DnsTtl
  <2>1. cache[d] \in CacheEntry /\ cache[d].left \in 1..DnsTtl
    BY <1>2 DEF DataInv, CacheEntry
  <2>2. listed'[cache[d].ip] = IF cache[d].ip \in ioc THEN listed[cache[d].ip] ELSE 0
    BY <1>2 DEF Load, ListedAfter
  <2>3. QED
    BY <1>2, <2>1, <2>2, DnsAssumption DEF DataInv, ExpiresInTime
<1>3. QED
  BY <1>1, <1>2 DEF DataInv, ExpiresInTime, KeptFromItsZones

\* A tick moves both clocks together.
LEMMA TickKeeps ==
    ASSUME DataInv, DataTick
    PROVE  DataInv'
<1>0. DnsTtl \in Nat
  BY DnsAssumption
<1>1. listed' \in [Indicators -> 0..DnsTtl]
  BY <1>0 DEF DataTick, DataInv
<1>2. ASSUME NEW d \in Domains, cache'[d] # None
      PROVE  /\ cache[d] \in CacheEntry /\ cache[d] # None
             /\ cache[d].left > 1
             /\ cache'[d] = [cache[d] EXCEPT !.left = @ - 1]
  BY <1>2 DEF DataTick, DataInv, CacheEntry
<1>3. ASSUME NEW d \in Domains, cache'[d] # None
      PROVE  /\ cache'[d] \in CacheEntry
             /\ cache'[d].ip = cache[d].ip /\ cache'[d].src = cache[d].src
             /\ cache'[d].left = cache[d].left - 1
  <2> DEFINE e == cache[d]
             n == cache'[d]
  <2>1. e \in CacheEntry /\ e.left > 1 /\ n = [e EXCEPT !.left = @ - 1]
    BY <1>2, <1>3
  <2> HIDE DEF e, n
  <2>2. n = [src |-> e.src, ip |-> e.ip, left |-> e.left - 1]
    BY <2>1 DEF CacheEntry
  <2>3. e.left - 1 \in 1..DnsTtl
    BY <1>0, <2>1 DEF CacheEntry
  <2>4. n \in CacheEntry /\ n.ip = e.ip /\ n.src = e.src /\ n.left = e.left - 1
    BY <2>1, <2>2, <2>3 DEF CacheEntry
  <2>5. QED
    BY <2>4 DEF e, n
<1>4. cache' \in [Domains -> CacheEntry \cup {None}]
  BY <1>3 DEF DataTick
<1>5. ASSUME NEW d \in Domains, cache'[d] # None, cache'[d].ip \in ioc'
      PROVE  listed'[cache'[d].ip] + cache'[d].left <= DnsTtl
  <2>1. cache[d].ip \in ioc /\ cache[d].ip \in Indicators /\ cache[d].left \in 1..DnsTtl
    BY <1>2, <1>3, <1>5 DEF DataTick, DataInv, CacheEntry
  <2>2. listed[cache[d].ip] + cache[d].left <= DnsTtl
    BY <1>2, <1>5, <2>1 DEF DataInv, ExpiresInTime
  <2>3. listed'[cache[d].ip] <= listed[cache[d].ip] + 1 /\ listed'[cache[d].ip] \in Nat
    BY <2>1, DnsAssumption DEF DataTick, DataInv
  <2>4. listed[cache[d].ip] \in Nat
    BY <2>1 DEF DataInv
  <2>5. cache'[d].ip = cache[d].ip /\ cache'[d].left = cache[d].left - 1
    BY <1>3, <1>5
  <2>6. cache[d].left \in Int /\ listed'[cache'[d].ip] = listed'[cache[d].ip]
    BY <1>0, <2>1, <2>5
  <2>7. QED
    BY <1>0, <2>2, <2>3, <2>4, <2>5, <2>6
<1>6. KeptFromItsZones(cache')
  BY <1>2, <1>3 DEF DataInv, KeptFromItsZones
<1>7. QED
  BY <1>1, <1>4, <1>5, <1>6 DEF DataTick, DataInv, ExpiresInTime, KeptFromItsZones

\* What a lookup may find.
LEMMA LookupType ==
    ASSUME NEW d \in Domains, NEW a \in Lookup(d)
    PROVE  /\ a.src \in Zones \cup {"publicdns"} /\ a.ip \in Ips \cup {None}
           /\ a.src \in Zones => Contains(Under[d], a.src)
<1>1. FindZoneForDomain(d) # None =>
         FindZoneForDomain(d) \in Zones /\ Contains(Under[d], FindZoneForDomain(d))
  BY FindZoneForDomainType
<1>2. a.ip \in Ips \cup {None}
         /\ (a.src = "publicdns" \/ (FindZoneForDomain(d) # None /\ a.src = FindZoneForDomain(d)))
  BY DEF Lookup
<1>3. QED
  BY <1>1, <1>2, DnsAssumption

\* A query keeps an answer only if its address is not listed.
LEMMA QueryKeeps ==
    ASSUME DataInv, NEW d \in Domains, NEW token \in Tokens, Query(d, token)
    PROVE  DataInv'
<1>1. CASE cache' = cache
  BY <1>1 DEF Query, DataInv, ExpiresInTime, KeptFromItsZones
<1>2. CASE \E a \in Lookup(d) :
              /\ a.ip \notin ioc
              /\ cache' = [cache EXCEPT ![d] = [src |-> a.src, ip |-> a.ip, left |-> DnsTtl]]
  <2>1. PICK a \in Lookup(d) :
              /\ a.ip \notin ioc
              /\ cache' = [cache EXCEPT ![d] = [src |-> a.src, ip |-> a.ip, left |-> DnsTtl]]
    BY <1>2
  <2> DEFINE e == [src |-> a.src, ip |-> a.ip, left |-> DnsTtl]
  <2>2. e \in CacheEntry /\ e.ip \notin ioc /\ (e.src \in Zones => Contains(Under[d], e.src))
    BY <2>1, LookupType, DnsAssumption DEF CacheEntry
  <2>3. \A b \in Domains : cache'[b] = IF b = d THEN e ELSE cache[b]
    BY <2>1 DEF DataInv
  <2>4. cache' \in [Domains -> CacheEntry \cup {None}]
    BY <2>1, <2>2 DEF DataInv
  <2>5. ExpiresInTime(cache', ioc, listed)
    BY <2>2, <2>3 DEF DataInv, ExpiresInTime
  <2>6. KeptFromItsZones(cache')
    BY <2>2, <2>3 DEF DataInv, KeptFromItsZones
  <2>7. QED
    BY <2>4, <2>5, <2>6 DEF Query, DataInv, ExpiresInTime, KeptFromItsZones
<1>3. QED
  BY <1>1, <1>2 DEF Query, Miss, IsBlocked

\* A zone that should_serve_zone lets through for a caller without a token is
\* not protected in a configuration of the last CacheTtl.
LEMMA ServedRecently ==
    ASSUME LinkInv, NEW s, NEW d, Held(s), Held(d),
           NEW r \in CheckMode(join_key, s, d), r.mode # "degraded",
           NEW token, ~Verified(token), NEW zone \in Zones,
           ShouldServeZone(zone, ZonesOf(r.session), r.mode, token)
    PROVE  RecentlyOpen(zone)
<1>1. r.session \in Session /\ gone[r.session.config] < CacheTtl
  BY CheckModeRecent DEF LinkInv, TypeOK
<1>2. ZonesOf(r.session) = r.session.config.zones /\ r.session.config \in Configs
  BY <1>1, DnsAssumption DEF ZonesOf, Session
<1>3. zone # None
  BY DnsAssumption
<1>4. r.session.config.zones[zone] \notin Protected
  BY <1>2, <1>3 DEF ShouldServeZone, CheckZonePermission, Protected
<1>5. QED
  BY <1>1, <1>2, <1>4 DEF RecentlyOpen

\* Where it finds no zone to check, the zones the domain lies in are absent in
\* a configuration of the last CacheTtl.
LEMMA AbsentRecently ==
    ASSUME LinkInv, NEW s, NEW e, Held(s), Held(e),
           NEW r \in CheckMode(join_key, s, e), r.mode # "degraded",
           NEW d, FindZoneName(d, ZonesOf(r.session)) = None,
           NEW z \in Zones, Contains(Under[d], z)
    PROVE  RecentlyOpen(z)
<1>1. r.session \in Session /\ gone[r.session.config] < CacheTtl
  BY CheckModeRecent DEF LinkInv, TypeOK
<1>2. ZonesOf(r.session) = r.session.config.zones /\ r.session.config \in Configs
  BY <1>1, DnsAssumption DEF ZonesOf, Session
<1>3. ZonesOf(r.session)[z] = "absent"
  BY FindZoneNameNone
<1>4. QED
  BY <1>1, <1>2, <1>3 DEF RecentlyOpen, Protected

\* The three kinds of replies of the handler.
LEMMA QueryReplies ==
    ASSUME LinkInv, DataInv, NEW d \in Domains, NEW token \in Tokens, Query(d, token)
    PROVE  ReplyInv'
<1>1. PICK r1 \in CheckMode(join_key, session, disk) :
      \E r2 \in CheckMode(join_key, r1.session, r1.disk) :
         LET zone == FindZoneName(d, ZonesOf(r1.session))
             serve == /\ ShouldServeZone(zone, ZonesOf(r2.session), r2.mode, token)
                      /\ ~PolicyDenies(token)
                      /\ ~IsBlocked(d)
         IN /\ session' = r2.session /\ disk' = r2.disk /\ mode' = r2.mode
            /\ replaced' = (ZonesOf(r1.session) # ZonesOf(r2.session))
            /\ \/ ~serve /\ last' = Refusal(d, token, zone) /\ UNCHANGED cache
               \/ /\ serve /\ cache[d] # None
                  /\ last' = Answered(d, token, zone, "cache", Hit(d)) /\ UNCHANGED cache
               \/ /\ serve
                  /\ \E redis \in BOOLEAN :
                        /\ redis => cache[d] = None
                        /\ Miss(d, token, zone, redis)
  BY DEF Query
<1> DEFINE zone == FindZoneName(d, ZonesOf(r1.session))
<1>2. PICK r2 \in CheckMode(join_key, r1.session, r1.disk) :
         /\ mode' = r2.mode /\ replaced' = (ZonesOf(r1.session) # ZonesOf(r2.session))
         /\ \/ last' = Refusal(d, token, zone)
            \/ /\ ShouldServeZone(zone, ZonesOf(r2.session), r2.mode, token)
               /\ cache[d] # None
               /\ last' = Answered(d, token, zone, "cache", Hit(d))
            \/ /\ ShouldServeZone(zone, ZonesOf(r2.session), r2.mode, token)
               /\ \E redis \in BOOLEAN : Miss(d, token, zone, redis)
  BY <1>1
<1>3. ioc' = ioc /\ listed' = listed /\ gone' = gone
  BY DEF Query, mgrVars
<1>4. zone \in Zones \cup {None}
  BY FindZoneNameType
<1>5. Held(r1.session) /\ Held(r1.disk)
  BY CheckModeGood DEF LinkInv, TypeOK
<1> HIDE DEF zone
<1>5a. replaced' \in BOOLEAN
  BY <1>2
<1>6. ASSUME ShouldServeZone(zone, ZonesOf(r2.session), r2.mode, token),
             last'.zone = zone, last'.token = token,
             last'.src \in Zones => Contains(Under[d], last'.src)
      PROVE  ProtectedZoneHidden'
  <2>0. \A z : RecentlyOpen(z)' <=> RecentlyOpen(z)
    BY <1>3 DEF RecentlyOpen
  <2> SUFFICES ASSUME ~Verified(token), r2.mode # "degraded"
               PROVE  /\ zone \in Zones => RecentlyOpen(zone)
                      /\ zone = None /\ last'.src \in Zones => replaced' \/ RecentlyOpen(last'.src)
    BY <1>2, <1>6, <2>0 DEF ProtectedZoneHidden
  <2>1. zone \in Zones => RecentlyOpen(zone)
    BY <1>5, <1>6, ServedRecently
  <2>2. ASSUME zone = None, last'.src \in Zones, ~replaced'
        PROVE  RecentlyOpen(last'.src)
    <3>1. FindZoneName(d, ZonesOf(r2.session)) = None
      BY <1>2, <2>2 DEF zone
    <3>2. QED
      BY <1>5, <1>6, <2>2, <3>1, AbsentRecently
  <2>3. QED
    BY <2>1, <2>2
<1>7. ASSUME last' \in Reply, last'.src = None, last'.ip = None,
             last'.from = "refused" \/ (/\ ShouldServeZone(zone, ZonesOf(r2.session), r2.mode, token)
                                        /\ last'.zone = zone /\ last'.token = token)
      PROVE  ReplyInv'
  <2>1. None \notin ioc /\ None \notin Zones
    BY DnsAssumption DEF DataInv
  <2>2. ProtectedZoneHidden'
    <3>1. CASE last'.from = "refused"
      BY <3>1 DEF ProtectedZoneHidden
    <3>2. QED
      BY <1>6, <1>7, <2>1, <3>1
  <2>3. QED
    BY <1>3, <1>7, <1>5a, <2>1, <2>2 DEF ReplyInv, ListedIpExpires
<1>8. CASE last' = Refusal(d, token, zone)
  <2>1. last' \in Reply /\ last'.src = None /\ last'.ip = None /\ last'.from = "refused"
    BY <1>4, <1>8 DEF Refusal, Reply
  <2>2. QED
    BY <1>7, <2>1
<1>9. ASSUME ShouldServeZone(zone, ZonesOf(r2.session), r2.mode, token), cache[d] # None,
             last' = Answered(d, token, zone, "cache", Hit(d))
      PROVE  ReplyInv'
  <2>1. cache[d] \in CacheEntry
    BY <1>9 DEF DataInv
  <2>2. /\ last' \in Reply /\ last'.from = "cache" /\ last'.ip = cache[d].ip
        /\ last'.zone = zone /\ last'.token = token /\ last'.src = cache[d].src
    BY <1>4, <1>9, <2>1 DEF Answered, Hit, Reply, CacheEntry
  <2>3. cache[d].ip \in ioc => listed[cache[d].ip] < DnsTtl
    <3>1. SUFFICES ASSUME cache[d].ip \in ioc PROVE listed[cache[d].ip] < DnsTtl
      OBVIOUS
    <3>2. /\ listed[cache[d].ip] + cache[d].left <= DnsTtl
          /\ listed[cache[d].ip] \in Nat /\ cache[d].left \in 1..DnsTtl
      BY <1>9, <2>1, <3>1 DEF DataInv, ExpiresInTime, CacheEntry
    <3>3. DnsTtl \in Nat
      BY DnsAssumption
    <3>4. QED
      BY <3>2, <3>3
  <2>4. ListedIpExpires'
    BY <1>3, <2>2, <2>3 DEF ListedIpExpires
  <2>5. QED
    BY <1>6, <1>9, <1>5a, <2>2, <2>4 DEF ReplyInv, DataInv, KeptFromItsZones
<1>10. ASSUME ShouldServeZone(zone, ZonesOf(r2.session), r2.mode, token),
              NEW redis \in BOOLEAN, Miss(d, token, zone, redis)
       PROVE  ReplyInv'
  <2>1. PICK a \in Lookup(d) :
           \/ last' = Refusal(d, token, zone)
           \/ a.ip \notin ioc /\ last' = Answered(d, token, zone, "lookup", a)
           \/ last' = [Refusal(d, token, zone) EXCEPT !.from = "lookup"]
    BY <1>10 DEF Miss, IsBlocked
  <2>2. CASE last' = [Refusal(d, token, zone) EXCEPT !.from = "lookup"]
    <3>1. /\ last' \in Reply /\ last'.src = None /\ last'.ip = None
          /\ last'.zone = zone /\ last'.token = token
      BY <1>4, <2>2 DEF Refusal, Reply
    <3>2. QED
      BY <1>7, <1>10, <3>1
  <2>3. CASE a.ip \notin ioc /\ last' = Answered(d, token, zone, "lookup", a)
    <3>1. /\ a.src \in Zones \cup {"publicdns"} /\ a.ip \in Ips \cup {None}
          /\ a.src \in Zones => Contains(Under[d], a.src)
      BY LookupType
    <3>2. /\ last' \in Reply /\ last'.ip = a.ip /\ last'.src = a.src
          /\ last'.zone = zone /\ last'.token = token
      BY <1>4, <2>3, <3>1 DEF Answered, Reply
    <3>3. QED
      BY <1>3, <1>6, <1>10, <1>5a, <2>3, <3>1, <3>2 DEF ReplyInv, ListedIpExpires
  <2>4. QED
    BY <1>8, <2>1, <2>2, <2>3
<1>11. QED
  BY <1>2, <1>8, <1>9, <1>10

-----------------------------------------------------------------------------
\* The invariant holds initially: nothing is loaded and nothing is kept.
LEMMA ServerInvInit == Init => ServerInv
<1> SUFFICES ASSUME Init PROVE ServerInv
  OBVIOUS
<1>1. DataInv
  BY DnsAssumption DEF Init, DataInv, ExpiresInTime, KeptFromItsZones, NoZones, Visibility
<1>2. ReplyInv
  BY DEF Init, ReplyInv, ListedIpExpires, ProtectedZoneHidden
<1>3. QED
  BY <1>1, <1>2, LinkInvInit DEF Init, ServerInv

\* Startup loads what the file and then what the Manager gave.
LEMMA StartKeeps ==
    ASSUME LinkInv, DataInv, DataStart
    PROVE  DataInv'
<1>1. PICK key \in {join_key, issued} : \E r \in Startup(key, disk) :
        /\ router' = IF r.ok THEN RouterAfter(r.session, RouterAfter(disk, router))
                             ELSE RouterAfter(disk, router)
        /\ Load(IF r.ok THEN FeedsAfter(r.session, FeedsAfter(disk, ioc))
                        ELSE FeedsAfter(disk, ioc))
        /\ UNCHANGED <<cache, last, replaced>>
  BY DEF DataStart
<1>2. PICK r \in Startup(key, disk) :
        /\ router' = IF r.ok THEN RouterAfter(r.session, RouterAfter(disk, router))
                             ELSE RouterAfter(disk, router)
        /\ Load(IF r.ok THEN FeedsAfter(r.session, FeedsAfter(disk, ioc))
                        ELSE FeedsAfter(disk, ioc))
        /\ UNCHANGED <<cache, last, replaced>>
  BY <1>1
<1>3. Held(r.session) /\ Held(disk)
  BY StartupGood DEF LinkInv, TypeOK
<1>4. /\ RouterAfter(disk, router) \in [Zones -> Visibility]
      /\ FeedsAfter(disk, ioc) \in SUBSET Indicators
  BY <1>3, LoadedData DEF DataInv
<1>5. /\ RouterAfter(r.session, RouterAfter(disk, router)) \in [Zones -> Visibility]
      /\ FeedsAfter(r.session, FeedsAfter(disk, ioc)) \in SUBSET Indicators
  BY <1>3, <1>4, LoadedData
<1>6. QED
  BY <1>2, <1>4, <1>5, LoadKeeps

\* sync_task loads what sync_config fetched, if it did.
LEMMA SyncKeeps ==
    ASSUME LinkInv, DataInv, DataSync
    PROVE  DataInv'
<1>1. PICK r \in SyncConfig(join_key, session, disk) :
        /\ router' = IF r.ok THEN RouterAfter(r.session, router) ELSE router
        /\ Load(IF r.ok THEN FeedsAfter(r.session, ioc) ELSE ioc)
        /\ UNCHANGED <<cache, last, replaced>>
  BY DEF DataSync
<1>2. Held(r.session)
  BY SyncGood DEF GoodOutcome, LinkInv, TypeOK
<1>3. /\ RouterAfter(r.session, router) \in [Zones -> Visibility]
      /\ FeedsAfter(r.session, ioc) \in SUBSET Indicators
  BY <1>2, LoadedData DEF DataInv
<1>4. QED
  BY <1>1, <1>3, LoadKeeps DEF DataInv

\* Every step keeps the invariant.
LEMMA ServerInvNext == ServerInv /\ [Next]_vars => ServerInv'
<1> SUFFICES ASSUME ServerInv, [Next]_vars PROVE ServerInv'
  OBVIOUS
<1>1. LinkInv /\ DataInv /\ ReplyInv /\ LinkInv'
  BY LinkInvInServer DEF ServerInv
<1>2. ASSUME last' = None, replaced' \in {replaced, FALSE} PROVE ReplyInv'
  BY <1>1, <1>2 DEF ReplyInv, ListedIpExpires, ProtectedZoneHidden
<1>3. ASSUME UNCHANGED <<router, ioc, listed, cache>> PROVE DataInv'
  BY <1>1, <1>3 DEF DataInv, ExpiresInTime, KeptFromItsZones
<1>4. CASE UNCHANGED vars
  BY <1>1, <1>3, <1>4
  DEF vars, linkVars, mgrVars, dataVars, ServerInv, ReplyInv, ListedIpExpires, ProtectedZoneHidden,
      RecentlyOpen
<1>5. CASE Sent
  BY <1>1, <1>2, <1>3, <1>5 DEF Sent, ServerInv
<1>6. CASE last = None /\ LinkStep
  BY <1>1, <1>2, <1>3, <1>6 DEF LinkStep, dataVars, ServerInv
<1>7. CASE last = None /\ DataTick
  BY <1>1, <1>2, <1>7, TickKeeps DEF DataTick, ServerInv
<1>8. CASE last = None /\ DataCrash
  <2>1. DataInv'
    BY <1>1, <1>8, DnsAssumption
    DEF DataCrash, DataInv, ExpiresInTime, KeptFromItsZones, NoZones, Visibility
  <2>2. QED
    BY <1>1, <1>2, <1>8, <2>1 DEF DataCrash, ServerInv
<1>9. CASE last = None /\ DataStart
  BY <1>1, <1>2, <1>9, StartKeeps DEF DataStart, ServerInv
<1>10. CASE last = None /\ DataSync
  BY <1>1, <1>2, <1>10, SyncKeeps DEF DataSync, ServerInv
<1>11. CASE \E d \in Domains, t \in Tokens : Query(d, t)
  BY <1>1, <1>11, QueryKeeps, QueryReplies DEF ServerInv
<1>12. QED
  BY <1>4, <1>5, <1>6, <1>7, <1>8, <1>9, <1>10, <1>11 DEF Next, Step

\* Every reachable state of the server is well typed.
THEOREM DnsTypeCorrect == Spec => []DataTypeOK
<1>1. ServerInv => DataTypeOK
  BY DEF ServerInv, LinkInv, DataInv, ReplyInv, DataTypeOK, CacheEntry
<1>2. QED
  BY <1>1, ServerInvInit, ServerInvNext, PTL DEF Spec

\* While the server says normal or cached, a caller without a token is answered
\* only if the zone that _find_zone_name gave to check was open at the Manager in
\* the last CacheTtl, and, when it gave none, gets records only of a zone that
\* was, unless the query itself replaced config_cache: check_mode's second call
\* decides, whatever the router and Redis still hold. Records of a zone other
\* than the one checked (nested zones) are not covered.
THEOREM DnsProtectedZoneHidden == Spec => []ProtectedZoneHidden
<1>1. ServerInv => ProtectedZoneHidden
  BY DEF ServerInv, ReplyInv
<1>2. QED
  BY <1>1, ServerInvInit, ServerInvNext, PTL DEF Spec

\* dns_query returns a cached answer without looking at its address; an address
\* the checker has had for DnsTtl is nevertheless not answered any more.
THEOREM DnsListedIpExpires == Spec => []ListedIpExpires
<1>1. ServerInv => ListedIpExpires
  BY DEF ServerInv, ReplyInv
<1>2. QED
  BY <1>1, ServerInvInit, ServerInvNext, PTL DEF Spec

\* What was proved of the link alone holds inside the server: in normal and in
\* cached mode the permission check enforces a recent configuration.
THEOREM DnsEnforcedRecently == Spec => []EnforcedRecently
<1>1. ServerInv => EnforcedRecently
  BY LinkInvBounds DEF ServerInv
<1>2. QED
  BY <1>1, ServerInvInit, ServerInvNext, PTL DEF Spec
=============================================================================
