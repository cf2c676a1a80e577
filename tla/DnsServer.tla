------------------------------ MODULE DnsServer ------------------------------
(***************************************************************************)
(* The DNS server's data plane on top of its link to the Manager: custom   *)
(* zones (SelectiveRouter), threat feeds (IOCChecker), the Redis answer    *)
(* cache (CacheManager) and the DNS-over-HTTPS query handler.              *)
(*   dns-server/app/main.py                       startup, dns_query, tasks*)
(*   dns-server/app/services/selective_router.py  SelectiveRouter          *)
(*   dns-server/app/services/ioc_checker.py       IOCChecker               *)
(*   dns-server/app/services/cache_manager.py     CacheManager             *)
(*   dns-server/app/utils/resilience.py           should_serve_zone        *)
(*                                                                         *)
(* The Manager's configuration reaches the handler along two paths: the    *)
(* permission check reads config_cache (ManagerLink's session), while the  *)
(* records and the feeds come from the router's and the checker's own      *)
(* copies, which only startup and sync_task load.                          *)
(*                                                                         *)
(* A configuration is a record of zones (the visibility of each) and       *)
(* feeds (a set of feeds, each the set of its indicators). Names are model *)
(* values; Under says which zones a domain lies in.                        *)
(***************************************************************************)
EXTENDS ManagerLink, Sequences, SequencesExt

CONSTANTS
    Zones, Domains, Ips,
    Under,       \* Under[d]: the zones domain d lies in, most specific first
    NameOrder,   \* the zones in the order of their names, as the Manager lists them
    DnsTtl       \* CACHE_TTL: how long an answer stays in Redis

\* "shared" zones are non-public without a team, "team" zones belong to one.
Visibility == {"absent", "public", "shared", "team"}
Protected  == {"shared", "team"}
Indicators == Domains \cup Ips

ASSUME DnsAssumption ==
    /\ DnsTtl \in Nat \ {0}
    /\ Margin < JwtLife
    /\ None \notin Session /\ None \notin Zones \cup Indicators /\ "publicdns" \notin Zones
    /\ Configs \subseteq [zones : [Zones -> Visibility], feeds : SUBSET SUBSET Indicators]
    /\ NameOrder \in Seq(Zones) /\ Under \in [Domains -> Seq(Zones)]
    /\ \A z \in Zones : Contains(NameOrder, z)

\* Bearer tokens: none (or one that does not verify), a user's, and a machine
\* client's whose dns_domains list leaves out the domain it asks for.
Tokens      == {"none", "user", "narrow"}
Verified(t) == t \in {"user", "narrow"}

VARIABLES
    router,    \* SelectiveRouter.zones
    ioc,       \* IOCChecker's sets of indicators
    listed,    \* history: how long each indicator has been loaded
    cache,     \* Redis: the answer kept for each domain
    last,      \* the reply to the query just handled, or None
    replaced   \* history: that query's two check_mode calls left different zones
               \* in config_cache

dataVars == <<router, ioc, listed, cache, last, replaced>>
vars     == <<linkVars, dataVars>>

NoZones == [z \in Zones |-> "absent"]

Reply == [domain : Domains, token : Tokens,
          zone : Zones \cup {None},                   \* whose permission was checked
          from : {"refused", "cache", "lookup"},
          src : Zones \cup {"publicdns", None},       \* where the answer came from
          ip : Ips \cup {None}]

DataTypeOK ==
    /\ TypeOK
    /\ router \in [Zones -> Visibility]
    /\ ioc \subseteq Indicators
    /\ listed \in [Indicators -> 0..DnsTtl]
    /\ \A d \in Domains :
          cache[d] = None \/ cache[d] \in [src : Zones \cup {"publicdns"},
                                           ip : Ips \cup {None}, left : 1..DnsTtl]
    /\ last = None \/ last \in Reply
    /\ replaced \in BOOLEAN

-----------------------------------------------------------------------------
(* Loading. *)

ZonesOf(s) == IF s = None THEN NoZones ELSE s.config.zones
FeedsOf(s) == IF s = None THEN {} ELSE s.config.feeds

\* Mutation: the feeds are loaded on startup only.
FeedsAfterNoReload(s, loaded) == ioc

\* "if config.get('zones'): load_zones(..)": an empty list loads nothing.
RouterAfter(s, loaded) == IF ZonesOf(s) = NoZones THEN loaded ELSE ZonesOf(s)
FeedsAfter(s, loaded)  == IF FeedsOf(s) = {} THEN loaded ELSE UNION FeedsOf(s)

ListedAfter(new) == [i \in Indicators |-> IF i \in new /\ i \in ioc THEN listed[i] ELSE 0]

-----------------------------------------------------------------------------
(* Answering. *)

\* The first element of a list that passes a test, or None.
FirstOf(seq, Test(_)) ==
    LET hits == {i \in 1..Len(seq) : Test(seq[i])}
    IN  IF hits = {} THEN None ELSE seq[Min(hits)]

\* _find_zone_name: the first zone of the list, in name order.
FindZoneName(d, zones) ==
    FirstOf(NameOrder, LAMBDA z : zones[z] # "absent" /\ Contains(Under[d], z))

\* _find_zone_for_domain: the most specific zone.
FindZoneForDomain(d) == FirstOf(Under[d], LAMBDA z : router[z] # "absent")

\* Mutation: the token is not verified before team membership is looked at.
CheckZonePermissionUnverified(v, token) == v \in {"public", "shared"}

\* _check_zone_permission. allowed_teams holds integers and the token's
\* team_roles has string keys, so no token matches a team's zone.
CheckZonePermission(v, token) == v = "public" \/ (v = "shared" /\ Verified(token))

\* ResilienceManager.should_serve_zone, after its own check_mode.
ShouldServeZone(zone, zones, m, token) ==
    zone # None /\ zones[zone] # "absent" =>
        IF m = "degraded" THEN zones[zone] = "public"
                          ELSE CheckZonePermission(zones[zone], token)

\* matches_policy is asked only for a token that verifies.
PolicyDenies(token) == token = "narrow"

Refusal(d, token, zone) ==
    [domain |-> d, token |-> token, zone |-> zone, from |-> "refused",
     src |-> None, ip |-> None]

\* What a cache hit gives for domain d, and what the router and the resolver
\* do: a record of the zone, or public DNS when there is no zone or the zone
\* has no records. Public DNS may answer without an address (NoAnswer).
Hit(d) == [src |-> cache[d].src, ip |-> cache[d].ip]

Lookup(d) ==
    LET zone == FindZoneForDomain(d)
    IN  [src : {"publicdns"}, ip : Ips \cup {None}] \cup
        IF zone = None THEN {} ELSE [src : {zone}, ip : Ips]

Answered(d, token, zone, from, a) ==
    [domain |-> d, token |-> token, zone |-> zone, from |-> from,
     src |-> a.src, ip |-> a.ip]

\* is_blocked of a name, is_ip_blocked of an address: exact, wildcard and CIDR
\* matches alike are membership here.
IsBlocked(i) == i \in ioc

\* Mutation: the cache entry is written before the answer's address is checked.
MissCachesFirst(d, token, zone, redis) ==
    \E a \in Lookup(d) :
        /\ cache' = IF redis THEN [cache EXCEPT ![d] = [src |-> a.src, ip |-> a.ip, left |-> DnsTtl]]
                             ELSE cache
        /\ last' = IF IsBlocked(a.ip) THEN Refusal(d, token, zone)
                                   ELSE Answered(d, token, zone, "lookup", a)

\* A cache miss: look the domain up, refuse an answer whose address is listed,
\* keep the others. NXDOMAIN and SERVFAIL are answers that are not kept.
Miss(d, token, zone, redis) ==
    \E a \in Lookup(d) :
        \/ /\ IsBlocked(a.ip)
           /\ last' = Refusal(d, token, zone)
           /\ UNCHANGED cache
        \/ /\ ~IsBlocked(a.ip)
           /\ last' = Answered(d, token, zone, "lookup", a)
           /\ cache' = IF redis
                       THEN [cache EXCEPT ![d] = [src |-> a.src, ip |-> a.ip, left |-> DnsTtl]]
                       ELSE cache
        \/ /\ last' = [Refusal(d, token, zone) EXCEPT !.from = "lookup"]
           /\ UNCHANGED cache

\* dns_query: check_mode runs twice, before the zone is looked up and again
\* inside should_serve_zone. A query without a name or over the rate limit is
\* answered before any of this and changes nothing here.
Query(d, token) ==
    /\ running
    /\ \E r1 \in CheckMode(join_key, session, disk) :
       \E r2 \in CheckMode(join_key, r1.session, r1.disk) :
       LET zone == FindZoneName(d, ZonesOf(r1.session))
           serve == /\ ShouldServeZone(zone, ZonesOf(r2.session), r2.mode, token)
                    /\ ~PolicyDenies(token)
                    /\ ~IsBlocked(d)
       IN /\ session' = r2.session /\ disk' = r2.disk /\ mode' = r2.mode
          /\ replaced' = (ZonesOf(r1.session) # ZonesOf(r2.session))
          /\ \/ ~serve /\ last' = Refusal(d, token, zone) /\ UNCHANGED cache
             \/ /\ serve /\ cache[d] # None
                /\ last' = Answered(d, token, zone, "cache", Hit(d)) /\ UNCHANGED cache
             \/ /\ serve
                /\ \E redis \in BOOLEAN :     \* Redis may fail at any call
                      /\ redis => cache[d] = None
                      /\ Miss(d, token, zone, redis)
    /\ UNCHANGED <<mgrVars, running, join_key, router, ioc, listed>>

-----------------------------------------------------------------------------
Init ==
    /\ LinkInit
    /\ router = NoZones /\ ioc = {} /\ listed = [i \in Indicators |-> 0]
    /\ cache = [d \in Domains |-> None]
    /\ last = None /\ replaced = FALSE

\* A step of the Manager, of the network or of heartbeat_task, or a /health probe.
LinkStep ==
    /\ EditConfig \/ CreateServer \/ RetireServer \/ NetworkChange \/ HeartbeatTask \/ Health
    /\ UNCHANGED dataVars

\* Time: Redis drops what has lived DnsTtl.
DataTick ==
    /\ Tick
    /\ cache' = [d \in Domains |->
                    IF cache[d] = None \/ cache[d].left = 1 THEN None
                    ELSE [cache[d] EXCEPT !.left = @ - 1]]
    /\ listed' = [i \in Indicators |->
                    IF i \in ioc /\ listed[i] < DnsTtl THEN listed[i] + 1 ELSE listed[i]]
    /\ UNCHANGED <<router, ioc, last, replaced>>

\* Redis outlives the process; the router and the checker do not.
DataCrash ==
    /\ Crash
    /\ router' = NoZones /\ ioc' = {} /\ listed' = [i \in Indicators |-> 0]
    /\ UNCHANGED <<cache, last, replaced>>

Load(new) == ioc' = new /\ listed' = ListedAfter(new)

\* startup loads the cached configuration, and the synced one if that came.
DataStart ==
    \E key \in {join_key, issued} : \E r \in Startup(key, disk) :
        LET zones1 == RouterAfter(disk, router)
            feeds1 == FeedsAfter(disk, ioc)
        IN /\ Started(key, r)
           /\ router' = IF r.ok THEN RouterAfter(r.session, zones1) ELSE zones1
           /\ Load(IF r.ok THEN FeedsAfter(r.session, feeds1) ELSE feeds1)
           /\ UNCHANGED <<cache, last, replaced>>

\* Mutation: a failed sync drops what the client holds.
DataSyncDrops ==
    \E r \in SyncConfig(join_key, session, disk) :
        /\ TakeOver(IF r.ok THEN r ELSE [r EXCEPT !.session = None])
        /\ router' = IF r.ok THEN RouterAfter(r.session, router) ELSE router
        /\ Load(IF r.ok THEN FeedsAfter(r.session, ioc) ELSE ioc)
        /\ UNCHANGED <<cache, last, replaced>>

\* sync_task: reload only when sync_config succeeded.
DataSync ==
    \E r \in SyncConfig(join_key, session, disk) :
        /\ TakeOver(r)
        /\ router' = IF r.ok THEN RouterAfter(r.session, router) ELSE router
        /\ Load(IF r.ok THEN FeedsAfter(r.session, ioc) ELSE ioc)
        /\ UNCHANGED <<cache, last, replaced>>

\* The reply is sent; last only exists for the properties to look at.
Sent ==
    /\ last # None /\ last' = None /\ replaced' = FALSE
    /\ UNCHANGED <<linkVars, router, ioc, listed, cache>>

Step ==
    \/ LinkStep \/ DataTick \/ DataCrash \/ DataStart \/ DataSync
    \/ \E d \in Domains, t \in Tokens : Query(d, t)

Next == Sent \/ (last = None /\ Step)

Spec == Init /\ [][Next]_vars

\* As in ManagerLink: restarts, /health probes and the sync loop.
FairSpec ==
    /\ Spec
    /\ WF_vars(Sent)
    /\ SF_vars(last = None /\ DataStart)
    /\ SF_vars(last = None /\ LinkStep /\ Health)
    /\ SF_vars(last = None /\ DataSync)

-----------------------------------------------------------------------------
(* Properties. *)

\* The handler drives the link only as ManagerLink allows, although it calls
\* check_mode twice: what holds of the link alone holds in the server.
ImplementsLink == LinkInit /\ [][LinkNext]_linkVars

\* At some time in the last CacheTtl the Manager did not protect the zone.
RecentlyOpen(z) == \E c \in Configs : gone[c] < CacheTtl /\ c.zones[z] \notin Protected

\* A caller without a verified token, while the server says it is in normal or
\* cached mode, is answered
\*   - only if the zone whose permission was checked (_find_zone_name) was open
\*     at the Manager in the last CacheTtl, whether the answer then comes from
\*     the router, from Redis or from public DNS;
\*   - when no zone was found to check, with records of a zone only if that
\*     zone was open in the last CacheTtl, although the router or Redis may
\*     hold its records for longer; here the query that replaced config_cache
\*     between its two check_mode calls is left out.
\* Nothing is said of records of a zone other than the one checked: with nested
\* zones the router serves the inner one (PrivateZonesRequireToken).
ProtectedZoneHidden ==
    last # None /\ last.from # "refused" /\ ~Verified(last.token) /\ mode # "degraded"
    => /\ last.zone \in Zones => RecentlyOpen(last.zone)
       /\ last.zone = None /\ last.src \in Zones => replaced \/ RecentlyOpen(last.src)

\* An address the checker has had loaded for DnsTtl is not answered any more,
\* although cached answers are returned without looking at their addresses.
ListedIpExpires ==
    last # None /\ last.ip \in ioc => last.from = "cache" /\ listed[last.ip] < DnsTtl

\* With the Manager reachable and quiet, the copies the handler reads catch up
\* with the Manager's configuration: every zone and every feed it lists.
CopiesConverge ==
    \A c \in Configs :
        <>[]Calm(c) =>
        <>[](/\ c.zones # NoZones => router = c.zones
             /\ c.feeds # {} => ioc = UNION c.feeds)

\* What the comment of _check_zone_permission says: "Private zones require
\* token". The records of a zone that the enforced configuration protects are
\* not given to a caller without a verified token.
PrivateZonesRequireToken ==
    last # None /\ last.src \in Zones /\ ~Verified(last.token)
    => ZonesOf(session)[last.src] \notin Protected
=============================================================================
