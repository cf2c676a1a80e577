----------------------------- MODULE ManagerLink -----------------------------
(***************************************************************************)
(* The link between one DNS server and the Manager: registration with a    *)
(* join key, the server's JWT, configuration sync, the on-disk cache and   *)
(* the operational mode (normal -> cached -> degraded).                    *)
(*   dns-server/app/services/manager_client.py   class ManagerClient       *)
(*   dns-server/app/utils/resilience.py          class ResilienceManager   *)
(*   dns-server/app/main.py                      startup and the tasks     *)
(*   manager/backend .../dns_servers.py, join_key_service.py,              *)
(*   middleware/auth.py                          the Manager's side        *)
(*                                                                         *)
(* The server is a single asyncio process whose calls to the Manager block *)
(* the event loop, so each handler is one step. A request made in the step *)
(* may be lost while the network is not reliable; each request of a step   *)
(* is lost or answered on its own.                                         *)
(*                                                                         *)
(* Time is kept as ages: how long the JWT still lives, how old the cached  *)
(* configuration is. An age stops at the largest value any comparison of   *)
(* the code distinguishes, so runs are not bounded in time. Both sides     *)
(* read the same clock (no skew is modelled).                              *)
(***************************************************************************)
EXTENDS Integers, FiniteSets

CONSTANTS
    Configs,     \* the configurations the Manager may hold
    JwtLife,     \* lifetime of a server JWT (24 hours)
    Margin,      \* is_jwt_valid gives up this long before expiry (5 minutes)
    CacheTtl,    \* cache_ttl_hours (24 hours)
    MaxGen,      \* bound: how many dns_server rows are created after the first
    None         \* Python's None

ASSUME LinkAssumption ==
    /\ JwtLife \in Nat /\ Margin \in Nat /\ CacheTtl \in Nat /\ MaxGen \in Nat
    /\ CacheTtl > 0
    /\ JwtLife - Margin <= CacheTtl
    /\ Configs # {}

VARIABLES
    rows,      \* Manager: generations of credentials that dns_server rows accept
    issued,    \* Manager: generation whose join key the operator was last shown
    current,   \* Manager: the configuration its database holds
    gone,      \* history: how long each configuration has not been current
    reliable,  \* network: FALSE while a request may get no answer
    running,   \* the DNS server process runs
    join_key,  \* generation of the JOIN_KEY the process was started with
    session,   \* ManagerClient: jwt_token, server_id, config_cache, cached_at
    mode,      \* ResilienceManager.mode
    disk       \* manager_cache.json; None: missing, or unreadable as JSON

mgrVars  == <<rows, issued, current, gone, reliable>>
linkVars == <<rows, issued, current, gone, reliable, running, join_key,
              session, mode, disk>>

Gens  == 0..MaxGen
Modes == {"normal", "cached", "degraded"}

\* jwt_token, server_id, config_cache and cached_at are set together by
\* register, saved together and loaded together: they are one record, or None.
Session == [left : 0..JwtLife,     \* time until the JWT's exp
            gen : Gens,            \* the credentials it was signed with
            config : Configs,      \* config_cache
            age : 0..CacheTtl]     \* now - cached_at

TypeOK ==
    /\ rows \subseteq Gens
    /\ issued \in Gens
    /\ current \in Configs
    /\ gone \in [Configs -> 0..CacheTtl]
    /\ reliable \in BOOLEAN
    /\ running \in BOOLEAN
    /\ join_key \in Gens
    /\ session \in Session \cup {None}
    /\ mode \in Modes
    /\ disk \in Session \cup {None}

-----------------------------------------------------------------------------
(* Requests. Each operator gives the outcomes a call of the method can     *)
(* have: its Boolean result, the client's state and the file afterwards.   *)

Out(ok, s, d) == [ok |-> ok, session |-> s, disk |-> d]

\* Mutation: the signature is not checked against the row's current secret.
TokenAcceptedByExpiry(s) == s.left > 0

\* The Manager's server_token_required: the row exists, its secret verifies
\* the token, and the token has not expired. Otherwise it answers 401.
TokenAccepted(s) == s.gen \in rows /\ s.left > 0

\* open(.., 'w') truncates the file, json.dump writes it, and every exception
\* is logged and swallowed: the new content, the old file, or an unusable one.
SaveToCache(s, d) == {s, d, None}

\* A request that gets no answer raises RequestException; every method
\* catches it and returns False.
NoAnswer(s, d) == IF reliable THEN {} ELSE {Out(FALSE, s, d)}

\* Mutation: register forgets to stamp cached_at.
RegisteredUnstamped(key) ==
    [left |-> JwtLife, gen |-> key, config |-> current, age |-> None]

\* The Manager matches the join key's hash, signs a JWT and returns the
\* configuration of this moment. The key stays usable afterwards.
Registered(key) == [left |-> JwtLife, gen |-> key, config |-> current, age |-> 0]

Register(key, s, d) ==
    NoAnswer(s, d) \cup
    IF key \in rows
    THEN {Out(TRUE, Registered(key), d2) : d2 \in SaveToCache(Registered(key), d)}
    ELSE {Out(FALSE, s, d)}

\* Mutation: the refresh is served, with a new JWT and no configuration.
RefreshJwtKeepsConfig(key, s, d) ==
    IF s = None THEN Register(key, s, d)
    ELSE NoAnswer(s, d) \cup {Out(TRUE, [s EXCEPT !.left = JwtLife], d)}

\* Mutation: only startup registers.
RefreshNeverRegisters(key, s, d) == {Out(FALSE, s, d)}

\* POST .../refresh is not a route of the Manager (it serves .../refresh-token),
\* so an answered request is a 404 and the client registers again.
RefreshJwt(key, s, d) ==
    IF s = None THEN Register(key, s, d)
                ELSE NoAnswer(s, d) \cup Register(key, s, d)

\* GET .../config answered 200: the client keeps its token.
Fetched(s) == [s EXCEPT !.config = current, !.age = 0]

Fetch(s, d) ==
    NoAnswer(s, d) \cup
    {Out(TRUE, Fetched(s), d2) : d2 \in SaveToCache(Fetched(s), d)}

\* A 401 leads to refresh_jwt and, when that worked, to a second request. The
\* new token is accepted, so the recursion is one level deep.
SyncConfig(key, s, d) ==
    IF s = None THEN {Out(FALSE, s, d)}
    ELSE IF TokenAccepted(s) THEN Fetch(s, d)
    ELSE NoAnswer(s, d) \cup
         UNION {IF r.ok THEN Fetch(r.session, r.disk) ELSE {r} :
                   r \in RefreshJwt(key, s, d)}

\* The metrics sent lack the fields the Manager requires, so an authenticated
\* heartbeat is a 400 that changes nothing; a 401 refreshes the token.
Heartbeat(key, s, d) ==
    IF s = None \/ TokenAccepted(s)
    THEN {Out(FALSE, s, d)}
    ELSE NoAnswer(s, d) \cup
         {Out(FALSE, r.session, r.disk) : r \in RefreshJwt(key, s, d)}

\* is_jwt_valid looks at the expiry only.
IsJwtValid(s) == s # None /\ s.left > Margin

CacheUsable(s) == s # None /\ s.age < CacheTtl

\* check_mode: the mode it returns, and the client after it.
ModeAfter(r) ==
    CASE r.ok -> "normal"
      [] ~r.ok /\ CacheUsable(r.session) -> "cached"
      [] OTHER -> "degraded"

CheckMode(key, s, d) ==
    IF IsJwtValid(s) THEN {[mode |-> "normal", session |-> s, disk |-> d]}
    ELSE {[mode |-> ModeAfter(r), session |-> r.session, disk |-> r.disk] :
             r \in RefreshJwt(key, s, d)}

\* Mutation: a restart stamps the loaded configuration as new.
StartupRestamps(key, d) ==
    {Out(FALSE, IF d = None THEN None ELSE [d EXCEPT !.age = 0], d)}

\* startup: load the cache; without a valid JWT register, then sync.
Startup(key, d) ==
    IF IsJwtValid(d) THEN {Out(FALSE, d, d)}
    ELSE UNION {IF r.ok THEN SyncConfig(key, r.session, r.disk) ELSE {r} :
                   r \in Register(key, d, d)}

-----------------------------------------------------------------------------
LinkInit ==
    /\ rows = {0} /\ issued = 0
    /\ current \in Configs
    /\ gone = [c \in Configs |-> IF c = current THEN 0 ELSE CacheTtl]
    /\ reliable = TRUE
    /\ running = FALSE /\ join_key = 0
    /\ session = None /\ mode = "normal" /\ disk = None

(* The Manager. *)

\* An administrator changes zones, records or feeds.
EditConfig ==
    \E c \in Configs \ {current} :
        /\ current' = c
        /\ gone' = [gone EXCEPT ![c] = 0]
        /\ UNCHANGED <<rows, issued, reliable, running, join_key, session, mode, disk>>

\* create_dns_server: a new row; its join key is shown once.
CreateServer ==
    /\ issued < MaxGen
    /\ issued' = issued + 1
    /\ rows' = rows \cup {issued + 1}
    /\ UNCHANGED <<current, gone, reliable, running, join_key, session, mode, disk>>

\* delete_dns_server, or revoke_join_key: the row goes, or gets a join key and
\* a secret that are shown to nobody. Either way no held credential is accepted.
RetireServer ==
    \E g \in rows :
        /\ rows' = rows \ {g}
        /\ UNCHANGED <<issued, current, gone, reliable, running, join_key,
                       session, mode, disk>>

(* The environment. *)

NetworkChange ==
    /\ reliable' = ~reliable
    /\ UNCHANGED <<rows, issued, current, gone, running, join_key, session, mode, disk>>

Older(n) == IF n < CacheTtl THEN n + 1 ELSE n

Aged(s) ==
    IF s = None THEN None
    ELSE [left |-> IF s.left > 0 THEN s.left - 1 ELSE 0, gen |-> s.gen,
          config |-> s.config, age |-> Older(s.age)]

Tick ==
    /\ session' = Aged(session)
    /\ disk' = Aged(disk)
    /\ gone' = [c \in Configs |-> IF c = current THEN 0 ELSE Older(gone[c])]
    /\ UNCHANGED <<rows, issued, current, reliable, running, join_key, mode>>

(* The DNS server process. *)

Crash ==
    /\ running
    /\ running' = FALSE
    /\ session' = None /\ mode' = "normal"
    /\ UNCHANGED <<mgrVars, join_key, disk>>

\* The operator restarts it, with the same JOIN_KEY or with the newest one.
Started(key, r) ==
    /\ ~running
    /\ running' = TRUE
    /\ join_key' = key
    /\ session' = r.session /\ disk' = r.disk
    /\ UNCHANGED <<mgrVars, mode>>

Start == \E key \in {join_key, issued} : \E r \in Startup(key, disk) : Started(key, r)

\* GET /health, which the orchestrator polls; queries do the same first.
Health ==
    /\ running
    /\ \E r \in CheckMode(join_key, session, disk) :
           mode' = r.mode /\ session' = r.session /\ disk' = r.disk
    /\ UNCHANGED <<mgrVars, running, join_key>>

TakeOver(r) ==
    /\ running
    /\ session' = r.session /\ disk' = r.disk
    /\ UNCHANGED <<mgrVars, running, join_key, mode>>

SyncTask == \E r \in SyncConfig(join_key, session, disk) : TakeOver(r)

HeartbeatTask == \E r \in Heartbeat(join_key, session, disk) : TakeOver(r)

LinkNext ==
    \/ EditConfig \/ CreateServer \/ RetireServer
    \/ NetworkChange \/ Tick
    \/ Crash \/ Start \/ Health \/ SyncTask \/ HeartbeatTask

LinkSpec == LinkInit /\ [][LinkNext]_linkVars

\* The orchestrator restarts and probes the process; the tasks loop for ever.
LinkFairness ==
    WF_linkVars(Start) /\ WF_linkVars(Health) /\ WF_linkVars(SyncTask)

FairLinkSpec == LinkSpec /\ LinkFairness

-----------------------------------------------------------------------------
(* Properties. *)

\* check_mode reports normal on the strength of the JWT alone and never looks
\* at cached_at. The configuration is nevertheless younger than the cache TTL,
\* in memory and in the file a restart would load.
FreshWhileJwtValid ==
    /\ IsJwtValid(session) => CacheUsable(session)
    /\ IsJwtValid(disk) => CacheUsable(disk)

\* Whenever check_mode could answer normal or cached from what the client
\* holds, the configuration it enforces was the Manager's within the last
\* CacheTtl: restarts, failed saves and lost requests never stretch that bound.
EnforcedRecently ==
    \A s \in {session, disk} :
        IsJwtValid(s) \/ CacheUsable(s) => gone[s.config] < CacheTtl

\* A credential retired at the Manager never comes back into use, and a row's
\* retirement ends normal mode: a session whose credentials are retired only
\* runs down. It is renewed by no request.
RetiredNeverRenewed ==
    [][session # None /\ session.gen \notin rows /\ session'  # None
          /\ session'.gen = session.gen /\ running
       => session'.left <= session.left /\ session'.age >= session.age]_linkVars

\* Once requests are answered, the process stays up with a join key that is
\* accepted, and edits stop, the server ends up with the Manager's
\* configuration for good and in normal mode, whatever happened before.
Calm(c) == running /\ reliable /\ join_key \in rows /\ current = c

Converges ==
    \A c \in Configs :
        <>[]Calm(c) => <>[](session # None /\ session.config = c /\ mode = "normal")

=============================================================================
