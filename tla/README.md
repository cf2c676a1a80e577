# Squawk: a TLA+ development

Squawk serves DNS, DHCP and time over HTTPS. A central **Manager** (Flask, a
SQL database, several gunicorn workers) owns users, zones, threat feeds and
the registry of servers; **DNS servers** (Quart, one asyncio process each)
pull their configuration from it and answer DNS-over-HTTPS queries; a **DHCP
server** and an **NTP/NTS server** stand beside them; clients in Go and Python
talk to all of them. These modules model the parts whose correctness depends
on order, loss, crashes, time or concurrency, check them with TLC on small
instances and prove their main safety properties with TLAPS for all instances.

`PROJECT.json` lists the components, the runs, the source lines behind every
definition, the hazards, the findings and the theorems.

## Inventory

| Component | State | Operations | What is hard | What makes it correct |
|---|---|---|---|---|
| DNS server, link to the Manager (`manager_client.py`, `resilience.py`, `main.py`) | `jwt_token`, `server_id`, `config_cache`, `cached_at`, `mode`, `manager_cache.json` | register, refresh, sync, heartbeat, check_mode, startup | every request may be lost, crash between save and use, retired credentials, mode decided from the JWT alone | enforced configuration is never older than the TTL; retired credentials are not renewed; convergence |
| Manager, server registry (`dns_servers.py`, `join_key_service.py`, `config_service.py`, `middleware/auth.py`) | `dns_server` rows (hash of the join key, JWT secret), zones, feeds | create, delete, regenerate key, register, config, heartbeat | edits and revocation race with servers | tokens of retired rows are refused |
| Manager, zones and their export (`zones.py`, `config_service.py`) | `dns_zone`, `dns_record` | create, update and delete zones and records; export | the export reads zones and records in separate statements; cascades only where foreign keys are enforced | a record is exported under a visibility it had |
| DNS server, query path (`main.py`, `selective_router.py`, `ioc_checker.py`, `cache_manager.py`, `dns_resolver.py`) | router's zones, checker's sets, Redis | load, query, reload | three copies of one configuration; Redis outlives the process; check_mode twice per query | a zone checked and found protected is not answered; listed addresses disappear; copies converge |
| DNS server, rate limiter (`rate_limiter.py`) | token buckets in an LRU map, or window counters in Valkey | check, evict, INCR, EXPIRE | eviction forgets what was used; two commands per window, a crash between them; several servers share a counter | a bucket that was kept bounds the burst; a window passes its quota and no more; only a failed EXPIRE leaves a counter behind |
| DHCP server (`db.py`, `bins/server.py`) | `dhcp_lease`, `dhcp_reservation`, `dhcp_pool` | discover, request, release, config, lease, sweep | offers are not reserved, answers get lost, stale rows, write before a failing read | no shared addresses, leases outlive their use, the pool does not run dry |
| Manager, DHCP administration (`blueprints/dhcp.py`) | the same tables | create, update and delete a pool, release a lease, reserve | check and insert of a reservation are apart; rows change under clients; duration announced and duration recorded are set apart | nothing is reserved twice; only a withdrawal takes a lease away |
| Manager, user tokens (`auth_service.py`, `auth.py`, `mfa.py`) | `revoked_token`, `auth_user` | login, refresh, logout, mfa-verify, deactivate | statements of concurrent workers interleave; purge; killed workers | single use, revocation is final |
| Manager, lockout and second factor (`auth_service.py`, `mfa_service.py`, `mfa.py`) | `auth_user`: failure count, lock, TOTP secret and counter, recovery codes | failed and successful login, enrol, activate, verify, disable | read-modify-write on one row by several threads; enrolment in two statements | serial failures lock for the backoff they earned; a recovery code counts once; codes belong to the enrolment |
| Manager, DPoP and machine identities (`dpop_service.py`, `machine_clients.py`, `oidc_trust_anchors.py`, `auth.py`) | `dpop_replay`, `machine_client`, `oidc_trust_anchor` | accept a proof, purge; create, update, rotate, delete; client_credentials, token exchange | replay rows expire while a request is under way; a grant reads its row twice | a proof counts once; a token is as restricted as the row |
| Manager, SSO, SAML, SCIM (`sso_service.py`, `saml_service.py`, `scim.py` and their blueprints) | providers, `sso_login_attempts`, `saml_assertion_ids`, `auth_user`, `scim_tokens` | authorize, callback, ACS, JIT provisioning; POST, PUT, PATCH, DELETE of users | callbacks race between check and mark; accounts edited meanwhile | sessions belong to the subject; one session per attempt; deprovisioning holds |
| Manager, IOC feeds (`ioc_ingestion_service.py`, `ioc_feeds.py`, `ioc_refresh.py`) | `ioc_feed`, `ioc_entry`, `ioc_override`, caches of each worker | create, update, refresh, sync, export; add and remove an override; check | delete-and-insert seen by exports and by other refreshes; failures half way; table and caches differ, also because a failed load goes unnoticed | an export is one document; a torn feed is repaired; the last call decides a verdict |
| Manager, WHOIS (`whois_service.py`) | `whois_cache`, `whois_search_index`, lookups in progress | look up, wait for another thread's lookup, store, index, clean up | events across event loops; cleanup against refresh; failures between row and index; one row for two kinds of lookup | the index says what the row says after a whole write of a domain; every lookup returns |
| Manager, client configuration (`client_config_service.py`) | domains and token hashes, `client_config`, `config_history`, `client_instance` | roll a token over, register, pull, assign, edit, clean up | check and write are apart; read-increment-write of versions | a client gets configurations of its domain only; no version is missing in the history |
| NTP/NTS server (`ntp-server/bins/server.py`) | master keys by version, outstanding cookies | seal, unseal, rotate, answer | rotation against outstanding cookies; version in one byte; any exception ends the responder; restart loses the keys | a live cookie is honoured while the responder runs |
| Go client, Python client, tray | zone cache, lease store, transports | watch, resolve, fall back | failover | not modelled |
| Frontends, website, installer, Kubernetes files | - | - | - | presentation and deployment; not modelled |

Interactions. Manager and DNS server share nothing but HTTP requests, each of
which the client makes synchronously (it blocks the event loop). Whether the
DHCP server and the Manager share a database depends on the deployment: the
docstring of `dhcp-server/app/schema.py` gives the server one of its own, while
`k8s/kustomize/base/dhcp-server-deployment.yml` gives it an account "scoped to
dhcp_lease / dhcp_pool / dhcp_reservation tables only", as a common one needs;
both services define the three tables. With a common database the Manager's
routes change the tables the DHCP server works on; without, an operator does.
Clients of the DHCP server learn of their lease only through the answer to
their request. Workers of the Manager share the database and nothing else, and
each statement commits by itself.

## Modules

| Module | What it is |
|---|---|
| `ManagerLink` | one DNS server and the Manager: credentials, JWT, configuration, cache file, modes |
| `DnsServer` | EXTENDS `ManagerLink`: router, feeds, Redis and `dns_query`; composes the link with the data plane and implements it (`ImplementsLink`) |
| `DhcpServer` | the DHCP server, its lease table and its clients, and the administration of pools, leases and reservations |
| `AuthTokens` | refresh and pre-auth tokens and the denylist, one step per SQL statement |
| `NtsServer`, `CookieLease` | key establishment, cookies, rotation and the UDP responder; `CookieLease` is the abstract service it implements (`ImplementsLease`) |
| `RateLimiter` | both backends of the DNS server's limiter |
| `IocIngest` | feeds: administration, refresh job, sync route, export |
| `ConfigExport` | zones and records: administration and export |
| `IocOverrides` | overrides of the feeds and the verdict about a name or address |
| `Whois` | lookups, cache, search index, cleanup |
| `ClientConfig`, `ConfigHistory` | deployment domains and their clients; versions of one configuration |
| `LoginLockout`, `SecondFactor` | failure count and lock; TOTP, recovery codes, enrolment |
| `DpopReplay`, `MachineGrant` | single use of DPoP proofs; machine clients, trust anchors and the token endpoint |
| `SingleSignOn`, `Scim` | OIDC and SAML logins with JIT accounts; provisioning |
| `DnsServerProofs` | theorems about `ManagerLink` and `DnsServer` |
| `DhcpServerProofs`, `AuthTokensProofs`, `NtsServerProofs` | theorems about the module of that name |
| `CredentialProofs` | theorems about `LoginLockout`, `SecondFactor`, `DpopReplay` and `MachineGrant` |
| `Services`, `Identity` | compositions of seven and six modules that share no state, side by side |
| `AccountProofs` | theorems about `SingleSignOn`, `Scim` and `Identity` |
| `ServicesProofs` | theorems about `ConfigHistory`, `ClientConfig`, `RateLimiter`, `Whois` and `Services` |
| `FeedProofs` | theorems about `IocOverrides`, `IocIngest` and `ConfigExport` |
| `MCManagerLink`, `MCDnsServer`, `MCDhcpServer`, `MCAuthTokens`, `MCIocIngest`, `MCWhois`, `MCSingleSignOn` | instances for TLC |
| `MCServices`, `MCIdentity` | instances of `Services` and `Identity` |

Operators whose comment starts with "Mutation:" are wrong variants of the
definition that follows them. No specification uses them; substituting one
shows that the property paired with it in `PROJECT.json` can fail.

### ManagerLink

A handler of the DNS server is one step: it makes blocking requests and does
not suspend between them. Each method of `ManagerClient` is an operator that
gives the set of its outcomes (result, client state, file), so a handler that
chains calls, such as `startup` (register, then sync, where a 401 leads to
refresh, register and another fetch), is a union over outcomes and every
request in it is lost or answered independently. `jwt_token`, `server_id`,
`config_cache` and `cached_at` are always set, saved and loaded together and
are one record `session` (or `None`); `disk` is what `manager_cache.json`
yields, where a failed write gives the new content, the old one or an
unreadable file.

Credentials are generations: row `g` accepts the join key and the JWT secret
of generation `g`. Deleting a row and regenerating its key are the same step,
`RetireServer`, because the regenerated join key is returned to nobody. Two
facts of the code matter and are modelled as they are: the client posts to
`/refresh`, which the Manager does not serve (its route is `/refresh-token`),
so every refresh that is answered ends in a registration, which also brings a
configuration; and the metrics sent lack the fields `heartbeat` requires, so
an authenticated heartbeat is a 400.

Time is kept as ages that stop at the largest value a comparison can
distinguish, so no run is bounded in time. Both sides read the same clock.
The DNS server obtains a configuration in one step; that the Manager reads zones,
records and feeds in separate statements is the subject of `ConfigExport` and
`IocIngest`. SPIFFE authentication is left out.

### DnsServer

The configuration becomes a record of zones and feeds. The permission check
reads the link's session, records come from `router`, indicators from `ioc`.
A domain's zones (`Under`) and the order of names (`NameOrder`) are constants,
so "first zone in the list" and "longest match" are two orders on the same
zones. Record matching and wildcard or CIDR matching are membership. The
variable `last` holds the reply just given, for the properties to look at;
`Sent` clears it, so it adds one step after each query and nothing else. The
rate limiter answers before any of this state is touched. A team's zone is
served to nobody, because `allowed_teams` holds integers and the token's
`team_roles` string keys.

`ProtectedZoneHidden` is about the zone whose permission is checked. A caller
without a verified token, in normal or cached mode, is answered only if that
zone was open at the Manager within the last `CacheTtl`, wherever the answer
comes from. If no zone was found to check, records of a zone are given out
only if that zone was open; a query whose second `check_mode` replaced the
zones of `config_cache` (`replaced`) is left out there. The records given out
may be those of another zone than the one checked, when zones are nested or
the copies differ. The property says nothing of that zone; `dns_nested` shows
what happens.

### DhcpServer

All state is in the database and every handler runs to its end once the body
is read, so a handler is one step. `lease` has one row per MAC (`create_lease`
updates the row of the MAC if there is one). Queries that take `.first()`
without an order may return any match. `holds` is the client's view: what it
was told, for how long and how long ago; a client that uses an address renews
that one, as the Go client does. `clean` records that no address was granted
while another MAC's expired row for it had not been swept.

The client is told `dhcp_pool.lease_duration`, the row ends after
`DHCP_LEASE_TIME`, and nothing ties the two together. The model therefore keeps
them apart: `HoldsBacked` promises the row for `DHCP_LEASE_TIME` from the
answer, whatever the client was told. A client that was told more goes on
using an address whose row has expired.

Administrators create, change and delete the pool row, withdraw leases and make
reservations. `enforced` says whether the database enforces foreign keys
(PostgreSQL) or not (SQLite, the default of the configuration): it decides
whether deleting the pool takes leases and reservations with it, and whether a
request without a pool row leaves a lease behind. A client whose row was
withdrawn is marked, and goes on using the address. Check and insert of a
reservation are two steps (`booking`), and `serial` records that no two were
under way at once.

### AuthTokens

A request is a job of a worker at a statement: the denylist check, the user
row, then the three statements of `_revoke_jti` (purge, count, insert), then
the new token. Jobs may be killed anywhere. `revoked_token.jti` is UNIQUE, so
an insert may fail. A token decodes while `left > 0`; a row is purged at
`left < 0`, one unit later. One account is followed; access tokens are
stateless and not followed. `Jtis` bounds how many tokens are ever issued.
`burned`, `overlap`, `minted` and a job's `late` are history.

### NtsServer and CookieLease

One event loop runs key establishment, the responder and the rotation task, so
a handler is one step. The server keeps no sessions; `cookies` is what clients
hold. A cookie names the key version and, for the model, the process that
sealed it: after a restart versions begin at 0 again with other keys. A request
is the cookie it carries and whether its authenticator is genuine. The limit
per address appears as an outcome any request may have. From version
`ByteLimit` on sealing raises, which a key-establishment request survives and
the UDP receive loop does not. Nor does the loop survive any other exception:
an empty cookie body, an origin timestamp that rounds to 2^64, an error of
`sock_sendto` or `sock_recvfrom`. So any request may end in `Failed`, and
`ReceiveFails` needs no request; only a restart brings the loop back.
`CookieLease` hides keys, versions and rotation: a cookie is a lease, honoured
while the service runs, and the service may stop at any time.

### RateLimiter

A process runs one of the two backends. A check does not suspend, except that
INCR and EXPIRE are separate commands of servers that share Valkey, with a
failure or crash between them. Buckets are refilled at every tick rather than
on use, with the same tokens at every use. `debt`, `evicted`, `passed` and
`leaked` are history: an evicted identity starts with a full bucket, which is
what `BurstIfKept` excludes.

### IocIngest and IocOverrides

In `IocIngest` the refresh job and workers of the sync route each run an
ingestion statement by statement: fetch, find or create the feed by name,
delete the entries, insert them one by one, stamp the feed. A failed statement,
a failed fetch and a killed process end it anywhere. A document is the set of
indicators it lists, or unreadable; what a parser makes of it depends on the
format, and a feed made over the API has none. One feed name is followed
through deletion and re-creation.

In `IocOverrides` the override table is shared and every instance of
`IOCManager` answers from the memory it loaded last. Names are sequences of
labels, so the wildcard and parent rules of `check_domain` are those of the
code. Every statement of a call may raise: before the load the call returns
False and the instance keeps what it had (`FailOverride`); inside
`_load_overrides` the dictionaries are already cleared, the error is swallowed
and the call returns True, so a load puts any subset of the rows in force into
memory. `whole` records whether it was all of them. `VerdictOfLastCall` has one
half for each case: after a whole load the last calls decide; after one that
failed, overrides are missing, and a name is still blocked only if a call or a
feed says so, and passes a feed only if a call allowed it.

### ConfigExport

An export selects the zones and then, zone by zone, the records, while the
routes of `zones.py` change both tables. It only reads, so one export at a time
stands for any number, and one that was cut short is a new one begun. A zone is
its id and who may see it, a record its id, zone and data. `cascades` is what
`enforced` is in `DhcpServer`; without it the records of a deleted zone stay,
and a new zone may get their id. `edited` and `together` are history: the zones
changed between the two reads of the export, and the combinations of zone,
visibility and record that the tables held in between. `exported` is what the
last read added to the answer.

### Whois

Two threads of a worker share the manager object with its table of lookups in
progress, and each request has an event loop of its own. `event.set()` from the
other thread marks the waiter's future as done without waking its selector, so
a waiter that is not yet blocked goes on and one that is stays
(`awaiting`, `parked`, `stuck`). No route asks for a forced refresh.

Row, deletion of the old entries and each new entry are separate statements
that commit by themselves, and the three of the cleanup job run against them.
Any of them may raise, which is logged and forgotten (`WriteFails`,
`CleanupFails`), and a worker may be killed between any two (`KillWorker`). The
query followed is an IPv4 literal, which passes for a domain name too: the row
is found by the query alone, so `lookup_ip` and `lookup_domain` write the same
row, each with its own `query_type`, and only the domain's write touches the
index. After `lookup_ip` wrote over a domain's row the index keeps the domain's
entries; `IndexMatchesIfAlone` claims nothing of such a row, and nothing after
a domain's write that was overlapped or cut short, until the next that was not.

### ClientConfig and ConfigHistory

A request is a worker at a statement. Tokens of a domain are numbered and the
domain keeps the hash of the newest. One client registers, pulls, is assigned a
configuration and is cleaned up. Contents and versions of a configuration are
independent of this and have a module of their own.

### LoginLockout and SecondFactor

Both follow one account row. A login remembers the failure count it read; the
lock is a remaining time, and `spent` is what the bcrypt comparison took since
the clock was read. A TOTP code is the secret and the 30-second counter it was
made for; the code compares and stores the current counter rather than that of
the code, so a code may count twice in neighbouring windows. `activate` takes
the secret from the request body, and nothing keeps a client from sending one
that was activated before; `disable` sets the stored counter to 0. An enrolment
(one activation) and a secret are therefore kept apart, and what
`SecondFactorOnceIfSerial` promises is one TOTP code per counter and enrolment:
a secret disabled and activated again within one counter has its codes of that
counter accepted again. Recovery codes are drawn anew by each enrolment. The
history is dropped once requests overlap, because nothing is claimed of it then.

### DpopReplay and MachineGrant

`DpopReplay` keeps, per proof, how far the clock is past its `iat`, and, per
request, the time since its check of `iat` and since it computed the expiry of
the replay row. `MachineGrant` follows one row, of a machine client or of a
trust anchor; a client's grant reads it twice (secret and scopes, then the
allow-list) and administrators write in between.

### SingleSignOn and Scim

One provider, OIDC or SAML. Attempts are opaque states, answers of the identity
provider are tied to an attempt by nonce or request ID, and signatures are a
verdict. The stored client secret is a number of encryption layers, since both
callers of `decrypt_secret` take one off. `auth_user` is a sequence with the
unique columns of the schema. `Scim` follows the same table through SCIM
requests and the administrators' edits.

## Runs

Time bounds are the smallest that separate the cases of every comparison:
before the margin, inside it, expired; fresh, stale. They are enough because
the models are stationary: ages saturate and every state a longer bound adds
differs only in how often the same comparison gave the same result. Bounds on
counters (rows, tokens, failures, requests) allow one more than the property
needs to be violated, as the mutants show.

| Run | Instance | Checks |
|---|---|---|
| `link` | 2 configurations, 2 generations, JWT life 3, margin 1, TTL 3 | `TypeOK`, `FreshWhileJwtValid`, `EnforcedRecently`, `RetiredNeverRenewed`, `Converges` |
| `dns` | 1 zone, 1 address; two configurations, one without the zone and with the address listed, one with the zone shared and no feed; JWT life 2, margin 1, TTL 1, Redis 2; fairness | `ProtectedZoneHidden`, `ListedIpExpires`, `ImplementsLink`, `CopiesConverge` |
| `dns_nested` | a zone nested in another | violates `PrivateZonesRequireToken` |
| `dhcp` | 2 clients, 1 address and one outside the range, 3 possible reservations, announced durations below and above the recorded one; fairness | `HoldsBacked`, `NoDoubleLeaseIfSwept`, `OfferHonoured`, `ReservedOnceIfSerial`, `StaleRowsSwept` |
| `dhcp_double` | 3 clients, 2 addresses, no reservations | violates `NotLeasedToAnother` |
| `auth` | 2 workers, 3 tokens, symmetric | `BurnedStaysDenied`, `LateRequestsMintNothing`, `SingleUseIfSerial` |
| `services` | seven modules, see below | `ServicesTypeOK`; NTS: `CookieHonoured`, `ImplementsLease`; limiter: `BurstIfKept`, `WindowQuota`, `OnlyFailuresLeak`; `VerdictOfLastCall`; WHOIS: `IndexMatchesIfAlone`, `WaitersAwaitALookup`; `PulledFromOwnDomain`, `HistoryCompleteIfSerial`, `ExportedRecordsCoexist` |
| `ioc` | job and 1 sync request, 2 feed rows, 2 indicators, 1 failure; fairness | `ExportedFeedIsOneDocument`, `TornFeedRepaired` |
| `ioc_format` | as `ioc` | violates `JobStoresWhatWasPublished` |
| `identity` | six modules, see below | `IdentityTypeOK`, `LockoutIfSerial`, `SecondFactorOnceIfSerial`, `RecoveryCodesOfThisEnrolment`, `ProofSingleUseIfPrompt`, `GrantKeepsRestriction`, `SessionOfSubject`, `OneSessionIfSerial`, `DeprovisionedIfSerial` |
| `whois_wait` | 3 threads in 2 processes, 2 lookups; fairness | violates `LookupsReturn` |
| `sso_callback` | 2 threads, 2 attempts | violates `OidcLoginCompletes` |

Two clients for one address exhaust the pool; the three reservations clash by
address and by MAC; durations 1 and 3 against a recorded 1 put the client's
time below and above the row's. The violation needs three clients: one with a
stale row, one with a live one and a newcomer. Two workers are what a race
needs, three tokens what a login and two exchanges of one token need. Symmetry
is used only in `auth`, where no property is temporal and no operator chooses
among tokens.

`services` (about 1 340 000 states, seven modules) and `identity` (about 710 000,
six) each run modules that share no state and do not call each other. The
initial state picks one of them (`part`), which then runs alone while the
others stay where they began. The reachable states are the sum of the parts,
and since no variable of one occurs in another, nothing is lost by not
interleaving them. That each behaviour of the composition is one of every part
is a theorem (`ServicesAreTheirParts`, `IdentityIsItsParts`). Bounds:

- NTS: cookie life and rotation period 2, grace 1, four versions of which three
  fit the "byte", one restart: every rotation boundary, the overflow and a
  version number used again by another process.
- Limiter: 3 identities for 2 buckets, burst 2; 2 servers, 2 windows of 2
  ticks, quota 2, at most 3 requests per tick.
- Overrides: 2 instances, 3 nested names, 1 wildcard target, 2 rows. WHOIS: the 2
  threads of a worker, answers with 1 and with 2 entries, 2 rows, 3 lookups (two
  that write one after the other and one that meets them; threads of several
  processes are in `whois_wait` and in the proof). Client configuration: 2 domains with a
  configuration each, 2 workers, 2 tokens per domain. History: 2 editors, 3
  versions, 1 failure. Export: 2 zones, 2 visibilities, 1 record at a time with
  2 contents, which may be in the one zone or, created anew, in the other.
- Lockout: threshold 2, locks of 1, 2 and at most 3, so that the cap is met; 2
  threads. Second factor: 2 enrolments with any of 2 secrets, 2 counters, 2
  threads. DPoP: skew 1,
  replay window 4 (60 s and 15 min in the code), 3 threads, which
  is what one acceptance, one purge and one late insert need. Grants: 1 thread
  against the administrators, 2 secrets. SSO: 2 threads, 2 attempts of one
  subject whose address changes, 2 accounts. SCIM: 2 threads, 2 rows, PATCH of 2
  operations.

`CHECK_DEADLOCK FALSE` is used where bounds on requests end every behaviour.

### What the passing runs show

- **Freshness.** `check_mode` says normal when the JWT is valid and never looks
  at `cached_at`. The configuration it then enforces is still younger than the
  TTL, because the only way to a new JWT is a registration that brings a
  configuration. Serving the refresh route without sending a configuration
  would break this; that is the mutant of `FreshWhileJwtValid`.
- **Retirement.** A session of a retired server only runs down.
- **Convergence.** A server that could not register at startup recovers through
  its health probes, and its copies of non-empty lists catch up.
- **Permissions.** Nobody without a token is answered from a zone, in the
  router or in Redis, if the check was made for that zone and the Manager has
  protected it for `CacheTtl`. Which zone the check is made for is another
  matter, see `dns_nested`.
- **Queries.** Whatever the two calls of `check_mode` inside a query do is a
  step of the link alone, so all of the above carries over to the server.
- **Leases.** What a client uses stays recorded through renewals, releases that
  never arrive, lost acknowledgements, status reads, the sweep and changes of
  the pool; only an administrator who withdraws the lease or deletes the pool
  takes it away. Reservations clash only when two are made at the same time.
- **Tokens.** The purge forgets nothing that decodes, and only overlapping
  requests can exchange a token twice.
- **Time service.** However rotations fall, a cookie is honoured until it
  expires, the process restarts or an error ends the receive loop. One such
  error is certain: the version outgrows its byte after 256 rotations, which at
  one a day is 256 days of uptime.
- **Rate limits.** Bursts are bounded for identities that are not evicted. In
  Valkey the quota of a window holds over all servers, and a counter survives
  its window only if its EXPIRE failed.
- **Export.** Edits of other zones and of records never put a record of a
  protected zone into a public one. A zone that is itself changed between the
  two reads may leave with its old visibility and its new records, until the
  next sync.
- **WHOIS.** Whoever waits, waits for a lookup that is still running, although
  entries of the table overwrite each other; that it may still not be woken is
  the finding of `whois_wait`. The index never has entries of a row that is
  gone, and it is that of the row after a domain's write that ran through alone;
  failures, kills, overlaps and an IP lookup of the same literal leave it
  behind.
- **Overrides.** Rows of earlier calls never outvote the last call about an
  indicator, unless calls of two instances overlapped. A load that fails
  unnoticed loses overrides and invents none.
- **Feeds.** A feed that nobody is storing is exactly one document. A refresh
  cut short or blended with another is repaired while the feed stays enabled.
- **Identity.** Properties named `...IfSerial` say what holds while requests do
  not overlap, and in stating it say that overlap is the only exception: two
  wrong logins at once count once, two requests may spend one recovery code
  (and, without overlap, a secret enrolled again starts its counter anew), a
  PUT may bring back an account deactivated since it was read. The others hold
  under every interleaving: sessions belong to the subject that signed on, and
  a token is as restricted as some state of the row during the grant, unless
  the row was deactivated in between.

### What the violated ones show

1. `dns_nested`: the permission is checked for the first zone in name order,
   the records come from the most specific one.
2. `dhcp_double`: `validate_requested_ip` looks at one conflicting row only, so
   two unexpired leases come to share an address.
3. `ioc_format`: the refresh job empties a feed created over the API, whose
   format is unset, and stamps it as updated.
4. `whois_wait`: a request waiting for the other thread's lookup may never be
   woken.
5. `sso_callback`: a good OIDC callback fails, at the second decryption of the
   secret or at the second look-up of the attempt.

Five more divergences were met while modelling. They are visible in the modules
and have no run: an empty zone list reloads nothing (`dns-server/app/main.py:391`),
so the records of a deleted last zone are served until a restart; a reservation
is offered while another client uses its address (`dhcp-server/app/db.py:86`);
overlapping requests can exchange one refresh token twice
(`auth_service.py:424`); a TOTP code is accepted again at the next counter
(`mfa_service.py:296`), and within one counter when its secret is disabled and
activated again (`blueprints/mfa.py:91`); `lookup_ip` leaves a domain's index
entries at a row it overwrites (`whois_service.py:452`).

### Fairness

`Converges` and `CopiesConverge` assume that a stopped process is restarted
(the Kubernetes deployment does), that `/health` is polled (liveness and
readiness probes of `k8s/kustomize/base/dns-server-deployment.yml`), and that
`sync_task` keeps looping. Nothing is assumed of the Manager, the network, the
heartbeat or of queries: the properties say that *if* the network stays
reliable, the join key accepted and the configuration unchanged, *then* the
server converges. In `DnsServer` the same three are strong because the step
`Sent` disables them for a moment after each query. `StaleRowsSwept` assumes
the loop of `expire_leases_task`, which catches every exception.

`TornFeedRepaired` assumes that cron starts the job (every half hour), that
update intervals pass and that running code runs on. Failures are bounded, so
it says that the feed is repaired after the last one. `LookupsReturn` assumes
only that a thread which can run does, and that library calls return.

## Proofs

Every safety invariant, action property and refinement that a passing run
checks is also a theorem, for all constants that satisfy the named assumption
of its module: any number of threads, workers, servers, clients, names and
feeds, and all lifetimes and limits. Each proof has the same shape. The
property is not inductive, because rows and caches are written from what was
read some statements earlier; an invariant (`...Inv`) adds what is known
between the read and the write; one lemma per action (or per group of actions
that disturb the same parts) shows that it is kept; the theorem follows.
Beside the properties, each module has its type theorem (`...TypeCorrect`); the
type invariants of `DnsServer`, `DhcpServer` and `AuthTokens` are proved only,
the others are in the runs too.

- `DnsServerProofs`, the link: `LinkTypeCorrect`, `LinkFresh`,
  `LinkEnforcedRecently`, `LinkRetiredNeverRenewed`. The invariant `LinkInv`
  adds, for memory and file alike, that age and remaining life of the JWT
  together do not exceed its lifetime and that the configuration has not been
  outdated for longer than its age. With `JwtLife - Margin <= CacheTtl` (24
  hours each in the code) that gives freshness. One lemma per client method
  says that all its outcomes are good; the actions follow. `LinkAssumption` is
  where raising the JWT lifetime above the cache TTL would show.
- `DnsServerProofs`, the data plane: `DnsImplementsLink`, `DnsTypeCorrect`,
  `DnsProtectedZoneHidden`, `DnsListedIpExpires`, `DnsEnforcedRecently`. The
  refinement is by action: `dns_query` with its two calls of `check_mode` is a
  step of the link or leaves it alone. `LinkInv` carries over along it, which
  gives `EnforcedRecently` of the whole server. `DataInv` relates what the code
  never compares: the time an address has been listed and the time Redis still
  keeps an answer with it add up to at most `DnsTtl`, and what router and Redis
  hold of a zone comes from a configuration the link held. `ReplyInv` says the
  same of the last answer. The proof uses `Margin < JwtLife`: a fresh JWT is
  valid when it is obtained.
- `DhcpServerProofs`: `DhcpTypeCorrect`, `DhcpHoldsBacked`,
  `DhcpNoDoubleLease`, `DhcpOfferHonoured`, `DhcpReservedOnce`. `DhcpInv` adds
  that recorded addresses are in the pool; that the row of a client which uses
  an address has at least as much left as `DHCP_LEASE_TIME` less the age of the
  answer (`HoldsKept`; without it the next tick could end the row first); and
  that a reservation found free is still free when nobody else is reserving
  (`BookingFree`). Release, status read, sweep, withdrawal and time are lemmas
  about which rows they leave alone.
- `AuthTokensProofs`: `AuthTypeCorrect`, `AuthBurnedStaysDenied`,
  `AuthLateRequestsMintNothing`, `AuthSingleUseIfSerial`. `AuthInv` says what a
  request knows at each statement (`JobOKIn`), and that this survives the
  other workers because what it speaks of only grows.
- `NtsServerProofs`: `NtsTypeCorrect`, `NtsCookieHonoured`,
  `NtsImplementsLease`. `CookieHonoured` is not inductive: nothing in it keeps
  the next rotation from deleting a key that is still needed. `NtsInv` adds that
  the keys kept are the current and the previous one, and that a live cookie
  under the previous one expires before the next rotation, which is where
  `Lifetime <= Period` (both 24 hours) comes in. The refinement goes action by
  action: a rotation is a stutter, a request refused under a live cookie is
  excluded by `CookieHonoured`, and every error that ends the receive loop is
  the step `Stop` of the lease service.
- `CredentialProofs`: `LockoutSerial`, `ProofSingleUse`, `GrantRestricted`,
  `SecondFactorOnce`, `RecoveryCodesMatch`. `LockInv`: while logins do not
  overlap, the one in progress has read the current count, and time since its
  read is accounted for in the lock. `ReplayInv`: the row of a proof outlives
  the span in which its `iat` is valid, which is where
  `2 * Skew < ReplayTtl` comes in, and a request that passed the check of
  `iat` promptly meets it. `GrantInv`: the allow-list a grant has in hand was
  in the row it read. `FactorInv`: what a request holds of the account row is
  still in it, an accepted window is not after the stored counter of its
  enrolment, and an accepted recovery code is no longer stored.
- `AccountProofs`: `Deprovisioned`, `SsoSessionOfSubject`, `SsoOneSession`,
  `IdentityIsItsParts`, `IdentityTypeCorrect`.
  `ScimInv`: a request outside `crossed` writes back the flag that is on the
  row. `SsoInv`: from the look-up on, the account of a login belongs to the
  subject that answered, because rows are added and never given to another
  owner; an attempt is marked used before a session opens; without overlap the
  one login in progress has read the current accounts.
- `ServicesProofs`: `HistoryComplete`, `PulledFromDomain`, `BurstKept`,
  `WindowKeepsQuota`, `OnlyFailedExpireLeaks`, `IndexMatches`,
  `WaitersHaveALookup`, `ServicesAreTheirParts`, `ServicesTypeCorrect`.
  `HistInv`: while edits do not overlap, the history goes up to the row's
  version, or to the one before when an edit is between row and history.
  `CcInv`: what a request checked of client and configuration still holds
  unless the client was cleaned up. `LimInv`: tokens left and tokens spent of a
  tracked identity do not exceed the burst; the counter of a window is the
  number of requests let through or refused, and a counter without TTL is one
  whose EXPIRE is outstanding or failed. `WhoisInv`: a writer nobody overlapped
  has the row and the index to itself, the index holds just the entries it has
  inserted so far, and while nobody is past its row the index is as the last
  whole write left it. `WaitInv`: the entry of the table of lookups in
  progress, like what a request took from it, names a lookup of that process
  that is still running, because a lookup removes the entry before it ends and
  wakes its waiters in the same step. The composition: a step of `Services` is
  a step or a stutter of each part, so its behaviours are behaviours of every
  part and all theorems about the parts hold of it.
- `FeedProofs`: `VerdictFollowsCalls`, `ExportIsOneDocument`,
  `ExportedTogether`. `OvInv`: while no
  two calls overlapped on an indicator, the table has one row per indicator and
  says what the last call said, a writer's select still holds, and what an
  instance loaded is what the calls had said then, or part of it if the load
  failed. The verdict then rests on two lemmas about names: the
  parents a name is compared with are exactly the names it lies under
  (`ParentsAreAbove`). `IocInv`: an ingester storing alone into a live feed has
  stored what is not left of its document, and the feed is not settled until it
  ends; a row id is never used again, so a late statement cannot reach another
  feed. `ExportInv`: a zone still to be read is in the table as it was listed
  unless it was changed, and what it holds has been noted.

The assumptions, beyond that numbers are natural numbers and bounds are not
zero where the type of a record needs it:

| Assumption | Why the code justifies it |
|---|---|
| `JwtLife - Margin <= CacheTtl`, `Margin < JwtLife` | 24 hours, 5 minutes and 24 hours |
| `Lifetime <= Period` | cookies and rotation both take 24 hours |
| `2 * Skew < ReplayTtl` | the replay window is set for it |
| at most two threads per process (`WhoisAssumption`) | gunicorn's `--threads 2`; the safety proof does not use it |
| names are non-empty sequences, overrides and feeds list indicators | the validators accept nothing else |
| `None`, `"pending"` and `"done"` are not values of the data; sets of payloads, answers, proofs and override targets are not empty | model values only |

Only model-checked: the liveness properties (`Converges`, `CopiesConverge`,
`StaleRowsSwept`, `TornFeedRepaired`) and the findings of the runs that expect a
violation. Liveness needs fairness and ENABLED, which the prover does not
handle.

## Not modelled

- DNS server: the legacy routing that `main.py` does not use, certificates,
  HTTP/3, metrics and gRPC. Certificates are files written once on an
  administrator's command, the rest is I/O or counters no decision reads.
- Manager: password changes and reset, the licence service and its cache, roles
  of clients, statistics and searches, single-statement CRUD of teams and
  DNS tokens, and who may edit what.
  `cleanup_old_indicators` and `initialize_default_feeds` have no caller.
- Go and Python clients, tray, frontends, website, installer.

## Plan

1. Done: `ManagerLink`, `DnsServer`, `DhcpServer`, `AuthTokens`, their runs and
   the first proofs.
2. Done: the other modules above, their runs, the refinements.
3. Done: theorems for every safety property of the runs, and the refinements
   `ImplementsLink` and `ImplementsLease`.
4. Done: administration of DHCP pools, leases and reservations; the export of
   zones; waiting WHOIS requests; theorems about the compositions.
5. Open: the licence service with its cache, the zone cache and failover of the
   Go client, the gRPC interface of the Manager.
