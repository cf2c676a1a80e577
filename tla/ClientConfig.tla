---------------------------- MODULE ClientConfig ----------------------------
(***************************************************************************)
(* Client configuration profiles of the Manager: deployment domains and    *)
(* their tokens, registration of a client, assignment of a configuration,  *)
(* and what the client pulls. ConfigHistory has the configurations'        *)
(* contents.                                                               *)
(*   services/client_config_service.py, blueprints/client_config.py        *)
(*                                                                         *)
(* Requests run in workers; each statement commits by itself and the       *)
(* statements of two requests interleave (reads that only lead to the next *)
(* read are one step with it). One client is modelled.                     *)
(***************************************************************************)
EXTENDS Integers

CONSTANTS
    Domains,      \* deployment domains
    Handlers,     \* request threads
    ConfigIds,    \* configurations that get created
    DomainOf,     \* [ConfigIds -> Domains]
    Defaults,     \* the configurations named "default"
    MaxTokens     \* bound on tokens issued per domain

ASSUME ClientConfigAssumption ==
    /\ MaxTokens \in Nat
    /\ ConfigIds \subseteq Nat \ {0} /\ Defaults \subseteq ConfigIds
    /\ DomainOf \in [ConfigIds -> Domains]

NoDomain == "none"

VARIABLES
    domainToken, \* deployment_domain.jwt_token_hash: the token that counts, 0: no domain
    created,     \* client_config: the rows that exist
    client,      \* client_instance of the client: domain NoDomain when not registered
    req,         \* request of each worker
    pulled,      \* last pull answered: the domain that asked and the configuration's domain
    moved        \* history: the client was cleaned up while an assignment was under way

ccVars == <<domainToken, created, client, req, pulled, moved>>

NoReq == [pc |-> "free", domain |-> NoDomain, token |-> 0, config |-> 0, known |-> FALSE]
Unregistered == [domain |-> NoDomain, config |-> 0]

CcTypeOK ==
    /\ domainToken \in [Domains -> 0..MaxTokens]
    /\ created \subseteq ConfigIds
    /\ client \in [domain : Domains \cup {NoDomain}, config : ConfigIds \cup {0}]
    /\ req \in [Handlers -> [pc : {"free", "verify", "enrol", "find",
                                  "give", "check", "assign"},
                            domain : Domains \cup {NoDomain}, token : 0..MaxTokens,
                            config : ConfigIds \cup {0}, known : BOOLEAN]]
    /\ pulled \in [by : Domains \cup {NoDomain}, from : Domains \cup {NoDomain}]
    /\ moved \in BOOLEAN

CcInit ==
    /\ domainToken = [d \in Domains |-> 0]
    /\ created = {}
    /\ client = Unregistered
    /\ req = [w \in Handlers |-> NoReq]
    /\ pulled = [by |-> NoDomain, from |-> NoDomain]
    /\ moved = FALSE

Do(w, r) == req' = [req EXCEPT ![w] = r]
Free(w) == req[w].pc = "free"

-----------------------------------------------------------------------------
(* Domains and configurations. *)

\* create_deployment_domain and rollover_domain_jwt: a new token, and only the
\* newest one's hash is kept.
IssueDomainToken(d) ==
    /\ domainToken[d] < MaxTokens
    /\ domainToken' = [domainToken EXCEPT ![d] = @ + 1]
    /\ UNCHANGED <<created, client, req, pulled, moved>>

\* create_client_config, in a domain that exists.
AddConfig(c) ==
    /\ domainToken[DomainOf[c]] > 0 /\ c \notin created
    /\ created' = created \cup {c}
    /\ UNCHANGED <<domainToken, client, req, pulled, moved>>

-----------------------------------------------------------------------------
(* Clients. *)

\* register_client and pull_client_config: the user token, if any, is checked
\* first; a refusal changes nothing.
Ask(w, d, t, pc) ==
    /\ Free(w) /\ t \in 1..domainToken[d]
    /\ Do(w, [NoReq EXCEPT !.pc = pc, !.domain = d, !.token = t])
    /\ UNCHANGED <<domainToken, created, client, pulled, moved>>

\* _verify_domain_jwt: an older token is signed all the same; its hash is gone.
Verified(w) == domainToken[req[w].domain] = req[w].token

\* Registration: verify, then look for the client here and in other domains.
LookupClient(w) ==
    LET r == req[w] IN
    /\ r.pc = "verify"
    /\ IF Verified(w) /\ client.domain \in {r.domain, NoDomain}
       THEN Do(w, [r EXCEPT !.pc = "enrol", !.known = client.domain = r.domain])
       ELSE Do(w, NoReq)
    /\ UNCHANGED <<domainToken, created, client, pulled, moved>>

\* Update the row found, scoped to the domain, or insert one: client_id is
\* UNIQUE. An update of a row that is gone does nothing.
Enrol(w) ==
    LET r == req[w] IN
    /\ r.pc = "enrol"
    /\ client' = IF ~r.known /\ client = Unregistered THEN [domain |-> r.domain, config |-> 0]
                 ELSE client
    /\ Do(w, NoReq)
    /\ UNCHANGED <<domainToken, created, pulled, moved>>

\* Pulling: the client in this domain, and which configuration it gets.
FindClient(w) ==
    LET r == req[w] IN
    /\ r.pc = "find"
    /\ IF Verified(w) /\ client.domain = r.domain
       THEN Do(w, [r EXCEPT !.pc = "give", !.config = client.config])
       ELSE Do(w, NoReq)
    /\ UNCHANGED <<domainToken, created, client, pulled, moved>>

\* The assigned configuration, or the domain's default one.
Give(w) ==
    LET r == req[w]
        offered == IF r.config # 0 THEN {r.config}
                   ELSE {c \in Defaults \cap created : DomainOf[c] = r.domain}
    IN  /\ r.pc = "give"
        /\ IF offered = {} THEN UNCHANGED pulled
           ELSE \E c \in offered : pulled' = [by |-> r.domain, from |-> DomainOf[c]]
        /\ Do(w, NoReq)
        /\ UNCHANGED <<domainToken, created, client, moved>>

\* assign_config_to_client reads the client ...
AssignStart(w, c) ==
    /\ Free(w) /\ client # Unregistered /\ c \in created
    /\ Do(w, [NoReq EXCEPT !.pc = "check", !.domain = client.domain, !.config = c])
    /\ UNCHANGED <<domainToken, created, client, pulled, moved>>

\* Mutation: the domains are not compared.
AssignCheckNone(w) ==
    LET r == req[w] IN
    /\ r.pc = "check"
    /\ Do(w, [r EXCEPT !.pc = "assign"])
    /\ UNCHANGED <<domainToken, created, client, pulled, moved>>

\* ... reads the configuration and compares their domains ...
AssignCheck(w) ==
    LET r == req[w] IN
    /\ r.pc = "check"
    /\ IF DomainOf[r.config] = r.domain THEN Do(w, [r EXCEPT !.pc = "assign"]) ELSE Do(w, NoReq)
    /\ UNCHANGED <<domainToken, created, client, pulled, moved>>

\* ... and writes by client_id alone.
Assign(w) ==
    LET r == req[w] IN
    /\ r.pc = "assign"
    /\ client' = IF client = Unregistered THEN client ELSE [client EXCEPT !.config = r.config]
    /\ Do(w, NoReq)
    /\ UNCHANGED <<domainToken, created, pulled, moved>>

\* cleanup_inactive_clients deletes a client that stopped checking in.
CleanupInactiveClients ==
    /\ client # Unregistered
    /\ client' = Unregistered
    /\ moved' = (moved \/ \E w \in Handlers : req[w].pc \in {"check", "assign"})
    /\ UNCHANGED <<domainToken, created, req, pulled>>

CcNext ==
    \/ \E d \in Domains : IssueDomainToken(d)
    \/ \E c \in ConfigIds : AddConfig(c)
    \/ \E w \in Handlers :
          \/ \E c \in ConfigIds : AssignStart(w, c)
          \/ \E d \in Domains, t \in 1..MaxTokens, pc \in {"verify", "find"} : Ask(w, d, t, pc)
          \/ LookupClient(w) \/ Enrol(w) \/ FindClient(w) \/ Give(w)
          \/ AssignCheck(w) \/ Assign(w)
    \/ CleanupInactiveClients

CcSpec == CcInit /\ [][CcNext]_ccVars

-----------------------------------------------------------------------------
(* Properties. *)

\* A client is only ever given a configuration of the domain whose token it
\* shows, although assign_config_to_client checks the domains and writes
\* later: the one exception is a client cleaned up in between, which may have
\* registered with another domain.
PulledFromOwnDomain == pulled.by # pulled.from => moved
=============================================================================
