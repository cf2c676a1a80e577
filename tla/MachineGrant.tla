---------------------------- MODULE MachineGrant ----------------------------
(***************************************************************************)
(* Machine identities and the token endpoint: clients with a secret (the   *)
(* client_credentials grant) and OIDC trust anchors (token exchange).      *)
(*   blueprints/machine_clients.py      create, update, rotate, delete     *)
(*   blueprints/oidc_trust_anchors.py   create, update, delete             *)
(*   blueprints/auth.py                 token                              *)
(*   services/auth_service.py           verify_machine_client and below it *)
(*                                                                         *)
(* One row is modelled, of either table: their names are unique and no     *)
(* request reads both. The DPoP proof a request may carry is checked       *)
(* before (DpopReplay). Each statement commits by itself, so the reads of  *)
(* a grant interleave with the administrators' writes.                     *)
(***************************************************************************)
EXTENDS Integers

CONSTANTS
    GrantThreads,   \* request threads
    DomainLists,    \* allow-lists of DNS domains that are not empty
    Scopes,         \* scopes a client may register
    MaxSecrets      \* bound on secrets of the client

ASSUME GrantAssumption ==
    /\ MaxSecrets \in Nat \ {0}
    /\ "pending" \notin DomainLists /\ "done" \notin DomainLists

Open  == "unrestricted"   \* allowed_domains is NULL
Empty == "nothing"        \* allowed_domains is []

VARIABLES
    machine,    \* row of machine_client or oidc_trust_anchor; the secret of an
                \* anchor is 1 if it has a static key, 0 if only a jwks_url
    handed,     \* the secrets that were shown to an administrator
    creating,   \* allow-list that create_machine_client still has to write
    grant,      \* request of each thread; seen and ended: the row since it was verified
    mintedToken      \* last token: its allow-list and scopes, and the grant's seen and ended

grantVars == <<machine, handed, creating, grant, mintedToken>>

Lists     == DomainLists \cup {Open, Empty}
NoMachine == [kind |-> "none", active |-> FALSE, secret |-> 0, scopes |-> {}, domains |-> Open]
NoGrant   == [pc |-> "free", secret |-> 0, scopes |-> {}, seen |-> {}, ended |-> FALSE]

GrantTypeOK ==
    /\ machine \in [kind : {"none", "client", "anchor"}, active : BOOLEAN, secret : 0..MaxSecrets,
                    scopes : SUBSET Scopes, domains : Lists]
    /\ handed \subseteq 1..MaxSecrets /\ creating \in Lists \cup {"pending", "done"}
    /\ grant \in [GrantThreads -> [pc : {"free", "verify", "domains"}, secret : 0..MaxSecrets,
                                   scopes : SUBSET Scopes, seen : SUBSET Lists, ended : BOOLEAN]]
    /\ mintedToken \in [domains : Lists, scopes : SUBSET Scopes, seen : SUBSET Lists, ended : BOOLEAN]

GrantInit ==
    /\ machine = NoMachine /\ handed = {} /\ creating = "pending"
    /\ grant = [t \in GrantThreads |-> NoGrant]
    /\ mintedToken = [domains |-> Open, scopes |-> {}, seen |-> {Open}, ended |-> FALSE]

-----------------------------------------------------------------------------
(* Administration. *)

\* The row is written; the grants between their two reads take note (history).
WriteRow(m) ==
    /\ machine' = m
    /\ grant' = [t \in GrantThreads |->
                   IF grant[t].pc # "domains" THEN grant[t]
                   ELSE [grant[t] EXCEPT !.seen = @ \cup {m.domains}, !.ended = @ \/ ~m.active]]

\* create_machine_client inserts the row without an allow-list ...
CreateClient(scopes, list) ==
    /\ creating = "pending" /\ scopes # {}
    /\ machine.kind = "none"
    /\ machine' = [kind |-> "client", active |-> TRUE, secret |-> 1, scopes |-> scopes,
                   domains |-> Open]
    /\ creating' = list
    /\ UNCHANGED <<handed, grant, mintedToken>>

\* ... and writes the list, if there is one, before it shows the secret.
RestrictClient ==
    /\ creating \in Lists
    /\ WriteRow(IF machine.kind # "client" \/ creating = Open THEN machine
                ELSE [machine EXCEPT !.domains = creating])
    /\ handed' = handed \cup {1}
    /\ creating' = "done"
    /\ UNCHANGED <<mintedToken>>

\* update_machine_client: any of scopes, active and allowed_domains.
UpdateClient(scopes, active, list) ==
    /\ machine.kind = "client"
    /\ WriteRow([machine EXCEPT !.scopes = scopes, !.active = active, !.domains = list])
    /\ UNCHANGED <<handed, creating, mintedToken>>

RotateSecret ==
    /\ machine.kind = "client" /\ machine.secret < MaxSecrets
    /\ WriteRow([machine EXCEPT !.secret = @ + 1])
    /\ handed' = handed \cup {machine.secret + 1}
    /\ UNCHANGED <<creating, mintedToken>>

DeleteClient ==
    /\ machine.kind = "client"
    /\ WriteRow(NoMachine)
    /\ UNCHANGED <<handed, creating, mintedToken>>

\* An anchor is created active; a second row for the issuer is refused, by the
\* count of active ones or by the unique column. PATCH sets any of its fields.
CreateAnchor(key, scopes, list) ==
    /\ machine.kind = "none" /\ creating = "pending" /\ scopes # {}
    /\ machine' = [kind |-> "anchor", active |-> TRUE, secret |-> key, scopes |-> scopes,
                   domains |-> list]
    /\ creating' = "done"
    /\ UNCHANGED <<handed, grant, mintedToken>>

UpdateAnchor(scopes, active, list) ==
    /\ machine.kind = "anchor"
    /\ machine' = [machine EXCEPT !.scopes = scopes, !.active = active, !.domains = list]
    /\ UNCHANGED <<handed, creating, grant, mintedToken>>

DeleteAnchor ==
    /\ machine.kind = "anchor"
    /\ machine' = NoMachine
    /\ UNCHANGED <<handed, creating, grant, mintedToken>>

-----------------------------------------------------------------------------
(* The token endpoint. *)

RequestToken(t, secret, scopes) ==
    /\ grant[t].pc = "free" /\ secret \in handed
    /\ grant' = [grant EXCEPT ![t] = [NoGrant EXCEPT !.pc = "verify", !.secret = secret,
                                                     !.scopes = scopes]]
    /\ UNCHANGED <<machine, handed, creating, mintedToken>>

\* verify_machine_client, then the scopes asked for against those registered;
\* asking for none means all of them.
VerifyClient(t) ==
    LET g == grant[t]
        pass == machine.active /\ machine.secret = g.secret /\ g.scopes \subseteq machine.scopes
        granted == IF g.scopes = {} THEN machine.scopes ELSE g.scopes
    IN  /\ g.pc = "verify"
        /\ grant' = [grant EXCEPT ![t] =
              IF pass THEN [g EXCEPT !.pc = "domains", !.secret = 0, !.scopes = granted,
                                     !.seen = {machine.domains}]
              ELSE NoGrant]
        /\ UNCHANGED <<machine, handed, creating, mintedToken>>

\* Mutation: an empty allow-list is taken for none.
AllowedEmptyOpen(m) == IF m.active /\ m.domains # Empty THEN m.domains ELSE Open

\* The allow-list, from a second read of the active row: None without one.
Allowed(m) == IF m.active THEN m.domains ELSE Open

\* create_machine_access_token and update_machine_client_last_used.
MintToken(t) ==
    LET g == grant[t] IN
    /\ g.pc = "domains"
    /\ mintedToken' = [domains |-> Allowed(machine), scopes |-> g.scopes,
                  seen |-> g.seen, ended |-> g.ended]
    /\ grant' = [grant EXCEPT ![t] = NoGrant]
    /\ UNCHANGED <<machine, handed, creating>>

\* validate_oidc_token: only a static key is supported; with jwks_url it raises.
Validated == machine.kind = "anchor" /\ machine.active /\ machine.secret = 1

\* Token exchange, for a subject that matches the anchor's pattern: the active
\* row is read once, and everything the token carries is from that read.
ExchangeToken(scopes) ==
    /\ Validated /\ scopes \subseteq machine.scopes
    /\ mintedToken' = [domains |-> Allowed(machine), seen |-> {machine.domains}, ended |-> FALSE,
                  scopes |-> IF scopes = {} THEN machine.scopes ELSE scopes]
    /\ UNCHANGED <<machine, handed, creating, grant>>

GrantNext ==
    \/ \E scopes \in SUBSET Scopes, list \in Lists :
          \/ CreateClient(scopes, list) \/ \E key \in 0..1 : CreateAnchor(key, scopes, list)
          \/ \E active \in BOOLEAN :
                UpdateClient(scopes, active, list) \/ UpdateAnchor(scopes, active, list)
    \/ DeleteAnchor \/ \E scopes \in SUBSET Scopes : ExchangeToken(scopes)
    \/ RestrictClient \/ RotateSecret \/ DeleteClient
    \/ \E t \in GrantThreads :
          \/ \E secret \in 1..MaxSecrets, scopes \in SUBSET Scopes : RequestToken(t, secret, scopes)
          \/ VerifyClient(t) \/ MintToken(t)

GrantSpec == GrantInit /\ [][GrantNext]_grantVars

-----------------------------------------------------------------------------
(* Properties. *)

\* A token carries an allow-list that the client's or the anchor's row held
\* while the grant was under way, an empty one included. The one exception is
\* a client deactivated or deleted between the two reads of its row: that
\* token is unrestricted.
GrantKeepsRestriction == mintedToken.domains \in mintedToken.seen \/ mintedToken.ended
=============================================================================
