----------------------------- MODULE AuthTokens ------------------------------
(***************************************************************************)
(* The Manager's long-lived user credentials: refresh tokens, the pre-auth *)
(* tokens of a login with MFA, and the denylist that makes both single-use.*)
(*   manager/backend/app/services/auth_service.py   AuthService            *)
(*   manager/backend/app/blueprints/auth.py         login, refresh, logout *)
(*   manager/backend/app/blueprints/mfa.py          mfa_verify             *)
(*                                                                         *)
(* gunicorn runs several worker threads over one database and every        *)
(* statement commits by itself, so a step is one statement of one request. *)
(* A worker handles one request at a time and may be killed between two    *)
(* statements. The module follows one account; a request that is turned    *)
(* away before it reaches the database is not a step.                      *)
(*                                                                         *)
(* A denylist row carries the expiry of its token, so membership is all    *)
(* that is kept of it. left is what remains of a token's life: it decodes  *)
(* while left > 0, and the purge ("expires_at < now") drops it at left < 0.*)
(***************************************************************************)
EXTENDS Integers

CONSTANTS
    Workers,       \* gunicorn threads
    Jtis,          \* token ids; bound: how many tokens are ever issued
    RefreshLife,   \* JWT_REFRESH_TOKEN_EXPIRES
    PreAuthLife,   \* lifetime of a pre-auth token
    None

Kinds     == {"refresh", "pre_auth"}

Life(k)   == IF k = "refresh" THEN RefreshLife ELSE PreAuthLife
Lives     == -1..RefreshLife
Token     == [kind : Kinds, left : Lives]

\* What a worker does: the operation, the token presented (None for a login),
\* the statement it is at, and whether the token was on the denylist before
\* the request began (history).
Operations == {"login", "refresh", "logout", "mfa_verify"}
Stages     == {"check", "user", "purge", "count", "insert", "mint"}
Job        == [op : Operations, jti : Jtis \cup {None}, at : Stages, late : BOOLEAN]

ASSUME AuthAssumption ==
    /\ RefreshLife \in Nat /\ PreAuthLife \in Nat
    /\ 0 < PreAuthLife /\ PreAuthLife <= RefreshLife
    /\ None \notin Jtis \cup Token \cup Job

VARIABLES
    token,     \* the tokens issued so far, by jti
    denied,    \* revoked_token: the jtis on the denylist
    active,    \* auth_user.active
    mfa,       \* auth_user.mfa_enabled; enrolment is not modelled, so it is fixed
    job,       \* what each worker is doing, or None
    burned,    \* history: the jtis ever put on the denylist
    overlap,   \* history: the jtis presented by two requests at a time
    minted     \* history: how many refresh tokens each jti was exchanged for

vars == <<token, denied, active, mfa, job, burned, overlap, minted>>

TypeOK ==
    /\ token \in [Jtis -> Token \cup {None}]
    /\ denied \subseteq Jtis
    /\ active \in BOOLEAN /\ mfa \in BOOLEAN
    /\ job \in [Workers -> Job \cup {None}]
    /\ burned \subseteq Jtis /\ overlap \subseteq Jtis
    /\ minted \in [Jtis -> Nat]

Issued(j)  == token[j] # None
Decodes(j) == Issued(j) /\ token[j].left > 0
Expired(j) == Issued(j) /\ token[j].left < 0

-----------------------------------------------------------------------------
Init ==
    /\ token = [j \in Jtis |-> None]
    /\ denied = {}
    /\ active = TRUE /\ mfa \in BOOLEAN
    /\ job = [w \in Workers |-> None]
    /\ burned = {} /\ overlap = {}
    /\ minted = [j \in Jtis |-> 0]

\* Progress of worker w: on to the next statement, or done with the request.
Goto(w, stage) == job' = [job EXCEPT ![w] = [job[w] EXCEPT !.at = stage]]
Finish(w)      == job' = [job EXCEPT ![w] = None]

\* A request arrives and its token decodes with the type its operation needs.
FirstStage(op) == IF op = "logout" THEN "purge" ELSE "check"
KindFor(op)    == IF op = "mfa_verify" THEN "pre_auth" ELSE "refresh"

\* login presents no token; its first statement reads the user row. A wrong
\* password, a locked or an inactive account ends it there.
Login(w) ==
    /\ job[w] = None
    /\ active
    /\ job' = [job EXCEPT ![w] = [op |-> "login", jti |-> None, at |-> "mint", late |-> FALSE]]
    /\ UNCHANGED <<token, denied, active, mfa, burned, overlap, minted>>

Present(w, op, j) ==
    /\ job[w] = None
    /\ op # "login" /\ Decodes(j) /\ token[j].kind = KindFor(op)
    /\ job' = [job EXCEPT ![w] = [op |-> op, jti |-> j, at |-> FirstStage(op),
                                  late |-> j \in burned]]
    /\ overlap' = IF \E v \in Workers : job[v] # None /\ job[v].jti = j
                  THEN overlap \cup {j} ELSE overlap
    /\ UNCHANGED <<token, denied, active, mfa, burned, minted>>

\* Mutation: rotation relies on the insert to find a token used before.
CheckSkipped(w) ==
    /\ job[w] # None /\ job[w].at = "check"
    /\ Goto(w, IF job[w].op = "refresh" THEN "user" ELSE "purge")
    /\ UNCHANGED <<token, denied, active, mfa, burned, overlap, minted>>

\* is_refresh_token_revoked, is_jti_consumed.
Check(w) ==
    /\ job[w] # None /\ job[w].at = "check"
    /\ IF job[w].jti \in denied THEN Finish(w)
       ELSE Goto(w, IF job[w].op = "refresh" THEN "user" ELSE "purge")
    /\ UNCHANGED <<token, denied, active, mfa, burned, overlap, minted>>

\* Mutation: rotation does not revoke the presented token.
ReadUserMints(w) ==
    /\ job[w] # None /\ job[w].at = "user"
    /\ active /\ Goto(w, "mint")
    /\ UNCHANGED <<token, denied, active, mfa, burned, overlap, minted>>

\* The user row: an inactive account gets nothing. mfa_verify also ends here
\* when the code is wrong.
ReadUser(w) ==
    /\ job[w] # None /\ job[w].at = "user"
    /\ \/ /\ active
          /\ Goto(w, IF job[w].op = "refresh" THEN "purge" ELSE "mint")
       \/ (~active \/ job[w].op = "mfa_verify") /\ Finish(w)
    /\ UNCHANGED <<token, denied, active, mfa, burned, overlap, minted>>

\* Mutation: the purge also drops rows that expire at this moment or next.
PurgeEarly(w) ==
    /\ job[w] # None /\ job[w].at = "purge"
    /\ denied' = {j \in denied : token[j].left > 1}
    /\ Goto(w, "count")
    /\ UNCHANGED <<token, active, mfa, burned, overlap, minted>>

\* _revoke_jti, first statement: drop the rows of tokens that have expired.
Purge(w) ==
    /\ job[w] # None /\ job[w].at = "purge"
    /\ denied' = {j \in denied : ~Expired(j)}
    /\ Goto(w, "count")
    /\ UNCHANGED <<token, active, mfa, burned, overlap, minted>>

\* What follows _revoke_jti.
Revoked(w) ==
    CASE job[w].op = "refresh"    -> Goto(w, "mint")
      [] job[w].op = "mfa_verify" -> Goto(w, "user")
      [] OTHER                    -> Finish(w)

\* Second statement: a jti that is there already stays, and that is no error.
Count(w) ==
    /\ job[w] # None /\ job[w].at = "count"
    /\ IF job[w].jti \in denied THEN Revoked(w) ELSE Goto(w, "insert")
    /\ UNCHANGED <<token, denied, active, mfa, burned, overlap, minted>>

\* Third: jti is UNIQUE, so the insert fails (and with it the request) when
\* another worker's came first.
Insert(w) ==
    /\ job[w] # None /\ job[w].at = "insert"
    /\ IF job[w].jti \in denied THEN Finish(w) ELSE Revoked(w)
    /\ denied' = denied \cup {job[w].jti}
    /\ burned' = burned \cup {job[w].jti}
    /\ UNCHANGED <<token, active, mfa, overlap, minted>>

\* create_refresh_token, or create_pre_auth_token for a login with MFA: a new
\* jti. The access token that goes with it is not followed.
Mint(w) ==
    /\ job[w] # None /\ job[w].at = "mint"
    /\ \E k \in Jtis, kind \in Kinds :
          /\ ~Issued(k)
          /\ kind = "pre_auth" <=> job[w].op = "login" /\ mfa
          /\ token' = [token EXCEPT ![k] = [kind |-> kind, left |-> Life(kind)]]
    /\ minted' = IF job[w].jti = None THEN minted
                 ELSE [minted EXCEPT ![job[w].jti] = minted[job[w].jti] + 1]
    /\ Finish(w)
    /\ UNCHANGED <<denied, active, mfa, burned, overlap>>

-----------------------------------------------------------------------------
\* A worker is killed or its client's connection ends: the request stops.
Abort(w) ==
    /\ job[w] # None
    /\ Finish(w)
    /\ UNCHANGED <<token, denied, active, mfa, burned, overlap, minted>>

\* update_user, delete_user: an administrator switches the account off or on.
SetActive ==
    /\ active' = ~active
    /\ UNCHANGED <<token, denied, mfa, job, burned, overlap, minted>>

Older(t) == IF t = None \/ t.left < 0 THEN t ELSE [kind |-> t.kind, left |-> t.left - 1]

Tick ==
    /\ token' = [j \in Jtis |-> Older(token[j])]
    /\ UNCHANGED <<denied, active, mfa, job, burned, overlap, minted>>

Work(w) == Check(w) \/ ReadUser(w) \/ Purge(w) \/ Count(w) \/ Insert(w) \/ Mint(w)

Next ==
    \/ \E w \in Workers :
          \/ Login(w) \/ Work(w) \/ Abort(w)
          \/ \E op \in Operations, j \in Jtis : Present(w, op, j)
    \/ SetActive \/ Tick

Spec == Init /\ [][Next]_vars

-----------------------------------------------------------------------------
(* Properties. *)

\* The purge that every revocation runs never forgets a token that could still
\* be presented, whoever purges and whenever.
BurnedStaysDenied ==
    \A j \in burned : ~Expired(j) => j \in denied

\* A token that was rotated or logged out mints nothing any more for requests
\* that arrive afterwards, as long as it has not expired: only requests that
\* were under way at that moment may still succeed.
LateRequestsMintNothing ==
    \A w \in Workers :
        job[w] # None /\ job[w].late /\ job[w].at = "mint" => Expired(job[w].jti)

\* Presented by one request at a time, a token is exchanged at most once while
\* it lives: only overlapping requests can get more out of it.
SingleUseIfSerial ==
    \A j \in Jtis \ overlap : ~Expired(j) => minted[j] <= 1
=============================================================================
