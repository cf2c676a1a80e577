---------------------------- MODULE SingleSignOn ----------------------------
(***************************************************************************)
(* Sign-on through an identity provider, by OpenID Connect or SAML 2.0.    *)
(*   services/sso_service.py, saml_service.py     attempts, JIT accounts   *)
(*   blueprints/sso.py, saml.py                   the login routes         *)
(*   blueprints/sso_admin.py, saml_admin.py       provider administration  *)
(*   blueprints/users.py                          local accounts           *)
(*                                                                         *)
(* An installation with one provider, which speaks either protocol: both   *)
(* keep their attempts in sso_login_attempts, but an attempt made for one  *)
(* is refused by the other, whose request ID or code_verifier it lacks.    *)
(* Each statement commits by itself, so callbacks interleave between       *)
(* statements. What the identity provider answers to an attempt is one of  *)
(* Assertions, under an ID of its own.                                     *)
(***************************************************************************)
EXTENDS Integers, Sequences

CONSTANTS
    SsoThreads,    \* request threads
    Attempts,      \* opaque states (RelayState) that are handed out
    Addresses,     \* e-mail addresses, <<user name, domain>>
    Subjects,      \* subjects (sub claim, NameID)
    Assertions,    \* answers: [attempt, subject, email]; email may be NoEmail
    NoEmail,       \* the answer carries no e-mail
    MaxAccounts    \* bound on rows of auth_user

ASSUME SsoAssumption ==
    /\ MaxAccounts \in Nat
    /\ Assertions \subseteq [attempt : Attempts, subject : Subjects, email : Addresses \cup {NoEmail}]

Protocols  == {"oidc", "saml"}
Local  == <<"local", "password">>
Owners == (Protocols \X Subjects) \cup {Local}   \* (sso_provider, sso_subject) of a row

VARIABLES
    kind,        \* the protocol of the provider
    provider,    \* its row: "none", "disabled" or "enabled"
    secret,      \* how often the stored client_secret is encrypted; 0 without a row
    attempt,     \* sso_login_attempts
    accounts,    \* auth_user: a sequence of rows, the id is the index
    seen,        \* saml_assertion_ids
    login,       \* callback of each thread
    opened,      \* history: sessions opened through each attempt
    turnedAway,  \* history: an OIDC callback failed with a good state, cookie and code
    mingled      \* history: two callbacks overlapped

ssoVars == <<kind, provider, secret, attempt, accounts, seen, login, opened, turnedAway, mingled>>

NoAttempt == [made |-> FALSE, old |-> FALSE, used |-> FALSE]
NoLogin   == [pc |-> "free", answer |-> NoEmail, secret |-> 0, user |-> 0]

SsoTypeOK ==
    /\ kind \in Protocols /\ provider \in {"none", "disabled", "enabled"} /\ secret \in 0..2
    /\ attempt \in [Attempts -> [made : BOOLEAN, old : BOOLEAN, used : BOOLEAN]]
    /\ Len(accounts) <= MaxAccounts
    /\ \A i, j \in DOMAIN accounts :
          /\ accounts[i] \in [email : Addresses, name : {a[1] : a \in Addresses}, owner : Owners]
          /\ i # j => accounts[i].email # accounts[j].email /\ accounts[i].name # accounts[j].name
    /\ seen \subseteq Assertions
    /\ \A t \in SsoThreads :
          login[t] \in [pc : {"free", "attempt", "exchange", "nonce", "replay", "record", "mark",
                              "subject", "email", "insert", "tokens"},
                        answer : Assertions \cup {NoEmail}, secret : 0..1,
                        user : 0..MaxAccounts]
    /\ opened \in [Attempts -> 0..2] /\ turnedAway \in BOOLEAN /\ mingled \in BOOLEAN

SsoInit ==
    /\ kind \in Protocols /\ provider = "none" /\ secret = 0
    /\ attempt = [a \in Attempts |-> NoAttempt]
    /\ accounts = <<>> /\ seen = {}
    /\ login = [t \in SsoThreads |-> NoLogin]
    /\ opened = [a \in Attempts |-> 0] /\ turnedAway = FALSE /\ mingled = FALSE

-----------------------------------------------------------------------------
(* Administration. All of it asks for an Enterprise licence first. *)

\* encrypt_secret and decrypt_secret: a layer more, a layer less.
Encrypt(depth) == depth + 1

\* The posted client_secret is plain, or was encrypted before it was posted.
CreateSsoProvider(posted) ==
    /\ kind = "oidc" /\ provider = "none"
    /\ provider' = "disabled"
    /\ secret' = Encrypt(posted)
    /\ UNCHANGED <<kind, attempt, accounts, seen, login, opened, turnedAway, mingled>>

CreateSamlProvider ==
    /\ kind = "saml" /\ provider = "none"
    /\ provider' = "disabled"
    /\ UNCHANGED <<kind, secret, attempt, accounts, seen, login, opened, turnedAway, mingled>>

UpdateSsoProvider(enabled, posted) ==
    /\ kind = "oidc" /\ provider # "none"
    /\ provider' = IF enabled THEN "enabled" ELSE "disabled"
    /\ secret' \in {secret, Encrypt(posted)}
    /\ UNCHANGED <<kind, attempt, accounts, seen, login, opened, turnedAway, mingled>>

\* toggle_saml_provider; update_saml_provider can set the same column.
ToggleSamlProvider(enabled) ==
    /\ kind = "saml" /\ provider # "none"
    /\ provider' = IF enabled THEN "enabled" ELSE "disabled"
    /\ UNCHANGED <<kind, secret, attempt, accounts, seen, login, opened, turnedAway, mingled>>

DeleteSsoProvider ==
    /\ kind = "oidc" /\ provider # "none"
    /\ provider' = "none" /\ secret' = 0
    /\ UNCHANGED <<kind, attempt, accounts, seen, login, opened, turnedAway, mingled>>

DeleteSamlProvider ==
    /\ kind = "saml" /\ provider # "none"
    /\ provider' = "none"
    /\ UNCHANGED <<kind, secret, attempt, accounts, seen, login, opened, turnedAway, mingled>>

\* The unique columns of auth_user.
Clashes(email) == \E i \in DOMAIN accounts : accounts[i].email = email \/ accounts[i].name = email[1]

Row(email, owner) == [email |-> email, name |-> email[1], owner |-> owner]

CreateUser(email) ==
    /\ ~Clashes(email) /\ Len(accounts) < MaxAccounts
    /\ accounts' = Append(accounts, Row(email, Local))
    /\ UNCHANGED <<kind, provider, secret, attempt, seen, login, opened, turnedAway, mingled>>

UpdateUser(i, email) ==
    /\ i \in DOMAIN accounts /\ \A j \in DOMAIN accounts : accounts[j].email # email
    /\ accounts' = [accounts EXCEPT ![i].email = email]
    /\ UNCHANGED <<kind, provider, secret, attempt, seen, login, opened, turnedAway, mingled>>

-----------------------------------------------------------------------------
(* The start of a login. *)

\* authorize: build_authorization_url, create_login_attempt.
Authorize(a) ==
    /\ ~attempt[a].made /\ kind = "oidc" /\ provider = "enabled"
    /\ attempt' = [attempt EXCEPT ![a] = [NoAttempt EXCEPT !.made = TRUE]]
    /\ UNCHANGED <<kind, provider, secret, accounts, seen, login, opened, turnedAway, mingled>>

\* login: build_authn_request, create_login_attempt.
SamlLogin(a) ==
    /\ ~attempt[a].made /\ kind = "saml" /\ provider = "enabled"
    /\ attempt' = [attempt EXCEPT ![a] = [NoAttempt EXCEPT !.made = TRUE]]
    /\ UNCHANGED <<kind, provider, secret, accounts, seen, login, opened, turnedAway, mingled>>

\* LOGIN_ATTEMPT_EXPIRY_SECONDS pass.
AttemptExpires(a) ==
    /\ attempt[a].made /\ ~attempt[a].old
    /\ attempt' = [attempt EXCEPT ![a].old = TRUE]
    /\ UNCHANGED <<kind, provider, secret, accounts, seen, login, opened, turnedAway, mingled>>

-----------------------------------------------------------------------------
(* The callback. *)

Proceed(t, pc) == login' = [login EXCEPT ![t].pc = pc]
Refuse(t)   == login' = [login EXCEPT ![t] = NoLogin]

Meets(t) == mingled' = (mingled \/ \E u \in SsoThreads \ {t} : login[u].pc # "free")

\* callback: the provider's row, its secret decrypted for the first time.
Callback(t, r) ==
    /\ login[t].pc = "free" /\ kind = "oidc" /\ provider = "enabled" /\ attempt[r.attempt].made
    /\ login' = [login EXCEPT ![t] = [NoLogin EXCEPT !.pc = "attempt", !.answer = r,
                                                     !.secret = secret - 1]]
    /\ Meets(t)
    /\ UNCHANGED <<kind, provider, secret, attempt, accounts, seen, opened, turnedAway>>

\* acs: the provider's row.
Acs(t, r) ==
    /\ login[t].pc = "free" /\ kind = "saml" /\ provider = "enabled" /\ attempt[r.attempt].made
    /\ login' = [login EXCEPT ![t] = [NoLogin EXCEPT !.pc = "attempt", !.answer = r]]
    /\ Meets(t)
    /\ UNCHANGED <<kind, provider, secret, attempt, accounts, seen, opened, turnedAway>>

\* Mutation: the used flag is not looked at.
UsableTwice(a) == attempt[a].made /\ ~attempt[a].old

\* get_login_attempt: it is there, not used and not older than ten minutes.
Usable(a) == attempt[a].made /\ ~attempt[a].used /\ ~attempt[a].old

\* exchange_code_for_token up to the request: attempt, browser cookie, and the
\* client secret decrypted, which raises when it is plain.
ReadOidcAttempt(t, cookie) ==
    LET l == login[t]
        good == Usable(l.answer.attempt) /\ cookie
    IN  /\ l.pc = "attempt" /\ kind = "oidc"
        /\ IF good /\ l.secret > 0 THEN Proceed(t, "exchange") ELSE Refuse(t)
        /\ turnedAway' = (turnedAway \/ (good /\ l.secret = 0))
        /\ UNCHANGED <<kind, provider, secret, attempt, accounts, seen, opened, mingled>>

\* The token endpoint answers; the attempt is marked used.
ExchangeCode(t) ==
    /\ login[t].pc = "exchange"
    /\ attempt' = [attempt EXCEPT ![login[t].answer.attempt].used = TRUE]
    /\ Proceed(t, "nonce")
    /\ UNCHANGED <<kind, provider, secret, accounts, seen, opened, turnedAway, mingled>>

\* The token endpoint refuses or cannot be reached.
ExchangeFails(t) ==
    /\ login[t].pc = "exchange"
    /\ Refuse(t)
    /\ UNCHANGED <<kind, provider, secret, attempt, accounts, seen, opened, turnedAway, mingled>>

\* callback looks the attempt up again for its nonce; then the ID token is
\* validated. (No behaviour gets past this: email_verified is not modelled.)
ReadNonce(t) ==
    LET usable == Usable(login[t].answer.attempt) IN
    /\ login[t].pc = "nonce"
    /\ IF usable /\ login[t].answer.email # NoEmail THEN Proceed(t, "subject") ELSE Refuse(t)
    /\ turnedAway' = (turnedAway \/ ~usable)
    /\ UNCHANGED <<kind, provider, secret, attempt, accounts, seen, opened, mingled>>

\* parse_and_validate_response: attempt, cookie, and pysaml2's verdict, which
\* binds the answer to the request ID of the attempt.
ReadSamlAttempt(t, cookie, valid) ==
    LET a == login[t].answer.attempt IN
    /\ login[t].pc = "attempt" /\ kind = "saml"
    /\ IF Usable(a) /\ cookie /\ valid THEN Proceed(t, "replay") ELSE Refuse(t)
    /\ UNCHANGED <<kind, provider, secret, attempt, accounts, seen, opened, turnedAway, mingled>>

CheckAssertionId(t) ==
    /\ login[t].pc = "replay"
    /\ IF login[t].answer \in seen THEN Refuse(t) ELSE Proceed(t, "record")
    /\ UNCHANGED <<kind, provider, secret, attempt, accounts, seen, opened, turnedAway, mingled>>

\* The ID is stored if the provider's row is still there. Without an e-mail
\* the answer is refused only now.
RecordAssertionId(t) ==
    /\ login[t].pc = "record"
    /\ seen' = IF provider # "none" THEN seen \cup {login[t].answer} ELSE seen
    /\ IF login[t].answer.email = NoEmail THEN Refuse(t) ELSE Proceed(t, "mark")
    /\ UNCHANGED <<kind, provider, secret, attempt, accounts, opened, turnedAway, mingled>>

MarkAttemptUsed(t) ==
    /\ login[t].pc = "mark"
    /\ attempt' = [attempt EXCEPT ![login[t].answer.attempt].used = TRUE]
    /\ Proceed(t, "subject")
    /\ UNCHANGED <<kind, provider, secret, accounts, seen, opened, turnedAway, mingled>>

-----------------------------------------------------------------------------
(* jit_provision_or_match_user and the session. *)

OwnerOf(l) == <<kind, l.answer.subject>>

\* Mutation: the account is looked for by e-mail.
OwnedByEmail(l) == {i \in DOMAIN accounts : accounts[i].email = l.answer.email}

\* Accounts of this provider and subject.
Owned(l) == {i \in DOMAIN accounts : accounts[i].owner = OwnerOf(l)}

MatchSubject(t) ==
    LET l == login[t] IN
    /\ l.pc = "subject"
    /\ \/ /\ Owned(l) = {} /\ Proceed(t, "email")
       \/ \E i \in Owned(l) : login' = [login EXCEPT ![t].pc = "tokens", ![t].user = i]
    /\ UNCHANGED <<kind, provider, secret, attempt, accounts, seen, opened, turnedAway, mingled>>

\* An account with that address is never linked.
MatchEmail(t) ==
    LET email == login[t].answer.email IN
    /\ login[t].pc = "email"
    /\ IF \E i \in DOMAIN accounts : accounts[i].email = email THEN Refuse(t) ELSE Proceed(t, "insert")
    /\ UNCHANGED <<kind, provider, secret, attempt, accounts, seen, opened, turnedAway, mingled>>

\* The insert fails on a unique column: error 500.
ProvisionUser(t) ==
    LET l == login[t] IN
    /\ l.pc = "insert"
    /\ IF Clashes(l.answer.email)
       THEN Refuse(t) /\ UNCHANGED accounts
       ELSE /\ Len(accounts) < MaxAccounts
            /\ accounts' = Append(accounts, Row(l.answer.email, OwnerOf(l)))
            /\ login' = [login EXCEPT ![t].pc = "tokens", ![t].user = Len(accounts) + 1]
    /\ UNCHANGED <<kind, provider, secret, attempt, seen, opened, turnedAway, mingled>>

\* The account is read by its id; access and refresh token are issued.
IssueTokens(t) ==
    /\ login[t].pc = "tokens"
    /\ opened' = [opened EXCEPT ![login[t].answer.attempt] = IF @ < 2 THEN @ + 1 ELSE @]
    /\ Refuse(t)
    /\ UNCHANGED <<kind, provider, secret, attempt, accounts, seen, turnedAway, mingled>>

SsoNext ==
    \/ \E posted \in 0..1 :
          CreateSsoProvider(posted) \/ \E on \in BOOLEAN : UpdateSsoProvider(on, posted)
    \/ CreateSamlProvider \/ \E on \in BOOLEAN : ToggleSamlProvider(on)
    \/ DeleteSsoProvider \/ DeleteSamlProvider
    \/ \E email \in Addresses : CreateUser(email) \/ \E i \in 1..MaxAccounts : UpdateUser(i, email)
    \/ \E a \in Attempts : Authorize(a) \/ SamlLogin(a) \/ AttemptExpires(a)
    \/ \E t \in SsoThreads :
          \/ \E r \in Assertions : Callback(t, r) \/ Acs(t, r)
          \/ \E cookie \in BOOLEAN : ReadOidcAttempt(t, cookie)
          \/ \E cookie, valid \in BOOLEAN : ReadSamlAttempt(t, cookie, valid)
          \/ ExchangeCode(t) \/ ExchangeFails(t) \/ ReadNonce(t)
          \/ CheckAssertionId(t) \/ RecordAssertionId(t) \/ MarkAttemptUsed(t)
          \/ MatchSubject(t) \/ MatchEmail(t) \/ ProvisionUser(t) \/ IssueTokens(t)

SsoSpec == SsoInit /\ [][SsoNext]_ssoVars

-----------------------------------------------------------------------------
(* Properties. *)

\* A session is opened on an account of the provider and subject that
\* answered: never on one that merely has the same address, a local account
\* or another subject's, whatever happens between the look-up and the tokens.
SessionOfSubject ==
    \A t \in SsoThreads : login[t].pc = "tokens" => accounts[login[t].user].owner = OwnerOf(login[t])

\* Callbacks that do not overlap open one session for an attempt (the used
\* flag and the assertion IDs) and keep one account for a subject, also when
\* its address changes.
OneSessionIfSerial ==
    ~mingled => /\ \A a \in Attempts : opened[a] <= 1
                /\ \A i, j \in DOMAIN accounts :
                      accounts[i].owner = accounts[j].owner => i = j \/ accounts[i].owner = Local

\* What the callback's documentation promises: a state, cookie and code that
\* are good lead to tokens, or to a refusal of the account.
OidcLoginCompletes == ~turnedAway
=============================================================================
