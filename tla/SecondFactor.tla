---------------------------- MODULE SecondFactor ----------------------------
(***************************************************************************)
(* The second factor of an account: enrolment, TOTP codes with replay      *)
(* protection, and recovery codes.                                         *)
(*   services/mfa_service.py   MFAService                                  *)
(*   blueprints/mfa.py         enroll, activate, disable, mfa_verify       *)
(*                                                                         *)
(* One account is modelled. A TOTP code is the secret that made it and the *)
(* 30-second counter it is for; a recovery code is the enrolment that drew *)
(* it and its number. An enrolment is one activation: activate takes the   *)
(* secret from its request body, so two enrolments may have one secret.    *)
(* Each statement commits by itself. The pre-auth token that mfa_verify    *)
(* spends, and the tokens it issues, are in AuthTokens.                    *)
(***************************************************************************)
EXTENDS Integers

CONSTANTS
    FactorThreads,   \* request threads
    MaxEnrol,        \* bound on enrolments
    SecretCount,     \* secrets a client may activate, any number of times each
    MaxCounter,      \* bound on time, in TOTP counters
    CodesPerUser     \* recovery codes made by an enrolment

ASSUME FactorAssumption == {MaxEnrol, SecretCount, MaxCounter, CodesPerUser} \subseteq Nat \ {0}

VARIABLES
    account,    \* auth_user: mfa_enabled, mfa_secret, mfa_recovery_codes,
                \* mfa_last_totp_counter, and the enrolment that wrote the secret
    enrolled,   \* enrolments so far
    counter,    \* MFAService.get_totp_counter
    factor,     \* request of each thread
    used,       \* history: recovery codes, and windows of an enrolment, accepted so far
    reused,     \* history: those accepted a second time
    factorsMet     \* history: two requests overlapped

factorVars == <<account, enrolled, counter, factor, used, reused, factorsMet>>

CodesOf(e)    == {e} \X (1..CodesPerUser)
RecoveryCodes == UNION {CodesOf(e) : e \in 1..MaxEnrol}
TotpCodes     == (1..SecretCount) \X (1..MaxCounter)
NoCode        == <<0, 0>>

Plain    == [on |-> FALSE, secret |-> 0, enrol |-> 0, codes |-> {}, last |-> 0]
NoFactor == [pc |-> "free", op |-> "verify", secret |-> 0, enrol |-> 0,
             recovery |-> NoCode, list |-> {}, now |-> 0]

FactorTypeOK ==
    /\ account \in [on : BOOLEAN, secret : 0..SecretCount, enrol : 0..MaxEnrol,
                    codes : SUBSET RecoveryCodes, last : 0..MaxCounter]
    /\ enrolled \in 0..MaxEnrol /\ counter \in 1..MaxCounter
    /\ \A t \in FactorThreads :
          /\ factor[t].pc \in {"free", "enable", "codes", "replay", "advance", "list", "spend", "off"}
          /\ factor[t].op \in {"activate", "disable", "verify"}
          /\ factor[t].secret \in 0..SecretCount /\ factor[t].enrol \in 0..MaxEnrol
          /\ factor[t].recovery \in RecoveryCodes \cup {NoCode}
          /\ factor[t].list \subseteq RecoveryCodes
    /\ factorsMet \in BOOLEAN

FactorInit ==
    /\ account = Plain /\ enrolled = 0 /\ counter = 1
    /\ factor = [t \in FactorThreads |-> NoFactor]
    /\ used = {} /\ reused = {} /\ factorsMet = FALSE

\* The history of what was accepted is kept until requests overlap.
Begins(t, f) ==
    /\ factor[t].pc = "free"
    /\ factor' = [factor EXCEPT ![t] = f]
    /\ factorsMet' = (factorsMet \/ \E u \in FactorThreads : factor[u].pc # "free")
    /\ IF factorsMet' THEN used' = {} /\ reused' = {} ELSE UNCHANGED <<used, reused>>

Continue(t, f) == factor' = [factor EXCEPT ![t] = f] /\ UNCHANGED factorsMet

AcceptCode(marks) ==
    IF factorsMet THEN UNCHANGED <<used, reused>>
    ELSE used' = used \cup marks /\ reused' = reused \cup (used \cap marks)

-----------------------------------------------------------------------------
(* activate: a secret of the client's choice (the one enroll made, or one   *)
(* that was activated before) and a code of it that fits. Row first, then   *)
(* the recovery codes.                                                      *)

Activate(t, secret) ==
    /\ ~account.on /\ enrolled < MaxEnrol
    /\ enrolled' = enrolled + 1
    /\ Begins(t, [NoFactor EXCEPT !.pc = "enable", !.op = "activate",
                                  !.secret = secret, !.enrol = enrolled + 1])
    /\ UNCHANGED <<account, counter>>

Enable(t) ==
    /\ factor[t].pc = "enable"
    /\ account' = [account EXCEPT !.on = TRUE, !.secret = factor[t].secret,
                                    !.enrol = factor[t].enrol]
    /\ Continue(t, [factor[t] EXCEPT !.pc = "codes"])
    /\ UNCHANGED <<enrolled, counter, used, reused>>

StoreRecoveryCodes(t) ==
    /\ factor[t].pc = "codes"
    /\ account' = [account EXCEPT !.codes = CodesOf(factor[t].enrol)]
    /\ Continue(t, NoFactor)
    /\ UNCHANGED <<enrolled, counter, used, reused>>

-----------------------------------------------------------------------------
(* mfa_verify and disable present a TOTP code, a recovery code or both.     *)

\* verify_totp with window = 1.
VerifyTotp(secret, code) == code[1] = secret /\ code[2] \in (counter - 1)..(counter + 1)

\* The recovery code is tried when the TOTP code is missing or was refused.
OrRecovery(f) ==
    IF f.recovery = NoCode THEN NoFactor
    ELSE [f EXCEPT !.pc = "list", !.enrol = 0]

\* The row is read; disable compares the password too. Only mfa_verify goes on
\* to check a replay.
Offer(t, op, totp, recovery) ==
    LET f == [NoFactor EXCEPT !.op = op, !.enrol = account.enrol, !.recovery = recovery]
    IN  /\ account.on /\ recovery[1] <= enrolled
        /\ totp # NoCode \/ recovery # NoCode
        /\ Begins(t, IF ~VerifyTotp(account.secret, totp) THEN OrRecovery(f)
                     ELSE IF op = "verify" THEN [f EXCEPT !.pc = "replay"]
                     ELSE [NoFactor EXCEPT !.pc = "off"])
        /\ UNCHANGED <<account, enrolled, counter>>

\* check_totp_replay compares the current counter, not that of the code ...
CheckTotpReplay(t) ==
    LET f == factor[t] IN
    /\ f.pc = "replay"
    /\ Continue(t, IF counter <= account.last THEN OrRecovery(f)
               ELSE [f EXCEPT !.pc = "advance", !.now = counter])
    /\ UNCHANGED <<account, enrolled, counter, used, reused>>

\* ... and stores it.
AdvanceCounter(t) ==
    LET f == factor[t] IN
    /\ f.pc = "advance"
    /\ account' = [account EXCEPT !.last = f.now]
    /\ AcceptCode({<<"window", <<f.enrol, f.now>>>>})
    /\ Continue(t, NoFactor)
    /\ UNCHANGED <<enrolled, counter>>

\* consume_recovery_code reads the list ...
ReadRecoveryCodes(t) ==
    LET f == factor[t] IN
    /\ f.pc = "list"
    /\ Continue(t, IF f.recovery \in account.codes
                   THEN [f EXCEPT !.pc = "spend", !.list = account.codes] ELSE NoFactor)
    /\ UNCHANGED <<account, enrolled, counter, used, reused>>

\* Mutation: the code is not taken off the list.
SpendRecoveryCodeKept(t) ==
    LET f == factor[t] IN
    /\ f.pc = "spend"
    /\ account' = [account EXCEPT !.codes = f.list]
    /\ AcceptCode({<<"recovery", f.recovery>>})
    /\ Continue(t, IF f.op = "disable" THEN [NoFactor EXCEPT !.pc = "off"] ELSE NoFactor)
    /\ UNCHANGED <<enrolled, counter>>

\* ... and writes back what is left of it.
SpendRecoveryCode(t) ==
    LET f == factor[t] IN
    /\ f.pc = "spend"
    /\ account' = [account EXCEPT !.codes = f.list \ {f.recovery}]
    /\ AcceptCode({<<"recovery", f.recovery>>})
    /\ Continue(t, IF f.op = "disable" THEN [NoFactor EXCEPT !.pc = "off"] ELSE NoFactor)
    /\ UNCHANGED <<enrolled, counter>>

\* Mutation: disable leaves the recovery codes in the row.
TurnOffKeepingCodes(t) ==
    /\ factor[t].pc = "off"
    /\ account' = [Plain EXCEPT !.codes = account.codes]
    /\ Continue(t, NoFactor)
    /\ UNCHANGED <<enrolled, counter, used, reused>>

TurnOff(t) ==
    /\ factor[t].pc = "off"
    /\ account' = Plain
    /\ Continue(t, NoFactor)
    /\ UNCHANGED <<enrolled, counter, used, reused>>

\* The worker dies between two statements.
DropFactor(t) ==
    /\ factor[t].pc # "free"
    /\ Continue(t, NoFactor)
    /\ UNCHANGED <<account, enrolled, counter, used, reused>>

NextCounter ==
    /\ counter < MaxCounter
    /\ counter' = counter + 1
    /\ UNCHANGED <<account, enrolled, factor, used, reused, factorsMet>>

FactorNext ==
    \/ \E t \in FactorThreads :
          \/ \E secret \in 1..SecretCount : Activate(t, secret)
          \/ Enable(t) \/ StoreRecoveryCodes(t)
          \/ \E op \in {"verify", "disable"}, totp \in TotpCodes \cup {NoCode},
                recovery \in RecoveryCodes \cup {NoCode} : Offer(t, op, totp, recovery)
          \/ CheckTotpReplay(t) \/ AdvanceCounter(t)
          \/ ReadRecoveryCodes(t) \/ SpendRecoveryCode(t)
          \/ TurnOff(t) \/ DropFactor(t)
    \/ NextCounter

FactorSpec == FactorInit /\ [][FactorNext]_factorVars

-----------------------------------------------------------------------------
(* Properties. *)

\* As long as requests did not overlap, a recovery code is accepted once, and
\* mfa_verify accepts one TOTP code per counter and enrolment, over any
\* sequence of enrolments, verifications, disables and killed requests.
\* Two limits of the code are in the statement. It counts per enrolment and
\* not per secret: disable sets mfa_last_totp_counter to 0 and activate takes
\* any secret, so a secret that is disabled and activated again within one
\* counter has its codes of that counter accepted again. And it counts
\* windows and not codes: check_totp_replay stores and compares the current
\* counter while verify_totp accepts the neighbouring ones, so a code may be
\* accepted again at the next counter.
SecondFactorOnceIfSerial == ~factorsMet => reused = {}

\* As long as requests did not overlap, the recovery codes on the row are
\* those of the enrolment that wrote its secret, also when activate was killed
\* between the row and the codes, and when one secret is activated twice.
RecoveryCodesOfThisEnrolment ==
    ~factorsMet /\ account.on => account.codes \subseteq CodesOf(account.enrol)
=============================================================================
