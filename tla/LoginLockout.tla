---------------------------- MODULE LoginLockout ----------------------------
(***************************************************************************)
(* Password login and its account lockout.                                 *)
(*   services/auth_service.py  AuthService.authenticate_user               *)
(*   blueprints/auth.py        login                                       *)
(*                                                                         *)
(* A login reads the account row, compares the password (bcrypt, slow) and *)
(* writes the failure count and the lock back; each statement commits by   *)
(* itself, so the logins of several threads interleave between the read    *)
(* and the write. One active account is modelled, and what login does with *)
(* an authenticated user is in AuthTokens and SecondFactor.                *)
(***************************************************************************)
EXTENDS Integers, FiniteSetsExt

CONSTANTS
    LoginThreads,   \* request threads
    Threshold,      \* LOGIN_LOCKOUT_THRESHOLD
    BaseLock,       \* LOGIN_LOCKOUT_BASE_SECONDS
    MaxLock,        \* LOGIN_LOCKOUT_MAX_SECONDS
    MaxFailures     \* bound on consecutive failures

ASSUME LockoutAssumption ==
    {Threshold, BaseLock, MaxLock, MaxFailures} \subseteq Nat \ {0}

VARIABLES
    failed,     \* auth_user.failed_login_count
    lock,       \* how long locked_until is ahead of the clock, 0 when not locked
    trying,     \* login of each thread: count it read, right password, time since the read
    streak,     \* history: failures since the last success
    quiet,      \* history: time since the last failure was read
    crowded     \* history: two logins overlapped

lockVars == <<failed, lock, trying, streak, quiet, crowded>>

NotTrying == [busy |-> FALSE, count |-> 0, right |-> FALSE, spent |-> 0]

LockTypeOK ==
    /\ failed \in 0..MaxFailures /\ lock \in 0..MaxLock
    /\ trying \in [LoginThreads -> [busy : BOOLEAN, count : 0..MaxFailures,
                                     right : BOOLEAN, spent : 0..MaxLock]]
    /\ streak \in Nat /\ quiet \in 0..MaxLock /\ crowded \in BOOLEAN

LockInit ==
    /\ failed = 0 /\ lock = 0
    /\ trying = [t \in LoginThreads |-> NotTrying]
    /\ streak = 0 /\ quiet = 0 /\ crowded = FALSE

\* Mutation: the backoff is not capped.
BackoffUncapped(n) == IF n < Threshold THEN 0 ELSE BaseLock * 2^(n - Threshold)

\* The lock that the n-th failure in a row brings, read `spent` ago.
Backoff(n) == IF n < Threshold THEN 0 ELSE Min({BaseLock * 2^(n - Threshold), MaxLock})
LockLeft(n, spent) == Max({Backoff(n) - spent, 0})

\* The row is read and the account is not locked. While it is, the password
\* is not even compared and nothing changes.
StartLogin(t, right) ==
    /\ ~trying[t].busy /\ lock = 0
    /\ trying' = [trying EXCEPT ![t] = [busy |-> TRUE, count |-> failed,
                                          right |-> right, spent |-> 0]]
    /\ crowded' = (crowded \/ \E u \in LoginThreads : trying[u].busy)
    /\ UNCHANGED <<failed, lock, streak, quiet>>

\* Wrong password: one more than the count that was read; locked_until is
\* written only from the threshold on.
FailLogin(t) ==
    LET n == trying[t].count + 1 IN
    /\ trying[t].busy /\ ~trying[t].right /\ n <= MaxFailures /\ streak < MaxFailures
    /\ failed' = n
    /\ lock' = IF n >= Threshold THEN LockLeft(n, trying[t].spent) ELSE lock
    /\ streak' = streak + 1 /\ quiet' = trying[t].spent
    /\ trying' = [trying EXCEPT ![t] = NotTrying]
    /\ UNCHANGED crowded

\* Mutation: a success leaves the failure count alone.
PassLoginKeeping(t) ==
    /\ trying[t].busy /\ trying[t].right
    /\ lock' = 0 /\ failed' = failed
    /\ streak' = 0 /\ quiet' = 0
    /\ trying' = [trying EXCEPT ![t] = NotTrying]
    /\ UNCHANGED crowded

\* Right password: count and lock are reset if the row that was read had any.
PassLogin(t) ==
    /\ trying[t].busy /\ trying[t].right
    /\ IF trying[t].count > 0 THEN failed' = 0 /\ lock' = 0 ELSE UNCHANGED <<failed, lock>>
    /\ streak' = 0 /\ quiet' = 0
    /\ trying' = [trying EXCEPT ![t] = NotTrying]
    /\ UNCHANGED crowded

\* The worker dies before the write: nothing was counted, nothing answered.
DropLogin(t) ==
    /\ trying[t].busy
    /\ trying' = [trying EXCEPT ![t] = NotTrying]
    /\ UNCHANGED <<failed, lock, streak, quiet, crowded>>

LockTick ==
    /\ lock' = Max({lock - 1, 0})
    /\ quiet' = Min({quiet + 1, MaxLock})
    /\ trying' = [t \in LoginThreads |->
                     IF trying[t].busy THEN [trying[t] EXCEPT !.spent = Min({@ + 1, MaxLock})]
                     ELSE trying[t]]
    /\ UNCHANGED <<failed, streak, crowded>>

LockNext ==
    \/ \E t \in LoginThreads :
          \/ \E right \in BOOLEAN : StartLogin(t, right)
          \/ FailLogin(t) \/ PassLogin(t) \/ DropLogin(t)
    \/ LockTick

LockSpec == LockInit /\ [][LockNext]_lockVars

-----------------------------------------------------------------------------
(* Properties. *)

\* Unless two logins overlapped, the count is the number of failures in a row
\* and the account is locked for exactly what is left of the backoff that the
\* last of them earned: no order of failures, successes, waiting and killed
\* requests shortens it or keeps it after a success.
LockoutIfSerial ==
    ~crowded => failed = streak /\ lock = LockLeft(streak, quiet)
=============================================================================
