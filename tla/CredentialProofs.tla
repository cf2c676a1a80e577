-------------------------- MODULE CredentialProofs --------------------------
(***************************************************************************)
(* What the Manager's credential checks promise, for any number of request *)
(* threads and all limits: the lockout of password logins (LoginLockout),  *)
(* the second factor (SecondFactor), single use of DPoP proofs             *)
(* (DpopReplay) and the restrictions of machine tokens (MachineGrant).     *)
(*                                                                         *)
(* None of the properties is inductive: each speaks of rows, and the rows  *)
(* are written from what a request read some statements before. The        *)
(* inductive invariants say what a request still knows of the row between  *)
(* its read and its write.                                                 *)
(***************************************************************************)
EXTENDS LoginLockout, SecondFactor, DpopReplay, MachineGrant, TLAPS

-----------------------------------------------------------------------------
(* Login lockout. *)

LEMMA MaxPair ==
    ASSUME NEW a \in Int, NEW b \in Int
    PROVE  Max({a, b}) = IF a >= b THEN a ELSE b
BY DEF Max

LEMMA MinPair ==
    ASSUME NEW a \in Int, NEW b \in Int
    PROVE  Min({a, b}) = IF a <= b THEN a ELSE b
BY DEF Min

\* The backoff is capped, and there is none below the threshold.
LEMMA BackoffBound ==
    ASSUME NEW n \in Nat
    PROVE  /\ Backoff(n) \in Int /\ Backoff(n) <= MaxLock
           /\ n < Threshold => Backoff(n) = 0
<1>1. Threshold \in Nat /\ BaseLock \in Nat /\ MaxLock \in Nat
  BY LockoutAssumption
<1>2. CASE n < Threshold
  BY <1>1, <1>2 DEF Backoff
<1>3. CASE ~(n < Threshold)
  <2>1. n - Threshold \in Nat
    BY <1>1, <1>3
  <2>2. 2^(n - Threshold) \in Int
    BY <2>1
  <2>3. BaseLock * 2^(n - Threshold) \in Int
    BY <1>1, <2>2
  <2>4. Min({BaseLock * 2^(n - Threshold), MaxLock}) \in Int
        /\ Min({BaseLock * 2^(n - Threshold), MaxLock}) <= MaxLock
    BY <1>1, <2>3, MinPair
  <2>5. QED
    BY <1>3, <2>4 DEF Backoff
<1>4. QED
  BY <1>2, <1>3

\* What is left of the lock: nothing below the threshold, and one unit less
\* after a tick, also when the clock of the last failure has stopped.
LEMMA LockLeftFacts ==
    ASSUME NEW n \in Nat, NEW q \in 0..MaxLock
    PROVE  /\ LockLeft(n, q) \in 0..MaxLock
           /\ n < Threshold => LockLeft(n, q) = 0
           /\ Max({LockLeft(n, q) - 1, 0}) = LockLeft(n, Min({q + 1, MaxLock}))
<1>1. MaxLock \in Nat /\ q \in Nat /\ q <= MaxLock
  BY LockoutAssumption
<1>2. Backoff(n) \in Int /\ Backoff(n) <= MaxLock /\ (n < Threshold => Backoff(n) = 0)
  BY BackoffBound
<1> DEFINE b == Backoff(n)
           q1 == Min({q + 1, MaxLock})
<1>3. q1 \in Nat /\ q1 = IF q + 1 <= MaxLock THEN q + 1 ELSE MaxLock
  BY <1>1, MinPair
<1> HIDE DEF b, q1
<1>4. LockLeft(n, q) = IF b - q >= 0 THEN b - q ELSE 0
  BY <1>1, <1>2, MaxPair DEF LockLeft, b
<1>5. LockLeft(n, q1) = IF b - q1 >= 0 THEN b - q1 ELSE 0
  BY <1>2, <1>3, MaxPair DEF LockLeft, b
<1>6. b \in Int /\ b <= MaxLock /\ (n < Threshold => b = 0)
  BY <1>2 DEF b
<1>7. LockLeft(n, q) \in 0..MaxLock /\ (n < Threshold => LockLeft(n, q) = 0)
  BY <1>1, <1>4, <1>6
<1>8. Max({LockLeft(n, q) - 1, 0}) =
          IF LockLeft(n, q) - 1 >= 0 THEN LockLeft(n, q) - 1 ELSE 0
  BY <1>7, MaxPair
<1>9. Max({LockLeft(n, q) - 1, 0}) = LockLeft(n, q1)
  BY <1>1, <1>3, <1>4, <1>5, <1>6, <1>8
<1>10. QED
  BY <1>7, <1>9 DEF q1

\* As long as no two logins overlapped, one login at most is under way and the
\* count it read is still the one in the row.
SerialLogins ==
    ~crowded => /\ LockoutIfSerial
                /\ \A t \in LoginThreads : trying[t].busy => trying[t].count = failed
                /\ \A t, u \in LoginThreads : trying[t].busy /\ trying[u].busy => t = u

LockInv == LockTypeOK /\ SerialLogins

Attempt == [busy : BOOLEAN, count : 0..MaxFailures, right : BOOLEAN, spent : 0..MaxLock]

LEMMA LockInvInit == LockInit => LockInv
<1> SUFFICES ASSUME LockInit PROVE LockInv
  OBVIOUS
<1>1. /\ Threshold \in Nat /\ Threshold > 0
      /\ MaxLock \in Nat /\ MaxLock > 0 /\ 0 \in 0..MaxLock
      /\ MaxFailures \in Nat /\ 0 \in 0..MaxFailures
  BY LockoutAssumption
<1>2. LockTypeOK
  BY <1>1 DEF LockInit, LockTypeOK, NotTrying
<1>3. LockLeft(0, 0) = 0
  BY <1>1, LockLeftFacts
<1>4. SerialLogins
  BY <1>3 DEF LockInit, SerialLogins, LockoutIfSerial, NotTrying
<1>5. QED
  BY <1>2, <1>4 DEF LockInv

LEMMA LockInvNext == LockInv /\ [LockNext]_lockVars => LockInv'
<1> SUFFICES ASSUME LockInv, [LockNext]_lockVars PROVE LockInv'
  OBVIOUS
<1>1. /\ Threshold \in Nat /\ Threshold > 0
      /\ MaxLock \in Nat /\ MaxLock > 0 /\ 0 \in 0..MaxLock
      /\ MaxFailures \in Nat /\ 0 \in 0..MaxFailures
  BY LockoutAssumption
<1>2. /\ failed \in 0..MaxFailures /\ lock \in 0..MaxLock
      /\ trying \in [LoginThreads -> Attempt]
      /\ streak \in Nat /\ quiet \in 0..MaxLock /\ crowded \in BOOLEAN
  BY DEF LockInv, LockTypeOK, Attempt
<1>3. NotTrying \in Attempt /\ ~NotTrying.busy
  BY <1>1 DEF NotTrying, Attempt
<1>4. ASSUME NEW t \in LoginThreads, NEW right \in BOOLEAN, StartLogin(t, right)
      PROVE  LockInv'
  <2> DEFINE a == [busy |-> TRUE, count |-> failed, right |-> right, spent |-> 0]
  <2>1. a \in Attempt /\ a.count = failed
    BY <1>1, <1>2 DEF Attempt
  <2>2. /\ trying' = [trying EXCEPT ![t] = a] /\ UNCHANGED <<failed, lock, streak, quiet>>
        /\ crowded' = (crowded \/ \E u \in LoginThreads : trying[u].busy)
    BY <1>4 DEF StartLogin
  <2> HIDE DEF a
  <2>3. LockTypeOK'
    BY <1>2, <2>1, <2>2 DEF LockTypeOK, Attempt
  <2>4. SerialLogins'
    BY <1>2, <2>1, <2>2 DEF LockInv, SerialLogins, LockoutIfSerial
  <2>5. QED
    BY <2>3, <2>4 DEF LockInv
<1>5. ASSUME NEW t \in LoginThreads, trying' = [trying EXCEPT ![t] = NotTrying],
             crowded' = crowded, failed' \in 0..MaxFailures, lock' \in 0..MaxLock,
             streak' \in Nat, quiet' \in 0..MaxLock,
             ~crowded => trying[t].busy /\ LockoutIfSerial'
      PROVE  LockInv'
  <2>1. LockTypeOK'
    BY <1>2, <1>3, <1>5 DEF LockTypeOK, Attempt
  <2>2. SerialLogins'
    BY <1>2, <1>3, <1>5 DEF LockInv, SerialLogins
  <2>3. QED
    BY <2>1, <2>2 DEF LockInv
<1>6. ASSUME NEW t \in LoginThreads, FailLogin(t) PROVE LockInv'
  <2> DEFINE n == trying[t].count + 1
             s == trying[t].spent
  <2>1. /\ n \in Nat /\ n <= MaxFailures /\ s \in 0..MaxLock /\ trying[t].busy
        /\ failed' = n /\ streak' = streak + 1 /\ quiet' = s /\ crowded' = crowded
        /\ lock' = IF n >= Threshold THEN LockLeft(n, s) ELSE lock
        /\ trying' = [trying EXCEPT ![t] = NotTrying]
    BY <1>2, <1>6 DEF FailLogin, Attempt
  <2> HIDE DEF n, s
  <2>2. LockLeft(n, s) \in 0..MaxLock /\ (n < Threshold => LockLeft(n, s) = 0)
    BY <2>1, LockLeftFacts
  <2>3. ASSUME ~crowded PROVE n = streak + 1 /\ (n < Threshold => lock = 0)
    <3>1. failed = streak /\ lock = LockLeft(streak, quiet) /\ trying[t].count = failed
      BY <2>1, <2>3 DEF LockInv, SerialLogins, LockoutIfSerial
    <3>2. n = streak + 1
      BY <3>1 DEF n
    <3>3. streak < Threshold => LockLeft(streak, quiet) = 0
      BY <1>2, LockLeftFacts
    <3>4. QED
      BY <1>1, <1>2, <3>1, <3>2, <3>3
  <2>4. ~crowded => LockoutIfSerial'
    BY <1>1, <2>1, <2>2, <2>3 DEF LockoutIfSerial
  <2>5. /\ failed' \in 0..MaxFailures /\ lock' \in 0..MaxLock
        /\ streak' \in Nat /\ quiet' \in 0..MaxLock
    BY <1>1, <1>2, <2>1, <2>2
  <2>6. QED
    BY <1>5, <2>1, <2>4, <2>5
<1>7. ASSUME NEW t \in LoginThreads, PassLogin(t) PROVE LockInv'
  <2>1. /\ trying[t].busy /\ trying[t].count \in Nat
        /\ streak' = 0 /\ quiet' = 0 /\ crowded' = crowded
        /\ IF trying[t].count > 0 THEN failed' = 0 /\ lock' = 0 ELSE UNCHANGED <<failed, lock>>
        /\ trying' = [trying EXCEPT ![t] = NotTrying]
    BY <1>2, <1>7 DEF PassLogin, Attempt
  <2>2. LockLeft(0, 0) = 0
    BY <1>1, LockLeftFacts
  <2>3. ~crowded => LockoutIfSerial'
    <3>1. SUFFICES ASSUME ~crowded PROVE failed' = 0 /\ lock' = 0
      BY <2>1, <2>2 DEF LockoutIfSerial
    <3>2. failed = streak /\ lock = LockLeft(streak, quiet) /\ trying[t].count = failed
      BY <2>1, <3>1 DEF LockInv, SerialLogins, LockoutIfSerial
    <3>3. streak = 0 => LockLeft(streak, quiet) = 0
      BY <1>1, <1>2, LockLeftFacts
    <3>4. QED
      BY <2>1, <3>2, <3>3
  <2>4. /\ failed' \in 0..MaxFailures /\ lock' \in 0..MaxLock
        /\ streak' \in Nat /\ quiet' \in 0..MaxLock
    BY <1>1, <1>2, <2>1
  <2>5. QED
    BY <1>5, <2>1, <2>3, <2>4
<1>8. ASSUME NEW t \in LoginThreads, DropLogin(t) PROVE LockInv'
  BY <1>2, <1>5, <1>8 DEF DropLogin, LockInv, SerialLogins, LockoutIfSerial
<1>9. CASE LockTick
  <2>1. \A x \in 0..MaxLock : Min({x + 1, MaxLock}) \in 0..MaxLock
    BY <1>1, MinPair
  <2>2. /\ lock' = Max({lock - 1, 0}) /\ quiet' = Min({quiet + 1, MaxLock})
        /\ UNCHANGED <<failed, streak, crowded>>
        /\ trying' \in [LoginThreads -> Attempt]
        /\ \A t \in LoginThreads : /\ trying'[t].busy = trying[t].busy
                                   /\ trying'[t].count = trying[t].count
    BY <1>2, <1>9, <2>1 DEF LockTick, Attempt
  <2>3. lock' \in 0..MaxLock
    BY <1>1, <1>2, <2>2, MaxPair
  <2>4. LockTypeOK'
    BY <1>2, <2>1, <2>2, <2>3 DEF LockTypeOK, Attempt
  <2>5. LockoutIfSerial => LockoutIfSerial'
    BY <1>2, <2>2, LockLeftFacts DEF LockoutIfSerial
  <2>6. SerialLogins'
    BY <2>2, <2>5 DEF LockInv, SerialLogins
  <2>7. QED
    BY <2>4, <2>6 DEF LockInv
<1>10. CASE UNCHANGED lockVars
  BY <1>10 DEF lockVars, LockInv, LockTypeOK, SerialLogins, LockoutIfSerial
<1>11. QED
  BY <1>4, <1>6, <1>7, <1>8, <1>9, <1>10 DEF LockNext

\* Unless two logins overlapped, authenticate_user counts every failure in a
\* row and locks the account for what is left of the backoff it earned.
THEOREM LockoutSerial == LockSpec => []LockoutIfSerial
<1>1. LockInv => LockoutIfSerial
  BY DEF LockInv, SerialLogins, LockoutIfSerial
<1>2. QED
  BY <1>1, LockInvInit, LockInvNext, PTL DEF LockSpec

\* Every reachable state of the lockout is well typed: no order of failures
\* takes the lock past LOGIN_LOCKOUT_MAX_SECONDS.
THEOREM LockTypeCorrect == LockSpec => []LockTypeOK
<1>1. LockInv => LockTypeOK
  BY DEF LockInv
<1>2. QED
  BY <1>1, LockInvInit, LockInvNext, PTL DEF LockSpec

-----------------------------------------------------------------------------
(* DPoP proofs. *)

InFlight(t, j) == proving[t].pc # "free" /\ proving[t].proof = j

\* Every check of a proof began while its iat was within the skew, so the ages
\* of two of them differ by at most 2 * Skew.
ChecksOf(j) ==
    /\ \A t \in ProofThreads : InFlight(t, j) =>
          /\ proving[t].since <= proving[t].age
          /\ drift[j] <= Skew => drift[j] >= proving[t].age - Skew
    /\ \A t, u \in ProofThreads : InFlight(t, j) /\ InFlight(u, j) =>
          proving[t].age - proving[u].age <= 2 * Skew

\* The row of an accepted proof outlives the span in which its iat is valid.
\* Once it is purged, no check can begin and those under way have stalled.
RowOf(j) ==
    j \notin stalled =>
      /\ claimed[j] <= 1
      /\ claimed[j] = 0 => replay[j] = Gone
      /\ claimed[j] = 1 /\ replay[j] # Gone =>
            /\ drift[j] <= Skew => drift[j] + replay[j] >= ReplayTtl - Skew
            /\ \A t \in ProofThreads : InFlight(t, j) =>
                  proving[t].age + replay[j] >= ReplayTtl - 2 * Skew
      /\ claimed[j] = 1 /\ replay[j] = Gone =>
            /\ drift[j] > Skew
            /\ \A t \in ProofThreads : InFlight(t, j) =>
                  proving[t].age > ReplayTtl - 2 * Skew

ReplayInv == ProofTypeOK /\ \A j \in Proofs : ChecksOf(j) /\ RowOf(j)

Check == [pc : {"free", "purge", "insert"}, proof : Proofs, age : Ages, since : Ages]

LEMMA RestIsCheck == Rest \in Check /\ Rest.pc = "free" /\ Rest.age = 0 /\ Rest.since = 0
<1>1. (CHOOSE j \in Proofs : TRUE) \in Proofs
  BY ProofAssumption
<1>2. 0 \in Ages
  BY ProofAssumption DEF Ages
<1>3. QED
  BY <1>1, <1>2 DEF Rest, Check

LEMMA ReplayInvInit == ProofInit => ReplayInv
<1> SUFFICES ASSUME ProofInit PROVE ReplayInv
  OBVIOUS
<1>1. ProofTypeOK
  BY RestIsCheck, ProofAssumption DEF ProofInit, ProofTypeOK, Gone, Check
<1>2. \A t \in ProofThreads, j \in Proofs : ~InFlight(t, j)
  BY RestIsCheck DEF ProofInit, InFlight
<1>3. QED
  BY <1>1, <1>2 DEF ProofInit, ReplayInv, ChecksOf, RowOf

LEMMA ReplayInvNext == ReplayInv /\ [ProofNext]_proofVars => ReplayInv'
<1> SUFFICES ASSUME ReplayInv, [ProofNext]_proofVars PROVE ReplayInv'
  OBVIOUS
<1>1. Skew \in Nat /\ ReplayTtl \in Nat /\ 2 * Skew < ReplayTtl /\ Gone = -2
  BY ProofAssumption DEF Gone
<1>2. /\ drift \in [Proofs -> (-Skew)..(Skew + 1)]
      /\ replay \in [Proofs -> Gone..ReplayTtl]
      /\ proving \in [ProofThreads -> Check]
      /\ claimed \in [Proofs -> 0..2] /\ stalled \subseteq Proofs
  BY DEF ReplayInv, ProofTypeOK, Check
<1>3. \A t \in ProofThreads : /\ proving[t].age \in Nat /\ proving[t].age <= ReplayTtl + 1
                              /\ proving[t].since \in Nat /\ proving[t].since <= ReplayTtl + 1
                              /\ proving[t].proof \in Proofs
  BY <1>1, <1>2 DEF Check, Ages
<1>4. \A j \in Proofs : ChecksOf(j) /\ RowOf(j)
  BY DEF ReplayInv
<1>5. ASSUME NEW t \in ProofThreads, NEW j \in Proofs, CheckIat(t, j) PROVE ReplayInv'
  <2> DEFINE c == [Rest EXCEPT !.pc = "purge", !.proof = j]
  <2>1. c \in Check /\ c.pc = "purge" /\ c.proof = j /\ c.age = 0 /\ c.since = 0
    BY RestIsCheck DEF Check
  <2>2. /\ proving' = [proving EXCEPT ![t] = c] /\ drift[j] \in (-Skew)..Skew
        /\ UNCHANGED <<drift, replay, claimed, stalled>>
    BY <1>5 DEF CheckIat
  <2> HIDE DEF c
  <2>3. ProofTypeOK'
    BY <1>2, <2>1, <2>2 DEF ProofTypeOK, Check
  <2>4. ASSUME NEW k \in Proofs PROVE ChecksOf(k)' /\ RowOf(k)'
    <3>1. \A u \in ProofThreads : InFlight(u, k)' =>
             \/ u = t /\ k = j /\ proving'[u].age = 0 /\ proving'[u].since = 0
             \/ u # t /\ InFlight(u, k) /\ proving'[u] = proving[u]
      BY <1>2, <2>1, <2>2 DEF InFlight
    <3>2. ChecksOf(k)'
      BY <1>1, <1>2, <1>3, <1>4, <2>2, <3>1 DEF ChecksOf
    <3>3. RowOf(k)'
      BY <1>1, <1>2, <1>3, <1>4, <2>2, <3>1 DEF RowOf
    <3>4. QED
      BY <3>2, <3>3
  <2>5. QED
    BY <2>3, <2>4 DEF ReplayInv
<1>6. ASSUME NEW t \in ProofThreads, PurgeReplay(t) PROVE ReplayInv'
  <2>1. /\ proving' = [proving EXCEPT ![t].pc = "insert"] /\ proving[t].pc = "purge"
        /\ replay' = [j \in Proofs |-> IF replay[j] < 0 THEN Gone ELSE replay[j]]
        /\ UNCHANGED <<drift, claimed, stalled>>
    BY <1>6 DEF PurgeReplay
  <2>2. proving' \in [ProofThreads -> Check]
        /\ \A u \in ProofThreads : /\ proving'[u].age = proving[u].age
                                   /\ proving'[u].since = proving[u].since
                                   /\ \A k \in Proofs : InFlight(u, k)' => InFlight(u, k)
    BY <1>2, <2>1 DEF Check, InFlight
  <2>3. ProofTypeOK'
    BY <1>1, <1>2, <2>1, <2>2 DEF ProofTypeOK, Check
  <2>4. ASSUME NEW k \in Proofs PROVE ChecksOf(k)' /\ RowOf(k)'
    <3>1. ChecksOf(k)'
      BY <1>4, <2>1, <2>2 DEF ChecksOf
    <3>2. RowOf(k)'
      BY <1>1, <1>2, <1>3, <1>4, <2>1, <2>2 DEF RowOf
    <3>3. QED
      BY <3>1, <3>2
  <2>5. QED
    BY <2>3, <2>4 DEF ReplayInv
<1>7. ASSUME NEW t \in ProofThreads, RecordJti(t) PROVE ReplayInv'
  <2> DEFINE a == proving[t].age
             x == Expiry(proving[t])
  <2>0. PICK j \in Proofs : j = proving[t].proof
    BY <1>3
  <2>1. /\ proving' = [proving EXCEPT ![t] = Rest] /\ InFlight(t, j) /\ j \in Proofs
        /\ drift' = drift
    BY <1>7, <2>0 DEF RecordJti, InFlight
  <2>2. x = ReplayTtl - proving[t].since /\ x \in Gone..ReplayTtl
    BY <1>1, <1>3 DEF Expiry, AtLeast
  <2>3. \A u \in ProofThreads, k \in Proofs : InFlight(u, k)' =>
           u # t /\ InFlight(u, k) /\ proving'[u] = proving[u]
    BY <1>2, <2>1, RestIsCheck DEF InFlight
  <2>4. proving' \in [ProofThreads -> Check]
    BY <1>2, <2>1, RestIsCheck
  <2>5. ASSUME NEW k \in Proofs PROVE ChecksOf(k)'
    BY <1>4, <2>1, <2>3 DEF ChecksOf
  <2>6. CASE UNCHANGED <<replay, claimed, stalled>>
    <3>1. ProofTypeOK'
      BY <1>2, <2>1, <2>4, <2>6 DEF ProofTypeOK, Check
    <3>2. ASSUME NEW k \in Proofs PROVE RowOf(k)'
      BY <1>4, <2>1, <2>3, <2>6 DEF RowOf
    <3>3. QED
      BY <2>5, <3>1, <3>2 DEF ReplayInv
  <2>7. CASE /\ replay[j] = Gone
             /\ replay' = [replay EXCEPT ![j] = x]
             /\ claimed' = [claimed EXCEPT ![j] = AtMost(claimed[j] + 1, 2)]
             /\ stalled' = IF a > ReplayTtl - 2 * Skew THEN stalled \cup {j} ELSE stalled
    <3>1. ProofTypeOK'
      BY <1>1, <1>2, <2>1, <2>2, <2>4, <2>7 DEF ProofTypeOK, Check, AtMost
    <3>2. ASSUME NEW k \in Proofs, k # j PROVE RowOf(k)'
      BY <1>2, <1>4, <2>1, <2>3, <2>7, <3>2 DEF RowOf
    <3>3. RowOf(j)'
      <4>1. SUFFICES ASSUME j \notin stalled' PROVE RowOf(j)'
        BY DEF RowOf
      <4>2. j \notin stalled /\ a <= ReplayTtl - 2 * Skew
        BY <1>1, <1>3, <2>1, <2>7, <4>1
      <4>3. claimed[j] = 0
        BY <1>1, <1>2, <1>3, <1>4, <2>1, <2>7, <4>2 DEF RowOf
      <4>4. claimed'[j] = 1 /\ replay'[j] = x
        BY <1>2, <2>1, <2>7, <4>3 DEF AtMost
      <4>5. drift[j] <= Skew => drift[j] + x >= ReplayTtl - Skew
        BY <1>1, <1>2, <1>3, <1>4, <2>1, <2>2 DEF ChecksOf
      <4>6. \A u \in ProofThreads : InFlight(u, j)' =>
               proving'[u].age + x >= ReplayTtl - 2 * Skew
        BY <1>1, <1>3, <1>4, <2>1, <2>2, <2>3 DEF ChecksOf
      <4>7. x # Gone
        BY <1>1, <1>3, <2>2
      <4>8. QED
        BY <2>1, <4>4, <4>5, <4>6, <4>7 DEF RowOf
    <3>4. QED
      BY <2>5, <3>1, <3>2, <3>3 DEF ReplayInv
  <2>8. QED
    BY <1>7, <2>0, <2>6, <2>7 DEF RecordJti
<1>8. CASE ProofTick
  <2>1. /\ drift' = [j \in Proofs |-> AtMost(drift[j] + 1, Skew + 1)]
        /\ replay' = [j \in Proofs |-> IF replay[j] = Gone THEN Gone ELSE AtLeast(replay[j] - 1, -1)]
        /\ UNCHANGED <<claimed, stalled>>
    BY <1>8 DEF ProofTick
  <2>2. ASSUME NEW t \in ProofThreads
        PROVE  /\ proving'[t] \in Check
               /\ \A k \in Proofs : InFlight(t, k)' =>
                    /\ InFlight(t, k)
                    /\ proving'[t].age = AtMost(proving[t].age + 1, ReplayTtl + 1)
                    /\ proving'[t].since \in {0, AtMost(proving[t].since + 1, ReplayTtl + 1)}
    <3> DEFINE p == proving[t]
               g == IF p.pc = "free" THEN 0 ELSE AtMost(p.age + 1, ReplayTtl + 1)
               s == IF p.pc = "insert" THEN AtMost(p.since + 1, ReplayTtl + 1) ELSE 0
               q == [pc |-> p.pc, proof |-> p.proof, age |-> g, since |-> s]
    <3>1. proving'[t] = q
      BY <1>8 DEF ProofTick
    <3>2. p \in Check /\ p.age \in Nat /\ p.since \in Nat
      BY <1>2, <1>3
    <3>3. \A n \in Nat : AtMost(n + 1, ReplayTtl + 1) \in Ages
      BY <1>1 DEF AtMost, Ages
    <3>4. 0 \in Ages
      BY <1>1 DEF Ages
    <3>5. g \in Ages /\ s \in Ages
      BY <3>2, <3>3, <3>4
    <3>6. /\ p.pc # "free" => g = AtMost(p.age + 1, ReplayTtl + 1)
          /\ s \in {0, AtMost(p.since + 1, ReplayTtl + 1)}
      OBVIOUS
    <3> HIDE DEF p, g, s
    <3>7. q \in Check
      BY <3>2, <3>5 DEF Check
    <3>8. QED
      BY <3>1, <3>6, <3>7 DEF InFlight, p
  <2>3. proving' \in [ProofThreads -> Check]
    BY <1>8, <2>2 DEF ProofTick
  <2>4. ProofTypeOK'
    BY <1>1, <1>2, <2>1, <2>3 DEF ProofTypeOK, Check, AtMost, AtLeast
  <2>5. ASSUME NEW k \in Proofs PROVE ChecksOf(k)' /\ RowOf(k)'
    <3>1. drift[k] \in Int /\ replay[k] \in Int /\ replay[k] >= Gone
          /\ drift'[k] = AtMost(drift[k] + 1, Skew + 1)
          /\ replay'[k] = IF replay[k] = Gone THEN Gone ELSE AtLeast(replay[k] - 1, -1)
      BY <1>1, <1>2, <2>1
    <3>2. ChecksOf(k)'
      BY <1>1, <1>3, <1>4, <2>2, <3>1 DEF ChecksOf, AtMost
    <3>3. RowOf(k)'
      BY <1>1, <1>3, <1>4, <2>1, <2>2, <3>1 DEF RowOf, AtMost, AtLeast
    <3>4. QED
      BY <3>2, <3>3
  <2>6. QED
    BY <2>4, <2>5 DEF ReplayInv
<1>9. CASE UNCHANGED proofVars
  BY <1>9 DEF proofVars, ReplayInv, ProofTypeOK, ChecksOf, RowOf, InFlight
<1>10. QED
  BY <1>5, <1>6, <1>7, <1>8, <1>9 DEF ProofNext

\* _check_and_record_jti accepts a proof once, unless a check of it stalls
\* between iat and insert for longer than ReplayTtl - 2 * Skew, whatever purges
\* run in between.
THEOREM ProofSingleUse == ProofSpec => []ProofSingleUseIfPrompt
<1>1. ReplayInv => ProofSingleUseIfPrompt
  BY DEF ReplayInv, RowOf, ProofSingleUseIfPrompt
<1>2. QED
  BY <1>1, ReplayInvInit, ReplayInvNext, PTL DEF ProofSpec

\* Every reachable state of the replay check is well typed.
THEOREM ProofTypeCorrect == ProofSpec => []ProofTypeOK
<1>1. ReplayInv => ProofTypeOK
  BY DEF ReplayInv
<1>2. QED
  BY <1>1, ReplayInvInit, ReplayInvNext, PTL DEF ProofSpec

-----------------------------------------------------------------------------
(* Tokens of machines. *)

MachineRow == [kind : {"none", "client", "anchor"}, active : BOOLEAN, secret : 0..MaxSecrets,
        scopes : SUBSET Scopes, domains : Lists]

Grant == [pc : {"free", "verify", "domains"}, secret : 0..MaxSecrets,
          scopes : SUBSET Scopes, seen : SUBSET Lists, ended : BOOLEAN]

Minted == [domains : Lists, scopes : SUBSET Scopes, seen : SUBSET Lists, ended : BOOLEAN]

\* A grant between its two reads: the row was active with a list that the
\* grant has noted, or it was noted that the row had ended.
Noted(g, m) ==
    g.pc = "domains" => g.ended \/ (m.active /\ m.domains \in g.seen)

\* No client asks for a token before a secret was shown, and an installation
\* with an anchor (UpdateAnchor notes nothing) has shown none.
GrantInv ==
    /\ GrantTypeOK
    /\ creating = "pending" => machine.kind = "none"
    /\ machine.kind = "anchor" => creating = "done"
    /\ creating = "pending" \/ machine.kind = "anchor" =>
          handed = {} /\ \A t \in GrantThreads : grant[t].pc = "free"
    /\ \A t \in GrantThreads : Noted(grant[t], machine)
    /\ GrantKeepsRestriction

LEMMA NoMachineType ==
    /\ NoMachine \in MachineRow /\ NoMachine.kind = "none"
    /\ NoGrant \in Grant /\ NoGrant.pc = "free" /\ \A m : Noted(NoGrant, m)
<1>1. 0 \in 0..MaxSecrets
  BY GrantAssumption
<1>2. NoMachine \in MachineRow /\ NoMachine.kind = "none"
  BY <1>1 DEF NoMachine, MachineRow, Lists
<1>3. NoGrant \in Grant /\ NoGrant.pc = "free"
  BY <1>1 DEF NoGrant, Grant
<1>4. QED
  BY <1>2, <1>3 DEF Noted

LEMMA GrantInvInit == GrantInit => GrantInv
<1> SUFFICES ASSUME GrantInit PROVE GrantInv
  OBVIOUS
<1>1. GrantTypeOK
  BY NoMachineType, GrantAssumption DEF GrantInit, GrantTypeOK, MachineRow, Grant, Lists
<1>2. QED
  BY <1>1, NoMachineType DEF GrantInit, GrantInv, GrantKeepsRestriction

\* Every write of the row that a grant may read between is noted by it.
LEMMA WriteRowKeeps ==
    ASSUME GrantInv, NEW m \in MachineRow, WriteRow(m), machine.kind # "anchor", m.kind # "anchor",
           handed' \subseteq 1..MaxSecrets, creating' \in Lists \cup {"done"}, UNCHANGED mintedToken
    PROVE  GrantInv'
<1>1. /\ machine' = m /\ grant \in [GrantThreads -> Grant]
      /\ grant' = [t \in GrantThreads |->
                     IF grant[t].pc # "domains" THEN grant[t]
                     ELSE [grant[t] EXCEPT !.seen = @ \cup {m.domains}, !.ended = @ \/ ~m.active]]
  BY DEF WriteRow, GrantInv, GrantTypeOK, Grant
<1>2. ASSUME NEW t \in GrantThreads
      PROVE  grant'[t] \in Grant /\ grant'[t].pc = grant[t].pc /\ Noted(grant'[t], m)
  <2>1. CASE grant[t].pc # "domains"
    BY <1>1, <2>1 DEF Noted
  <2>2. CASE grant[t].pc = "domains"
    <3> DEFINE g == grant[t]
               s == g.seen \cup {m.domains}
               e == g.ended \/ ~m.active
    <3>1. grant'[t] = [g EXCEPT !.seen = s, !.ended = e]
      BY <1>1, <2>2
    <3>2. g \in Grant /\ s \in SUBSET Lists /\ e \in BOOLEAN
      BY <1>1 DEF Grant, MachineRow
    <3>3. m.domains \in s /\ (~e => m.active)
      OBVIOUS
    <3> HIDE DEF g, s, e
    <3>4. grant'[t] = [pc |-> g.pc, secret |-> g.secret, scopes |-> g.scopes,
                       seen |-> s, ended |-> e]
      BY <3>1, <3>2 DEF Grant
    <3>5. CASE e = TRUE
      <4>1. grant'[t] = [pc |-> g.pc, secret |-> g.secret, scopes |-> g.scopes,
                         seen |-> s, ended |-> TRUE]
        BY <3>4, <3>5, Zenon
      <4>2. QED
        BY <3>2, <4>1 DEF Grant, Noted, g
    <3>6. CASE e = FALSE
      <4>1. grant'[t] = [pc |-> g.pc, secret |-> g.secret, scopes |-> g.scopes,
                         seen |-> s, ended |-> FALSE]
        BY <3>4, <3>6, Zenon
      <4>2. m.active
        BY <3>3, <3>6
      <4>3. QED
        BY <3>2, <3>3, <4>1, <4>2 DEF Grant, Noted, g
    <3>7. QED
      BY <3>2, <3>5, <3>6
  <2>3. QED
    BY <2>1, <2>2
<1>3. grant' \in [GrantThreads -> Grant]
  BY <1>1, <1>2
<1>4. GrantTypeOK'
  BY <1>1, <1>3 DEF GrantInv, GrantTypeOK, MachineRow, Grant
<1>5. creating' # "pending"
  BY GrantAssumption DEF Lists, Open, Empty
<1>6. QED
  BY <1>1, <1>2, <1>4, <1>5 DEF GrantInv, GrantKeepsRestriction

LEMMA GrantInvNext == GrantInv /\ [GrantNext]_grantVars => GrantInv'
<1> SUFFICES ASSUME GrantInv, [GrantNext]_grantVars PROVE GrantInv'
  OBVIOUS
<1>1. MaxSecrets \in Nat /\ 0 \in 0..MaxSecrets /\ 1 \in 0..MaxSecrets /\ 1 \in 1..MaxSecrets
  BY GrantAssumption
<1>2. /\ machine \in MachineRow /\ grant \in [GrantThreads -> Grant]
      /\ handed \subseteq 1..MaxSecrets /\ creating \in Lists \cup {"pending", "done"}
  BY DEF GrantInv, GrantTypeOK, MachineRow, Grant
<1>3. "pending" \notin Lists /\ "done" \notin Lists /\ Open \in Lists
  BY GrantAssumption DEF Lists, Open, Empty
<1>0. machine.kind = "client" => creating \in Lists \cup {"done"}
  BY <1>2 DEF GrantInv
\* Writes of the row when no grant is under way.
<1>4. ASSUME NEW m \in MachineRow, machine' = m, UNCHANGED <<handed, grant, mintedToken>>,
             creating = "pending" \/ machine.kind = "anchor",
             creating' \in Lists \cup {"done"}, m.kind = "anchor" => creating' = "done"
      PROVE  GrantInv'
  <2>1. \A t \in GrantThreads : grant[t].pc = "free"
    BY <1>4 DEF GrantInv
  <2>2. handed = {}
    BY <1>4 DEF GrantInv
  <2>3. GrantTypeOK'
    BY <1>2, <1>4 DEF GrantInv, GrantTypeOK, MachineRow
  <2>4. QED
    BY <1>3, <1>4, <2>1, <2>2, <2>3 DEF GrantInv, Noted, GrantKeepsRestriction
<1>5. ASSUME NEW scopes \in SUBSET Scopes, NEW list \in Lists, CreateClient(scopes, list)
      PROVE  GrantInv'
  <2>1. [kind |-> "client", active |-> TRUE, secret |-> 1, scopes |-> scopes,
         domains |-> Open] \in MachineRow
    BY <1>1, <1>3 DEF MachineRow
  <2>2. QED
    BY <1>4, <1>5, <2>1 DEF CreateClient
<1>6. ASSUME NEW key \in 0..1, NEW scopes \in SUBSET Scopes, NEW list \in Lists,
             CreateAnchor(key, scopes, list)
      PROVE  GrantInv'
  <2>1. key \in 0..MaxSecrets
    BY <1>1
  <2>2. [kind |-> "anchor", active |-> TRUE, secret |-> key, scopes |-> scopes,
         domains |-> list] \in MachineRow
    BY <2>1 DEF MachineRow
  <2>3. QED
    BY <1>4, <1>6, <2>2 DEF CreateAnchor
<1>7. ASSUME NEW scopes \in SUBSET Scopes, NEW active \in BOOLEAN, NEW list \in Lists,
             UpdateAnchor(scopes, active, list)
      PROVE  GrantInv'
  <2>1. [machine EXCEPT !.scopes = scopes, !.active = active, !.domains = list] \in MachineRow
    BY <1>2 DEF MachineRow
  <2>2. QED
    BY <1>4, <1>7, <2>1 DEF UpdateAnchor, GrantInv
<1>8. CASE DeleteAnchor
  BY <1>4, <1>8, NoMachineType DEF DeleteAnchor, GrantInv
\* Writes that the grants under way note.
<1>9. ASSUME NEW scopes \in SUBSET Scopes, NEW active \in BOOLEAN, NEW list \in Lists,
             UpdateClient(scopes, active, list)
      PROVE  GrantInv'
  <2> DEFINE m == [machine EXCEPT !.scopes = scopes, !.active = active, !.domains = list]
  <2>1. m \in MachineRow /\ m.kind = machine.kind
    BY <1>2 DEF MachineRow
  <2>2. machine.kind = "client" /\ WriteRow(m) /\ UNCHANGED <<handed, creating, mintedToken>>
    BY <1>9 DEF UpdateClient
  <2> HIDE DEF m
  <2>3. QED
    BY <1>0, <1>2, <2>1, <2>2, WriteRowKeeps
<1>10. CASE RestrictClient
  <2> DEFINE m == IF machine.kind # "client" \/ creating = Open THEN machine
                  ELSE [machine EXCEPT !.domains = creating]
  <2>1. creating \in Lists /\ WriteRow(m) /\ handed' = handed \cup {1} /\ creating' = "done"
        /\ UNCHANGED mintedToken
    BY <1>10 DEF RestrictClient
  <2>2. m \in MachineRow /\ m.kind = machine.kind
    BY <1>2, <2>1 DEF MachineRow
  <2> HIDE DEF m
  <2>3. CASE machine.kind # "anchor"
    <3>1. handed' \subseteq 1..MaxSecrets
      BY <1>1, <1>2, <2>1
    <3>2. QED
      BY <2>1, <2>2, <2>3, <3>1, WriteRowKeeps
  <2>4. CASE machine.kind = "anchor"
    BY <1>3, <2>1, <2>4 DEF GrantInv
  <2>5. QED
    BY <2>3, <2>4
<1>11. CASE RotateSecret
  <2> DEFINE m == [machine EXCEPT !.secret = @ + 1]
  <2>1. /\ machine.kind = "client" /\ machine.secret < MaxSecrets /\ WriteRow(m)
        /\ handed' = handed \cup {machine.secret + 1} /\ UNCHANGED <<creating, mintedToken>>
    BY <1>11 DEF RotateSecret
  <2>2. machine.secret + 1 \in 1..MaxSecrets /\ machine.secret + 1 \in 0..MaxSecrets
    BY <1>1, <1>2, <2>1 DEF MachineRow
  <2>3. m \in MachineRow /\ m.kind = machine.kind
    BY <1>2, <2>2 DEF MachineRow
  <2> HIDE DEF m
  <2>4. QED
    BY <1>0, <1>2, <2>1, <2>2, <2>3, WriteRowKeeps
<1>12. CASE DeleteClient
  BY <1>0, <1>2, <1>12, NoMachineType, WriteRowKeeps DEF DeleteClient
\* The token endpoint.
<1>13. ASSUME NEW t \in GrantThreads, NEW g \in Grant, grant' = [grant EXCEPT ![t] = g],
              UNCHANGED <<machine, handed, creating>>, mintedToken' = mintedToken \/ GrantKeepsRestriction',
              mintedToken' \in Minted, handed # {} \/ grant[t].pc # "free", Noted(g, machine)
       PROVE  GrantInv'
  <2>1. creating # "pending" /\ machine.kind # "anchor"
    BY <1>13 DEF GrantInv
  <2>2. GrantTypeOK'
    BY <1>2, <1>13 DEF GrantTypeOK, MachineRow, Grant, Minted
  <2>3. \A u \in GrantThreads : grant'[u] = IF u = t THEN g ELSE grant[u]
    BY <1>2, <1>13
  <2>4. \A u \in GrantThreads : Noted(grant'[u], machine')
    BY <1>13, <2>3 DEF GrantInv
  <2>5. GrantKeepsRestriction'
    BY <1>13 DEF GrantInv, GrantKeepsRestriction
  <2>6. QED
    BY <1>13, <2>1, <2>2, <2>4, <2>5 DEF GrantInv
<1>14. ASSUME NEW t \in GrantThreads, NEW secret \in 1..MaxSecrets, NEW scopes \in SUBSET Scopes,
              RequestToken(t, secret, scopes)
       PROVE  GrantInv'
  <2> DEFINE g == [NoGrant EXCEPT !.pc = "verify", !.secret = secret, !.scopes = scopes]
  <2>0. secret \in 0..MaxSecrets
    BY <1>1
  <2>1. g \in Grant /\ g.pc = "verify"
    BY <2>0, NoMachineType DEF Grant
  <2>2. Noted(g, machine)
    BY <2>1 DEF Noted
  <2>3. /\ grant' = [grant EXCEPT ![t] = g] /\ handed # {}
        /\ UNCHANGED <<machine, handed, creating, mintedToken>>
    BY <1>14 DEF RequestToken
  <2> HIDE DEF g
  <2>4. mintedToken' \in Minted
    BY <2>3 DEF GrantInv, GrantTypeOK, Minted
  <2>5. QED
    BY <1>13, <2>1, <2>2, <2>3, <2>4
<1>15. ASSUME NEW t \in GrantThreads, VerifyClient(t) PROVE GrantInv'
  <2>1. grant[t] \in Grant /\ grant[t].pc = "verify" /\ mintedToken \in Minted
    BY <1>2, <1>15 DEF VerifyClient, GrantInv, GrantTypeOK, Minted
  <2>2. UNCHANGED <<machine, handed, creating, mintedToken>>
    BY <1>15 DEF VerifyClient
  <2>3. CASE grant' = [grant EXCEPT ![t] = NoGrant]
    BY <1>13, <2>1, <2>2, <2>3, NoMachineType
  <2>4. CASE machine.active /\ \E granted \in SUBSET Scopes :
               grant' = [grant EXCEPT ![t] = [grant[t] EXCEPT !.pc = "domains", !.secret = 0,
                                              !.scopes = granted, !.seen = {machine.domains}]]
    <3>1. PICK granted \in SUBSET Scopes :
               grant' = [grant EXCEPT ![t] = [grant[t] EXCEPT !.pc = "domains", !.secret = 0,
                                              !.scopes = granted, !.seen = {machine.domains}]]
      BY <2>4
    <3> DEFINE g == [grant[t] EXCEPT !.pc = "domains", !.secret = 0,
                                     !.scopes = granted, !.seen = {machine.domains}]
    <3>2. g \in Grant /\ g.seen = {machine.domains}
      BY <1>1, <1>2, <2>1 DEF Grant, MachineRow
    <3>3. grant' = [grant EXCEPT ![t] = g]
      BY <3>1
    <3> HIDE DEF g
    <3>4. Noted(g, machine)
      BY <2>4, <3>2 DEF Noted
    <3>5. QED
      BY <1>13, <2>1, <2>2, <3>2, <3>3, <3>4
  <2>5. QED
    BY <1>2, <1>15, <2>1, <2>3, <2>4 DEF VerifyClient, MachineRow, Grant
<1>16. ASSUME NEW t \in GrantThreads, MintToken(t) PROVE GrantInv'
  <2>1. /\ grant[t] \in Grant /\ grant[t].pc = "domains"
        /\ grant' = [grant EXCEPT ![t] = NoGrant] /\ UNCHANGED <<machine, handed, creating>>
        /\ mintedToken' = [domains |-> Allowed(machine), scopes |-> grant[t].scopes,
                          seen |-> grant[t].seen, ended |-> grant[t].ended]
    BY <1>2, <1>16 DEF MintToken
  <2>2. Allowed(machine) \in Lists
    BY <1>2, <1>3 DEF Allowed, MachineRow
  <2>3. mintedToken' \in Minted
    BY <2>1, <2>2 DEF Minted, Grant
  <2>4. grant[t].ended \/ Allowed(machine) \in grant[t].seen
    BY <2>1 DEF GrantInv, Noted, Allowed
  <2>5. GrantKeepsRestriction'
    BY <2>1, <2>4 DEF GrantKeepsRestriction
  <2>6. QED
    BY <1>13, <2>1, <2>3, <2>5, NoMachineType
<1>17. ASSUME NEW scopes \in SUBSET Scopes, ExchangeToken(scopes) PROVE GrantInv'
  <2>1. /\ machine.active /\ UNCHANGED <<machine, handed, creating, grant>>
        /\ mintedToken' = [domains |-> Allowed(machine), seen |-> {machine.domains}, ended |-> FALSE,
                          scopes |-> IF scopes = {} THEN machine.scopes ELSE scopes]
    BY <1>17 DEF ExchangeToken, Validated
  <2>2. Allowed(machine) = machine.domains
    BY <2>1 DEF Allowed
  <2>3. mintedToken' \in Minted /\ GrantKeepsRestriction'
    BY <1>2, <2>1, <2>2 DEF Minted, MachineRow, GrantKeepsRestriction
  <2>4. QED
    BY <2>1, <2>3 DEF GrantInv, GrantTypeOK, Minted
<1>18. CASE UNCHANGED grantVars
  BY <1>18 DEF grantVars, GrantInv, GrantTypeOK, GrantKeepsRestriction
<1>19. QED
  BY <1>5, <1>6, <1>7, <1>8, <1>9, <1>10, <1>11, <1>12, <1>14, <1>15, <1>16, <1>17, <1>18
  DEF GrantNext

\* The token endpoint never drops an allow-list: a token carries one that the
\* row held while the grant was under way, except when the row was deactivated
\* or deleted between the two reads.
THEOREM GrantRestricted == GrantSpec => []GrantKeepsRestriction
<1>1. GrantInv => GrantKeepsRestriction
  BY DEF GrantInv
<1>2. QED
  BY <1>1, GrantInvInit, GrantInvNext, PTL DEF GrantSpec

\* Every reachable state of the token endpoint is well typed.
THEOREM GrantTypeCorrect == GrantSpec => []GrantTypeOK
<1>1. GrantInv => GrantTypeOK
  BY DEF GrantInv
<1>2. QED
  BY <1>1, GrantInvInit, GrantInvNext, PTL DEF GrantSpec

-----------------------------------------------------------------------------
(* The second factor. *)

Account == [on : BOOLEAN, secret : 0..SecretCount, enrol : 0..MaxEnrol,
            codes : SUBSET RecoveryCodes, last : 0..MaxCounter]

FactorRecord ==
    [pc : {"free", "enable", "codes", "replay", "advance", "list", "spend", "off"},
     op : {"activate", "disable", "verify"}, secret : 0..SecretCount,
     enrol : 0..MaxEnrol, recovery : RecoveryCodes \cup {NoCode},
     list : SUBSET RecoveryCodes, now : 0..MaxCounter]

FactorRequest ==
    {f \in FactorRecord : f.pc \in {"enable", "codes"} => f.enrol \in 1..MaxEnrol}

FactorTypes ==
    /\ account \in Account /\ enrolled \in 0..MaxEnrol /\ counter \in 1..MaxCounter
    /\ factor \in [FactorThreads -> FactorRequest] /\ factorsMet \in BOOLEAN

\* The row: without a second factor it is blank, with one its codes are those
\* of its enrolment, and whatever was accepted is of an earlier enrolment, or
\* a window that mfa_last_totp_counter has passed, or off the list.
RowInv(a, en, us, re) ==
    /\ ~a.on => a.codes = {}
    /\ a.on => a.codes \subseteq CodesOf(a.enrol) /\ a.enrol \in 0..en
    /\ \A w : <<"window", w>> \in us =>
          w[1] \in 0..en /\ (a.on /\ w[1] = a.enrol => w[2] \in 0..a.last)
    /\ \A c : <<"recovery", c>> \in us => c[1] \in 0..en /\ c \notin a.codes
    /\ re = {}

\* What a request knows of the row, and of what was accepted, between two of
\* its statements.
RequestInv(f, a, en, us) ==
    /\ f.pc = "enable" => a.codes = {} /\ f.enrol \in 0..en
    /\ f.pc = "codes" => a.on /\ f.enrol = a.enrol
    /\ f.pc \in {"enable", "codes"} =>
          \A x : <<"window", x>> \in us \/ <<"recovery", x>> \in us => x[1] # f.enrol
    /\ f.pc \in {"replay", "advance", "list", "spend"} => a.on
    /\ f.pc \in {"replay", "advance"} => f.enrol = a.enrol
    /\ f.pc = "advance" => f.now > a.last
    /\ f.pc = "spend" => f.list = a.codes /\ f.recovery \in f.list

FactorInv ==
    /\ FactorTypes
    /\ ~factorsMet =>
          /\ \A t, u \in FactorThreads : factor[t].pc # "free" /\ factor[u].pc # "free" => t = u
          /\ RowInv(account, enrolled, used, reused)
          /\ \A t \in FactorThreads : RequestInv(factor[t], account, enrolled, used)

LEMMA FactorNats ==
    /\ MaxEnrol \in Nat /\ 0 \in 0..MaxEnrol /\ SecretCount \in Nat /\ 0 \in 0..SecretCount
    /\ MaxCounter \in Nat /\ 0 \in 0..MaxCounter /\ 1 \in 1..MaxCounter
BY FactorAssumption

LEMMA NoFactorType ==
    /\ NoFactor \in FactorRequest /\ NoFactor.pc = "free"
    /\ \A a, en, us : RequestInv(NoFactor, a, en, us)
<1>1. NoFactor \in FactorRequest /\ NoFactor.pc = "free"
  BY FactorNats DEF NoFactor, FactorRequest, FactorRecord
<1>2. QED
  BY <1>1 DEF RequestInv

LEMMA CodesOfType ==
    /\ \A e \in 1..MaxEnrol : CodesOf(e) \subseteq RecoveryCodes
    /\ \A e : \A c \in CodesOf(e) : c[1] = e
BY DEF CodesOf, RecoveryCodes

LEMMA FactorInvInit == FactorInit => FactorInv
<1> SUFFICES ASSUME FactorInit PROVE FactorInv
  OBVIOUS
<1>1. Plain \in Account /\ ~Plain.on /\ Plain.codes = {}
  BY FactorNats DEF Plain, Account
<1>2. FactorTypes
  BY <1>1, FactorNats, NoFactorType DEF FactorInit, FactorTypes
<1>3. RowInv(account, enrolled, used, reused)
  BY <1>1 DEF FactorInit, RowInv
<1>4. QED
  BY <1>2, <1>3, NoFactorType DEF FactorInit, FactorInv

\* A request begins. Unless it meets another, it is then the only one.
LEMMA BeginsKeeps ==
    ASSUME FactorInv, NEW t \in FactorThreads, NEW f \in FactorRequest, Begins(t, f),
           UNCHANGED <<account, counter>>, enrolled' \in 0..MaxEnrol, enrolled' >= enrolled,
           RowInv(account, enrolled, used, reused) => RequestInv(f, account, enrolled', used)
    PROVE  FactorInv'
<1>1. /\ factor \in [FactorThreads -> FactorRequest] /\ factor' = [factor EXCEPT ![t] = f]
      /\ factorsMet' = (factorsMet \/ \E u \in FactorThreads : factor[u].pc # "free")
      /\ enrolled \in Nat
  BY FactorNats DEF Begins, FactorInv, FactorTypes
<1>2. factorsMet' \in BOOLEAN
  BY <1>1
<1>3. FactorTypes'
  BY <1>1, <1>2 DEF FactorInv, FactorTypes
<1>4. ASSUME ~factorsMet'
      PROVE  /\ \A v, u \in FactorThreads : factor'[v].pc # "free" /\ factor'[u].pc # "free" => v = u
             /\ RowInv(account', enrolled', used', reused')
             /\ \A u \in FactorThreads : RequestInv(factor'[u], account', enrolled', used')
  <2>1. ~factorsMet /\ \A u \in FactorThreads : factor[u].pc = "free"
    BY <1>1, <1>4
  <2>2. used' = used /\ reused' = reused
    BY <1>4 DEF Begins
  <2>3. RowInv(account, enrolled, used, reused) /\ \A u \in FactorThreads : RequestInv(factor[u], account, enrolled, used)
    BY <2>1 DEF FactorInv
  <2>4. RowInv(account', enrolled', used', reused')
    BY <1>1, <2>2, <2>3, FactorNats DEF RowInv
  <2>5. \A u \in FactorThreads : factor'[u] = IF u = t THEN f ELSE factor[u]
    BY <1>1
  <2>6. \A u \in FactorThreads : u # t => RequestInv(factor'[u], account', enrolled', used')
    BY <2>1, <2>5 DEF RequestInv
  <2>7. RequestInv(factor'[t], account', enrolled', used')
    BY <2>2, <2>3, <2>5
  <2>8. QED
    BY <2>1, <2>4, <2>5, <2>6, <2>7
<1>5. QED
  BY <1>3, <1>4 DEF FactorInv

\* A request goes on. Unless it met another, the others are free.
LEMMA ContinueKeeps ==
    ASSUME FactorInv, NEW t \in FactorThreads, factor[t].pc # "free",
           NEW f \in FactorRequest, Continue(t, f),
           account' \in Account, UNCHANGED <<enrolled, counter>>,
           ~factorsMet /\ RowInv(account, enrolled, used, reused) /\ RequestInv(factor[t], account, enrolled, used)
             => RowInv(account', enrolled, used', reused') /\ RequestInv(f, account', enrolled, used')
    PROVE  FactorInv'
<1>1. /\ factor \in [FactorThreads -> FactorRequest] /\ factor' = [factor EXCEPT ![t] = f]
      /\ factorsMet' = factorsMet
  BY DEF Continue, FactorInv, FactorTypes
<1>2. FactorTypes'
  BY <1>1 DEF FactorInv, FactorTypes
<1>3. ASSUME ~factorsMet
      PROVE  /\ \A v, u \in FactorThreads : factor'[v].pc # "free" /\ factor'[u].pc # "free" => v = u
             /\ RowInv(account', enrolled', used', reused')
             /\ \A u \in FactorThreads : RequestInv(factor'[u], account', enrolled', used')
  <2>1. /\ RowInv(account, enrolled, used, reused) /\ RequestInv(factor[t], account, enrolled, used)
        /\ \A u \in FactorThreads : u # t => factor[u].pc = "free"
    BY <1>3 DEF FactorInv
  <2>2. RowInv(account', enrolled', used', reused') /\ RequestInv(f, account', enrolled, used')
    BY <1>3, <2>1
  <2>3. \A u \in FactorThreads : factor'[u] = IF u = t THEN f ELSE factor[u]
    BY <1>1
  <2>4. \A u \in FactorThreads : u # t => RequestInv(factor'[u], account', enrolled', used')
    BY <2>1, <2>3 DEF RequestInv
  <2>5. QED
    BY <2>1, <2>2, <2>3, <2>4
<1>4. QED
  BY <1>1, <1>2, <1>3 DEF FactorInv

\* A refused TOTP code leaves the recovery code to be tried, of a row that has
\* a second factor.
LEMMA OrRecoveryType ==
    ASSUME NEW f \in FactorRecord
    PROVE  /\ OrRecovery(f) \in FactorRequest
           /\ \A a, en, us : a.on => RequestInv(OrRecovery(f), a, en, us)
<1>1. CASE f.recovery = NoCode
  BY <1>1, NoFactorType DEF OrRecovery
<1>2. CASE f.recovery # NoCode
  <2> DEFINE g == [f EXCEPT !.pc = "list", !.enrol = 0]
  <2>1. g \in FactorRecord /\ g.pc = "list"
    BY FactorNats DEF FactorRecord
  <2>2. OrRecovery(f) = g
    BY <1>2 DEF OrRecovery
  <2> HIDE DEF g
  <2>3. QED
    BY <2>1, <2>2 DEF FactorRequest, RequestInv
<1>3. QED
  BY <1>1, <1>2

LEMMA FactorInvNext == FactorInv /\ [FactorNext]_factorVars => FactorInv'
<1> SUFFICES ASSUME FactorInv, [FactorNext]_factorVars PROVE FactorInv'
  OBVIOUS
<1>1. /\ account \in Account /\ enrolled \in 0..MaxEnrol /\ counter \in 1..MaxCounter
      /\ factor \in [FactorThreads -> FactorRequest]
  BY DEF FactorInv, FactorTypes
<1>2. \A t \in FactorThreads : factor[t] \in FactorRecord /\ factor[t] \in FactorRequest
  BY <1>1 DEF FactorRequest
<1>3. ASSUME NEW t \in FactorThreads, NEW secret \in 1..SecretCount, Activate(t, secret) PROVE FactorInv'
  <2> DEFINE f == [NoFactor EXCEPT !.pc = "enable", !.op = "activate",
                                 !.secret = secret, !.enrol = enrolled + 1]
  <2>1. ~account.on /\ enrolled' = enrolled + 1 /\ Begins(t, f) /\ UNCHANGED <<account, counter>>
    BY <1>3 DEF Activate
  <2>2. enrolled + 1 \in 1..MaxEnrol /\ enrolled + 1 \in 0..MaxEnrol /\ enrolled \in Nat
    BY <1>1, <1>3, FactorNats DEF Activate
  <2>3. NoFactor \in FactorRecord /\ secret \in 0..SecretCount
    BY NoFactorType, FactorNats DEF FactorRequest
  <2>4. f \in FactorRecord /\ f.pc = "enable" /\ f.enrol = enrolled + 1
    BY <2>2, <2>3 DEF FactorRecord
  <2> HIDE DEF f
  <2>5. f \in FactorRequest
    BY <2>2, <2>4 DEF FactorRequest
  <2>6. RowInv(account, enrolled, used, reused) => RequestInv(f, account, enrolled', used)
    BY <2>1, <2>2, <2>4 DEF RowInv, RequestInv
  <2>7. enrolled' \in 0..MaxEnrol /\ enrolled' >= enrolled
    BY <2>1, <2>2
  <2>8. QED
    BY <2>1, <2>5, <2>6, <2>7, BeginsKeeps
<1>4. ASSUME NEW t \in FactorThreads, Enable(t) PROVE FactorInv'
  <2> DEFINE f == [factor[t] EXCEPT !.pc = "codes"]
             a == [account EXCEPT !.on = TRUE, !.secret = factor[t].secret,
                                   !.enrol = factor[t].enrol]
  <2>1. /\ factor[t].pc = "enable" /\ account' = a /\ Continue(t, f)
        /\ UNCHANGED <<enrolled, counter, used, reused>>
    BY <1>4 DEF Enable
  <2>2. f \in FactorRecord /\ f.pc = "codes" /\ f.enrol = factor[t].enrol
    BY <1>2 DEF FactorRecord
  <2>3. /\ a \in Account /\ a.on /\ a.enrol = factor[t].enrol
        /\ a.codes = account.codes /\ a.last = account.last
    BY <1>1, <1>2 DEF FactorRecord, Account
  <2> HIDE DEF f, a
  <2>4. f \in FactorRequest
    BY <1>2, <2>1, <2>2 DEF FactorRequest
  <2>5. RowInv(account, enrolled, used, reused) /\ RequestInv(factor[t], account, enrolled, used)
        => RowInv(a, enrolled, used, reused) /\ RequestInv(f, a, enrolled, used)
    BY <2>1, <2>2, <2>3 DEF RowInv, RequestInv
  <2>6. QED
    BY <2>1, <2>3, <2>4, <2>5, ContinueKeeps
<1>5. ASSUME NEW t \in FactorThreads, StoreRecoveryCodes(t) PROVE FactorInv'
  <2> DEFINE a == [account EXCEPT !.codes = CodesOf(factor[t].enrol)]
  <2>1. /\ factor[t].pc = "codes" /\ account' = a /\ Continue(t, NoFactor)
        /\ UNCHANGED <<enrolled, counter, used, reused>>
    BY <1>5 DEF StoreRecoveryCodes
  <2>2. CodesOf(factor[t].enrol) \subseteq RecoveryCodes
    BY <1>2, <2>1, CodesOfType DEF FactorRequest
  <2>3. /\ a \in Account /\ a.on = account.on /\ a.enrol = account.enrol
        /\ a.codes = CodesOf(factor[t].enrol) /\ a.last = account.last
    BY <1>1, <2>2 DEF Account
  <2> HIDE DEF a
  <2>4. ASSUME RowInv(account, enrolled, used, reused), RequestInv(factor[t], account, enrolled, used)
        PROVE  RowInv(a, enrolled, used, reused)
    <3>1. account.on /\ factor[t].enrol = account.enrol
      BY <2>1, <2>4 DEF RequestInv
    <3>2. a.on
      BY <2>3, <3>1
    <3>3. \A c : <<"recovery", c>> \in used => c[1] # factor[t].enrol
      BY <2>1, <2>4 DEF RequestInv
    <3>4. \A c : <<"recovery", c>> \in used => c[1] \in 0..enrolled /\ c \notin a.codes
      BY <2>3, <2>4, <3>3, CodesOfType DEF RowInv
    <3>5. QED
      BY <2>3, <2>4, <3>1, <3>2, <3>4 DEF RowInv
  <2>5. QED
    BY <2>1, <2>3, <2>4, NoFactorType, ContinueKeeps
<1>6. ASSUME NEW t \in FactorThreads, NEW op \in {"verify", "disable"},
             NEW totp \in TotpCodes \cup {NoCode}, NEW recovery \in RecoveryCodes \cup {NoCode},
             Offer(t, op, totp, recovery)
      PROVE  FactorInv'
  <2> DEFINE f == [NoFactor EXCEPT !.op = op, !.enrol = account.enrol, !.recovery = recovery]
             g == [f EXCEPT !.pc = "replay"]
             h == [NoFactor EXCEPT !.pc = "off"]
  <2>1. NoFactor \in FactorRecord
    BY NoFactorType DEF FactorRequest
  <2>2. f \in FactorRecord /\ f.enrol = account.enrol
    BY <1>1, <2>1 DEF FactorRecord, Account
  <2>3. h \in FactorRecord /\ h.pc = "off"
    BY <2>1 DEF FactorRecord
  <2>4. account.on /\ UNCHANGED <<account, enrolled, counter>>
        /\ (Begins(t, OrRecovery(f)) \/ Begins(t, g) \/ Begins(t, h))
    BY <1>6 DEF Offer
  <2> HIDE DEF f
  <2>5. g \in FactorRecord /\ g.pc = "replay" /\ g.enrol = account.enrol
    BY <2>2 DEF FactorRecord
  <2> HIDE DEF g, h
  <2>6. g \in FactorRequest /\ h \in FactorRequest
    BY <2>3, <2>5 DEF FactorRequest
  <2>7. /\ RequestInv(OrRecovery(f), account, enrolled', used)
        /\ RequestInv(g, account, enrolled', used) /\ RequestInv(h, account, enrolled', used)
    BY <2>2, <2>3, <2>4, <2>5, OrRecoveryType DEF RequestInv
  <2>8. enrolled' \in 0..MaxEnrol /\ enrolled' >= enrolled
    BY <1>1, <2>4, FactorNats
  <2>9. OrRecovery(f) \in FactorRequest
    BY <2>2, OrRecoveryType
  <2>10. QED
    BY <2>4, <2>6, <2>7, <2>8, <2>9, BeginsKeeps
<1>7. ASSUME NEW t \in FactorThreads, CheckTotpReplay(t) PROVE FactorInv'
  <2> DEFINE g == [factor[t] EXCEPT !.pc = "advance", !.now = counter]
  <2>1. factor[t].pc = "replay" /\ UNCHANGED <<account, enrolled, counter, used, reused>>
    BY <1>7 DEF CheckTotpReplay
  <2>2. CASE Continue(t, OrRecovery(factor[t]))
    <3>1. RequestInv(factor[t], account, enrolled, used)
          => RequestInv(OrRecovery(factor[t]), account, enrolled, used)
      BY <1>2, <2>1, OrRecoveryType DEF RequestInv
    <3>2. OrRecovery(factor[t]) \in FactorRequest
      BY <1>2, OrRecoveryType
    <3>3. QED
      BY <1>1, <2>1, <2>2, <3>1, <3>2, ContinueKeeps
  <2>3. CASE Continue(t, g) /\ counter > account.last
    <3>1. counter \in 0..MaxCounter
      BY <1>1, FactorNats
    <3>2. g \in FactorRecord /\ g.pc = "advance" /\ g.now = counter /\ g.enrol = factor[t].enrol
      BY <1>2, <3>1 DEF FactorRecord
    <3> HIDE DEF g
    <3>3. RequestInv(factor[t], account, enrolled, used) => RequestInv(g, account, enrolled, used)
      BY <2>1, <2>3, <3>2 DEF RequestInv
    <3>4. g \in FactorRequest
      BY <3>2 DEF FactorRequest
    <3>5. QED
      BY <1>1, <2>1, <2>3, <3>3, <3>4, ContinueKeeps
  <2>4. (counter <= account.last) \/ counter > account.last
    BY <1>1, FactorNats DEF Account
  <2>5. QED
    BY <1>7, <2>2, <2>3, <2>4 DEF CheckTotpReplay
<1>8. ASSUME NEW t \in FactorThreads, AdvanceCounter(t) PROVE FactorInv'
  <2> DEFINE f == factor[t]
             a == [account EXCEPT !.last = f.now]
             w == <<f.enrol, f.now>>
  <2>1. /\ f.pc = "advance" /\ account' = a /\ Continue(t, NoFactor) /\ UNCHANGED <<enrolled, counter>>
        /\ AcceptCode({<<"window", w>>})
    BY <1>8 DEF AdvanceCounter
  <2>2. f \in FactorRecord /\ f.now \in 0..MaxCounter /\ account.last \in Nat /\ f.now \in Nat
    BY <1>1, <1>2, FactorNats DEF FactorRecord, Account
  <2>3. /\ a \in Account /\ a.on = account.on /\ a.enrol = account.enrol
        /\ a.codes = account.codes /\ a.last = f.now
    BY <1>1, <2>2 DEF Account
  <2>4. ASSUME ~factorsMet, RowInv(account, enrolled, used, reused), RequestInv(f, account, enrolled, used)
        PROVE  RowInv(a, enrolled, used', reused')
    <3>1. /\ used' = used \cup {<<"window", w>>}
          /\ reused' = reused \cup (used \cap {<<"window", w>>})
      BY <2>1, <2>4 DEF AcceptCode
    <3>2. account.on /\ f.enrol = account.enrol /\ f.now > account.last /\ w[1] = f.enrol /\ w[2] = f.now
      BY <2>1, <2>4 DEF RequestInv
    <3> HIDE DEF a, w
    <3>3. <<"window", w>> \notin used
      BY <2>2, <2>4, <3>2 DEF RowInv
    <3>4. reused' = {}
      BY <2>4, <3>1, <3>3 DEF RowInv
    <3>5. \A c : <<"recovery", c>> \in used' => <<"recovery", c>> \in used
      BY <3>1
    <3>6. \A x : <<"window", x>> \in used' => x = w \/ <<"window", x>> \in used
      BY <3>1
    <3>7. \A x : <<"window", x>> \in used' =>
             x[1] \in 0..enrolled /\ (a.on /\ x[1] = a.enrol => x[2] \in 0..a.last)
      BY <2>2, <2>3, <2>4, <3>2, <3>6 DEF RowInv
    <3>8. QED
      BY <2>3, <2>4, <3>4, <3>5, <3>7 DEF RowInv
  <2>5. QED
    BY <2>1, <2>3, <2>4, NoFactorType, ContinueKeeps
<1>9. ASSUME NEW t \in FactorThreads, ReadRecoveryCodes(t) PROVE FactorInv'
  <2> DEFINE g == [factor[t] EXCEPT !.pc = "spend", !.list = account.codes]
  <2>1. factor[t].pc = "list" /\ UNCHANGED <<account, enrolled, counter, used, reused>>
    BY <1>9 DEF ReadRecoveryCodes
  <2>2. CASE Continue(t, NoFactor)
    BY <1>1, <2>1, <2>2, NoFactorType, ContinueKeeps
  <2>3. CASE Continue(t, g) /\ factor[t].recovery \in account.codes
    <3>1. g \in FactorRecord /\ g.pc = "spend" /\ g.list = account.codes
          /\ g.recovery = factor[t].recovery
      BY <1>1, <1>2 DEF FactorRecord, Account
    <3> HIDE DEF g
    <3>2. RequestInv(factor[t], account, enrolled, used) => RequestInv(g, account, enrolled, used)
      BY <2>1, <2>3, <3>1 DEF RequestInv
    <3>3. g \in FactorRequest
      BY <3>1 DEF FactorRequest
    <3>4. QED
      BY <1>1, <2>1, <2>3, <3>2, <3>3, ContinueKeeps
  <2>4. QED
    BY <1>9, <2>2, <2>3 DEF ReadRecoveryCodes
<1>10. ASSUME NEW t \in FactorThreads, SpendRecoveryCode(t) PROVE FactorInv'
  <2> DEFINE f == factor[t]
             a == [account EXCEPT !.codes = f.list \ {f.recovery}]
             g == IF f.op = "disable" THEN [NoFactor EXCEPT !.pc = "off"] ELSE NoFactor
  <2>1. /\ f.pc = "spend" /\ account' = a /\ Continue(t, g) /\ UNCHANGED <<enrolled, counter>>
        /\ AcceptCode({<<"recovery", f.recovery>>})
    BY <1>10 DEF SpendRecoveryCode
  <2>2. /\ a \in Account /\ a.on = account.on /\ a.enrol = account.enrol
        /\ a.codes = f.list \ {f.recovery} /\ a.last = account.last
    BY <1>1, <1>2 DEF Account, FactorRecord
  <2>3. g \in FactorRecord /\ g.pc \in {"off", "free"}
    BY NoFactorType DEF FactorRequest, FactorRecord
  <2> HIDE DEF g, a
  <2>4. g \in FactorRequest /\ RequestInv(g, account', enrolled, used')
    BY <2>3 DEF FactorRequest, RequestInv
  <2>5. ASSUME ~factorsMet, RowInv(account, enrolled, used, reused), RequestInv(f, account, enrolled, used)
        PROVE  RowInv(a, enrolled, used', reused')
    <3>1. /\ used' = used \cup {<<"recovery", f.recovery>>}
          /\ reused' = reused \cup (used \cap {<<"recovery", f.recovery>>})
      BY <2>1, <2>5 DEF AcceptCode
    <3>2. account.on /\ f.list = account.codes /\ f.recovery \in account.codes
      BY <2>1, <2>5 DEF RequestInv
    <3>3. f.recovery[1] = account.enrol /\ account.enrol \in 0..enrolled
      BY <2>5, <3>2, CodesOfType DEF RowInv
    <3>4. <<"recovery", f.recovery>> \notin used
      BY <2>5, <3>2 DEF RowInv
    <3>5. reused' = reused
      BY <3>1, <3>4
    <3>6. \A x : <<"window", x>> \in used' => <<"window", x>> \in used
      BY <3>1
    <3>7. \A c : <<"recovery", c>> \in used' => c = f.recovery \/ <<"recovery", c>> \in used
      BY <3>1
    <3>8. \A c : <<"recovery", c>> \in used' => c[1] \in 0..enrolled /\ c \notin a.codes
      BY <2>2, <2>5, <3>2, <3>3, <3>7 DEF RowInv
    <3>9. QED
      BY <2>2, <2>5, <3>2, <3>5, <3>6, <3>8 DEF RowInv
  <2>6. QED
    BY <2>1, <2>2, <2>4, <2>5, ContinueKeeps
<1>11. ASSUME NEW t \in FactorThreads, TurnOff(t) PROVE FactorInv'
  <2>1. /\ factor[t].pc = "off" /\ account' = Plain /\ Continue(t, NoFactor)
        /\ UNCHANGED <<enrolled, counter, used, reused>>
    BY <1>11 DEF TurnOff
  <2>2. Plain \in Account /\ ~Plain.on /\ Plain.codes = {}
    BY FactorNats DEF Plain, Account
  <2>3. RowInv(account, enrolled, used, reused) => RowInv(Plain, enrolled, used, reused)
    BY <2>2 DEF RowInv
  <2>4. QED
    BY <2>1, <2>2, <2>3, NoFactorType, ContinueKeeps
<1>12. ASSUME NEW t \in FactorThreads, DropFactor(t) PROVE FactorInv'
  BY <1>1, <1>12, NoFactorType, ContinueKeeps DEF DropFactor
<1>13. CASE NextCounter
  <2>1. counter' \in 1..MaxCounter /\ UNCHANGED <<account, enrolled, factor, used, reused, factorsMet>>
    BY <1>1, <1>13, FactorNats DEF NextCounter
  <2>2. QED
    BY <2>1 DEF FactorInv, FactorTypes
<1>14. CASE UNCHANGED factorVars
  BY <1>14 DEF factorVars, FactorInv, FactorTypes
<1>15. QED
  BY <1>3, <1>4, <1>5, <1>6, <1>7, <1>8, <1>9, <1>10, <1>11, <1>12, <1>13, <1>14 DEF FactorNext

\* As long as requests did not overlap, no recovery code and no window of an
\* enrolment is accepted twice, over any sequence of enrolments, of new secrets
\* and of old ones, verifications, disables and killed requests.
THEOREM SecondFactorOnce == FactorSpec => []SecondFactorOnceIfSerial
<1>1. FactorInv => SecondFactorOnceIfSerial
  BY DEF FactorInv, RowInv, SecondFactorOnceIfSerial
<1>2. QED
  BY <1>1, FactorInvInit, FactorInvNext, PTL DEF FactorSpec

\* As long as requests did not overlap, the recovery codes on the row are those
\* of its enrolment, although activate writes the two in separate statements.
THEOREM RecoveryCodesMatch == FactorSpec => []RecoveryCodesOfThisEnrolment
<1>1. FactorInv => RecoveryCodesOfThisEnrolment
  BY DEF FactorInv, RowInv, RecoveryCodesOfThisEnrolment
<1>2. QED
  BY <1>1, FactorInvInit, FactorInvNext, PTL DEF FactorSpec

\* Every reachable state of the second factor is well typed.
THEOREM FactorTypeCorrect == FactorSpec => []FactorTypeOK
<1>1. FactorInv => FactorTypeOK
  BY DEF FactorInv, FactorTypes, FactorTypeOK, FactorRequest, FactorRecord, Account
<1>2. QED
  BY <1>1, FactorInvInit, FactorInvNext, PTL DEF FactorSpec
=============================================================================
