----------------------------- MODULE DpopReplay -----------------------------
(***************************************************************************)
(* Replay protection of DPoP proofs (RFC 9449) at the Manager.             *)
(*   services/dpop_service.py   validate_proof, _check_and_record_jti      *)
(*   blueprints/auth.py         token                                      *)
(*   middleware/auth.py         dpop_bound_token                           *)
(*                                                                         *)
(* Requests of several threads carry the same proof. A proof that does not *)
(* parse or verify, or is for another request, is refused before anything  *)
(* is read and is not a step. Purge and insert commit by themselves. The   *)
(* time unit is CLOCK_SKEW_SECONDS.                                        *)
(***************************************************************************)
EXTENDS Integers

CONSTANTS
    ProofThreads,   \* request threads
    Proofs,         \* proofs, by their jti
    Skew,           \* CLOCK_SKEW_SECONDS
    ReplayTtl       \* how long dpop_replay keeps a jti

ASSUME ProofAssumption ==
    /\ Skew \in Nat /\ ReplayTtl \in Nat /\ 2 * Skew < ReplayTtl
    /\ Proofs # {}

VARIABLES
    drift,      \* clock minus the iat of each proof, at most Skew + 1
    replay,     \* dpop_replay: time to expires_at of each jti, Gone without a row
    proving,    \* the check of each thread
    claimed,    \* history: how often each proof was accepted, at most 2
    stalled     \* history: proofs whose check stalled between iat and insert

proofVars == <<drift, replay, proving, claimed, stalled>>

Gone == -2
Ages == 0..(ReplayTtl + 1)
Rest == [pc |-> "free", proof |-> CHOOSE j \in Proofs : TRUE, age |-> 0, since |-> 0]
AtMost(n, m) == IF n < m THEN n ELSE m
AtLeast(n, m) == IF n > m THEN n ELSE m

ProofTypeOK ==
    /\ drift \in [Proofs -> (-Skew)..(Skew + 1)]
    /\ replay \in [Proofs -> Gone..ReplayTtl]
    /\ proving \in [ProofThreads -> [pc : {"free", "purge", "insert"}, proof : Proofs,
                                     age : Ages, since : Ages]]
    /\ claimed \in [Proofs -> 0..2] /\ stalled \subseteq Proofs

\* A client's clock may be ahead by as much as is tolerated.
ProofInit ==
    /\ drift = [j \in Proofs |-> -Skew]
    /\ replay = [j \in Proofs |-> Gone]
    /\ proving = [t \in ProofThreads |-> Rest]
    /\ claimed = [j \in Proofs |-> 0] /\ stalled = {}

\* validate_proof up to _iat_within_skew.
CheckIat(t, j) ==
    /\ proving[t].pc = "free" /\ drift[j] \in (-Skew)..Skew
    /\ proving' = [proving EXCEPT ![t] = [Rest EXCEPT !.pc = "purge", !.proof = j]]
    /\ UNCHANGED <<drift, replay, claimed, stalled>>

\* _check_and_record_jti notes the time and deletes the rows that expired ...
PurgeReplay(t) ==
    /\ proving[t].pc = "purge"
    /\ replay' = [j \in Proofs |-> IF replay[j] < 0 THEN Gone ELSE replay[j]]
    /\ proving' = [proving EXCEPT ![t].pc = "insert"]
    /\ UNCHANGED <<drift, claimed, stalled>>

\* Mutation: the row expires with the tolerated skew.
ExpiryShort(p) == AtLeast(Skew - p.since, -1)

\* What is left, at the insert, of the expiry computed from the time noted.
Expiry(p) == AtLeast(ReplayTtl - p.since, -1)

\* ... and inserts. jti is UNIQUE: the insert decides.
RecordJti(t) ==
    LET p == proving[t] IN
    /\ p.pc = "insert"
    /\ IF replay[p.proof] # Gone THEN UNCHANGED <<replay, claimed, stalled>>
       ELSE /\ replay' = [replay EXCEPT ![p.proof] = Expiry(p)]
            /\ claimed' = [claimed EXCEPT ![p.proof] = AtMost(@ + 1, 2)]
            /\ stalled' = IF p.age > ReplayTtl - 2 * Skew THEN stalled \cup {p.proof} ELSE stalled
    /\ proving' = [proving EXCEPT ![t] = Rest]
    /\ UNCHANGED drift

ProofTick ==
    /\ drift' = [j \in Proofs |-> AtMost(drift[j] + 1, Skew + 1)]
    /\ replay' = [j \in Proofs |-> IF replay[j] = Gone THEN Gone ELSE AtLeast(replay[j] - 1, -1)]
    /\ proving' = [t \in ProofThreads |->
          LET p == proving[t] IN
          [pc |-> p.pc, proof |-> p.proof,
           age |-> IF p.pc = "free" THEN 0 ELSE AtMost(p.age + 1, ReplayTtl + 1),
           since |-> IF p.pc = "insert" THEN AtMost(p.since + 1, ReplayTtl + 1) ELSE 0]]
    /\ UNCHANGED <<claimed, stalled>>

ProofNext ==
    \/ \E t \in ProofThreads :
          (\E j \in Proofs : CheckIat(t, j)) \/ PurgeReplay(t) \/ RecordJti(t)
    \/ ProofTick

ProofSpec == ProofInit /\ [][ProofNext]_proofVars

-----------------------------------------------------------------------------
(* Properties. *)

\* A proof is accepted once, although replay rows expire and are purged while
\* requests are between the check of iat and the insert: a second acceptance
\* needs a request that stalls there for longer than the replay window exceeds
\* the span in which an iat is valid.
ProofSingleUseIfPrompt ==
    \A j \in Proofs : j \notin stalled => claimed[j] <= 1
=============================================================================
