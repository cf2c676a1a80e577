--------------------------- MODULE NtsServerProofs ---------------------------
(***************************************************************************)
(* Proofs about NtsServer: types, CookieHonoured, and that the server      *)
(* implements the lease service CookieLease.                               *)
(***************************************************************************)
EXTENDS NtsServer, TLAPS

\* The keys kept are the current one and, after a rotation, the one before.
KeysKept == keys = {v \in {version, version - 1} : v >= 0}

\* A cookie of the running process that is still live was sealed under the
\* current key, or under the previous one and then expires before the next
\* rotation. No cookie is from a process that has not started.
CookieAge ==
    \A ck \in cookies :
        /\ ck.boot <= boot
        /\ ck.boot = boot /\ ck.left > 0
           => \/ ck.ver = version
              \/ ck.ver = version - 1 /\ ck.left <= Period - slept

NtsInv == NtsTypeOK /\ KeysKept /\ CookieAge

-----------------------------------------------------------------------------
(* The inductive invariant. *)

LEMMA SealedCookie ==
    ASSUME NtsInv, NEW c \in Clients
    PROVE  /\ Sealed(c) \in Cookie
           /\ Sealed(c).boot = boot /\ Sealed(c).ver = version
BY NtsAssumption DEF NtsInv, NtsTypeOK, Sealed, Cookie

\* Handing out one more cookie under the current key keeps the invariant.
LEMMA OneMoreCookie ==
    ASSUME NtsInv, NEW c \in Clients,
           cookies' = cookies \cup {Sealed(c)},
           UNCHANGED <<version, keys, slept, boot, udp>>,
           lastAnswer' \in [live : BOOLEAN, out : {"none", "time", "dropped", "limited"}]
    PROVE  NtsInv'
<1>1. Sealed(c) \in Cookie /\ Sealed(c).boot = boot /\ Sealed(c).ver = version
  BY SealedCookie
<1>2. NtsTypeOK'
  BY <1>1 DEF NtsInv, NtsTypeOK
<1>3. KeysKept'
  BY DEF NtsInv, KeysKept
<1>4. CookieAge'
  BY <1>1 DEF NtsInv, NtsTypeOK, CookieAge
<1> QED BY <1>2, <1>3, <1>4 DEF NtsInv

LEMMA NtsInitInv == NtsInit => NtsInv
BY NtsAssumption DEF NtsInit, NtsInv, NtsTypeOK, KeysKept, CookieAge

LEMMA HandleRequestInv ==
    ASSUME NtsInv, NEW ck \in cookies, NEW genuine \in BOOLEAN, HandleRequest(ck, genuine)
    PROVE  NtsInv'
<1> DEFINE live == genuine /\ ck.boot = boot /\ ck.left > 0
<1>0. ck \in Cookie /\ live \in BOOLEAN
  BY DEF NtsInv, NtsTypeOK
<1>1. UNCHANGED <<version, keys, slept, boot>>
  BY DEF HandleRequest
<1>2. CASE RateLimited(live) \/ Dropped(live)
  <2>1. /\ lastAnswer' \in [live : BOOLEAN, out : {"none", "time", "dropped", "limited"}]
        /\ UNCHANGED <<udp, cookies>>
    <3> HIDE DEF live
    <3> QED BY <1>0, <1>2 DEF RateLimited, Dropped
  <2> QED BY <1>1, <2>1 DEF NtsInv, NtsTypeOK, KeysKept, CookieAge
<1>3. CASE Answered(ck)
  <2>1. ck.client \in Clients
    BY <1>0 DEF Cookie
  <2> QED BY <1>1, <1>3, <2>1, OneMoreCookie DEF Answered
<1>4. CASE Failed
  BY <1>1, <1>4 DEF Failed, NtsInv, NtsTypeOK, KeysKept, CookieAge
<1> QED BY <1>2, <1>3, <1>4 DEF HandleRequest

LEMMA ReceiveFailsInv == NtsInv /\ ReceiveFails => NtsInv'
BY DEF ReceiveFails, Failed, NtsInv, NtsTypeOK, KeysKept, CookieAge

LEMMA RotateKeyInv == NtsInv /\ RotateKey => NtsInv'
<1> SUFFICES ASSUME NtsInv, RotateKey PROVE NtsInv'
  OBVIOUS
<1>1. /\ version \in 0..MaxVersion /\ version < MaxVersion /\ version \in Int
      /\ slept = Period /\ slept > Grace /\ version' = version + 1 /\ slept' = 0
      /\ keys' = (keys \ {version - 1}) \cup {version + 1}
      /\ UNCHANGED <<boot, udp, cookies, lastAnswer>>
  BY NtsAssumption DEF NtsInv, NtsTypeOK, RotateKey
<1>2. keys' = {version, version + 1}
  BY <1>1 DEF NtsInv, KeysKept
<1>3. NtsTypeOK'
  BY <1>1, <1>2, NtsAssumption DEF NtsInv, NtsTypeOK
<1>4. KeysKept'
  BY <1>1, <1>2 DEF KeysKept
<1>5. CookieAge'
  <2> SUFFICES ASSUME NEW ck \in cookies
               PROVE  /\ ck.boot <= boot
                      /\ ck.boot = boot /\ ck.left > 0 => ck.ver = version /\ ck.left <= Period
    BY <1>1, NtsAssumption DEF CookieAge
  <2>1. ck \in Cookie
    BY DEF NtsInv, NtsTypeOK
  <2> QED BY <1>1, <2>1, NtsAssumption DEF NtsInv, CookieAge, Cookie
<1> QED BY <1>3, <1>4, <1>5 DEF NtsInv

LEMMA RestartInv == NtsInv /\ Restart => NtsInv'
<1> SUFFICES ASSUME NtsInv, Restart PROVE NtsInv'
  OBVIOUS
<1>1. \A ck \in cookies : ck.boot \in Int /\ ck.boot <= boot
  BY DEF NtsInv, NtsTypeOK, CookieAge, Cookie
<1>2. NtsTypeOK'
  BY NtsAssumption DEF NtsInv, NtsTypeOK, Restart, Booted
<1>3. KeysKept'
  BY DEF KeysKept, Restart, Booted
<1>4. CookieAge'
  BY <1>1 DEF NtsInv, NtsTypeOK, CookieAge, Restart
<1> QED BY <1>2, <1>3, <1>4 DEF NtsInv

LEMMA OlderCookieFacts ==
    ASSUME NEW ck \in Cookie
    PROVE  /\ OlderCookie(ck) \in Cookie
           /\ OlderCookie(ck).client = ck.client
           /\ OlderCookie(ck).boot = ck.boot /\ OlderCookie(ck).ver = ck.ver
           /\ OlderCookie(ck).left = IF ck.left = 0 THEN 0 ELSE ck.left - 1
BY NtsAssumption DEF OlderCookie, Cookie

LEMMA NtsTickInv == NtsInv /\ NtsTick => NtsInv'
<1> SUFFICES ASSUME NtsInv, NtsTick PROVE NtsInv'
  OBVIOUS
<1>1. \A ck \in cookies : ck \in Cookie
  BY DEF NtsInv, NtsTypeOK
<1>2. cookies' \subseteq Cookie
  BY <1>1, OlderCookieFacts DEF NtsTick
<1>3. NtsTypeOK'
  BY <1>2, NtsAssumption DEF NtsInv, NtsTypeOK, NtsTick
<1>4. KeysKept'
  BY DEF NtsInv, KeysKept, NtsTick
<1>5. CookieAge'
  <2> SUFFICES ASSUME NEW ck \in cookies
               PROVE  LET o == OlderCookie(ck) IN
                      /\ o.boot <= boot
                      /\ o.boot = boot /\ o.left > 0
                         => \/ o.ver = version
                            \/ o.ver = version - 1 /\ o.left <= Period - slept'
    BY DEF CookieAge, NtsTick
  <2>1. ck \in Cookie
    BY <1>1
  <2>2. /\ ck.left \in 0..Lifetime /\ slept \in 0..Period
        /\ slept' = IF slept < Period THEN slept + 1 ELSE Period
    BY <2>1 DEF NtsInv, NtsTypeOK, NtsTick, Cookie
  <2> QED BY <2>1, <2>2, OlderCookieFacts, NtsAssumption DEF NtsInv, CookieAge
<1> QED BY <1>3, <1>4, <1>5 DEF NtsInv

LEMMA NtsNextInv == NtsInv /\ [NtsNext]_ntsVars => NtsInv'
<1> SUFFICES ASSUME NtsInv, [NtsNext]_ntsVars PROVE NtsInv'
  OBVIOUS
<1>1. CASE \E c \in Clients, tok \in AuthToken : HandleClient(c, tok)
  <2> PICK c \in Clients, tok \in AuthToken : HandleClient(c, tok)
    BY <1>1
  <2>1. lastAnswer' \in [live : BOOLEAN, out : {"none", "time", "dropped", "limited"}]
    BY DEF NtsInv, NtsTypeOK, HandleClient
  <2> QED BY <2>1, OneMoreCookie DEF HandleClient
<1>2. CASE \E ck \in cookies, genuine \in BOOLEAN : HandleRequest(ck, genuine)
  BY <1>2, HandleRequestInv
<1>3. CASE RotateKey BY <1>3, RotateKeyInv
<1>4. CASE Restart BY <1>4, RestartInv
<1>5. CASE NtsTick BY <1>5, NtsTickInv
<1>6. CASE ReceiveFails BY <1>6, ReceiveFailsInv
<1>7. CASE UNCHANGED ntsVars
  BY <1>7 DEF ntsVars, NtsInv, NtsTypeOK, KeysKept, CookieAge
<1> QED BY <1>1, <1>2, <1>3, <1>4, <1>5, <1>6, <1>7 DEF NtsNext

\* The invariant holds in every reachable state.
THEOREM NtsInvariant == NtsSpec => []NtsInv
<1> QED BY NtsInitInv, NtsNextInv, PTL DEF NtsSpec

\* Keys, versions, cookies and answers of the NTS server keep their types.
THEOREM NtsTypeCorrect == NtsSpec => []NtsTypeOK
<1>1. NtsInv => NtsTypeOK BY DEF NtsInv
<1> QED BY <1>1, NtsInvariant, PTL

LEMMA InvHonours == NtsInv => CookieHonoured
<1> SUFFICES ASSUME NtsInv, NEW ck \in cookies, ck.boot = boot, ck.left > 0
             PROVE  ck.ver \in keys
  BY DEF CookieHonoured
<1>1. ck.ver \in 0..MaxVersion
  BY DEF NtsInv, NtsTypeOK, Cookie
<1> QED BY <1>1 DEF NtsInv, CookieAge, KeysKept

\* rotate_key keeps every key that a live cookie of the process needs.
THEOREM NtsCookieHonoured == NtsSpec => []CookieHonoured
BY InvHonours, NtsInvariant, PTL

-----------------------------------------------------------------------------
(* Refinement: keys, versions and rotation are hidden, cookies are leases. *)

\* The leases that the cookies of the running process stand for.
LeaseOf(ck) == [client |-> ck.client, left |-> ck.left]
LeasesNow   == {LeaseOf(ck) : ck \in {d \in cookies : d.boot = boot}}

\* A cookie more is a lease more.
LEMMA OneMoreLease ==
    ASSUME NEW c \in Clients, cookies' = cookies \cup {Sealed(c)}, UNCHANGED boot
    PROVE  LeasesNow' = LeasesNow \cup {[client |-> c, left |-> Lifetime]}
<1>1. Sealed(c).boot = boot /\ LeaseOf(Sealed(c)) = [client |-> c, left |-> Lifetime]
  BY DEF Sealed, LeaseOf
<1>2. {d \in cookies : d.boot = boot}' = {d \in cookies : d.boot = boot} \cup {Sealed(c)}
  BY <1>1
<1> QED BY <1>1, <1>2 DEF LeasesNow

\* Time passes for cookies as it does for leases.
LEMMA TickWearsLeases ==
    ASSUME NtsInv, NtsTick
    PROVE  LeasesNow' = {LeaseService!Worn(l) : l \in LeasesNow}
<1>1. ASSUME NEW ck \in cookies
      PROVE  /\ OlderCookie(ck).boot = ck.boot
             /\ LeaseOf(OlderCookie(ck)) = LeaseService!Worn(LeaseOf(ck))
  <2>1. ck \in Cookie
    BY DEF NtsInv, NtsTypeOK
  <2> QED BY <2>1, OlderCookieFacts DEF LeaseOf, LeaseService!Worn
<1>2. cookies' = {OlderCookie(ck) : ck \in cookies} /\ boot' = boot
  BY DEF NtsTick
<1>3. {d \in cookies : d.boot = boot}' = {OlderCookie(ck) : ck \in {d \in cookies : d.boot = boot}}
  BY <1>1, <1>2
<1> QED BY <1>1, <1>3 DEF LeasesNow

LEMMA LeaseInitMapped == NtsInit => LeaseService!LeaseInit
BY DEF NtsInit, LeaseService!LeaseInit, LeaseService!NoRequest

LEMMA LeaseStep ==
    ASSUME NtsInv, NtsNext
    PROVE  LeaseService!LeaseNext \/ UNCHANGED LeaseService!leaseVars
<1> USE DEF LeasesNow, LeaseOf
<1>1. CASE \E c \in Clients, tok \in AuthToken : HandleClient(c, tok)
  <2> PICK c \in Clients, tok \in AuthToken : HandleClient(c, tok)
    BY <1>1
  <2>1. LeasesNow' = LeasesNow \cup {[client |-> c, left |-> Lifetime]}
    BY OneMoreLease DEF HandleClient
  <2>2. LeaseService!Grant(c)
    BY <2>1 DEF HandleClient, LeaseService!Grant, LeaseService!Fresh
  <2> QED BY <2>2 DEF LeaseService!LeaseNext
<1>2. CASE \E ck \in cookies, genuine \in BOOLEAN : HandleRequest(ck, genuine)
  <2> PICK ck \in cookies, genuine \in BOOLEAN : HandleRequest(ck, genuine)
    BY <1>2
  <2> DEFINE live == genuine /\ ck.boot = boot /\ ck.left > 0
  <2>0. udp /\ UNCHANGED <<version, keys, slept, boot>>
    BY DEF HandleRequest
  <2>1. CASE RateLimited(live)
    <3>1. live \in BOOLEAN
      OBVIOUS
    <3> HIDE DEF live
    <3>2. LeaseService!Limit
      BY <2>0, <2>1, <3>1 DEF RateLimited, LeaseService!Limit
    <3> QED BY <3>2 DEF LeaseService!LeaseNext
  <2>2. CASE ~(Unseals(ck) /\ genuine) /\ Dropped(live)
    <3>1. NtsInv => CookieHonoured
      BY InvHonours
    <3>2. live = FALSE
      BY <2>2, <3>1 DEF Unseals, CookieHonoured
    <3>3. LeaseService!Refuse
      BY <2>0, <2>2, <3>2 DEF Dropped, LeaseService!Refuse
    <3> QED BY <3>3 DEF LeaseService!LeaseNext
  <2>3. CASE Unseals(ck) /\ Answered(ck)
    <3>1. ck.client \in Clients
      BY DEF NtsInv, NtsTypeOK, Cookie
    <3>2. LeasesNow' = LeasesNow \cup {[client |-> ck.client, left |-> Lifetime]}
      BY <2>0, <2>3, <3>1, OneMoreLease DEF Answered
    <3>3. LeaseOf(ck) \in LeasesNow /\ LeaseOf(ck).left > 0 /\ LeaseOf(ck).client = ck.client
      BY <2>3 DEF Unseals
    <3>4. LeaseService!Serve(LeaseOf(ck))
      BY <2>0, <2>3, <3>2, <3>3 DEF Answered, LeaseService!Serve, LeaseService!Fresh
    <3> QED BY <3>3, <3>4 DEF LeaseService!LeaseNext
  <2>4. CASE Failed
    <3>1. LeaseService!Stop
      BY <2>0, <2>4 DEF Failed, LeaseService!Stop
    <3> QED BY <3>1 DEF LeaseService!LeaseNext
  <2> QED BY <2>1, <2>2, <2>3, <2>4 DEF HandleRequest
<1>3. CASE RotateKey
  BY <1>3 DEF RotateKey, LeaseService!leaseVars
<1>4. CASE Restart
  <2>1. \A ck \in cookies : ck.boot # boot + 1
    BY DEF NtsInv, NtsTypeOK, CookieAge, Cookie
  <2>2. LeasesNow' = {}
    BY <1>4, <2>1 DEF Restart
  <2>3. LeaseService!Restarted
    BY <1>4, <2>2 DEF Restart, Booted, LeaseService!Restarted, LeaseService!NoRequest
  <2> QED BY <2>3 DEF LeaseService!LeaseNext
<1>5. CASE NtsTick
  <2>1. LeasesNow' = {LeaseService!Worn(l) : l \in LeasesNow}
    BY <1>5, TickWearsLeases
  <2>2. LeaseService!Pass
    BY <1>5, <2>1 DEF NtsTick, LeaseService!Pass
  <2> QED BY <2>2 DEF LeaseService!LeaseNext
<1>6. CASE ReceiveFails
  <2>1. LeaseService!Stop
    BY <1>6 DEF ReceiveFails, Failed, LeaseService!Stop
  <2> QED BY <2>1 DEF LeaseService!LeaseNext
<1> QED BY <1>1, <1>2, <1>3, <1>4, <1>5, <1>6 DEF NtsNext

\* handle_request, run, rotate_key and the restarts around them are a lease
\* service to the clients, errors that end the receive loop included: with
\* keys, versions and rotation hidden, every step of the server is a step of
\* CookieLease or none.
THEOREM NtsImplementsLease == NtsSpec => ImplementsLease
<1>1. NtsInv /\ [NtsNext]_ntsVars => [LeaseService!LeaseNext]_LeaseService!leaseVars
  <2>1. UNCHANGED ntsVars => UNCHANGED LeaseService!leaseVars
    BY DEF ntsVars, LeaseService!leaseVars
  <2> QED BY <2>1, LeaseStep
<1> QED BY <1>1, LeaseInitMapped, NtsInvariant, PTL DEF NtsSpec, ImplementsLease, LeaseService!LeaseSpec
=============================================================================
