----------------------------- MODULE DhcpServer ------------------------------
(***************************************************************************)
(* The DHCP-over-HTTPS server: offers, leases, releases and the sweep of   *)
(* expired leases, with the clients that use the addresses.                *)
(*   dhcp-server/app/db.py        class DHCPDatabase                       *)
(*   dhcp-server/bins/server.py   the handlers and expire_leases_task      *)
(*   manager/backend/app/blueprints/dhcp.py   pools, leases, reservations  *)
(*                                                                         *)
(* The server is one asyncio process and a handler does not suspend after  *)
(* it has read its body, so a handler is one step. All its state is in the *)
(* database, so a restart changes nothing. A call that the feature flag,   *)
(* the authorization, or the validation of its body turns away changes     *)
(* nothing either and is not a step.                                       *)
(*                                                                         *)
(* Time is kept as what is left of a lease; -1 stands for "lease_end is in *)
(* the past". An answer may be lost on its way to the client.              *)
(*                                                                         *)
(* The Manager's routes change the same tables where the deployment gives  *)
(* both services one database; where it does not, an operator does. Its    *)
(* workers interleave statement by statement.                              *)
(***************************************************************************)
EXTENDS Integers, FiniteSets

CONSTANTS
    Macs,
    PoolStart, PoolEnd,   \* DHCP_POOL_START, DHCP_POOL_END as integers
    Outside,              \* addresses outside the range that clients ask for
    Reservable,           \* <<MAC, address>> pairs an administrator may reserve
    LeaseTime,            \* DHCP_LEASE_TIME: what the server records
    Durations,            \* values of dhcp_pool.lease_duration: what clients are told
    None

Pool      == PoolStart..PoolEnd
Addresses == Pool \cup Outside

Statuses == {"active", "released", "expired"}
Lease    == [ip : Addresses, left : -1..LeaseTime, status : Statuses]
Offer    == [mac : Macs, ip : Addresses]

\* What a client uses: for how much longer, how long ago it was told, and
\* (history) whether an administrator has withdrawn its row since.
Hold == [ip : Addresses, left : Nat \ {0}, age : Nat, withdrawn : BOOLEAN]

ASSUME DhcpAssumption ==
    /\ PoolStart \in Nat /\ PoolEnd \in Nat
    /\ Outside \subseteq Int \ Pool
    /\ Reservable \subseteq Macs \X Addresses
    /\ LeaseTime \in Nat
    /\ Durations \subseteq Nat \ {0}
    /\ None \notin Addresses \cup Lease \cup Hold \cup Offer \cup Durations

VARIABLES
    enforced, \* foreign keys are enforced (PostgreSQL, not SQLite)
    pool,     \* lease_duration of the dhcp_pool row with id 1, or None
    lease,    \* dhcp_lease: at most one row per MAC, or None
    reserved, \* dhcp_reservation
    booking,  \* reservations found free and about to be inserted
    holds,    \* the client's view: the address it uses and for how long, or None
    offer,    \* the offer just made, or None
    clean,    \* history: no address was granted past another MAC's stale row
    serial    \* history: no two reservations were made at the same time

adminVars == <<enforced, pool, reserved, booking, serial>>
vars == <<adminVars, lease, holds, offer, clean>>

TypeOK ==
    /\ enforced \in BOOLEAN
    /\ pool \in Durations \cup {None}
    /\ lease \in [Macs -> Lease \cup {None}]
    /\ reserved \subseteq Reservable /\ booking \subseteq Reservable
    /\ holds \in [Macs -> Hold \cup {None}]
    /\ offer \in Offer \cup {None}
    /\ clean \in BOOLEAN /\ serial \in BOOLEAN

-----------------------------------------------------------------------------
(* Queries on the lease table. *)

IsExpired(l) == l.left < 0
Active(m)    == lease[m] # None /\ lease[m].status = "active"
Stale(m)     == Active(m) /\ IsExpired(lease[m])
Current(m)   == Active(m) /\ ~IsExpired(lease[m])
Leased(ip)   == \E m \in Macs : Active(m) /\ lease[m].ip = ip

InRange(ip) == ip \in Pool

ReservedFor(m) == {ip \in Addresses : <<m, ip>> \in reserved}

\* _find_free_ip: the first address of the range without an active row.
FindFreeIp ==
    LET free == {ip \in Pool : ~Leased(ip)}
    IN  {ip \in free : \A j \in free : ip <= j}

\* Mutation: the address the client names is offered unchecked.
GetOfferUnchecked(m, requested) ==
    CASE Current(m) -> {lease[m].ip}
      [] ~Current(m) /\ ReservedFor(m) # {} -> ReservedFor(m)
      [] ~Current(m) /\ ReservedFor(m) = {} /\ requested # None -> {requested}
      [] OTHER -> FindFreeIp

\* get_offer: the lease the MAC has, a reservation of it (.first() of any), the
\* address it names when that is free, or the first free one. The set of
\* addresses it may give, empty when there is none.
GetOffer(m, requested) ==
    IF Current(m) THEN {lease[m].ip}
    ELSE IF ReservedFor(m) # {} THEN ReservedFor(m)
    ELSE IF requested # None /\ InRange(requested) /\ ~Leased(requested) THEN {requested}
    ELSE FindFreeIp

\* Rows that validate_requested_ip may find in the way. It looks at .first()
\* only, and the query has no ORDER BY: any one of them.
Conflicts(m, ip) == {n \in Macs \ {m} : Active(n) /\ lease[n].ip = ip}

\* Mutation: the conflict check is left to the offer.
AcceptableInRange(m, ip) == InRange(ip)

Acceptable(m, ip) ==
    /\ InRange(ip)
    /\ Conflicts(m, ip) = {} \/ \E n \in Conflicts(m, ip) : IsExpired(lease[n])

\* The same for every row .first() might give.
SurelyAcceptable(m, ip) ==
    InRange(ip) /\ \A n \in Conflicts(m, ip) : IsExpired(lease[n])

-----------------------------------------------------------------------------
Init ==
    /\ enforced \in BOOLEAN
    /\ pool \in Durations \cup {None}
    /\ lease = [m \in Macs |-> None]
    /\ reserved = {} /\ booking = {}
    /\ holds = [m \in Macs |-> None]
    /\ offer = None
    /\ clean = TRUE /\ serial = TRUE

\* POST /dhcp/discover: reads only; nothing is set aside for the client.
Discover(m) ==
    \E requested \in Addresses \cup {None} :
        /\ \E ip \in GetOffer(m, requested) : offer' = [mac |-> m, ip |-> ip]
        /\ UNCHANGED <<adminVars, lease, holds, clean>>

\* create_lease writes the row of the MAC, whatever was there.
Grant(m, ip) == [ip |-> ip, status |-> "active", left |-> LeaseTime]

Told(ip, duration) == [ip |-> ip, left |-> duration, age |-> 0, withdrawn |-> FALSE]

\* POST /dhcp/request. A client that uses an address asks to renew that one;
\* another asks for anything. Without a pool row create_lease fails: a foreign
\* key refuses the row, without one the write stays. The acknowledgement may be
\* lost (one that grants no time is as good as lost).
Request(m, ip) ==
    /\ holds[m] # None => ip = holds[m].ip
    /\ Acceptable(m, ip)
    /\ pool # None \/ ~enforced
    /\ lease' = [lease EXCEPT ![m] = Grant(m, ip)]
    /\ clean' = (clean /\ \A n \in Conflicts(m, ip) : ~Stale(n))
    /\ \/ pool # None /\ holds' = [holds EXCEPT ![m] = Told(ip, pool)]
       \/ UNCHANGED holds
    /\ offer' = None
    /\ UNCHANGED adminVars

\* POST /dhcp/release, or a release that never arrives: the client stops
\* using the address in both cases.
Release(m) ==
    /\ holds' = [holds EXCEPT ![m] = None]
    /\ \/ lease[m] # None /\ lease' = [lease EXCEPT ![m].status = "released"]
       \/ holds[m] # None /\ UNCHANGED lease
    /\ offer' = None
    /\ UNCHANGED <<adminVars, clean>>

\* GET /dhcp/lease/<mac> and /dhcp/config mark what they find expired.
GetLease(m) ==
    /\ lease[m] # None /\ IsExpired(lease[m])
    /\ lease' = [lease EXCEPT ![m].status = "expired"]
    /\ offer' = None
    /\ UNCHANGED <<adminVars, holds, clean>>

\* Mutation: the sweep selects on the wrong status.
SweptReleased(m) ==
    IF lease[m] # None /\ lease[m].status = "released" /\ IsExpired(lease[m])
    THEN [lease[m] EXCEPT !.status = "expired"] ELSE lease[m]

\* Mutation: rows that end now are swept with those that have ended.
SweptEarly(m) ==
    IF Active(m) /\ lease[m].left <= 0 THEN [lease[m] EXCEPT !.status = "expired"] ELSE lease[m]

\* expire_old_leases: active rows that are past their end.
Swept(m) == IF Stale(m) THEN [lease[m] EXCEPT !.status = "expired"] ELSE lease[m]

\* expire_leases_task, every 60 seconds.
ExpireOldLeases ==
    /\ \E m \in Macs : Stale(m)
    /\ lease' = [m \in Macs |-> Swept(m)]
    /\ offer' = None
    /\ UNCHANGED <<adminVars, holds, clean>>

-----------------------------------------------------------------------------
(* Administration. *)

\* create_dhcp_pool, for the row with id 1: the first pool, one that gets the id
\* of a deleted row again (SQLite), or one that an operator restores.
CreatePool(duration) ==
    /\ pool = None
    /\ pool' = duration
    /\ offer' = None
    /\ UNCHANGED <<enforced, reserved, booking, serial, lease, holds, clean>>

\* update_dhcp_pool of leaseDuration.
UpdatePool(duration) ==
    /\ pool \notin {None, duration}
    /\ pool' = duration
    /\ offer' = None
    /\ UNCHANGED <<enforced, reserved, booking, serial, lease, holds, clean>>

\* The client goes on using what an administrator has taken back.
Withdrawn(S) ==
    [m \in Macs |-> IF m \in S /\ holds[m] # None THEN [holds[m] EXCEPT !.withdrawn = TRUE] ELSE holds[m]]

\* delete_dhcp_pool: "Cascade delete will remove leases and reservations",
\* where foreign keys are enforced.
DeletePool ==
    /\ pool # None
    /\ pool' = None
    /\ IF enforced
       THEN /\ lease' = [m \in Macs |-> None] /\ reserved' = {}
            /\ holds' = Withdrawn(Macs)
       ELSE UNCHANGED <<lease, reserved, holds>>
    /\ offer' = None
    /\ UNCHANGED <<enforced, booking, serial, clean>>

\* DELETE pools/<id>/leases/<id>: release_lease of the Manager.
WithdrawLease(m) ==
    /\ pool # None /\ lease[m] # None
    /\ lease' = [lease EXCEPT ![m].status = "released"]
    /\ holds' = Withdrawn({m})
    /\ offer' = None
    /\ UNCHANGED <<adminVars, clean>>

\* Mutation: only the MAC is looked up.
ClashesMac(r) == {q \in reserved : q[1] = r[1]}

\* Rows with the MAC or the address.
Clashes(r) == {q \in reserved : q[1] = r[1] \/ q[2] = r[2]}

\* create_reservation looks for a conflict ...
CheckReservation(r) ==
    /\ pool # None /\ Clashes(r) = {}
    /\ booking' = booking \cup {r}
    /\ serial' = (serial /\ booking = {})
    /\ offer' = None
    /\ UNCHANGED <<enforced, pool, reserved, lease, holds, clean>>

\* ... and inserts; no unique index backs the check.
InsertReservation(r) ==
    /\ r \in booking
    /\ booking' = booking \ {r}
    /\ reserved' = IF pool = None /\ enforced THEN reserved ELSE reserved \cup {r}
    /\ offer' = None
    /\ UNCHANGED <<enforced, pool, serial, lease, holds, clean>>

DeleteReservation(r) ==
    /\ pool # None /\ r \in reserved
    /\ reserved' = reserved \ {r}
    /\ offer' = None
    /\ UNCHANGED <<enforced, pool, booking, serial, lease, holds, clean>>

-----------------------------------------------------------------------------
OlderLease(l) ==
    IF l = None \/ l.left < 0 THEN l ELSE [l EXCEPT !.left = l.left - 1]

OlderHold(h) ==
    IF h = None \/ h.left = 1 THEN None ELSE [h EXCEPT !.left = h.left - 1, !.age = h.age + 1]

\* Time passes; a client stops using an address when its time is over.
Tick ==
    /\ lease' = [m \in Macs |-> OlderLease(lease[m])]
    /\ holds' = [m \in Macs |-> OlderHold(holds[m])]
    /\ offer' = None
    /\ UNCHANGED <<adminVars, clean>>

Administration ==
    \/ \E duration \in Durations : CreatePool(duration) \/ UpdatePool(duration)
    \/ DeletePool
    \/ \E m \in Macs : WithdrawLease(m)
    \/ \E r \in Reservable : CheckReservation(r) \/ InsertReservation(r) \/ DeleteReservation(r)

Next ==
    \/ \E m \in Macs :
          \/ Discover(m) \/ Release(m) \/ GetLease(m)
          \/ \E ip \in Addresses : Request(m, ip)
    \/ ExpireOldLeases \/ Tick
    \/ Administration

Spec == Init /\ [][Next]_vars

\* The background task runs for ever.
FairSpec == Spec /\ WF_vars(ExpireOldLeases)

-----------------------------------------------------------------------------
(* Properties. *)

\* An address a client uses stays recorded as its own, and as an active lease
\* for DHCP_LEASE_TIME from the answer that gave it, whatever lease_duration the
\* client was told: no release, renewal, lost answer, sweep, status query or
\* change of the pool takes a lease from under a client. Only an administrator
\* who withdraws the lease or deletes the pool does.
HoldsBacked ==
    \A m \in Macs : holds[m] # None /\ ~holds[m].withdrawn =>
        /\ lease[m] # None /\ lease[m].ip = holds[m].ip
        /\ holds[m].age <= LeaseTime => Current(m)

\* What dhcp_request says of the address it grants: "must be in the pool range
\* and not actively leased to a different MAC".
NotLeasedToAnother ==
    \A m, n \in Macs : m # n /\ Current(m) /\ Current(n) => lease[m].ip # lease[n].ip

\* As long as no address is granted while another MAC's expired row for it
\* waits to be swept, two unexpired leases never share an address.
NoDoubleLeaseIfSwept == clean => NotLeasedToAnother

\* validate_requested_ip "mirrors" the checks of get_offer: a client without a
\* reservation that asks for what it was just offered is not turned away.
OfferHonoured ==
    clean /\ offer # None /\ ReservedFor(offer.mac) = {}
    => SurelyAcceptable(offer.mac, offer.ip)

\* No MAC and no address is reserved twice, unless two reservations were made at
\* the same time: create_reservation checks and inserts in two statements.
ReservedOnceIfSerial ==
    serial => \A q, r \in reserved : q[1] = r[1] \/ q[2] = r[2] => q = r

\* An expired lease does not block its address for ever.
StaleRowsSwept == \A m \in Macs : Stale(m) ~> ~Stale(m)
=============================================================================
