-------------------------- MODULE DhcpServerProofs ---------------------------
(***************************************************************************)
(* Safety of the DHCP server for every set of clients, every pool range,   *)
(* every set of reservations and all durations: what clients are told need *)
(* not be what is recorded.                                                *)
(*                                                                         *)
(* OfferHonoured needs two facts it does not state: rows hold addresses of *)
(* the pool only, and (as long as no stale row was passed over) unexpired  *)
(* rows hold different addresses. HoldsBacked needs to know how much time  *)
(* a row has left. ReservedOnceIfSerial needs to know what an insert that  *)
(* is still to come will find. DhcpInv adds them.                          *)
(***************************************************************************)
EXTENDS DhcpServer, TLAPS

\* Only validated addresses reach the table.
RowsInPool == \A m \in Macs : lease[m] # None => lease[m].ip \in Pool

\* The row l backs what the client uses: it was written no earlier than the
\* client was told, and nobody ended it.
Backs(l, h) ==
    h # None /\ ~h.withdrawn =>
        /\ l # None /\ l.ip = h.ip
        /\ h.age <= LeaseTime => l.status = "active" /\ l.left >= LeaseTime - h.age

HoldsKept == \A m \in Macs : Backs(lease[m], holds[m])

\* Alone, a reservation about to be inserted meets no row of its MAC or address.
BookingFree ==
    serial => \A r \in booking : Clashes(r) = {} /\ \A q \in booking : q = r

DhcpInv ==
    /\ TypeOK
    /\ RowsInPool
    /\ HoldsKept
    /\ NoDoubleLeaseIfSwept
    /\ BookingFree
    /\ ReservedOnceIfSerial

-----------------------------------------------------------------------------
(* Rows and what clients use. *)

LEMMA DhcpTypes ==
    ASSUME DhcpInv
    PROVE  /\ lease \in [Macs -> Lease \cup {None}] /\ holds \in [Macs -> Hold \cup {None}]
           /\ LeaseTime \in Nat
           /\ \A l \in Lease : l # None /\ l.ip \in Addresses /\ l.left \in Int
           /\ \A h \in Hold : /\ h # None /\ h.ip \in Addresses /\ h.withdrawn \in BOOLEAN
                              /\ h.left \in Nat \ {0} /\ h.age \in Nat
<1>1. /\ lease \in [Macs -> Lease \cup {None}] /\ holds \in [Macs -> Hold \cup {None}]
      /\ LeaseTime \in Nat /\ None \notin Lease /\ None \notin Hold
  BY DhcpAssumption DEF DhcpInv, TypeOK
<1>2. \A l \in Lease : l.ip \in Addresses /\ l.left \in Int
  BY <1>1 DEF Lease
<1>3. \A h \in Hold : /\ h.ip \in Addresses /\ h.withdrawn \in BOOLEAN
                      /\ h.left \in Nat \ {0} /\ h.age \in Nat
  BY DEF Hold
<1> QED
  BY <1>1, <1>2, <1>3

\* A row with another status is that row otherwise.
LEMMA Marked ==
    ASSUME DhcpAssumption, NEW l \in Lease, NEW status \in Statuses
    PROVE  LET k == [l EXCEPT !.status = status]
           IN  /\ k \in Lease /\ k # None
               /\ k.ip = l.ip /\ k.left = l.left /\ k.status = status
<1> DEFINE k == [l EXCEPT !.status = status]
<1>1. k \in Lease /\ k.ip = l.ip /\ k.left = l.left /\ k.status = status
  BY DEF Lease
<1> QED
  BY <1>1 DEF DhcpAssumption

\* A step that makes no lease: rows go, end, or come nearer to their end.
Withdraws ==
    \A m \in Macs : lease'[m] # None =>
        /\ lease[m] # None
        /\ lease'[m].ip = lease[m].ip
        /\ lease'[m].left <= lease[m].left
        /\ lease'[m].status = "active" => lease[m].status = "active"

LEMMA WithdrawalKeeps ==
    ASSUME DhcpInv, TypeOK', Withdraws, clean' = clean
    PROVE  RowsInPool' /\ NoDoubleLeaseIfSwept'
<1>1. ASSUME NEW m \in Macs, Current(m)'
      PROVE  Current(m) /\ lease'[m].ip = lease[m].ip
  <2>1. lease'[m] \in Lease /\ lease[m] \in Lease
    BY <1>1 DEF DhcpInv, TypeOK, Withdraws, Current, Active
  <2> QED
    BY <1>1, <2>1 DEF Withdraws, Current, Active, IsExpired, Lease
<1>2. NoDoubleLeaseIfSwept'
  BY <1>1 DEF DhcpInv, NoDoubleLeaseIfSwept, NotLeasedToAnother
<1>3. RowsInPool'
  BY DEF DhcpInv, RowsInPool, Withdraws
<1> QED
  BY <1>2, <1>3

\* Steps that leave reservations alone.
LEMMA SameReservations ==
    ASSUME DhcpInv, UNCHANGED <<reserved, booking, serial>>
    PROVE  BookingFree' /\ ReservedOnceIfSerial'
BY DEF DhcpInv, BookingFree, ReservedOnceIfSerial, Clashes

\* Steps that leave leases and clients alone.
LEMMA SameLeases ==
    ASSUME DhcpInv, UNCHANGED <<lease, holds, clean>>
    PROVE  RowsInPool' /\ HoldsKept' /\ NoDoubleLeaseIfSwept'
BY DEF DhcpInv, RowsInPool, HoldsKept, NoDoubleLeaseIfSwept, NotLeasedToAnother, Current, Active,
       IsExpired

\* A step that marks some rows with another status, none of which backs a
\* client any longer or was current.
LEMMA MarkingKeeps ==
    ASSUME DhcpInv, NEW S \in SUBSET Macs, NEW status \in {"released", "expired"},
           \A m \in S : lease[m] # None,
           lease' = [m \in Macs |-> IF m \in S THEN [lease[m] EXCEPT !.status = status]
                                    ELSE lease[m]],
           \A m \in S : \/ holds'[m] = None
                        \/ holds'[m] = holds[m] /\ IsExpired(lease[m])
                        \/ holds'[m] # None /\ holds'[m].withdrawn,
           \A m \in Macs \ S : holds'[m] = holds[m] \/ holds'[m] = None,
           holds' \in [Macs -> Hold \cup {None}],
           offer' = None, UNCHANGED <<adminVars, clean>>
    PROVE  DhcpInv'
<1> USE DhcpAssumption
<1>1. ASSUME NEW m \in S
      PROVE  /\ lease'[m] \in Lease /\ lease'[m] # None
             /\ lease'[m].ip = lease[m].ip /\ lease'[m].left = lease[m].left
             /\ lease'[m].status = status
  <2>1. lease[m] \in Lease /\ m \in Macs /\ status \in Statuses
    BY DEF DhcpInv, TypeOK, Statuses
  <2>2. lease'[m] = [lease[m] EXCEPT !.status = status]
    BY <2>1
  <2> QED
    BY <2>1, <2>2, Marked
<1>2. \A m \in Macs \ S : lease'[m] = lease[m]
  OBVIOUS
<1>3. TypeOK'
  <2>1. \A m \in Macs : lease'[m] \in Lease \cup {None}
    BY <1>1, <1>2 DEF DhcpInv, TypeOK
  <2>2. lease' \in [Macs -> Lease \cup {None}]
    BY <2>1
  <2> QED
    BY <2>2 DEF DhcpInv, TypeOK, adminVars
<1>4. Withdraws
  <2>1. \A m \in Macs : lease[m] # None => lease[m].left \in Int
    BY DhcpTypes
  <2> QED
    BY <1>1, <1>2, <2>1 DEF Withdraws
<1>5. ASSUME NEW m \in Macs PROVE Backs(lease'[m], holds'[m])
  <2>1. Backs(lease[m], holds[m])
    BY DEF DhcpInv, HoldsKept
  <2>2. CASE m \notin S
    BY <1>2, <2>1, <2>2 DEF Backs
  <2>3. CASE m \in S /\ holds'[m] = holds[m] /\ IsExpired(lease[m])
    <3>1. lease[m] \in Lease /\ lease[m] # None
      BY <2>3, DhcpTypes
    <3>2. ASSUME holds[m] # None, ~holds[m].withdrawn
          PROVE  holds[m].age > LeaseTime /\ lease'[m] # None /\ lease'[m].ip = holds[m].ip
      <4>1. holds[m].age \in Nat /\ LeaseTime \in Nat /\ lease[m].left \in Int /\ lease[m].left < 0
        BY <2>3, <3>1, <3>2, DhcpTypes DEF IsExpired
      <4>2. /\ lease[m].ip = holds[m].ip
            /\ holds[m].age <= LeaseTime => lease[m].left >= LeaseTime - holds[m].age
        BY <2>1, <3>2 DEF Backs
      <4>3. holds[m].age > LeaseTime
        BY <4>1, <4>2
      <4>4. lease'[m] # None /\ lease'[m].ip = lease[m].ip
        BY <1>1, <2>3
      <4> QED
        BY <4>2, <4>3, <4>4
    <3>3. holds[m] # None => holds[m].age \in Nat
      BY DhcpTypes
    <3> QED
      BY <2>3, <3>2, <3>3, DhcpTypes DEF Backs
  <2> QED
    BY <2>2, <2>3 DEF Backs
<1>6. HoldsKept'
  BY <1>5 DEF HoldsKept
<1> QED
  BY <1>3, <1>4, <1>6, WithdrawalKeeps, SameReservations DEF DhcpInv, adminVars

-----------------------------------------------------------------------------
(* The server. *)

\* An empty lease table satisfies the invariant.
LEMMA DhcpInvInit == Init => DhcpInv
BY DhcpAssumption
   DEF Init, DhcpInv, TypeOK, RowsInPool, HoldsKept, Backs, NoDoubleLeaseIfSwept, NotLeasedToAnother,
       Current, Active, BookingFree, ReservedOnceIfSerial

\* What get_offer returns: the client's own row, its reservation, or an
\* address without an active row.
LEMMA GetOfferResult ==
    ASSUME NEW m \in Macs, NEW requested \in Addresses \cup {None}, NEW ip \in GetOffer(m, requested)
    PROVE  \/ Current(m) /\ ip = lease[m].ip
           \/ ip \in ReservedFor(m)
           \/ ip \in Pool /\ ~Leased(ip)
BY DEF GetOffer, FindFreeIp, InRange

\* An offer reads the table and changes nothing else.
LEMMA DiscoverKeeps ==
    ASSUME DhcpInv, NEW m \in Macs, Discover(m)
    PROVE  DhcpInv' /\ (OfferHonoured)'
<1> USE DhcpAssumption
<1>1. PICK requested \in Addresses \cup {None} :
        /\ \E ip \in GetOffer(m, requested) : offer' = [mac |-> m, ip |-> ip]
        /\ UNCHANGED <<adminVars, lease, holds, clean>>
  BY DEF Discover
<1>2. PICK ip \in GetOffer(m, requested) : offer' = [mac |-> m, ip |-> ip]
  BY <1>1
<1>3. \/ Current(m) /\ ip = lease[m].ip
      \/ ip \in ReservedFor(m)
      \/ ip \in Pool /\ ~Leased(ip)
  BY GetOfferResult
<1>4. ip \in Addresses
  BY <1>3, DhcpTypes DEF Addresses, ReservedFor, Current, Active
<1>5. TypeOK'
  BY <1>1, <1>2, <1>4 DEF DhcpInv, TypeOK, Offer, adminVars
<1>6. ASSUME clean, ReservedFor(m) = {}, NEW n \in Conflicts(m, ip)
      PROVE  IsExpired(lease[n])
  <2>1. n \in Macs /\ n # m /\ Active(n) /\ lease[n].ip = ip
    BY <1>6 DEF Conflicts
  <2>2. Current(m) /\ ip = lease[m].ip
    BY <1>3, <1>6, <2>1 DEF Leased
  <2>3. ~Current(n)
    BY <1>6, <2>1, <2>2 DEF DhcpInv, NoDoubleLeaseIfSwept, NotLeasedToAnother
  <2> QED
    BY <2>1, <2>3 DEF Current
<1>7. ASSUME ReservedFor(m) = {} PROVE InRange(ip)
  BY <1>3, <1>7 DEF DhcpInv, RowsInPool, InRange, Current, Active
<1>8. ASSUME clean, ReservedFor(m) = {}
      PROVE  SurelyAcceptable(m, ip)
  BY <1>6, <1>7, <1>8 DEF SurelyAcceptable
<1>9. OfferHonoured'
  BY <1>1, <1>2, <1>8
  DEF OfferHonoured, SurelyAcceptable, Conflicts, Active, IsExpired, InRange, ReservedFor, adminVars
<1> QED
  BY <1>1, <1>5, <1>9, SameLeases, SameReservations DEF DhcpInv, adminVars

\* A grant: the client's own row is written, and the address was in nobody
\* else's unexpired row unless a stale row hid it.
LEMMA RequestKeeps ==
    ASSUME DhcpInv, NEW m \in Macs, NEW ip \in Addresses, Request(m, ip)
    PROVE  DhcpInv'
<1> USE DhcpAssumption
<1>1. /\ holds[m] # None => ip = holds[m].ip
      /\ Acceptable(m, ip)
      /\ lease' = [lease EXCEPT ![m] = Grant(m, ip)]
      /\ clean' = (clean /\ \A n \in Conflicts(m, ip) : ~Stale(n))
      /\ \/ pool # None /\ holds' = [holds EXCEPT ![m] = Told(ip, pool)]
         \/ UNCHANGED holds
      /\ offer' = None
      /\ UNCHANGED adminVars
  BY DEF Request
<1>2. Grant(m, ip) \in Lease
  BY DEF Grant, Lease, Statuses, DhcpAssumption
<1>3. Grant(m, ip) # None /\ Grant(m, ip).ip = ip
      /\ Grant(m, ip).status = "active" /\ Grant(m, ip).left = LeaseTime
  BY <1>2 DEF Grant, DhcpAssumption
<1>4. lease'[m] = Grant(m, ip) /\ \A n \in Macs \ {m} : lease'[n] = lease[n]
  BY <1>1 DEF DhcpInv, TypeOK
<1>5. pool # None => /\ Told(ip, pool) \in Hold /\ Told(ip, pool).ip = ip
                     /\ Told(ip, pool).age = 0
  BY DEF DhcpInv, TypeOK, Told, Hold, DhcpAssumption
<1>6. TypeOK'
  <2>1. lease' \in [Macs -> Lease \cup {None}]
    BY <1>1, <1>2 DEF DhcpInv, TypeOK
  <2>2. holds' \in [Macs -> Hold \cup {None}]
    BY <1>1, <1>5 DEF DhcpInv, TypeOK
  <2> QED
    BY <1>1, <2>1, <2>2 DEF DhcpInv, TypeOK, adminVars
<1>7. RowsInPool'
  BY <1>1, <1>3, <1>4 DEF DhcpInv, RowsInPool, Acceptable, InRange
<1>8. ASSUME NEW n \in Macs PROVE Backs(lease'[n], holds'[n])
  <2>1. CASE n = m
    <3>1. holds'[m] # None => holds'[m] \in Hold /\ holds'[m].ip = ip
      BY <1>1, <1>5, <1>6 DEF DhcpInv, TypeOK
    <3>2. holds'[m] # None => holds'[m].age \in Nat
      BY <3>1, DhcpTypes
    <3> QED
      BY <1>3, <1>4, <2>1, <3>1, <3>2, DhcpTypes DEF Backs
  <2>2. CASE n # m
    <3>1. lease'[n] = lease[n] /\ holds'[n] = holds[n]
      BY <1>1, <1>4, <2>2 DEF DhcpInv, TypeOK
    <3> QED
      BY <3>1 DEF DhcpInv, HoldsKept
  <2> QED
    BY <2>1, <2>2
<1>9. NoDoubleLeaseIfSwept'
  <2>1. ASSUME clean', NEW n \in Macs \ {m}, Current(n)
        PROVE  lease[n].ip # ip
    <3>1. \A k \in Conflicts(m, ip) : ~IsExpired(lease[k])
      BY <1>1, <2>1 DEF Stale, Conflicts
    <3>2. Conflicts(m, ip) = {}
      BY <1>1, <3>1 DEF Acceptable
    <3> QED
      BY <2>1, <3>2 DEF Conflicts, Current
  <2>2. \A n \in Macs \ {m} : Current(n)' = Current(n)
    BY <1>4 DEF Current, Active, IsExpired
  <2>3. ASSUME clean', NEW n \in Macs, NEW k \in Macs, n # k, Current(n)', Current(k)'
        PROVE  lease'[n].ip # lease'[k].ip
    <3>1. CASE n = m
      BY <1>3, <1>4, <2>1, <2>2, <2>3, <3>1
    <3>2. CASE k = m
      BY <1>3, <1>4, <2>1, <2>2, <2>3, <3>2
    <3>3. CASE n # m /\ k # m
      BY <1>1, <1>4, <2>2, <2>3, <3>3 DEF DhcpInv, NoDoubleLeaseIfSwept, NotLeasedToAnother
    <3> QED
      BY <3>1, <3>2, <3>3
  <2> QED
    BY <2>3 DEF NoDoubleLeaseIfSwept, NotLeasedToAnother
<1>10. HoldsKept'
  BY <1>8 DEF HoldsKept
<1> QED
  BY <1>1, <1>6, <1>7, <1>9, <1>10, SameReservations DEF DhcpInv, adminVars

\* Releasing, looking at an expired lease, and the sweep.
LEMMA ReleaseKeeps ==
    ASSUME DhcpInv, NEW m \in Macs, Release(m)
    PROVE  DhcpInv'
<1>1. /\ holds' = [holds EXCEPT ![m] = None]
      /\ offer' = None /\ UNCHANGED <<adminVars, clean>>
  BY DEF Release
<1>2. /\ holds' \in [Macs -> Hold \cup {None}] /\ holds'[m] = None
      /\ \A n \in Macs : holds'[n] = holds[n] \/ holds'[n] = None
  BY <1>1 DEF DhcpInv, TypeOK
<1>3. ASSUME NEW S \in SUBSET {m}, \A n \in S : lease[n] # None,
             lease' = [n \in Macs |-> IF n \in S THEN [lease[n] EXCEPT !.status = "released"]
                                      ELSE lease[n]]
      PROVE  DhcpInv'
  BY <1>1, <1>2, <1>3, MarkingKeeps
<1>4. CASE lease[m] # None /\ lease' = [lease EXCEPT ![m].status = "released"]
  <2>1. lease' = [n \in Macs |-> IF n \in {m} THEN [lease[n] EXCEPT !.status = "released"]
                                 ELSE lease[n]]
    BY <1>4 DEF DhcpInv, TypeOK
  <2> QED
    BY <1>3, <1>4, <2>1
<1>5. CASE UNCHANGED lease
  <2> DEFINE S == {}
  <2>1. lease' = [n \in Macs |-> IF n \in S THEN [lease[n] EXCEPT !.status = "released"]
                                 ELSE lease[n]]
    BY <1>5 DEF DhcpInv, TypeOK
  <2>2. S \in SUBSET {m} /\ \A n \in S : lease[n] # None
    OBVIOUS
  <2> QED
    <3> HIDE DEF S
    <3> QED BY <1>3, <2>1, <2>2
<1> QED
  BY <1>4, <1>5 DEF Release

\* The status read marks a row only when its lease is over.
LEMMA GetLeaseKeeps ==
    ASSUME DhcpInv, NEW m \in Macs, GetLease(m)
    PROVE  DhcpInv'
<1>1. /\ lease[m] # None /\ IsExpired(lease[m])
      /\ lease' = [lease EXCEPT ![m].status = "expired"]
      /\ offer' = None /\ UNCHANGED <<adminVars, holds, clean>>
  BY DEF GetLease
<1>2. lease' = [n \in Macs |-> IF n \in {m} THEN [lease[n] EXCEPT !.status = "expired"]
                               ELSE lease[n]]
  BY <1>1 DEF DhcpInv, TypeOK
<1>3. holds' \in [Macs -> Hold \cup {None}]
  BY <1>1 DEF DhcpInv, TypeOK
<1> QED
  BY <1>1, <1>2, <1>3, MarkingKeeps

\* The sweep marks rows only when their leases are over.
LEMMA ExpireKeeps ==
    ASSUME DhcpInv, ExpireOldLeases
    PROVE  DhcpInv'
<1> DEFINE S == {m \in Macs : Stale(m)}
<1>1. /\ lease' = [m \in Macs |-> Swept(m)]
      /\ offer' = None /\ UNCHANGED <<adminVars, holds, clean>>
  BY DEF ExpireOldLeases
<1>2. \A m \in S : lease[m] # None /\ IsExpired(lease[m])
  BY DEF Stale, Active
<1>3. lease' = [m \in Macs |-> IF m \in S THEN [lease[m] EXCEPT !.status = "expired"]
                               ELSE lease[m]]
  BY <1>1 DEF Swept
<1>4. holds' \in [Macs -> Hold \cup {None}]
  BY <1>1 DEF DhcpInv, TypeOK
<1> QED
  BY <1>1, <1>2, <1>3, <1>4, MarkingKeeps

\* Time runs for a client and its row alike, so the row has what the client's
\* age leaves it.
LEMMA TickKeeps ==
    ASSUME DhcpInv, Tick
    PROVE  DhcpInv'
<1> USE DhcpAssumption
<1>1. /\ lease' = [m \in Macs |-> OlderLease(lease[m])]
      /\ holds' = [m \in Macs |-> OlderHold(holds[m])]
      /\ offer' = None /\ UNCHANGED <<adminVars, clean>>
  BY DEF Tick
<1>2. ASSUME NEW l \in Lease
      PROVE  /\ OlderLease(l) \in Lease
             /\ OlderLease(l).ip = l.ip /\ OlderLease(l).status = l.status
             /\ OlderLease(l).left <= l.left
             /\ l.left >= 0 => OlderLease(l).left = l.left - 1
  <2>1. [l EXCEPT !.left = l.left - 1] = [ip |-> l.ip, left |-> l.left - 1, status |-> l.status]
    BY DEF Lease
  <2> QED
    BY <1>2, <2>1 DEF OlderLease, Lease, DhcpAssumption
<1>3. ASSUME NEW h \in Hold, OlderHold(h) # None
      PROVE  /\ OlderHold(h) \in Hold
             /\ OlderHold(h).ip = h.ip /\ OlderHold(h).withdrawn = h.withdrawn
             /\ OlderHold(h).age = h.age + 1
  <2>1. /\ h # None /\ h.left # 1 /\ h.left - 1 \in Nat \ {0} /\ h.age + 1 \in Nat
    BY <1>3, DhcpTypes DEF OlderHold
  <2>2. PICK left \in Nat \ {0}, age \in Nat : left = h.left - 1 /\ age = h.age + 1
    BY <2>1
  <2>3. OlderHold(h) = [h EXCEPT !.left = left, !.age = age]
    BY <2>1, <2>2 DEF OlderHold
  <2>4. /\ OlderHold(h) \in Hold /\ OlderHold(h).ip = h.ip /\ OlderHold(h).withdrawn = h.withdrawn
        /\ OlderHold(h).age = age
    BY <2>3 DEF Hold
  <2> QED
    BY <2>2, <2>4
<1>4. OlderLease(None) = None /\ OlderHold(None) = None
  BY DEF OlderLease, OlderHold
<1>5. TypeOK'
  <2>1. \A m \in Macs : /\ OlderLease(lease[m]) \in Lease \cup {None}
                         /\ OlderHold(holds[m]) \in Hold \cup {None}
    BY <1>2, <1>3, <1>4 DEF DhcpInv, TypeOK
  <2> QED
    BY <1>1, <2>1 DEF DhcpInv, TypeOK, adminVars
<1>6. Withdraws
  BY <1>1, <1>2, <1>4 DEF DhcpInv, TypeOK, Withdraws
<1>7. ASSUME NEW m \in Macs PROVE Backs(lease'[m], holds'[m])
  <2> SUFFICES ASSUME holds'[m] # None, ~holds'[m].withdrawn
               PROVE  /\ lease'[m] # None /\ lease'[m].ip = holds'[m].ip
                      /\ holds'[m].age <= LeaseTime =>
                            lease'[m].status = "active" /\ lease'[m].left >= LeaseTime - holds'[m].age
    BY DEF Backs
  <2>1. /\ holds[m] \in Hold /\ holds'[m].ip = holds[m].ip /\ ~holds[m].withdrawn
        /\ holds'[m].age = holds[m].age + 1
    BY <1>1, <1>3, <1>4 DEF DhcpInv, TypeOK
  <2>2. holds[m] # None /\ holds[m].age \in Nat
    BY <2>1, DhcpTypes
  <2>3. /\ lease[m] # None /\ lease[m].ip = holds[m].ip
        /\ holds[m].age <= LeaseTime =>
              lease[m].status = "active" /\ lease[m].left >= LeaseTime - holds[m].age
    BY <2>1, <2>2 DEF DhcpInv, HoldsKept, Backs
  <2>4. lease[m] \in Lease /\ lease[m].left \in Int /\ lease'[m] = OlderLease(lease[m])
    BY <1>1, <2>3, DhcpTypes
  <2>5. lease'[m] # None /\ lease'[m].ip = holds'[m].ip /\ lease'[m].left \in Int
    BY <1>2, <2>1, <2>3, <2>4, DhcpTypes
  <2>6. ASSUME holds'[m].age <= LeaseTime
        PROVE  lease'[m].status = "active" /\ lease'[m].left >= LeaseTime - holds'[m].age
    <3>1. holds[m].age < LeaseTime /\ LeaseTime \in Nat
      BY <2>1, <2>2, <2>6, DhcpTypes
    <3>2. lease[m].status = "active" /\ lease[m].left > 0
      BY <2>2, <2>3, <2>4, <3>1
    <3>3. lease'[m].status = "active" /\ lease'[m].left = lease[m].left - 1
      BY <1>2, <2>4, <3>2
    <3> QED
      BY <2>1, <2>2, <2>3, <2>4, <3>1, <3>3
  <2> QED
    BY <2>5, <2>6
<1>8. HoldsKept'
  BY <1>7 DEF HoldsKept
<1> QED
  BY <1>1, <1>5, <1>6, <1>8, WithdrawalKeeps, SameReservations DEF DhcpInv, adminVars

-----------------------------------------------------------------------------
(* Administration. *)

\* Clients whose rows are taken back know nothing of it.
LEMMA WithdrawnHolds ==
    ASSUME DhcpInv, NEW S \in SUBSET Macs, holds' = Withdrawn(S)
    PROVE  /\ holds' \in [Macs -> Hold \cup {None}]
           /\ \A m \in S : holds'[m] = None \/ (holds'[m] # None /\ holds'[m].withdrawn)
           /\ \A m \in Macs \ S : holds'[m] = holds[m]
<1>1. ASSUME NEW h \in Hold
      PROVE  [h EXCEPT !.withdrawn = TRUE] \in Hold /\ [h EXCEPT !.withdrawn = TRUE].withdrawn
  BY DEF Hold
<1>2. ASSUME NEW m \in Macs
      PROVE  /\ holds'[m] \in Hold \cup {None}
             /\ m \in S => holds'[m] = None \/ (holds'[m] # None /\ holds'[m].withdrawn)
             /\ m \notin S => holds'[m] = holds[m]
  <2>1. holds[m] \in Hold \cup {None}
    BY DhcpTypes
  <2>2. CASE m \in S /\ holds[m] # None
    <3>1. holds'[m] = [holds[m] EXCEPT !.withdrawn = TRUE] /\ holds[m] \in Hold
      BY <2>1, <2>2 DEF Withdrawn
    <3> QED
      BY <1>1, <2>2, <3>1, DhcpTypes
  <2>3. CASE ~(m \in S /\ holds[m] # None)
    BY <2>1, <2>3 DEF Withdrawn
  <2> QED
    BY <2>2, <2>3
<1>3. holds' \in [Macs -> Hold \cup {None}]
  <2>1. holds' = [m \in Macs |-> holds'[m]]
    BY DEF Withdrawn
  <2> QED
    BY <1>2, <2>1
<1> QED
  BY <1>2, <1>3

LEMMA PoolKeeps ==
    ASSUME DhcpInv, DeletePool \/ \E duration \in Durations : CreatePool(duration) \/ UpdatePool(duration)
    PROVE  DhcpInv'
<1>1. CASE \E duration \in Durations : CreatePool(duration) \/ UpdatePool(duration)
  <2>1. TypeOK'
    BY <1>1 DEF CreatePool, UpdatePool, DhcpInv, TypeOK
  <2> QED
    BY <1>1, <2>1, SameLeases, SameReservations DEF CreatePool, UpdatePool, DhcpInv
<1>2. CASE DeletePool /\ ~enforced
  <2>1. TypeOK'
    BY <1>2 DEF DeletePool, DhcpInv, TypeOK
  <2> QED
    BY <1>2, <2>1, SameLeases, SameReservations DEF DeletePool, DhcpInv
<1>3. CASE DeletePool /\ enforced
  <2>1. /\ lease' = [m \in Macs |-> None] /\ reserved' = {} /\ holds' = Withdrawn(Macs)
        /\ UNCHANGED <<booking, serial, clean>>
    BY <1>3 DEF DeletePool
  <2>2. /\ holds' \in [Macs -> Hold \cup {None}]
        /\ \A m \in Macs : holds'[m] = None \/ (holds'[m] # None /\ holds'[m].withdrawn)
    BY <2>1, WithdrawnHolds
  <2>3. TypeOK'
    BY <1>3, <2>1, <2>2 DEF DeletePool, DhcpInv, TypeOK
  <2>4. Withdraws
    BY <2>1 DEF Withdraws
  <2>5. HoldsKept'
    BY <2>2 DEF HoldsKept, Backs
  <2>6. BookingFree' /\ ReservedOnceIfSerial'
    BY <2>1 DEF DhcpInv, BookingFree, ReservedOnceIfSerial, Clashes
  <2> QED
    BY <2>1, <2>3, <2>4, <2>5, <2>6, WithdrawalKeeps DEF DhcpInv
<1> QED
  BY <1>1, <1>2, <1>3

LEMMA WithdrawLeaseKeeps ==
    ASSUME DhcpInv, NEW m \in Macs, WithdrawLease(m)
    PROVE  DhcpInv'
<1>1. /\ lease[m] # None /\ lease' = [lease EXCEPT ![m].status = "released"]
      /\ holds' = Withdrawn({m}) /\ offer' = None /\ UNCHANGED <<adminVars, clean>>
  BY DEF WithdrawLease
<1>2. lease' = [n \in Macs |-> IF n \in {m} THEN [lease[n] EXCEPT !.status = "released"]
                               ELSE lease[n]]
  BY <1>1 DEF DhcpInv, TypeOK
<1>3. /\ holds' \in [Macs -> Hold \cup {None}]
      /\ \A n \in {m} : holds'[n] = None \/ (holds'[n] # None /\ holds'[n].withdrawn)
      /\ \A n \in Macs \ {m} : holds'[n] = holds[n]
  BY <1>1, WithdrawnHolds
<1> QED
  BY <1>1, <1>2, <1>3, MarkingKeeps

\* Of creations that do not overlap, the check still holds when the row goes in.
LEMMA ReservationKeeps ==
    ASSUME DhcpInv, NEW r \in Reservable,
           CheckReservation(r) \/ InsertReservation(r) \/ DeleteReservation(r)
    PROVE  DhcpInv'
<1>1. UNCHANGED <<lease, holds, clean>>
  BY DEF CheckReservation, InsertReservation, DeleteReservation
<1>2. TypeOK'
  BY DEF CheckReservation, InsertReservation, DeleteReservation, DhcpInv, TypeOK
<1>3. BookingFree' /\ ReservedOnceIfSerial'
  <2>1. CASE CheckReservation(r)
    <3>1. serial' => serial /\ booking' = {r}
      BY <2>1 DEF CheckReservation
    <3>2. reserved' = reserved /\ Clashes(r) = {}
      BY <2>1 DEF CheckReservation
    <3> QED
      BY <3>1, <3>2 DEF DhcpInv, BookingFree, ReservedOnceIfSerial, Clashes
  <2>2. CASE InsertReservation(r)
    <3>1. serial' = serial /\ booking' = booking \ {r} /\ reserved' \subseteq reserved \cup {r} /\ r \in booking
      BY <2>2 DEF InsertReservation
    <3>2. serial => booking' = {} /\ Clashes(r) = {}
      BY <3>1 DEF DhcpInv, BookingFree
    <3>3. BookingFree'
      BY <3>1, <3>2 DEF BookingFree
    <3>4. ReservedOnceIfSerial'
      BY <3>1, <3>2 DEF DhcpInv, ReservedOnceIfSerial, Clashes
    <3> QED
      BY <3>3, <3>4
  <2>3. CASE DeleteReservation(r)
    BY <2>3 DEF DeleteReservation, DhcpInv, BookingFree, ReservedOnceIfSerial, Clashes
  <2> QED
    BY <2>1, <2>2, <2>3
<1> QED
  BY <1>1, <1>2, <1>3, SameLeases DEF DhcpInv

\* Every handler, the sweep, time and administration keep the invariant.
LEMMA DhcpInvNext == DhcpInv /\ [Next]_vars => DhcpInv'
<1> SUFFICES ASSUME DhcpInv, [Next]_vars PROVE DhcpInv'
  OBVIOUS
<1>1. ASSUME NEW m \in Macs, Discover(m) PROVE DhcpInv'
  BY <1>1, DiscoverKeeps
<1>2. ASSUME NEW m \in Macs, NEW ip \in Addresses, Request(m, ip) PROVE DhcpInv'
  BY <1>2, RequestKeeps
<1>3. ASSUME NEW m \in Macs, Release(m) \/ GetLease(m) PROVE DhcpInv'
  BY <1>3, ReleaseKeeps, GetLeaseKeeps
<1>4. CASE ExpireOldLeases \/ Tick
  BY <1>4, ExpireKeeps, TickKeeps
<1>5. CASE Administration
  BY <1>5, PoolKeeps, WithdrawLeaseKeeps, ReservationKeeps DEF Administration
<1>6. CASE UNCHANGED vars
  <2>1. TypeOK'
    BY <1>6 DEF vars, adminVars, DhcpInv, TypeOK
  <2> QED
    BY <1>6, <2>1, SameLeases, SameReservations DEF vars, adminVars, DhcpInv
<1> QED
  BY <1>1, <1>2, <1>3, <1>4, <1>5, <1>6 DEF Next

-----------------------------------------------------------------------------
\* The invariant holds in every reachable state.
LEMMA DhcpInvariant == Spec => []DhcpInv
BY DhcpInvInit, DhcpInvNext, PTL DEF Spec

\* The tables, the clients' view and the last offer keep their types.
THEOREM DhcpTypeCorrect == Spec => []TypeOK
<1>1. DhcpInv => TypeOK
  BY DEF DhcpInv
<1> QED
  BY <1>1, DhcpInvariant, PTL

\* No handler, lost answer, sweep or change of the pool takes a lease from
\* under the client that uses it before DHCP_LEASE_TIME is over, for any number
\* of clients and whatever lease_duration they are told; only an administrator
\* who withdraws it does.
THEOREM DhcpHoldsBacked == Spec => []HoldsBacked
<1>1. ASSUME DhcpInv PROVE HoldsBacked
  <2> SUFFICES ASSUME NEW m \in Macs, holds[m] # None, ~holds[m].withdrawn
               PROVE  /\ lease[m] # None /\ lease[m].ip = holds[m].ip
                      /\ holds[m].age <= LeaseTime => Current(m)
    BY DEF HoldsBacked
  <2>1. /\ lease[m] # None /\ lease[m].ip = holds[m].ip
        /\ holds[m].age <= LeaseTime =>
              lease[m].status = "active" /\ lease[m].left >= LeaseTime - holds[m].age
    BY <1>1 DEF DhcpInv, HoldsKept, Backs
  <2>2. holds[m].age \in Nat /\ lease[m].left \in Int /\ LeaseTime \in Nat
    BY <1>1, <2>1, DhcpTypes
  <2> QED
    BY <2>1, <2>2 DEF Current, Active, IsExpired
<1> QED
  BY <1>1, DhcpInvariant, PTL

\* Two unexpired leases share an address only if one was granted past a stale
\* row: the sweep period is the one window in which the conflict check of
\* validate_requested_ip can be blind.
THEOREM DhcpNoDoubleLease == Spec => []NoDoubleLeaseIfSwept
<1>1. DhcpInv => NoDoubleLeaseIfSwept
  BY DEF DhcpInv
<1> QED
  BY <1>1, DhcpInvariant, PTL

\* create_reservation reserves no MAC and no address twice, unless two of its
\* calls overlap: the deletion of a pool or of a reservation in between does not
\* matter.
THEOREM DhcpReservedOnce == Spec => []ReservedOnceIfSerial
<1>1. DhcpInv => ReservedOnceIfSerial
  BY DEF DhcpInv
<1> QED
  BY <1>1, DhcpInvariant, PTL

\* What get_offer proposes, validate_requested_ip accepts, whichever
\* conflicting row its query returns first.
THEOREM DhcpOfferHonoured == Spec => []OfferHonoured
<1>1. Init => OfferHonoured
  BY DEF Init, OfferHonoured
<1>2. DhcpInv /\ OfferHonoured /\ [Next]_vars => OfferHonoured'
  <2> SUFFICES ASSUME DhcpInv, OfferHonoured, [Next]_vars PROVE OfferHonoured'
    OBVIOUS
  <2>1. ASSUME NEW m \in Macs, Discover(m) PROVE OfferHonoured'
    BY <2>1, DiscoverKeeps
  <2>2. CASE offer' = None
    BY <2>2 DEF OfferHonoured
  <2>3. CASE UNCHANGED vars
    BY <2>3 DEF vars, adminVars, OfferHonoured, SurelyAcceptable, Conflicts, Active, IsExpired, ReservedFor
  <2> QED
    BY <2>1, <2>2, <2>3
       DEF Next, Request, Release, GetLease, ExpireOldLeases, Tick, Administration, CreatePool, UpdatePool, DeletePool,
           WithdrawLease, CheckReservation, InsertReservation, DeleteReservation
<1> QED
  BY <1>1, <1>2, DhcpInvariant, PTL DEF Spec
=============================================================================
