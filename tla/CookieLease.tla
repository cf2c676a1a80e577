---------------------------- MODULE CookieLease -----------------------------
(***************************************************************************)
(* What the NTP server promises to a client that went through NTS-KE: a    *)
(* cookie is a lease. While the service runs, a request under a lease that *)
(* has not run out is answered with the time and a fresh lease (or dropped *)
(* by the rate limit), and no other request is answered. The service may   *)
(* stop at any time, and then stays silent until a restart, which ends     *)
(* every lease. Nothing is said of keys, versions and rotation: NtsServer  *)
(* implements this module with them.                                       *)
(*   ntp-server/bins/server.py   CookieManager, handle_request             *)
(***************************************************************************)
EXTENDS Integers

CONSTANTS Clients, Lifetime

VARIABLES
    lease,    \* the leases handed out: client and remaining life
    running,  \* whether requests are received at all
    exchange  \* the last request: was it genuine and under a live lease, and its outcome

leaseVars == <<lease, running, exchange>>

Lease     == [client : Clients, left : 0..Lifetime]
Exchanges == [live : BOOLEAN, out : {"none", "time", "dropped", "limited"}]
NoRequest == [live |-> FALSE, out |-> "none"]

LeaseInit == lease = {} /\ running = TRUE /\ exchange = NoRequest

Fresh(c) == [client |-> c, left |-> Lifetime]

Grant(c) == lease' = lease \cup {Fresh(c)} /\ UNCHANGED <<running, exchange>>

Serve(l) ==
    /\ running /\ l \in lease /\ l.left > 0
    /\ lease' = lease \cup {Fresh(l.client)}
    /\ exchange' = [live |-> TRUE, out |-> "time"]
    /\ UNCHANGED running

\* Only a request that is forged or has no live lease is refused for good.
Refuse ==
    /\ running /\ exchange' = [live |-> FALSE, out |-> "dropped"]
    /\ UNCHANGED <<lease, running>>

\* The rate limit drops any request.
Limit ==
    /\ running /\ \E b \in BOOLEAN : exchange' = [live |-> b, out |-> "limited"]
    /\ UNCHANGED <<lease, running>>

Worn(l) == [l EXCEPT !.left = IF l.left = 0 THEN 0 ELSE l.left - 1]

Pass == lease' = {Worn(l) : l \in lease} /\ UNCHANGED <<running, exchange>>

Restarted == lease' = {} /\ running' = TRUE /\ exchange' = NoRequest

\* An error ends the service; the leases wear on.
Stop == running /\ running' = FALSE /\ UNCHANGED <<lease, exchange>>

LeaseNext ==
    \/ \E c \in Clients : Grant(c)
    \/ \E l \in lease : Serve(l)
    \/ Refuse \/ Limit \/ Pass \/ Restarted \/ Stop

LeaseSpec == LeaseInit /\ [][LeaseNext]_leaseVars
=============================================================================
