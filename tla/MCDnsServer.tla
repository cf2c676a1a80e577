----------------------------- MODULE MCDnsServer -----------------------------
(***************************************************************************)
(* Instances of DnsServer for TLC.                                         *)
(***************************************************************************)
EXTENDS DnsServer

CONSTANTS z1, z2, d1, d2, ip1

Cfg(z, f) == [zones |-> z, feeds |-> f]

\* One zone, which an administrator creates as a protected one and deletes again
\* when a feed lists its address. The router keeps a deleted zone and the checker
\* a deleted feed: an empty list loads nothing.
OneZone      == {z1}
OneZoneUnder == [d \in {d1} |-> <<z1>>]
OneZoneOrder == <<z1>>
PairConfigs  == {Cfg([z \in {z1} |-> "absent"], {{ip1}}),
                 Cfg([z \in {z1} |-> "shared"], {})}

\* z2 is nested in z1 and sorts after it, as vpn.example.com does in and after
\* example.com; d2 lies in both.
NestedUnder   == (d1 :> <<z1>>) @@ (d2 :> <<z2, z1>>)
NestedOrder   == <<z1, z2>>
NestedConfigs == {Cfg((z1 :> "public") @@ (z2 :> v), {}) : v \in {"absent", "shared"}}
=============================================================================
