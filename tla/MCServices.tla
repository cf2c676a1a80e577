----------------------------- MODULE MCServices -----------------------------
(***************************************************************************)
(* The constants of Services, for TLC.                                     *)
(***************************************************************************)
EXTENDS Services

\* A name, the name under it and the name under that; an override with a
\* wildcard in the middle, and feeds with a wildcard entry.
MCNames     == {<<"a">>, <<"b", "a">>, <<"c", "b", "a">>}
MCTargets   == {[name |-> <<"b", "a">>, wild |-> TRUE]}
MCFeedLists == {{}, {[name |-> <<"a">>, wild |-> TRUE]}}

\* The two threads of a gunicorn worker. The answer n has n index entries.
MCThreads == 1..2
MCProcOf  == [t \in 1..2 |-> "p1"]
MCEntries == [a \in Answers |-> a]

\* Two configurations, one in each domain.
MCDomainOf == <<"d1", "d2">>
=============================================================================
