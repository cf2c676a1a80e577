------------------------------ MODULE MCWhois -------------------------------
(* Whois on a small instance: two threads of one gunicorn worker and one     *)
(* thread of another.                                                        *)
EXTENDS Whois

MCThreads == 1..3
MCProcOf  == [t \in 1..3 |-> IF t = 3 THEN "p2" ELSE "p1"]

\* The answer n has n index entries.
MCEntries == [a \in Answers |-> a]
=============================================================================
