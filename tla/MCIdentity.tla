----------------------------- MODULE MCIdentity -----------------------------
(***************************************************************************)
(* The constants of Identity, for TLC.                                     *)
(***************************************************************************)
EXTENDS Identity

CONSTANTS a1, a2, s1

\* One subject of the identity provider, whose address changes between two
\* logins.
MCAddresses  == {<<"ann", "x">>, <<"bob", "x">>}
MCAssertions == {[attempt |-> a1, subject |-> s1, email |-> <<"ann", "x">>],
                 [attempt |-> a2, subject |-> s1, email |-> <<"bob", "x">>]}
=============================================================================
