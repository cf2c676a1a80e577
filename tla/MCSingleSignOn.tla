--------------------------- MODULE MCSingleSignOn ---------------------------
(* SingleSignOn on a small instance: one subject, two attempts.              *)
EXTENDS SingleSignOn

CONSTANTS a1, a2, s1

MCAddresses  == {<<"ann", "x">>, <<"bob", "x">>}
MCAssertions == {[attempt |-> a1, subject |-> s1, email |-> <<"ann", "x">>],
                 [attempt |-> a2, subject |-> s1, email |-> NoEmail]}
=============================================================================
