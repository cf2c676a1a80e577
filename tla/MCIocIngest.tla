---------------------------- MODULE MCIocIngest -----------------------------
(* IocIngest on a small instance: the job and one sync request on two feeds. *)
EXTENDS IocIngest
=============================================================================
