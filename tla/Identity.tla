------------------------------ MODULE Identity ------------------------------
(***************************************************************************)
(* The modules about users, machines and their credentials side by side;   *)
(* AuthTokens has a run of its own. They share no state, so a behaviour    *)
(* runs one of them and the others stay in their initial states: the       *)
(* states are the sum of the modules, not the product.                     *)
(***************************************************************************)
EXTENDS LoginLockout, SecondFactor, DpopReplay, MachineGrant, SingleSignOn, Scim

VARIABLE part   \* the module that runs

Parts == {"lockout", "factor", "dpop", "grant", "sso", "scim"}

IdentityInit ==
    /\ part \in Parts
    /\ LockInit /\ FactorInit /\ ProofInit /\ GrantInit /\ SsoInit /\ ScimInit
    /\ part # "sso" => kind = "saml"

\* Only module p moves.
Still(p) ==
    /\ p # "lockout" => UNCHANGED lockVars
    /\ p # "factor"  => UNCHANGED factorVars
    /\ p # "dpop"    => UNCHANGED proofVars
    /\ p # "grant"   => UNCHANGED grantVars
    /\ p # "sso"     => UNCHANGED ssoVars
    /\ p # "scim"    => UNCHANGED scimVars

IdentityNext ==
    /\ \/ part = "lockout" /\ LockNext
       \/ part = "factor" /\ FactorNext
       \/ part = "dpop" /\ ProofNext
       \/ part = "grant" /\ GrantNext
       \/ part = "sso" /\ SsoNext
       \/ part = "scim" /\ ScimNext
    /\ Still(part)
    /\ UNCHANGED part

identityVars == <<part, lockVars, factorVars, proofVars, grantVars, ssoVars, scimVars>>

IdentitySpec == IdentityInit /\ [][IdentityNext]_identityVars

\* Rows, requests and histories of all six modules keep their types.
IdentityTypeOK ==
    LockTypeOK /\ FactorTypeOK /\ ProofTypeOK /\ GrantTypeOK /\ SsoTypeOK /\ ScimTypeOK
=============================================================================
