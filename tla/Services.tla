------------------------------ MODULE Services ------------------------------
(***************************************************************************)
(* The modules about caches, limiters, client configurations and the       *)
(* export of zones side by side. They share no state, so a behaviour runs one of them and the      *)
(* others stay in their initial states: the states are the sum of the      *)
(* modules, not the product.                                               *)
(***************************************************************************)
EXTENDS NtsServer, RateLimiter, IocOverrides, Whois, ClientConfig, ConfigHistory, ConfigExport

VARIABLE part   \* the module that runs

Parts == {"nts", "limits", "overrides", "whois", "clients", "history", "export"}

ServicesInit ==
    /\ part \in Parts
    /\ NtsInit /\ LimInit /\ OvInit /\ WhoisInit /\ CcInit /\ HistInit /\ ExportInit
    /\ part # "overrides" => listed = {}
    /\ part # "limits" => backend = "memory"
    /\ part # "export" => cascades

\* Only module p moves.
Still(p) ==
    /\ p # "nts"       => UNCHANGED ntsVars
    /\ p # "limits"    => UNCHANGED limVars
    /\ p # "overrides" => UNCHANGED ovVars
    /\ p # "whois"     => UNCHANGED whoisVars
    /\ p # "clients"   => UNCHANGED ccVars
    /\ p # "history"   => UNCHANGED histVars
    /\ p # "export"    => UNCHANGED exportVars

ServicesNext ==
    /\ \/ part = "nts" /\ NtsNext
       \/ part = "limits" /\ LimNext
       \/ part = "overrides" /\ OvNext
       \/ part = "whois" /\ WhoisNext
       \/ part = "clients" /\ CcNext
       \/ part = "history" /\ HistNext
       \/ part = "export" /\ ExportNext
    /\ Still(part)
    /\ UNCHANGED part

servicesVars == <<part, ntsVars, limVars, ovVars, whoisVars, ccVars, histVars, exportVars>>

ServicesSpec == ServicesInit /\ [][ServicesNext]_servicesVars

\* The NTS server's keys and cookies, the limiters' counts, the overrides, the
\* WHOIS cache, the client configurations and the zones keep their types.
ServicesTypeOK ==
    NtsTypeOK /\ LimTypeOK /\ OvTypeOK /\ WhoisTypeOK /\ CcTypeOK /\ HistTypeOK /\ ExportTypeOK
=============================================================================
