---------------------------- MODULE ConfigHistory ----------------------------
(***************************************************************************)
(* Versions of a client configuration and their history.                   *)
(*   services/client_config_service.py  create_client_config,              *)
(*                                      update_client_config               *)
(*                                                                         *)
(* An update reads the version, writes row and version, and adds the       *)
(* history entry: three statements that commit by themselves, while other  *)
(* workers update the same configuration. One configuration is modelled.   *)
(***************************************************************************)
EXTENDS Integers, FiniteSets

CONSTANTS
    Payloads,    \* valid config_data
    Editors,     \* request threads
    MaxEdits,    \* bound on versions
    MaxAborts    \* bound on requests that fail between two statements

ASSUME HistoryAssumption ==
    MaxEdits \in Nat \ {0} /\ MaxAborts \in Nat /\ Payloads # {}

VARIABLES
    config,   \* client_config row; version 0 before creation
    history,  \* config_history: <<version, data>>
    edit,     \* request of each worker: stage, version and data it will write
    aborts,   \* failed requests so far
    raced     \* history: two updates overlapped, or one failed half way

histVars == <<config, history, edit, aborts, raced>>

SomeData == CHOOSE p \in Payloads : TRUE
NoEdit == [pc |-> "free", version |-> 0, data |-> SomeData]

HistTypeOK ==
    /\ config \in [version : 0..MaxEdits, data : Payloads]
    /\ history \subseteq ((1..MaxEdits) \X Payloads)
    /\ edit \in [Editors -> [pc : {"free", "bump", "log"}, version : 0..MaxEdits, data : Payloads]]
    /\ aborts \in 0..MaxAborts /\ raced \in BOOLEAN

HistInit ==
    /\ config = [version |-> 0, data |-> SomeData]
    /\ history = {}
    /\ edit = [w \in Editors |-> NoEdit]
    /\ aborts = 0 /\ raced = FALSE

\* create_client_config: the row; its history entry is a statement of its own.
CreateConfig(w, data) ==
    /\ edit[w].pc = "free" /\ config.version = 0
    /\ config' = [version |-> 1, data |-> data]
    /\ edit' = [edit EXCEPT ![w] = [pc |-> "log", version |-> 1, data |-> data]]
    /\ UNCHANGED <<history, aborts, raced>>

\* update_client_config reads the row. Another request between its read and
\* its history entry makes it a race.
ReadVersion(w, data) ==
    /\ edit[w].pc = "free" /\ config.version \in 1..(MaxEdits - 1)
    /\ edit' = [edit EXCEPT ![w] = [pc |-> "bump", version |-> config.version + 1, data |-> data]]
    /\ raced' = (raced \/ \E v \in Editors : edit[v].pc # "free")
    /\ UNCHANGED <<config, history, aborts>>

BumpVersion(w) ==
    /\ edit[w].pc = "bump"
    /\ config' = [version |-> edit[w].version, data |-> edit[w].data]
    /\ edit' = [edit EXCEPT ![w].pc = "log"]
    /\ UNCHANGED <<history, aborts, raced>>

\* Mutation: the history gets the version before the change.
LogVersionOld(w) ==
    /\ edit[w].pc = "log"
    /\ history' = history \cup {<<IF edit[w].version > 1 THEN edit[w].version - 1 ELSE 1,
                                 edit[w].data>>}
    /\ edit' = [edit EXCEPT ![w] = NoEdit]
    /\ UNCHANGED <<config, aborts, raced>>

LogVersion(w) ==
    /\ edit[w].pc = "log"
    /\ history' = history \cup {<<edit[w].version, edit[w].data>>}
    /\ edit' = [edit EXCEPT ![w] = NoEdit]
    /\ UNCHANGED <<config, aborts, raced>>

\* A statement fails or the worker dies.
AbortEdit(w) ==
    /\ edit[w].pc # "free" /\ aborts < MaxAborts
    /\ aborts' = aborts + 1
    /\ raced' = (raced \/ edit[w].pc = "log")
    /\ edit' = [edit EXCEPT ![w] = NoEdit]
    /\ UNCHANGED <<config, history>>

HistNext ==
    \E w \in Editors :
        \/ \E data \in Payloads : CreateConfig(w, data) \/ ReadVersion(w, data)
        \/ BumpVersion(w) \/ LogVersion(w) \/ AbortEdit(w)

HistSpec == HistInit /\ [][HistNext]_histVars

-----------------------------------------------------------------------------
(* Properties. *)

\* config_history holds every version of the configuration once, the current
\* one included, unless two updates overlapped or one failed between the row
\* and the history.
HistoryCompleteIfSerial ==
    (~raced /\ \A w \in Editors : edit[w].pc # "log") =>
        /\ {h[1] : h \in history} = 1..config.version /\ Cardinality(history) = config.version
        /\ config.version > 0 => <<config.version, config.data>> \in history
=============================================================================
