-------------------------------- MODULE Scim --------------------------------
(***************************************************************************)
(* Provisioning of accounts by an identity provider (SCIM 2.0).            *)
(*   services/scim_service.py   SCIMTokenService                           *)
(*   blueprints/scim.py         Users: POST, PUT, PATCH, DELETE; tokens    *)
(*   blueprints/users.py        the administrators' edits of the same rows *)
(*                                                                         *)
(* One bearer token. Addresses and names of persons are left out: a row is *)
(* its user name, external ID, role and active flag. Each statement commits*)
(* by itself, also each operation of a PATCH.                              *)
(***************************************************************************)
EXTENDS Integers, Sequences

CONSTANTS
    ScimThreads,    \* request threads
    UserNames,      \* values of userName
    ExternalIds,    \* values of externalId
    NoExternalId,   \* external_id of an account made by an administrator
    MaxRows,        \* bound on rows
    MaxOperations   \* bound on operations of a PATCH

ASSUME ScimAssumption == {MaxRows, MaxOperations} \subseteq Nat \ {0}

VARIABLES
    bearer,    \* scim_tokens row: "none", "active" or "revoked"
    users,     \* auth_user: a sequence of rows, the id is the index
    request,   \* SCIM request of each thread
    left,      \* history: rows deactivated and not asked back since
    crossed    \* history: rows written by two requests that overlapped

scimVars == <<bearer, users, request, left, crossed>>

\* patch: operations of a PATCH that are still to be done.
NoScimCall == [pc |-> "free", op |-> "POST", row |-> 0, name |-> "", ext |-> NoExternalId,
               active |-> "absent", kept |-> FALSE, patch |-> 0]

ScimTypeOK ==
    /\ bearer \in {"none", "active", "revoked"}
    /\ Len(users) <= MaxRows
    /\ \A i, j \in DOMAIN users :
          /\ users[i] \in [name : UserNames, ext : ExternalIds \cup {NoExternalId},
                           admin : BOOLEAN, active : BOOLEAN]
          /\ i # j => /\ users[i].name # users[j].name
                      /\ users[i].ext = users[j].ext => users[i].ext = NoExternalId
    /\ \A t \in ScimThreads :
          /\ request[t].pc \in {"free", "write", "external", "insert"}
          /\ request[t].op \in {"POST", "PUT", "PATCH", "DELETE"} /\ request[t].row \in 0..MaxRows
          /\ request[t].active \in {"on", "off", "absent"} /\ request[t].kept \in BOOLEAN
          /\ request[t].patch \in 0..MaxOperations
    /\ left \subseteq 1..MaxRows /\ crossed \subseteq 1..MaxRows

ScimInit ==
    /\ bearer = "none" /\ users = <<>>
    /\ request = [t \in ScimThreads |-> NoScimCall]
    /\ left = {} /\ crossed = {}

-----------------------------------------------------------------------------
(* Administration: SCIM tokens and the user routes. *)

MintScimToken ==
    /\ bearer = "none" /\ bearer' = "active"
    /\ UNCHANGED <<users, request, left, crossed>>

RevokeScimToken ==
    /\ bearer = "active" /\ bearer' = "revoked"
    /\ UNCHANGED <<users, request, left, crossed>>

AddUser(name, admin) ==
    /\ Len(users) < MaxRows /\ \A i \in DOMAIN users : users[i].name # name
    /\ users' = Append(users, [name |-> name, ext |-> NoExternalId, admin |-> admin, active |-> TRUE])
    /\ UNCHANGED <<bearer, request, left, crossed>>

\* The requests that have read row i see it change under them (history).
Crossing(i, others) ==
    crossed' = IF \E t \in others : request[t].row = i /\ request[t].pc = "write"
               THEN crossed \cup {i} ELSE crossed

Wanted(i, active) == IF active THEN left \ {i} ELSE left \cup {i}

\* update_user of users.py: role and active flag. (delete_user: active is FALSE.)
EditUser(i, admin, active) ==
    /\ i \in DOMAIN users
    /\ users' = [users EXCEPT ![i].admin = admin, ![i].active = active]
    /\ left' = Wanted(i, active) /\ Crossing(i, ScimThreads)
    /\ UNCHANGED <<bearer, request>>

-----------------------------------------------------------------------------
(* SCIM requests. *)

Answer(t)   == request' = [request EXCEPT ![t] = NoScimCall]
Steps(t, c) == request' = [request EXCEPT ![t] = c]

\* require_scim_token. The first read of the row is made in the same step:
\* nothing but the request's acceptance depends on the token.
Accept(t, c) ==
    /\ request[t].pc = "free" /\ bearer = "active"
    /\ Steps(t, c)
    /\ UNCHANGED <<bearer, users, left, crossed>>

\* create_user counts the rows with the name, then those with the external
\* ID, and inserts. The account is active unless the body says otherwise.
Post(t, name, ext, active) ==
    /\ \A i \in DOMAIN users : users[i].name # name
    /\ Accept(t, [NoScimCall EXCEPT !.pc = "external", !.name = name, !.ext = ext, !.active = active])

CountExternalIds(t) ==
    /\ request[t].pc = "external"
    /\ IF \E i \in DOMAIN users : users[i].ext = request[t].ext
       THEN Answer(t) ELSE Steps(t, [request[t] EXCEPT !.pc = "insert"])
    /\ UNCHANGED <<bearer, users, left, crossed>>

\* The unique columns turn away what came in between: error 500.
InsertUser(t) ==
    LET c == request[t]
        clash == \E i \in DOMAIN users : users[i].name = c.name \/ users[i].ext = c.ext
    IN  /\ c.pc = "insert" /\ (clash \/ Len(users) < MaxRows)
        /\ users' = IF clash THEN users
                    ELSE Append(users, [name |-> c.name, ext |-> c.ext, admin |-> FALSE,
                                        active |-> c.active # "off"])
        /\ left' = IF clash THEN left ELSE Wanted(Len(users) + 1, c.active # "off")
        /\ Answer(t)
        /\ UNCHANGED <<bearer, crossed>>

\* Mutation: a PUT without active makes the account active, as a POST does.
KeptActive(row) == TRUE

\* data.get('active', user.active)
Kept(row) == row.active

\* A row an administrator made, or one of a SystemAdmin, is not found.
Manageable(i) == i \in DOMAIN users /\ ~users[i].admin /\ users[i].ext # NoExternalId

\* The row is read; what a PUT does not mention it will write back as read.
Put(t, i, name, active) ==
    /\ Manageable(i)
    /\ Accept(t, [NoScimCall EXCEPT !.pc = "write", !.op = "PUT", !.row = i, !.name = name,
                                    !.active = active, !.kept = Kept(users[i])])

Patch(t, i, n) ==
    /\ Manageable(i)
    /\ Accept(t, [NoScimCall EXCEPT !.pc = "write", !.op = "PATCH", !.row = i, !.patch = n])

Delete(t, i) ==
    /\ Manageable(i)
    /\ Accept(t, [NoScimCall EXCEPT !.pc = "write", !.op = "DELETE", !.row = i])

\* A PUT replaces the row unless its new name is taken (error 500).
WritePut(t) ==
    LET c == request[t]
        active == IF c.active = "absent" THEN c.kept ELSE c.active = "on"
        clash == \E i \in DOMAIN users \ {c.row} : users[i].name = c.name
    IN  /\ c.pc = "write" /\ c.op = "PUT"
        /\ users' = IF clash THEN users
                    ELSE [users EXCEPT ![c.row].name = c.name, ![c.row].active = active]
        /\ left' = IF clash \/ c.active = "absent" THEN left ELSE Wanted(c.row, active)
        /\ Crossing(c.row, ScimThreads \ {t})
        /\ Answer(t)
        /\ UNCHANGED bearer

\* The next operation of a PATCH replaces active, in a statement of its own.
WritePatch(t, active) ==
    LET c == request[t] IN
    /\ c.pc = "write" /\ c.op = "PATCH" /\ c.patch > 0
    /\ users' = [users EXCEPT ![c.row].active = active]
    /\ left' = Wanted(c.row, active) /\ Crossing(c.row, ScimThreads \ {t})
    /\ Steps(t, [c EXCEPT !.patch = @ - 1])
    /\ UNCHANGED bearer

\* No operation is left, or the next one has a path that is not supported: the
\* request ends with an error and what was written stays.
EndPatch(t) ==
    /\ request[t].pc = "write" /\ request[t].op = "PATCH"
    /\ Answer(t)
    /\ UNCHANGED <<bearer, users, left, crossed>>

WriteDelete(t) ==
    LET c == request[t] IN
    /\ c.pc = "write" /\ c.op = "DELETE"
    /\ users' = [users EXCEPT ![c.row].active = FALSE]
    /\ left' = Wanted(c.row, FALSE) /\ Crossing(c.row, ScimThreads \ {t})
    /\ Answer(t)
    /\ UNCHANGED bearer

ScimNext ==
    \/ MintScimToken \/ RevokeScimToken
    \/ \E name \in UserNames, admin \in BOOLEAN : AddUser(name, admin)
    \/ \E i \in 1..MaxRows, admin, active \in BOOLEAN : EditUser(i, admin, active)
    \/ \E t \in ScimThreads :
          \/ \E name \in UserNames :
                \/ \E ext \in ExternalIds, active \in {"off", "absent"} : Post(t, name, ext, active)
                \/ \E i \in 1..MaxRows, active \in {"on", "off", "absent"} : Put(t, i, name, active)
          \/ \E i \in 1..MaxRows : Delete(t, i) \/ \E n \in 1..MaxOperations : Patch(t, i, n)
          \/ CountExternalIds(t) \/ InsertUser(t) \/ WritePut(t) \/ WriteDelete(t)
          \/ (\E active \in BOOLEAN : WritePatch(t, active)) \/ EndPatch(t)

ScimSpec == ScimInit /\ [][ScimNext]_scimVars

-----------------------------------------------------------------------------
(* Properties. *)

\* Deprovisioning holds: an account that was deactivated, by DELETE, PATCH,
\* PUT or an administrator, is inactive until a request asks for active. The
\* exception is a row written while another request was between its read and
\* its write: a PUT then writes back the flag it read before.
DeprovisionedIfSerial ==
    \A i \in left \ crossed : ~users[i].active
=============================================================================
