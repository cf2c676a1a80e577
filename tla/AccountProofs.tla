--------------------------- MODULE AccountProofs ----------------------------
(***************************************************************************)
(* What the Manager promises about accounts an identity provider is        *)
(* responsible for, for any number of request threads and all sets of      *)
(* names: deprovisioning (Scim) and sign-on (SingleSignOn); and all the    *)
(* identity code side by side (Identity).                                  *)
(***************************************************************************)
EXTENDS Identity, CredentialProofs, SequenceTheorems, TLAPS

-----------------------------------------------------------------------------
(* Provisioning. *)

UserRow == [name : UserNames, ext : ExternalIds \cup {NoExternalId},
            admin : BOOLEAN, active : BOOLEAN]

ScimCall == [pc : {"free", "write", "external", "insert"},
             op : {"POST", "PUT", "PATCH", "DELETE"}, row : 0..MaxRows,
             name : UserNames \cup {""}, ext : ExternalIds \cup {NoExternalId},
             active : {"on", "off", "absent"}, kept : BOOLEAN, patch : 0..MaxOperations]

UniqueRows ==
    \A i, j \in DOMAIN users :
        i # j => /\ users[i].name # users[j].name
                 /\ users[i].ext = users[j].ext => users[i].ext = NoExternalId

\* What a request that has read a row still knows when it writes: the row is
\* there, and a flag it will write back is the one in the row, unless another
\* request wrote the row since.
RequestKnows(c) ==
    /\ c.pc = "write" => c.row \in DOMAIN users
    /\ c.pc = "write" /\ c.op = "PUT" =>
          /\ c.name \in UserNames
          /\ c.active = "absent" /\ c.row \notin crossed => c.kept = users[c.row].active
    /\ c.pc \in {"external", "insert"} => c.name \in UserNames /\ c.ext \in ExternalIds

ScimShape ==
    /\ bearer \in {"none", "active", "revoked"}
    /\ users \in Seq(UserRow) /\ Len(users) <= MaxRows /\ UniqueRows
    /\ request \in [ScimThreads -> ScimCall]
    /\ left \subseteq DOMAIN users /\ crossed \subseteq DOMAIN users

ScimInv ==
    /\ ScimShape
    /\ \A t \in ScimThreads : RequestKnows(request[t])
    /\ DeprovisionedIfSerial

LEMMA NoScimCallType == NoScimCall \in ScimCall /\ NoScimCall.pc = "free"
<1>1. 0 \in 0..MaxRows /\ 0 \in 0..MaxOperations
  BY ScimAssumption
<1>2. QED
  BY <1>1 DEF NoScimCall, ScimCall

LEMMA ScimInvInit == ScimInit => ScimInv
<1> SUFFICES ASSUME ScimInit PROVE ScimInv
  OBVIOUS
<1>1. users = <<>> /\ users \in Seq(UserRow) /\ Len(users) = 0 /\ DOMAIN users = {}
  BY EmptySeq, LenProperties DEF ScimInit
<1>2. 0 <= MaxRows
  BY ScimAssumption
<1>3. ScimShape
  BY <1>1, <1>2, NoScimCallType DEF ScimInit, ScimShape, UniqueRows
<1>4. QED
  BY <1>3, NoScimCallType DEF ScimInit, ScimInv, RequestKnows, DeprovisionedIfSerial

\* A statement that writes row i keeps the invariant when it changes neither
\* the external ID nor a name to one in use, when an account that is left
\* stays inactive, and when the requests that read the row before are noted.
LEMMA RowWritten ==
    ASSUME ScimInv, bearer' = bearer,
           NEW i \in DOMAIN users, NEW row \in UserRow, row.ext = users[i].ext,
           \A j \in DOMAIN users \ {i} : users[j].name # row.name,
           users' = [users EXCEPT ![i] = row],
           left' \subseteq left \cup {i}, crossed \subseteq crossed',
           crossed' \subseteq crossed \cup {i},
           i \in left' \ crossed' => ~row.active,
           request' \in [ScimThreads -> ScimCall],
           \A t \in ScimThreads :
              \/ request'[t] = request[t]
                 /\ (request[t].pc = "write" /\ request[t].row = i => i \in crossed')
              \/ request'[t].pc = "free"
              \/ request'[t].pc = "write" /\ request'[t].op # "PUT" /\ request'[t].row = i
    PROVE  ScimInv'
<1>1. users \in Seq(UserRow) /\ Len(users) <= MaxRows
      /\ left \subseteq DOMAIN users /\ crossed \subseteq DOMAIN users
  BY DEF ScimInv, ScimShape
<1>2. /\ users' \in Seq(UserRow) /\ Len(users') = Len(users)
      /\ \A j \in 1..Len(users) : users'[j] = IF j = i THEN row ELSE users[j]
  BY <1>1, ExceptSeq, LenProperties
<1>3. DOMAIN users' = DOMAIN users
  BY <1>1, <1>2, LenProperties
<1>4. \A j \in DOMAIN users : users'[j] = IF j = i THEN row ELSE users[j]
  BY <1>1, <1>2, LenProperties
<1>5. UniqueRows'
  BY <1>3, <1>4 DEF ScimInv, ScimShape, UniqueRows
<1>6. ScimShape'
  BY <1>1, <1>2, <1>3, <1>5 DEF ScimInv, ScimShape
<1>7. ASSUME NEW t \in ScimThreads PROVE RequestKnows(request[t])'
  <2>1. CASE request'[t] = request[t]
             /\ (request[t].pc = "write" /\ request[t].row = i => i \in crossed')
    BY <1>3, <1>4, <2>1 DEF ScimInv, RequestKnows
  <2>2. CASE request'[t].pc = "free"
    BY <2>2 DEF RequestKnows
  <2>3. CASE request'[t].pc = "write" /\ request'[t].op # "PUT" /\ request'[t].row = i
    BY <1>3, <2>3 DEF RequestKnows
  <2>4. QED
    BY <2>1, <2>2, <2>3
<1>8. DeprovisionedIfSerial'
  BY <1>1, <1>4 DEF ScimInv, DeprovisionedIfSerial
<1>9. QED
  BY <1>6, <1>7, <1>8 DEF ScimInv

\* So does a new row with a name and external ID of its own.
LEMMA RowAdded ==
    ASSUME ScimInv, bearer' = bearer, crossed' = crossed,
           NEW row \in UserRow, users' = Append(users, row), Len(users) < MaxRows,
           \A j \in DOMAIN users :
              /\ users[j].name # row.name
              /\ users[j].ext = row.ext => row.ext = NoExternalId,
           left' \subseteq left \cup {Len(users) + 1},
           Len(users) + 1 \in left' => ~row.active,
           request' \in [ScimThreads -> ScimCall],
           \A t \in ScimThreads : request'[t] = request[t] \/ request'[t].pc = "free"
    PROVE  ScimInv'
<1>1. users \in Seq(UserRow) /\ Len(users) \in Nat /\ DOMAIN users = 1..Len(users)
      /\ left \subseteq DOMAIN users /\ crossed \subseteq DOMAIN users
  BY LenProperties DEF ScimInv, ScimShape
<1>2. /\ users' \in Seq(UserRow) /\ Len(users') = Len(users) + 1
      /\ \A j \in 1..Len(users) : users'[j] = users[j]
      /\ users'[Len(users) + 1] = row
  BY <1>1, AppendProperties
<1>3. DOMAIN users' = DOMAIN users \cup {Len(users) + 1} /\ Len(users) + 1 \notin DOMAIN users
  BY <1>1, <1>2, LenProperties
<1>4. UniqueRows'
  BY <1>1, <1>2, <1>3 DEF ScimInv, ScimShape, UniqueRows
<1>5. Len(users') <= MaxRows
  <2>1. MaxRows \in Nat
    BY ScimAssumption
  <2>2. QED
    BY <1>1, <1>2, <2>1
<1>6. ScimShape'
  BY <1>1, <1>2, <1>3, <1>4, <1>5 DEF ScimInv, ScimShape
<1>7. \A t \in ScimThreads : RequestKnows(request[t])'
  BY <1>1, <1>2, <1>3 DEF ScimInv, RequestKnows
<1>8. DeprovisionedIfSerial'
  BY <1>1, <1>2, <1>3 DEF ScimInv, DeprovisionedIfSerial
<1>9. QED
  BY <1>6, <1>7, <1>8 DEF ScimInv

\* And a step of a request that only reads.
LEMMA OnlyRead ==
    ASSUME ScimInv, UNCHANGED <<bearer, users, left, crossed>>,
           NEW t \in ScimThreads, NEW c \in ScimCall, RequestKnows(c),
           request' = [request EXCEPT ![t] = c]
    PROVE  ScimInv'
<1>1. ScimShape'
  BY DEF ScimInv, ScimShape, UniqueRows
<1>2. \A u \in ScimThreads : RequestKnows(request[u])'
  BY DEF ScimInv, ScimShape, RequestKnows
<1>3. DeprovisionedIfSerial'
  BY DEF ScimInv, DeprovisionedIfSerial
<1>4. QED
  BY <1>1, <1>2, <1>3 DEF ScimInv

\* The history of overlapping writes: a request that is between its read and
\* its write of the row is noted.
LEMMA CrossingNotes ==
    ASSUME NEW i, NEW others, Crossing(i, others)
    PROVE  /\ crossed \subseteq crossed' /\ crossed' \subseteq crossed \cup {i}
           /\ \A t \in others : request[t].pc = "write" /\ request[t].row = i => i \in crossed'
BY DEF Crossing

LEMMA ScimInvNext == ScimInv /\ [ScimNext]_scimVars => ScimInv'
<1> SUFFICES ASSUME ScimInv, [ScimNext]_scimVars PROVE ScimInv'
  OBVIOUS
<1>1. /\ users \in Seq(UserRow) /\ Len(users) <= MaxRows /\ Len(users) \in Nat
      /\ DOMAIN users = 1..Len(users) /\ request \in [ScimThreads -> ScimCall]
      /\ \A i \in DOMAIN users : users[i] \in UserRow
  BY LenProperties, ElementOfSeq DEF ScimInv, ScimShape
<1>2. MaxRows \in Nat /\ 0 \in 0..MaxRows /\ 0 \in 0..MaxOperations /\ MaxOperations \in Nat
  BY ScimAssumption
<1>3. ASSUME NEW t \in ScimThreads, NEW c \in ScimCall, RequestKnows(c), Steps(t, c),
             UNCHANGED <<bearer, users, left, crossed>>
      PROVE  ScimInv'
  BY <1>3, OnlyRead DEF Steps
<1>4. ASSUME NEW t \in ScimThreads, Answer(t), UNCHANGED <<bearer, users, left, crossed>>
      PROVE  ScimInv'
  BY <1>4, OnlyRead, NoScimCallType DEF Answer, RequestKnows
<1>5. ASSUME MintScimToken \/ RevokeScimToken PROVE ScimInv'
  BY <1>5 DEF MintScimToken, RevokeScimToken, ScimInv, ScimShape, UniqueRows, RequestKnows,
              DeprovisionedIfSerial
<1>6. ASSUME NEW name \in UserNames, NEW admin \in BOOLEAN, AddUser(name, admin)
      PROVE  ScimInv'
  <2> DEFINE row == [name |-> name, ext |-> NoExternalId, admin |-> admin, active |-> TRUE]
  <2>1. row \in UserRow /\ row.name = name /\ row.ext = NoExternalId
    BY DEF UserRow
  <2>2. users' = Append(users, row) /\ UNCHANGED <<bearer, request, left, crossed>>
        /\ Len(users) < MaxRows /\ \A i \in DOMAIN users : users[i].name # name
    BY <1>6 DEF AddUser
  <2> HIDE DEF row
  <2>3. Len(users) + 1 \notin left
    BY <1>1 DEF ScimInv, ScimShape
  <2>4. QED
    BY <1>1, <2>1, <2>2, <2>3, RowAdded
<1>7. ASSUME NEW i \in 1..MaxRows, NEW admin \in BOOLEAN, NEW active \in BOOLEAN,
             EditUser(i, admin, active)
      PROVE  ScimInv'
  <2>1. i \in DOMAIN users /\ users[i] \in UserRow
    BY <1>1, <1>7 DEF EditUser
  <2> DEFINE row == [users[i] EXCEPT !.admin = admin, !.active = active]
  <2>2. row \in UserRow /\ row.name = users[i].name /\ row.ext = users[i].ext
        /\ row.active = active
    BY <2>1 DEF UserRow
  <2>3. users' = [users EXCEPT ![i] = row]
    BY <1>1, <1>7, <2>1 DEF EditUser, UserRow
  <2> HIDE DEF row
  <2>4. \A j \in DOMAIN users \ {i} : users[j].name # row.name
    BY <2>1, <2>2 DEF ScimInv, ScimShape, UniqueRows
  <2>5. UNCHANGED <<bearer, request>> /\ left' \subseteq left \cup {i}
        /\ (i \in left' => ~active) /\ Crossing(i, ScimThreads)
    BY <1>7 DEF EditUser, Wanted
  <2>6. /\ crossed \subseteq crossed' /\ crossed' \subseteq crossed \cup {i}
        /\ \A t \in ScimThreads :
              request[t].pc = "write" /\ request[t].row = i => i \in crossed'
    BY <2>5, CrossingNotes
  <2>7. i \in left' \ crossed' => ~row.active
    BY <2>2, <2>5
  <2>8. request' \in [ScimThreads -> ScimCall] /\ request' = request
    BY <1>1, <2>5
  <2>9. \A t \in ScimThreads :
           request'[t] = request[t]
           /\ (request[t].pc = "write" /\ request[t].row = i => i \in crossed')
    BY <2>6, <2>8
  <2>10. QED
    BY <2>1, <2>2, <2>3, <2>4, <2>5, <2>6, <2>7, <2>8, <2>9, RowWritten
<1>8. ASSUME NEW t \in ScimThreads, NEW name \in UserNames, NEW ext \in ExternalIds,
             NEW active \in {"off", "absent"}, Post(t, name, ext, active)
      PROVE  ScimInv'
  <2> DEFINE c == [NoScimCall EXCEPT !.pc = "external", !.name = name, !.ext = ext,
                                     !.active = active]
  <2>1. c \in ScimCall /\ RequestKnows(c)
    BY <1>2 DEF NoScimCall, ScimCall, RequestKnows
  <2>2. QED
    BY <1>3, <1>8, <2>1 DEF Post, Accept
<1>9. ASSUME NEW t \in ScimThreads, NEW i \in 1..MaxRows, NEW name \in UserNames,
             NEW active \in {"on", "off", "absent"}, Put(t, i, name, active)
      PROVE  ScimInv'
  <2> DEFINE c == [NoScimCall EXCEPT !.pc = "write", !.op = "PUT", !.row = i, !.name = name,
                                     !.active = active, !.kept = Kept(users[i])]
  <2>1. i \in DOMAIN users /\ users[i] \in UserRow /\ i \in 0..MaxRows
    BY <1>1, <1>2, <1>9 DEF Put, Manageable
  <2>2. Kept(users[i]) \in BOOLEAN /\ Kept(users[i]) = users[i].active
    BY <2>1 DEF Kept, UserRow
  <2>3. c \in ScimCall /\ RequestKnows(c)
    BY <1>2, <2>1, <2>2 DEF NoScimCall, ScimCall, RequestKnows
  <2>4. QED
    BY <1>3, <1>9, <2>3 DEF Put, Accept
<1>10. ASSUME NEW t \in ScimThreads, NEW i \in 1..MaxRows, NEW n \in 1..MaxOperations,
              Patch(t, i, n)
       PROVE  ScimInv'
  <2> DEFINE c == [NoScimCall EXCEPT !.pc = "write", !.op = "PATCH", !.row = i, !.patch = n]
  <2>1. i \in DOMAIN users /\ i \in 0..MaxRows /\ n \in 0..MaxOperations
    BY <1>1, <1>2, <1>10 DEF Patch, Manageable
  <2>2. c \in ScimCall /\ RequestKnows(c)
    BY <1>2, <2>1 DEF NoScimCall, ScimCall, RequestKnows
  <2>3. QED
    BY <1>3, <1>10, <2>2 DEF Patch, Accept
<1>11. ASSUME NEW t \in ScimThreads, NEW i \in 1..MaxRows, Delete(t, i) PROVE ScimInv'
  <2> DEFINE c == [NoScimCall EXCEPT !.pc = "write", !.op = "DELETE", !.row = i]
  <2>1. i \in DOMAIN users /\ i \in 0..MaxRows
    BY <1>1, <1>2, <1>11 DEF Delete, Manageable
  <2>2. c \in ScimCall /\ RequestKnows(c)
    BY <1>2, <2>1 DEF NoScimCall, ScimCall, RequestKnows
  <2>3. QED
    BY <1>3, <1>11, <2>2 DEF Delete, Accept
<1>12. ASSUME NEW t \in ScimThreads, CountExternalIds(t) PROVE ScimInv'
  <2> DEFINE c == [request[t] EXCEPT !.pc = "insert"]
  <2>1. c \in ScimCall /\ RequestKnows(c)
    BY <1>1, <1>12 DEF ScimInv, ScimCall, RequestKnows, CountExternalIds
  <2>2. QED
    BY <1>3, <1>4, <1>12, <2>1 DEF CountExternalIds
<1>13. ASSUME NEW t \in ScimThreads, InsertUser(t) PROVE ScimInv'
  <2>1. request[t].name \in UserNames /\ request[t].ext \in ExternalIds
    BY <1>13 DEF InsertUser, ScimInv, RequestKnows
  <2>2. CASE \E i \in DOMAIN users : users[i].name = request[t].name \/ users[i].ext = request[t].ext
    BY <1>4, <1>13, <2>2 DEF InsertUser
  <2>3. CASE ~\E i \in DOMAIN users : users[i].name = request[t].name \/ users[i].ext = request[t].ext
    <3> DEFINE row == [name |-> request[t].name, ext |-> request[t].ext, admin |-> FALSE,
                       active |-> request[t].active # "off"]
    <3>1. row \in UserRow /\ row.name = request[t].name /\ row.ext = request[t].ext
      BY <2>1 DEF UserRow
    <3>2. row.active = (request[t].active # "off")
      OBVIOUS
    <3>3. /\ users' = Append(users, row) /\ Len(users) < MaxRows
          /\ left' = Wanted(Len(users) + 1, request[t].active # "off")
          /\ Answer(t) /\ UNCHANGED <<bearer, crossed>>
      BY <1>13, <2>3 DEF InsertUser
    <3> HIDE DEF row
    <3>4. left' \subseteq left \cup {Len(users) + 1} /\ (Len(users) + 1 \in left' => ~row.active)
      BY <3>2, <3>3 DEF Wanted
    <3>5. /\ request' \in [ScimThreads -> ScimCall]
          /\ \A u \in ScimThreads : request'[u] = request[u] \/ request'[u].pc = "free"
      BY <1>1, <3>3, NoScimCallType DEF Answer
    <3>6. \A j \in DOMAIN users : users[j].name # row.name /\ users[j].ext # row.ext
      BY <2>3, <3>1
    <3>7. QED
      BY <3>1, <3>3, <3>4, <3>5, <3>6, RowAdded
  <2>4. QED
    BY <2>2, <2>3
\* The writes of SCIM requests to the row they read.
<1>14. ASSUME NEW t \in ScimThreads, request[t].pc = "write", bearer' = bearer,
              NEW row \in UserRow, row.ext = users[request[t].row].ext,
              \A j \in DOMAIN users \ {request[t].row} : users[j].name # row.name,
              users' = [users EXCEPT ![request[t].row] = row],
              left' \subseteq left \cup {request[t].row},
              request[t].row \in left' \ crossed' => ~row.active,
              Crossing(request[t].row, ScimThreads \ {t}),
              NEW c \in ScimCall, request' = [request EXCEPT ![t] = c],
              c.pc = "free" \/ (c.pc = "write" /\ c.op # "PUT" /\ c.row = request[t].row)
       PROVE  ScimInv'
  <2>1. PICK i \in DOMAIN users : i = request[t].row
    BY <1>14 DEF ScimInv, RequestKnows
  <2>2. /\ crossed \subseteq crossed' /\ crossed' \subseteq crossed \cup {i}
        /\ \A u \in ScimThreads \ {t} :
              request[u].pc = "write" /\ request[u].row = i => i \in crossed'
    BY <1>14, <2>1, CrossingNotes
  <2>3. /\ request' \in [ScimThreads -> ScimCall]
        /\ \A u \in ScimThreads \ {t} : request'[u] = request[u]
        /\ request'[t] = c
    BY <1>1, <1>14
  <2>4. \A u \in ScimThreads :
           \/ request'[u] = request[u]
              /\ (request[u].pc = "write" /\ request[u].row = i => i \in crossed')
           \/ request'[u].pc = "free"
           \/ request'[u].pc = "write" /\ request'[u].op # "PUT" /\ request'[u].row = i
    BY <1>14, <2>1, <2>2, <2>3
  <2>5. QED
    BY <1>14, <2>1, <2>2, <2>3, <2>4, RowWritten
<1>15. ASSUME NEW t \in ScimThreads, request[t].pc = "write", NEW active \in BOOLEAN,
              users' = [users EXCEPT ![request[t].row].active = active],
              left' = Wanted(request[t].row, active), bearer' = bearer,
              Crossing(request[t].row, ScimThreads \ {t}),
              NEW c \in ScimCall, request' = [request EXCEPT ![t] = c],
              c.pc = "free" \/ (c.pc = "write" /\ c.op # "PUT" /\ c.row = request[t].row)
       PROVE  ScimInv'
  <2>1. PICK i \in DOMAIN users : i = request[t].row
    BY <1>15 DEF ScimInv, RequestKnows
  <2>2. PICK row \in UserRow : row = [users[i] EXCEPT !.active = active]
    BY <1>1, <2>1 DEF UserRow
  <2>3. row.ext = users[i].ext /\ row.name = users[i].name /\ row.active = active
    BY <1>1, <2>1, <2>2 DEF UserRow
  <2>4. users' = [users EXCEPT ![request[t].row] = row]
    BY <1>15, <2>1, <2>2
  <2>5. \A j \in DOMAIN users \ {i} : users[j].name # row.name
    BY <2>1, <2>3 DEF ScimInv, ScimShape, UniqueRows
  <2>6. left' \subseteq left \cup {i} /\ (i \in left' => ~row.active)
    BY <1>15, <2>1, <2>3 DEF Wanted
  <2>7. QED
    BY <1>14, <1>15, <2>1, <2>3, <2>4, <2>5, <2>6
<1>16. ASSUME NEW t \in ScimThreads, WritePut(t) PROVE ScimInv'
  <2>1. /\ request[t].pc = "write" /\ request[t].op = "PUT"
        /\ Crossing(request[t].row, ScimThreads \ {t}) /\ bearer' = bearer
        /\ request' = [request EXCEPT ![t] = NoScimCall]
    BY <1>16 DEF WritePut, Answer
  <2>2. PICK i \in DOMAIN users : i = request[t].row
    BY <2>1 DEF ScimInv, RequestKnows
  <2>3. request[t].name \in UserNames
        /\ (request[t].active = "absent" /\ i \notin crossed => request[t].kept = users[i].active)
    BY <2>1, <2>2 DEF ScimInv, RequestKnows
  <2>4. crossed \subseteq crossed'
    BY <2>1, CrossingNotes
  <2>5. users[i] \in UserRow /\ users[i] = users[request[t].row]
    BY <1>1, <2>2
  <2>6. CASE \E j \in DOMAIN users \ {i} : users[j].name = request[t].name
    <3>1. users' = users /\ left' = left
      BY <1>16, <2>2, <2>6 DEF WritePut
    <3>2. users' = [users EXCEPT ![request[t].row] = users[i]]
      BY <1>1, <2>2, <3>1
    <3>3. \A j \in DOMAIN users \ {i} : users[j].name # users[i].name
      BY DEF ScimInv, ScimShape, UniqueRows
    <3>4. i \in left' \ crossed' => ~users[i].active
      BY <2>4, <3>1 DEF ScimInv, DeprovisionedIfSerial
    <3>5. /\ users[i].ext = users[request[t].row].ext
          /\ \A j \in DOMAIN users \ {request[t].row} : users[j].name # users[i].name
          /\ left' \subseteq left \cup {request[t].row}
          /\ request[t].row \in left' \ crossed' => ~users[i].active
      BY <2>2, <2>5, <3>1, <3>3, <3>4
    <3>6. QED
      BY <1>14, <2>1, <2>5, <3>2, <3>5, NoScimCallType
  <2>7. CASE ~\E j \in DOMAIN users \ {i} : users[j].name = request[t].name
    <3>1. PICK active \in BOOLEAN :
             active = IF request[t].active = "absent" THEN request[t].kept
                      ELSE request[t].active = "on"
      BY <1>1 DEF ScimCall
    <3>2. PICK row \in UserRow : row = [users[i] EXCEPT !.name = request[t].name, !.active = active]
      BY <2>3, <2>5 DEF UserRow
    <3>3. row.ext = users[i].ext /\ row.name = request[t].name /\ row.active = active
      BY <2>5, <3>2 DEF UserRow
    <3>4. /\ users' = [users EXCEPT ![i].name = request[t].name, ![i].active = active]
          /\ left' = IF request[t].active = "absent" THEN left ELSE Wanted(i, active)
      BY <1>16, <2>2, <2>7, <3>1 DEF WritePut
    <3>5. users' = [users EXCEPT ![i] = row]
      BY <1>1, <3>2, <3>4 DEF UserRow
    <3>6. left' \subseteq left \cup {i}
      BY <3>4 DEF Wanted
    <3>7. ASSUME i \in left' \ crossed' PROVE ~row.active
      <4>1. CASE request[t].active = "absent"
        BY <2>3, <2>4, <3>1, <3>3, <3>4, <3>7, <4>1 DEF ScimInv, DeprovisionedIfSerial
      <4>2. CASE request[t].active # "absent"
        BY <3>3, <3>4, <3>7, <4>2 DEF Wanted
      <4>3. QED
        BY <4>1, <4>2
    <3>8. /\ row.ext = users[request[t].row].ext
          /\ \A j \in DOMAIN users \ {request[t].row} : users[j].name # row.name
          /\ users' = [users EXCEPT ![request[t].row] = row]
          /\ left' \subseteq left \cup {request[t].row}
          /\ request[t].row \in left' \ crossed' => ~row.active
      BY <2>2, <2>5, <2>7, <3>3, <3>5, <3>6, <3>7
    <3>9. QED
      BY <1>14, <2>1, <3>8, NoScimCallType
  <2>8. QED
    BY <2>6, <2>7
<1>17. ASSUME NEW t \in ScimThreads, NEW active \in BOOLEAN, WritePatch(t, active)
       PROVE  ScimInv'
  <2>1. request[t] \in ScimCall /\ request[t].patch \in 1..MaxOperations
    <3>1. request[t] \in ScimCall /\ request[t].patch \in 0..MaxOperations
      BY <1>1 DEF ScimCall
    <3>2. request[t].patch > 0
      BY <1>17 DEF WritePatch
    <3>3. QED
      BY <1>2, <3>1, <3>2
  <2>2. request[t].patch - 1 \in 0..MaxOperations
    BY <1>2, <2>1
  <2>3. PICK c \in ScimCall : c = [request[t] EXCEPT !.patch = @ - 1]
    BY <2>1, <2>2 DEF ScimCall
  <2>4. c.pc = "write" /\ c.op # "PUT" /\ c.row = request[t].row
    BY <1>17, <2>1, <2>3 DEF WritePatch, ScimCall
  <2>5. QED
    BY <1>15, <1>17, <2>3, <2>4 DEF WritePatch, Steps
<1>18. ASSUME NEW t \in ScimThreads, EndPatch(t) PROVE ScimInv'
  BY <1>4, <1>18 DEF EndPatch
<1>19. ASSUME NEW t \in ScimThreads, WriteDelete(t) PROVE ScimInv'
  <2>1. /\ request[t].pc = "write" /\ bearer' = bearer
        /\ users' = [users EXCEPT ![request[t].row].active = FALSE]
        /\ left' = Wanted(request[t].row, FALSE)
        /\ Crossing(request[t].row, ScimThreads \ {t})
        /\ request' = [request EXCEPT ![t] = NoScimCall]
    BY <1>19 DEF WriteDelete, Answer
  <2>2. QED
    BY <1>15, <2>1, NoScimCallType
<1>20. ASSUME UNCHANGED scimVars PROVE ScimInv'
  BY <1>20 DEF scimVars, ScimInv, ScimShape, UniqueRows, RequestKnows, DeprovisionedIfSerial
<1>21. QED
  BY <1>5, <1>6, <1>7, <1>8, <1>9, <1>10, <1>11, <1>12, <1>13, <1>16, <1>17, <1>18, <1>19, <1>20
     DEF ScimNext

\* Deprovisioning holds, however many administrators and SCIM requests work on
\* the accounts: one that was deactivated stays inactive until a request asks
\* for active, except where a PUT had read the row before.
THEOREM Deprovisioned == ScimSpec => []DeprovisionedIfSerial
<1>1. ScimInv => DeprovisionedIfSerial
  BY DEF ScimInv
<1>2. QED
  BY <1>1, ScimInvInit, ScimInvNext, PTL DEF ScimSpec

\* Rows, requests and histories of provisioning keep their types, and no two
\* accounts share a user name or an external ID.
THEOREM ScimTypeCorrect == ScimSpec => []ScimTypeOK
<1>1. ASSUME ScimInv PROVE ScimTypeOK
  <2>1. MaxRows \in Nat
    BY ScimAssumption
  <2>2. /\ DOMAIN users = 1..Len(users) /\ Len(users) \in Nat /\ Len(users) <= MaxRows
        /\ \A i \in DOMAIN users : users[i] \in UserRow
    BY <1>1, LenProperties, ElementOfSeq DEF ScimInv, ScimShape
  <2>3. left \subseteq 1..MaxRows /\ crossed \subseteq 1..MaxRows
    BY <1>1, <2>1, <2>2 DEF ScimInv, ScimShape
  <2>4. ASSUME NEW i \in DOMAIN users, NEW j \in DOMAIN users
        PROVE  /\ users[i] \in [name : UserNames, ext : ExternalIds \cup {NoExternalId},
                                admin : BOOLEAN, active : BOOLEAN]
               /\ i # j => /\ users[i].name # users[j].name
                           /\ users[i].ext = users[j].ext => users[i].ext = NoExternalId
    BY <1>1, <2>2 DEF UserRow, ScimInv, ScimShape, UniqueRows
  <2>5. ASSUME NEW t \in ScimThreads
        PROVE  /\ request[t].pc \in {"free", "write", "external", "insert"}
               /\ request[t].op \in {"POST", "PUT", "PATCH", "DELETE"}
               /\ request[t].row \in 0..MaxRows
               /\ request[t].active \in {"on", "off", "absent"} /\ request[t].kept \in BOOLEAN
               /\ request[t].patch \in 0..MaxOperations
    BY <1>1 DEF ScimInv, ScimShape, ScimCall
  <2>6. QED
    BY <1>1, <2>2, <2>3, <2>4, <2>5 DEF ScimInv, ScimShape, ScimTypeOK
<1>2. QED
  BY <1>1, ScimInvInit, ScimInvNext, PTL DEF ScimSpec

-----------------------------------------------------------------------------
(* Sign-on. *)

AttemptRow == [made : BOOLEAN, old : BOOLEAN, used : BOOLEAN]

AccountRow == [email : Addresses, name : {a[1] : a \in Addresses}, owner : Owners]

LoginCall == [pc : {"free", "attempt", "exchange", "nonce", "replay", "record", "mark",
                    "subject", "email", "insert", "tokens"},
              answer : Assertions \cup {NoEmail}, secret : 0..1, user : 0..MaxAccounts]

UniqueAccounts ==
    \A i, j \in DOMAIN accounts :
        i # j => accounts[i].email # accounts[j].email /\ accounts[i].name # accounts[j].name

SsoShape ==
    /\ kind \in Protocols /\ provider \in {"none", "disabled", "enabled"} /\ secret \in 0..2
    /\ kind = "oidc" /\ provider # "none" => secret \in 1..2
    /\ attempt \in [Attempts -> AttemptRow]
    /\ accounts \in Seq(AccountRow) /\ Len(accounts) <= MaxAccounts /\ UniqueAccounts
    /\ seen \subseteq Assertions /\ login \in [SsoThreads -> LoginCall]
    /\ opened \in [Attempts -> 0..2] /\ turnedAway \in BOOLEAN /\ mingled \in BOOLEAN

\* What a callback knows at each of its steps, whatever runs beside it. The
\* account it found keeps its owner: no route writes that column.
LoginKnows(l) ==
    /\ l.pc # "free" => l.answer \in Assertions /\ attempt[l.answer.attempt].made
    /\ l.pc \in {"nonce", "subject", "email", "insert", "tokens"} =>
          attempt[l.answer.attempt].used
    /\ l.pc \in {"mark", "subject", "email", "insert", "tokens"} => l.answer.email # NoEmail
    /\ l.pc = "tokens" =>
          l.user \in DOMAIN accounts /\ accounts[l.user].owner = OwnerOf(l)

\* What it knows besides when no other callback runs: its attempt has not
\* opened a session, and a subject it did not find has no account.
LoginAlone(l) ==
    /\ l.pc \notin {"free", "attempt"} => opened[l.answer.attempt] = 0
    /\ l.pc \in {"email", "insert"} => Owned(l) = {}

\* A session is opened through a used attempt only.
UsedBeforeOpened ==
    \A a \in Attempts : /\ opened[a] # 0 => attempt[a].used
                        /\ attempt[a].used => attempt[a].made

SerialSso ==
    ~mingled => /\ \A t \in SsoThreads : LoginAlone(login[t])
                /\ \A t, u \in SsoThreads : login[t].pc # "free" /\ login[u].pc # "free" => t = u
                /\ \A a \in Attempts : opened[a] <= 1
                /\ \A i, j \in DOMAIN accounts :
                      accounts[i].owner = accounts[j].owner => i = j \/ accounts[i].owner = Local

SsoInv ==
    /\ SsoShape
    /\ \A t \in SsoThreads : LoginKnows(login[t])
    /\ UsedBeforeOpened
    /\ SerialSso

\* The first step of every proof below.
LEMMA SsoFacts ==
    ASSUME SsoInv
    PROVE  /\ accounts \in Seq(AccountRow) /\ Len(accounts) \in Nat /\ Len(accounts) <= MaxAccounts
           /\ DOMAIN accounts = 1..Len(accounts)
           /\ \A i \in DOMAIN accounts : accounts[i] \in AccountRow
           /\ attempt \in [Attempts -> AttemptRow] /\ opened \in [Attempts -> 0..2]
           /\ login \in [SsoThreads -> LoginCall]
           /\ \A t \in SsoThreads : login[t].pc # "free" =>
                 /\ login[t].answer \in Assertions /\ login[t].answer.attempt \in Attempts
                 /\ login[t].answer.subject \in Subjects
                 /\ login[t].answer.email \in Addresses \cup {NoEmail}
<1>1. Assertions \subseteq [attempt : Attempts, subject : Subjects, email : Addresses \cup {NoEmail}]
  BY SsoAssumption
<1>2. QED
  BY <1>1, LenProperties, ElementOfSeq DEF SsoInv, SsoShape, LoginKnows

LEMMA NoLoginType == NoLogin \in LoginCall /\ NoLogin.pc = "free"
<1>1. 0 \in 0..MaxAccounts /\ 0 \in 0..1
  BY SsoAssumption
<1>2. QED
  BY <1>1 DEF NoLogin, LoginCall

LEMMA SsoInvInit == SsoInit => SsoInv
<1> SUFFICES ASSUME SsoInit PROVE SsoInv
  OBVIOUS
<1>1. /\ accounts = <<>> /\ accounts \in Seq(AccountRow) /\ Len(accounts) = 0
      /\ DOMAIN accounts = {}
  BY EmptySeq, LenProperties DEF SsoInit
<1>2. 0 <= MaxAccounts /\ 0 \in 0..2 /\ 0 <= 1
  BY SsoAssumption
<1>3. NoAttempt \in AttemptRow /\ ~NoAttempt.used
  BY DEF NoAttempt, AttemptRow
<1>4. SsoShape
  BY <1>1, <1>2, <1>3, NoLoginType DEF SsoInit, SsoShape, UniqueAccounts
<1>5. UsedBeforeOpened /\ SerialSso
  BY <1>1, <1>2, <1>3, NoLoginType DEF SsoInit, UsedBeforeOpened, SerialSso, LoginAlone
<1>6. QED
  BY <1>4, <1>5, NoLoginType DEF SsoInit, SsoInv, LoginKnows

\* A step of a callback that reads, or writes nothing but assertion IDs.
LEMMA LoginMoves ==
    ASSUME SsoInv, UNCHANGED <<kind, provider, secret, attempt, accounts, opened, mingled>>,
           seen' \subseteq Assertions, turnedAway' \in BOOLEAN,
           NEW t \in SsoThreads, login[t].pc # "free",
           NEW l \in LoginCall, login' = [login EXCEPT ![t] = l],
           LoginKnows(l), ~mingled => LoginAlone(l)
    PROVE  SsoInv'
<1>1. login \in [SsoThreads -> LoginCall] /\ login'[t] = l
      /\ \A u \in SsoThreads \ {t} : login'[u] = login[u]
  BY SsoFacts
<1>2. SsoShape'
  BY <1>1 DEF SsoInv, SsoShape, UniqueAccounts
<1>3. \A u \in SsoThreads : LoginKnows(login[u])'
  BY <1>1 DEF SsoInv, LoginKnows, OwnerOf
<1>4. UsedBeforeOpened'
  BY DEF SsoInv, UsedBeforeOpened
<1>5. SerialSso'
  BY <1>1 DEF SsoInv, SerialSso, LoginAlone, Owned, OwnerOf
<1>6. QED
  BY <1>2, <1>3, <1>4, <1>5 DEF SsoInv

\* A refusal ends the callback.
LEMMA LoginRefused ==
    ASSUME SsoInv, UNCHANGED <<kind, provider, secret, attempt, accounts, opened, mingled>>,
           seen' \subseteq Assertions, turnedAway' \in BOOLEAN,
           NEW t \in SsoThreads, login[t].pc # "free", Refuse(t)
    PROVE  SsoInv'
<1>1. LoginKnows(NoLogin) /\ LoginAlone(NoLogin)
  BY NoLoginType DEF LoginKnows, LoginAlone
<1>2. QED
  BY <1>1, NoLoginType, LoginMoves DEF Refuse

\* What stays when a callback goes on to its next step.
LEMMA LoginProceeds ==
    ASSUME SsoInv, NEW t \in SsoThreads, NEW pc, Proceed(t, pc),
           pc \in {"exchange", "nonce", "replay", "record", "mark", "subject", "email", "insert"}
    PROVE  \E l \in LoginCall :
              /\ login' = [login EXCEPT ![t] = l]
              /\ l.pc = pc /\ l.answer = login[t].answer
<1>1. login \in [SsoThreads -> LoginCall] /\ login[t] \in LoginCall
  BY SsoFacts
<1>2. [login[t] EXCEPT !.pc = pc] \in LoginCall
  BY <1>1 DEF LoginCall
<1>3. login' = [login EXCEPT ![t] = [login[t] EXCEPT !.pc = pc]]
  BY DEF Proceed
<1>4. [login[t] EXCEPT !.pc = pc].pc = pc /\ [login[t] EXCEPT !.pc = pc].answer = login[t].answer
  BY <1>1 DEF LoginCall
<1>5. QED
  BY <1>2, <1>3, <1>4

\* A callback arrives with an answer of the identity provider.
LEMMA LoginStarts ==
    ASSUME SsoInv, UNCHANGED <<kind, provider, secret, attempt, accounts, seen, opened, turnedAway>>,
           NEW t \in SsoThreads, login[t].pc = "free", NEW l \in LoginCall,
           login' = [login EXCEPT ![t] = l], l.pc = "attempt", l.answer \in Assertions,
           attempt[l.answer.attempt].made, Meets(t)
    PROVE  SsoInv'
<1>1. login \in [SsoThreads -> LoginCall] /\ login'[t] = l
      /\ \A u \in SsoThreads \ {t} : login'[u] = login[u]
  BY SsoFacts
<1>2. mingled' \in BOOLEAN
      /\ (~mingled' => ~mingled /\ \A u \in SsoThreads \ {t} : login[u].pc = "free")
  BY DEF Meets
<1>3. SsoShape'
  BY <1>1, <1>2 DEF SsoInv, SsoShape, UniqueAccounts
<1>4. \A u \in SsoThreads : LoginKnows(login[u])'
  BY <1>1 DEF SsoInv, LoginKnows, OwnerOf
<1>5. UsedBeforeOpened'
  BY DEF SsoInv, UsedBeforeOpened
<1>6. SerialSso'
  BY <1>1, <1>2 DEF SsoInv, SerialSso, LoginAlone, Owned, OwnerOf
<1>7. QED
  BY <1>3, <1>4, <1>5, <1>6 DEF SsoInv

\* A row of sso_login_attempts changes; what was used stays used.
LEMMA AttemptChanges ==
    ASSUME SsoInv, UNCHANGED <<kind, provider, secret, accounts, seen, login, opened, turnedAway, mingled>>,
           NEW a \in Attempts, NEW row \in AttemptRow, attempt' = [attempt EXCEPT ![a] = row],
           row.made, attempt[a].used => row.used
    PROVE  SsoInv'
<1>1. attempt \in [Attempts -> AttemptRow] /\ attempt'[a] = row
      /\ \A b \in Attempts \ {a} : attempt'[b] = attempt[b]
  BY SsoFacts
<1>2. SsoShape'
  BY <1>1 DEF SsoInv, SsoShape, UniqueAccounts
<1>3. ASSUME NEW t \in SsoThreads PROVE LoginKnows(login[t])'
  <2>1. login[t].pc # "free" => login[t].answer.attempt \in Attempts
    BY SsoFacts
  <2>2. QED
    BY <1>1, <2>1 DEF SsoInv, LoginKnows, OwnerOf
<1>4. UsedBeforeOpened'
  BY <1>1 DEF SsoInv, UsedBeforeOpened
<1>5. SerialSso'
  BY DEF SsoInv, SerialSso, LoginAlone, Owned, OwnerOf
<1>6. QED
  BY <1>2, <1>3, <1>4, <1>5 DEF SsoInv

\* The same when a callback marks its own attempt and goes on.
LEMMA AttemptMarked ==
    ASSUME SsoInv, UNCHANGED <<kind, provider, secret, accounts, seen, opened, turnedAway, mingled>>,
           NEW t \in SsoThreads, login[t].pc # "free", login[t].pc # "attempt",
           attempt' = [attempt EXCEPT ![login[t].answer.attempt].used = TRUE],
           NEW l \in LoginCall, login' = [login EXCEPT ![t] = l],
           l.pc \in {"nonce", "subject"}, l.answer = login[t].answer,
           l.pc = "subject" => l.answer.email # NoEmail
    PROVE  SsoInv'
<1>1. PICK a \in Attempts : a = login[t].answer.attempt
  BY SsoFacts
<1>2. attempt \in [Attempts -> AttemptRow] /\ attempt[a] \in AttemptRow /\ attempt[a].made
  BY <1>1, SsoFacts DEF SsoInv, LoginKnows
<1>3. PICK row \in AttemptRow : row = [attempt[a] EXCEPT !.used = TRUE]
  BY <1>2 DEF AttemptRow
<1>4. row.made /\ row.used
  BY <1>2, <1>3 DEF AttemptRow
<1>5. /\ attempt' \in [Attempts -> AttemptRow] /\ attempt'[a] = row
      /\ \A b \in Attempts \ {a} : attempt'[b] = attempt[b]
  BY <1>1, <1>2, <1>3
<1>6. /\ login' \in [SsoThreads -> LoginCall] /\ login'[t] = l
      /\ \A u \in SsoThreads \ {t} : login'[u] = login[u]
  BY SsoFacts
<1>7. SsoShape'
  BY <1>5, <1>6 DEF SsoInv, SsoShape, UniqueAccounts
<1>8. ASSUME NEW u \in SsoThreads PROVE LoginKnows(login[u])'
  <2>1. login[u].pc # "free" => login[u].answer.attempt \in Attempts /\ login[u].answer \in Assertions
    BY SsoFacts
  <2>2. CASE u = t
    BY <1>1, <1>4, <1>5, <1>6, <2>1, <2>2 DEF LoginKnows
  <2>3. CASE u # t
    BY <1>4, <1>5, <1>6, <2>1, <2>3 DEF SsoInv, LoginKnows, OwnerOf
  <2>4. QED
    BY <2>2, <2>3
<1>9. UsedBeforeOpened'
  BY <1>4, <1>5 DEF SsoInv, UsedBeforeOpened
<1>10. SerialSso'
  BY <1>6 DEF SsoInv, SerialSso, LoginAlone, Owned, OwnerOf
<1>11. QED
  BY <1>7, <1>8, <1>9, <1>10 DEF SsoInv

\* An administrator changes the address of an account.
LEMMA AddressChanges ==
    ASSUME SsoInv, UNCHANGED <<kind, provider, secret, attempt, seen, login, opened, turnedAway, mingled>>,
           NEW i \in DOMAIN accounts, NEW email \in Addresses,
           \A j \in DOMAIN accounts : accounts[j].email # email,
           accounts' = [accounts EXCEPT ![i].email = email]
    PROVE  SsoInv'
<1>1. accounts \in Seq(AccountRow) /\ accounts[i] \in AccountRow /\ DOMAIN accounts = 1..Len(accounts)
  BY SsoFacts
<1>2. PICK row \in AccountRow : row = [accounts[i] EXCEPT !.email = email]
  BY <1>1 DEF AccountRow
<1>3. row.email = email /\ row.name = accounts[i].name /\ row.owner = accounts[i].owner
  BY <1>1, <1>2 DEF AccountRow
<1>4. accounts' = [accounts EXCEPT ![i] = row]
  BY <1>2
<1>5. /\ accounts' \in Seq(AccountRow) /\ Len(accounts') = Len(accounts)
      /\ \A j \in 1..Len(accounts) : accounts'[j] = IF j = i THEN row ELSE accounts[j]
  BY <1>1, <1>4, ExceptSeq
<1>6. DOMAIN accounts' = DOMAIN accounts
      /\ \A j \in DOMAIN accounts : accounts'[j].owner = accounts[j].owner
  BY <1>1, <1>3, <1>5, LenProperties
<1>7. UniqueAccounts'
  BY <1>1, <1>3, <1>5, <1>6 DEF SsoInv, SsoShape, UniqueAccounts
<1>8. SsoShape'
  BY <1>5, <1>7 DEF SsoInv, SsoShape
<1>9. \A t \in SsoThreads : LoginKnows(login[t])'
  BY <1>6 DEF SsoInv, LoginKnows, OwnerOf
<1>10. UsedBeforeOpened'
  BY DEF SsoInv, UsedBeforeOpened
<1>11. SerialSso'
  BY <1>6 DEF SsoInv, SerialSso, LoginAlone, Owned, OwnerOf
<1>12. QED
  BY <1>8, <1>9, <1>10, <1>11 DEF SsoInv

\* A new account, made by an administrator or by the callback of thread t for
\* a subject that, when no other callback runs, has none.
LEMMA AccountAdded ==
    ASSUME SsoInv, UNCHANGED <<kind, provider, secret, attempt, seen, opened, turnedAway, mingled>>,
           NEW email \in Addresses, ~Clashes(email), Len(accounts) < MaxAccounts,
           NEW owner \in Owners, accounts' = Append(accounts, Row(email, owner)),
           \/ owner = Local /\ login' = login
           \/ \E t \in SsoThreads, l \in LoginCall :
                /\ login[t].pc = "insert" /\ owner = OwnerOf(login[t])
                /\ login' = [login EXCEPT ![t] = l] /\ l.pc = "tokens"
                /\ l.answer = login[t].answer /\ l.user = Len(accounts) + 1
    PROVE  SsoInv'
<1>1. accounts \in Seq(AccountRow) /\ Len(accounts) \in Nat /\ DOMAIN accounts = 1..Len(accounts)
      /\ login \in [SsoThreads -> LoginCall]
  BY SsoFacts
<1>2. PICK row \in AccountRow : row = Row(email, owner)
  BY DEF AccountRow, Row
<1>3. row.email = email /\ row.name = email[1] /\ row.owner = owner
  BY <1>2 DEF Row
<1>4. /\ accounts' \in Seq(AccountRow) /\ Len(accounts') = Len(accounts) + 1
      /\ \A j \in 1..Len(accounts) : accounts'[j] = accounts[j]
      /\ accounts'[Len(accounts) + 1] = row
  BY <1>1, <1>2, AppendProperties
<1>5. /\ DOMAIN accounts' = DOMAIN accounts \cup {Len(accounts) + 1}
      /\ Len(accounts) + 1 \notin DOMAIN accounts
      /\ \A j \in DOMAIN accounts : accounts'[j] = accounts[j]
  BY <1>1, <1>4, LenProperties
<1>6. UniqueAccounts'
  <2>1. \A j \in DOMAIN accounts : accounts[j].email # row.email /\ accounts[j].name # row.name
    BY <1>3 DEF Clashes
  <2>2. QED
    BY <1>4, <1>5, <2>1 DEF SsoInv, SsoShape, UniqueAccounts
<1>7. Len(accounts') <= MaxAccounts /\ MaxAccounts \in Nat
  <2>1. MaxAccounts \in Nat
    BY SsoAssumption
  <2>2. QED
    BY <1>1, <1>4, <2>1
<1>8. login' \in [SsoThreads -> LoginCall]
  BY <1>1
<1>9. SsoShape'
  BY <1>4, <1>6, <1>7, <1>8 DEF SsoInv, SsoShape
<1>10. UsedBeforeOpened'
  BY DEF SsoInv, UsedBeforeOpened
<1>11. \A t \in SsoThreads : OwnerOf(login[t]) # Local
  BY DEF OwnerOf, Local, SsoInv, SsoShape, Protocols
<1>12. CASE owner = Local /\ login' = login
  <2>1. \A t \in SsoThreads : LoginKnows(login[t])'
    BY <1>4, <1>5, <1>12 DEF SsoInv, LoginKnows, OwnerOf
  <2>2. ASSUME ~mingled PROVE \A t \in SsoThreads : LoginAlone(login[t])'
    <3> SUFFICES ASSUME NEW t \in SsoThreads PROVE LoginAlone(login[t])'
      OBVIOUS
    <3>1. LoginAlone(login[t])
      BY <2>2 DEF SsoInv, SerialSso
    <3>2. OwnerOf(login[t])' = OwnerOf(login[t])
      BY <1>12 DEF OwnerOf
    <3>3. QED
      BY <1>3, <1>4, <1>5, <1>11, <1>12, <3>1, <3>2 DEF LoginAlone, Owned
  <2>3. SerialSso'
    BY <1>3, <1>4, <1>5, <1>12, <2>2 DEF SsoInv, SerialSso
  <2>4. QED
    BY <1>9, <1>10, <2>1, <2>3 DEF SsoInv
<1>13. CASE \E t \in SsoThreads, l \in LoginCall :
              /\ login[t].pc = "insert" /\ owner = OwnerOf(login[t])
              /\ login' = [login EXCEPT ![t] = l] /\ l.pc = "tokens"
              /\ l.answer = login[t].answer /\ l.user = Len(accounts) + 1
  <2>1. PICK t \in SsoThreads, l \in LoginCall :
              /\ login[t].pc = "insert" /\ owner = OwnerOf(login[t])
              /\ login' = [login EXCEPT ![t] = l] /\ l.pc = "tokens"
              /\ l.answer = login[t].answer /\ l.user = Len(accounts) + 1
    BY <1>13
  <2>2. login'[t] = l /\ \A u \in SsoThreads \ {t} : login'[u] = login[u]
    BY <1>1, <2>1
  <2>3. ASSUME NEW u \in SsoThreads PROVE LoginKnows(login[u])'
    <3>1. CASE u = t
      <4>1. login'[u] = l /\ LoginKnows(login[t]) /\ attempt' = attempt
        BY <2>2, <3>1 DEF SsoInv
      <4>2. OwnerOf(l) = OwnerOf(login[t])
        BY <2>1 DEF OwnerOf
      <4>3. l.user \in DOMAIN accounts' /\ accounts'[l.user].owner = OwnerOf(l)
        BY <1>3, <1>4, <1>5, <2>1, <4>2
      <4>4. /\ l.answer \in Assertions /\ attempt[l.answer.attempt].made
            /\ attempt[l.answer.attempt].used /\ l.answer.email # NoEmail
        BY <2>1, <4>1 DEF LoginKnows
      <4>5. OwnerOf(login[u])' = OwnerOf(l)
        BY <4>1 DEF OwnerOf
      <4>6. QED
        BY <2>1, <4>1, <4>3, <4>4, <4>5 DEF LoginKnows
    <3>2. CASE u # t
      BY <1>4, <1>5, <2>2, <3>2 DEF SsoInv, LoginKnows, OwnerOf
    <3>3. QED
      BY <3>1, <3>2
  <2>4. ASSUME ~mingled
        PROVE  /\ \A u \in SsoThreads : LoginAlone(login[u])'
               /\ \A j \in DOMAIN accounts : accounts[j].owner # owner
    <3>1. /\ \A u \in SsoThreads \ {t} : login[u].pc = "free"
          /\ LoginAlone(login[t])
      BY <2>1, <2>4 DEF SsoInv, SerialSso
    <3>2. QED
      BY <2>1, <2>2, <3>1 DEF LoginAlone, Owned
  <2>5. SerialSso'
    BY <1>3, <1>4, <1>5, <2>1, <2>2, <2>4 DEF SsoInv, SerialSso
  <2>6. QED
    BY <1>9, <1>10, <2>3, <2>5 DEF SsoInv
<1>14. QED
  BY <1>12, <1>13

\* A callback ends with a session.
LEMMA SessionOpened ==
    ASSUME SsoInv, NEW t \in SsoThreads, IssueTokens(t)
    PROVE  SsoInv'
<1>1. /\ login[t].pc = "tokens" /\ login' = [login EXCEPT ![t] = NoLogin]
      /\ UNCHANGED <<kind, provider, secret, attempt, accounts, seen, turnedAway, mingled>>
  BY DEF IssueTokens, Refuse
<1>2. PICK a \in Attempts : a = login[t].answer.attempt
  BY <1>1, SsoFacts
<1>3. PICK n \in 0..2 : n = IF opened[a] < 2 THEN opened[a] + 1 ELSE opened[a]
  BY SsoFacts
<1>4. opened' = [opened EXCEPT ![a] = n]
  BY <1>2, <1>3, SsoFacts DEF IssueTokens
<1>5. /\ opened' \in [Attempts -> 0..2] /\ opened'[a] = n
      /\ \A b \in Attempts \ {a} : opened'[b] = opened[b]
  BY <1>4, SsoFacts
<1>6. /\ login' \in [SsoThreads -> LoginCall] /\ login'[t].pc = "free"
      /\ \A u \in SsoThreads \ {t} : login'[u] = login[u]
  BY <1>1, SsoFacts, NoLoginType
<1>7. SsoShape'
  BY <1>1, <1>5, <1>6 DEF SsoInv, SsoShape, UniqueAccounts
<1>8. \A u \in SsoThreads : LoginKnows(login[u])'
  BY <1>1, <1>6 DEF SsoInv, LoginKnows, OwnerOf
<1>9. attempt[a].used
  BY <1>1, <1>2 DEF SsoInv, LoginKnows
<1>10. UsedBeforeOpened'
  BY <1>1, <1>5, <1>9 DEF SsoInv, UsedBeforeOpened
<1>11. SerialSso'
  <2> SUFFICES ASSUME ~mingled PROVE SerialSso'
    BY <1>1 DEF SerialSso
  <2>1. /\ \A u \in SsoThreads \ {t} : login[u].pc = "free"
        /\ opened[a] = 0 /\ \A b \in Attempts : opened[b] <= 1
    BY <1>1, <1>2 DEF SsoInv, SerialSso, LoginAlone
  <2>2. \A b \in Attempts : opened'[b] <= 1
    BY <1>3, <1>5, <2>1
  <2>3. \A u \in SsoThreads : login'[u].pc = "free"
    BY <1>6, <2>1
  <2>4. QED
    BY <1>1, <2>2, <2>3 DEF SsoInv, SerialSso, LoginAlone
<1>12. QED
  BY <1>7, <1>8, <1>10, <1>11 DEF SsoInv

\* Administration of the provider touches neither attempts nor accounts.
LEMMA ProviderChanges ==
    ASSUME SsoInv, UNCHANGED <<kind, attempt, accounts, seen, login, opened, turnedAway, mingled>>,
           provider' \in {"none", "disabled", "enabled"}, secret' \in 0..2,
           kind = "oidc" /\ provider' # "none" => secret' \in 1..2
    PROVE  SsoInv'
BY DEF SsoInv, SsoShape, UniqueAccounts, LoginKnows, OwnerOf, UsedBeforeOpened, SerialSso,
       LoginAlone, Owned

LEMMA SsoInvNext == SsoInv /\ [SsoNext]_ssoVars => SsoInv'
<1> SUFFICES ASSUME SsoInv, [SsoNext]_ssoVars PROVE SsoInv'
  OBVIOUS
<1>1. /\ kind \in Protocols /\ provider \in {"none", "disabled", "enabled"} /\ secret \in 0..2
      /\ kind = "oidc" /\ provider # "none" => secret \in 1..2
      /\ seen \subseteq Assertions /\ turnedAway \in BOOLEAN
      /\ attempt \in [Attempts -> AttemptRow] /\ login \in [SsoThreads -> LoginCall]
  BY DEF SsoInv, SsoShape
<1>2. ASSUME NEW posted \in 0..1, CreateSsoProvider(posted) PROVE SsoInv'
  BY <1>1, <1>2, ProviderChanges DEF CreateSsoProvider, Encrypt
<1>3. ASSUME NEW posted \in 0..1, NEW on \in BOOLEAN, UpdateSsoProvider(on, posted) PROVE SsoInv'
  <2>1. provider' \in {"none", "disabled", "enabled"} /\ secret \in 1..2
        /\ UNCHANGED <<kind, attempt, accounts, seen, login, opened, turnedAway, mingled>>
    BY <1>1, <1>3 DEF UpdateSsoProvider
  <2>2. secret' \in 1..2
    BY <1>3, <2>1 DEF UpdateSsoProvider, Encrypt
  <2>3. QED
    BY <2>1, <2>2, ProviderChanges
<1>4. ASSUME NEW on \in BOOLEAN, CreateSamlProvider \/ ToggleSamlProvider(on) PROVE SsoInv'
  BY <1>1, <1>4, ProviderChanges DEF CreateSamlProvider, ToggleSamlProvider
<1>5. ASSUME DeleteSsoProvider \/ DeleteSamlProvider PROVE SsoInv'
  BY <1>1, <1>5, ProviderChanges DEF DeleteSsoProvider, DeleteSamlProvider
<1>6. ASSUME NEW email \in Addresses, CreateUser(email) PROVE SsoInv'
  BY <1>6, AccountAdded DEF CreateUser, Owners
<1>7. ASSUME NEW email \in Addresses, NEW i \in 1..MaxAccounts, UpdateUser(i, email) PROVE SsoInv'
  BY <1>7, AddressChanges DEF UpdateUser
<1>8. ASSUME NEW a \in Attempts, Authorize(a) \/ SamlLogin(a) PROVE SsoInv'
  <2>1. PICK row \in AttemptRow : row = [NoAttempt EXCEPT !.made = TRUE]
    BY DEF NoAttempt, AttemptRow
  <2>2. row.made
    BY <2>1 DEF NoAttempt
  <2>3. ~attempt[a].used
    BY <1>8 DEF SsoInv, UsedBeforeOpened, Authorize, SamlLogin
  <2>4. QED
    BY <1>8, <2>1, <2>2, <2>3, AttemptChanges DEF Authorize, SamlLogin
<1>9. ASSUME NEW a \in Attempts, AttemptExpires(a) PROVE SsoInv'
  <2>1. attempt[a] \in AttemptRow
    BY <1>1
  <2>2. PICK row \in AttemptRow : row = [attempt[a] EXCEPT !.old = TRUE]
    BY <2>1 DEF AttemptRow
  <2>3. row.made = attempt[a].made /\ row.used = attempt[a].used /\ attempt[a].made
    BY <1>9, <2>1, <2>2 DEF AttemptRow, AttemptExpires
  <2>4. attempt' = [attempt EXCEPT ![a] = row]
    BY <1>9, <2>2 DEF AttemptExpires
  <2>5. QED
    BY <1>9, <2>2, <2>3, <2>4, AttemptChanges DEF AttemptExpires
<1>10. ASSUME NEW t \in SsoThreads, NEW r \in Assertions, Callback(t, r) \/ Acs(t, r)
       PROVE  SsoInv'
  <2>1. 0 \in 0..MaxAccounts /\ 0 \in 0..1
    BY SsoAssumption
  <2>2. \E l \in LoginCall :
           login' = [login EXCEPT ![t] = l] /\ l.pc = "attempt" /\ l.answer = r
    <3>1. CASE Callback(t, r)
      <4>1. secret - 1 \in 0..1
        BY <1>1, <3>1 DEF Callback
      <4>2. PICK l \in LoginCall :
               l = [NoLogin EXCEPT !.pc = "attempt", !.answer = r, !.secret = secret - 1]
        BY <2>1, <4>1 DEF NoLogin, LoginCall
      <4>3. l.pc = "attempt" /\ l.answer = r
        BY <4>2 DEF NoLogin
      <4>4. QED
        BY <3>1, <4>2, <4>3 DEF Callback
    <3>2. CASE Acs(t, r)
      <4>1. PICK l \in LoginCall : l = [NoLogin EXCEPT !.pc = "attempt", !.answer = r]
        BY <2>1 DEF NoLogin, LoginCall
      <4>2. l.pc = "attempt" /\ l.answer = r
        BY <4>1 DEF NoLogin
      <4>3. QED
        BY <3>2, <4>1, <4>2 DEF Acs
    <3>3. QED
      BY <1>10, <3>1, <3>2
  <2>3. PICK l \in LoginCall :
           login' = [login EXCEPT ![t] = l] /\ l.pc = "attempt" /\ l.answer = r
    BY <2>2
  <2>4. /\ login[t].pc = "free" /\ Meets(t) /\ attempt[r.attempt].made
        /\ UNCHANGED <<kind, provider, secret, attempt, accounts, seen, opened, turnedAway>>
    BY <1>10 DEF Callback, Acs
  <2>5. QED
    BY <2>3, <2>4, LoginStarts
\* Past the look-up, the attempt has no session yet: it is not used.
<1>11. ASSUME NEW t \in SsoThreads, login[t].pc = "attempt", Usable(login[t].answer.attempt),
              NEW pc \in {"exchange", "replay"}, Proceed(t, pc),
              UNCHANGED <<kind, provider, secret, attempt, accounts, seen, opened, mingled>>,
              turnedAway' \in BOOLEAN
       PROVE  SsoInv'
  <2>1. PICK l \in LoginCall : /\ login' = [login EXCEPT ![t] = l]
                               /\ l.pc = pc /\ l.answer = login[t].answer
    BY <1>11, LoginProceeds
  <2>2. login[t].answer \in Assertions /\ login[t].answer.attempt \in Attempts
        /\ attempt[login[t].answer.attempt].made
    BY <1>11, SsoFacts DEF SsoInv, LoginKnows
  <2>3. opened[login[t].answer.attempt] = 0
    BY <1>11, <2>2 DEF SsoInv, UsedBeforeOpened, Usable
  <2>4. LoginKnows(l) /\ LoginAlone(l)
    BY <2>1, <2>2, <2>3 DEF LoginKnows, LoginAlone
  <2>5. QED
    BY <1>1, <1>11, <2>1, <2>4, LoginMoves
<1>12. ASSUME NEW t \in SsoThreads, NEW cookie \in BOOLEAN, ReadOidcAttempt(t, cookie)
       PROVE  SsoInv'
  <2>1. /\ login[t].pc = "attempt" /\ turnedAway' \in BOOLEAN
        /\ UNCHANGED <<kind, provider, secret, attempt, accounts, seen, opened, mingled>>
        /\ (Usable(login[t].answer.attempt) /\ Proceed(t, "exchange")) \/ Refuse(t)
    BY <1>1, <1>12 DEF ReadOidcAttempt
  <2>2. QED
    BY <1>1, <1>11, <2>1, LoginRefused
<1>13. ASSUME NEW t \in SsoThreads, NEW cookie \in BOOLEAN, NEW valid \in BOOLEAN,
              ReadSamlAttempt(t, cookie, valid)
       PROVE  SsoInv'
  <2>1. /\ login[t].pc = "attempt" /\ turnedAway' \in BOOLEAN
        /\ UNCHANGED <<kind, provider, secret, attempt, accounts, seen, opened, mingled>>
        /\ (Usable(login[t].answer.attempt) /\ Proceed(t, "replay")) \/ Refuse(t)
    BY <1>1, <1>13 DEF ReadSamlAttempt
  <2>2. QED
    BY <1>1, <1>11, <2>1, LoginRefused
\* The later steps that only read.
<1>14. ASSUME NEW t \in SsoThreads, login[t].pc \notin {"free", "attempt"},
              NEW pc \in {"record", "mark", "subject", "email", "insert"}, Proceed(t, pc),
              UNCHANGED <<kind, provider, secret, attempt, accounts, opened, mingled>>,
              seen' \subseteq Assertions, turnedAway' \in BOOLEAN,
              pc \in {"subject", "email", "insert"} =>
                 login[t].pc \in {"nonce", "subject", "email", "insert"},
              pc # "record" => login[t].answer.email # NoEmail,
              ~mingled /\ pc \in {"email", "insert"} => Owned(login[t]) = {}
       PROVE  SsoInv'
  <2>1. PICK l \in LoginCall : /\ login' = [login EXCEPT ![t] = l]
                               /\ l.pc = pc /\ l.answer = login[t].answer
    BY <1>14, LoginProceeds
  <2>2. LoginKnows(login[t]) /\ (~mingled => LoginAlone(login[t]))
    BY DEF SsoInv, SerialSso
  <2>3. LoginKnows(l)
    BY <1>14, <2>1, <2>2 DEF LoginKnows
  <2>4. ~mingled => LoginAlone(l)
    BY <1>14, <2>1, <2>2 DEF LoginAlone, Owned, OwnerOf
  <2>5. QED
    BY <1>14, <2>1, <2>3, <2>4, LoginMoves
<1>15. ASSUME NEW t \in SsoThreads, ExchangeCode(t) PROVE SsoInv'
  <2>1. PICK l \in LoginCall : /\ login' = [login EXCEPT ![t] = l]
                               /\ l.pc = "nonce" /\ l.answer = login[t].answer
    BY <1>15, LoginProceeds DEF ExchangeCode
  <2>2. QED
    BY <1>15, <2>1, AttemptMarked DEF ExchangeCode
<1>16. ASSUME NEW t \in SsoThreads, ExchangeFails(t) PROVE SsoInv'
  BY <1>1, <1>16, LoginRefused DEF ExchangeFails
<1>17. ASSUME NEW t \in SsoThreads, ReadNonce(t) PROVE SsoInv'
  <2>1. /\ login[t].pc = "nonce" /\ turnedAway' \in BOOLEAN
        /\ UNCHANGED <<kind, provider, secret, attempt, accounts, seen, opened, mingled>>
        /\ (login[t].answer.email # NoEmail /\ Proceed(t, "subject")) \/ Refuse(t)
    BY <1>1, <1>17 DEF ReadNonce
  <2>2. QED
    BY <1>1, <1>14, <2>1, LoginRefused
<1>18. ASSUME NEW t \in SsoThreads, CheckAssertionId(t) PROVE SsoInv'
  <2>1. /\ login[t].pc = "replay"
        /\ UNCHANGED <<kind, provider, secret, attempt, accounts, seen, opened, turnedAway, mingled>>
        /\ Proceed(t, "record") \/ Refuse(t)
    BY <1>18 DEF CheckAssertionId
  <2>2. QED
    BY <1>1, <1>14, <2>1, LoginRefused
<1>19. ASSUME NEW t \in SsoThreads, RecordAssertionId(t) PROVE SsoInv'
  <2>1. /\ login[t].pc = "record"
        /\ UNCHANGED <<kind, provider, secret, attempt, accounts, opened, turnedAway, mingled>>
        /\ (login[t].answer.email # NoEmail /\ Proceed(t, "mark")) \/ Refuse(t)
    BY <1>19 DEF RecordAssertionId
  <2>2. seen' \subseteq Assertions
    BY <1>1, <1>19, <2>1, SsoFacts DEF RecordAssertionId
  <2>3. QED
    BY <1>1, <1>14, <2>1, <2>2, LoginRefused
<1>20. ASSUME NEW t \in SsoThreads, MarkAttemptUsed(t) PROVE SsoInv'
  <2>1. PICK l \in LoginCall : /\ login' = [login EXCEPT ![t] = l]
                               /\ l.pc = "subject" /\ l.answer = login[t].answer
    BY <1>20, LoginProceeds DEF MarkAttemptUsed
  <2>2. login[t].answer.email # NoEmail
    BY <1>20 DEF MarkAttemptUsed, SsoInv, LoginKnows
  <2>3. QED
    BY <1>20, <2>1, <2>2, AttemptMarked DEF MarkAttemptUsed
<1>21. ASSUME NEW t \in SsoThreads, MatchSubject(t) PROVE SsoInv'
  <2>1. /\ login[t].pc = "subject" /\ login[t].answer.email # NoEmail
        /\ UNCHANGED <<kind, provider, secret, attempt, accounts, seen, opened, turnedAway, mingled>>
    BY <1>21 DEF MatchSubject, SsoInv, LoginKnows
  <2>2. CASE Owned(login[t]) = {} /\ Proceed(t, "email")
    BY <1>1, <1>14, <2>1, <2>2
  <2>3. ASSUME NEW i \in Owned(login[t]), login' = [login EXCEPT ![t].pc = "tokens", ![t].user = i]
        PROVE  SsoInv'
    <3>1. i \in DOMAIN accounts /\ accounts[i].owner = OwnerOf(login[t]) /\ i \in 0..MaxAccounts
      <4>1. MaxAccounts \in Nat
        BY SsoAssumption
      <4>2. QED
        BY <4>1, SsoFacts DEF Owned
    <3>2. PICK l \in LoginCall : l = [login[t] EXCEPT !.pc = "tokens", !.user = i]
      BY <1>1, <3>1 DEF LoginCall
    <3>3. l.pc = "tokens" /\ l.user = i /\ l.answer = login[t].answer
      BY <1>1, <3>2 DEF LoginCall
    <3>4. login' = [login EXCEPT ![t] = l]
      BY <1>1, <2>3, <3>2 DEF LoginCall
    <3>5. LoginKnows(login[t]) /\ (~mingled => LoginAlone(login[t]))
      BY DEF SsoInv, SerialSso
    <3>6. LoginKnows(l) /\ (~mingled => LoginAlone(l))
      BY <2>1, <3>1, <3>3, <3>5 DEF LoginKnows, LoginAlone, OwnerOf
    <3>7. QED
      BY <1>1, <2>1, <3>4, <3>6, LoginMoves
  <2>4. QED
    BY <1>21, <2>2, <2>3 DEF MatchSubject
<1>22. ASSUME NEW t \in SsoThreads, MatchEmail(t) PROVE SsoInv'
  <2>1. /\ login[t].pc = "email" /\ login[t].answer.email # NoEmail
        /\ UNCHANGED <<kind, provider, secret, attempt, accounts, seen, opened, turnedAway, mingled>>
        /\ Proceed(t, "insert") \/ Refuse(t)
        /\ ~mingled => Owned(login[t]) = {}
    BY <1>22 DEF MatchEmail, SsoInv, LoginKnows, SerialSso, LoginAlone
  <2>2. QED
    BY <1>1, <1>14, <2>1, LoginRefused
<1>23. ASSUME NEW t \in SsoThreads, ProvisionUser(t) PROVE SsoInv'
  <2>1. /\ login[t].pc = "insert"
        /\ UNCHANGED <<kind, provider, secret, attempt, seen, opened, turnedAway, mingled>>
    BY <1>23 DEF ProvisionUser
  <2>2. CASE Clashes(login[t].answer.email)
    BY <1>1, <1>23, <2>1, <2>2, LoginRefused DEF ProvisionUser
  <2>3. CASE ~Clashes(login[t].answer.email)
    <3>1. /\ login[t].answer.email \in Addresses /\ OwnerOf(login[t]) \in Owners
      BY <1>1, <2>1, SsoFacts DEF SsoInv, LoginKnows, OwnerOf, Owners
    <3>2. /\ Len(accounts) < MaxAccounts
          /\ accounts' = Append(accounts, Row(login[t].answer.email, OwnerOf(login[t])))
          /\ login' = [login EXCEPT ![t].pc = "tokens", ![t].user = Len(accounts) + 1]
      BY <1>23, <2>3 DEF ProvisionUser
    <3>3. PICK n \in 0..MaxAccounts : n = Len(accounts) + 1
      <4>1. MaxAccounts \in Nat
        BY SsoAssumption
      <4>2. QED
        BY <3>2, <4>1, SsoFacts
    <3>4. PICK l \in LoginCall : l = [login[t] EXCEPT !.pc = "tokens", !.user = n]
      BY <1>1, <3>3 DEF LoginCall
    <3>5. l.pc = "tokens" /\ l.user = Len(accounts) + 1 /\ l.answer = login[t].answer
      BY <1>1, <3>3, <3>4 DEF LoginCall
    <3>6. login' = [login EXCEPT ![t] = l]
      BY <1>1, <3>2, <3>3, <3>4 DEF LoginCall
    <3>7. QED
      BY <2>1, <2>3, <3>1, <3>2, <3>5, <3>6, AccountAdded
  <2>4. QED
    BY <2>2, <2>3
<1>24. ASSUME UNCHANGED ssoVars PROVE SsoInv'
  BY <1>24 DEF ssoVars, SsoInv, SsoShape, UniqueAccounts, LoginKnows, OwnerOf, UsedBeforeOpened,
               SerialSso, LoginAlone, Owned
<1>25. QED
  BY <1>2, <1>3, <1>4, <1>5, <1>6, <1>7, <1>8, <1>9, <1>10, <1>12, <1>13, <1>15, <1>16, <1>17,
     <1>18, <1>19, <1>20, <1>21, <1>22, <1>23, <1>24, SessionOpened DEF SsoNext

\* However many callbacks and administrators' edits interleave, a session is
\* opened on an account of the provider and subject that answered.
THEOREM SsoSessionOfSubject == SsoSpec => []SessionOfSubject
<1>1. SsoInv => SessionOfSubject
  BY DEF SsoInv, LoginKnows, SessionOfSubject
<1>2. QED
  BY <1>1, SsoInvInit, SsoInvNext, PTL DEF SsoSpec

\* As long as callbacks do not overlap, an attempt opens one session and a
\* subject has one account, also when addresses change and logins expire.
THEOREM SsoOneSession == SsoSpec => []OneSessionIfSerial
<1>1. SsoInv => OneSessionIfSerial
  BY DEF SsoInv, SerialSso, OneSessionIfSerial
<1>2. QED
  BY <1>1, SsoInvInit, SsoInvNext, PTL DEF SsoSpec

\* Rows, callbacks and histories of sign-on keep their types; no two accounts
\* share an address or a user name, and a stored secret is encrypted.
THEOREM SsoTypeCorrect == SsoSpec => []SsoTypeOK
<1>1. ASSUME SsoInv PROVE SsoTypeOK
  <2>1. ASSUME NEW i \in DOMAIN accounts, NEW j \in DOMAIN accounts
        PROVE  /\ accounts[i] \in [email : Addresses, name : {a[1] : a \in Addresses}, owner : Owners]
               /\ i # j => /\ accounts[i].email # accounts[j].email
                           /\ accounts[i].name # accounts[j].name
    <3>1. accounts[i] \in AccountRow
      BY <1>1, SsoFacts
    <3>2. QED
      BY <1>1, <3>1 DEF AccountRow, SsoInv, SsoShape, UniqueAccounts
  <2>2. \A t \in SsoThreads : login[t] \in LoginCall
    BY <1>1, SsoFacts
  <2>3. QED
    BY <1>1, <2>1, <2>2 DEF SsoInv, SsoShape, SsoTypeOK, LoginCall, AttemptRow
<1>2. QED
  BY <1>1, SsoInvInit, SsoInvNext, PTL DEF SsoSpec

-----------------------------------------------------------------------------
(* The identity modules side by side. *)

LEMMA IdentityStep ==
    ASSUME [IdentityNext]_identityVars
    PROVE  /\ [LockNext]_lockVars /\ [FactorNext]_factorVars /\ [ProofNext]_proofVars
           /\ [GrantNext]_grantVars /\ [SsoNext]_ssoVars /\ [ScimNext]_scimVars
<1>1. CASE UNCHANGED identityVars
  BY <1>1 DEF identityVars
<1>2. CASE IdentityNext
  BY <1>2 DEF IdentityNext, Still
<1>3. QED
  BY <1>1, <1>2

\* The modules share no state: a behaviour of all of them is a behaviour of
\* each, so what the run shows of one holds of it alone and what is proved of it
\* alone holds here.
THEOREM IdentityIsItsParts ==
    IdentitySpec => LockSpec /\ FactorSpec /\ ProofSpec /\ GrantSpec /\ SsoSpec /\ ScimSpec
<1>1. IdentityInit => LockInit /\ FactorInit /\ ProofInit /\ GrantInit /\ SsoInit /\ ScimInit
  BY DEF IdentityInit
<1>2. QED
  BY <1>1, IdentityStep, PTL
  DEF IdentitySpec, LockSpec, FactorSpec, ProofSpec, GrantSpec, SsoSpec, ScimSpec

\* Rows, requests and histories keep their types in every state of the identity
\* code, whichever module runs.
THEOREM IdentityTypeCorrect == IdentitySpec => []IdentityTypeOK
<1>1. LockTypeOK /\ FactorTypeOK /\ ProofTypeOK /\ GrantTypeOK /\ SsoTypeOK /\ ScimTypeOK
      => IdentityTypeOK
  BY DEF IdentityTypeOK
<1>2. QED
  BY <1>1, IdentityIsItsParts, LockTypeCorrect, FactorTypeCorrect, ProofTypeCorrect, GrantTypeCorrect,
     SsoTypeCorrect, ScimTypeCorrect, PTL
=============================================================================
