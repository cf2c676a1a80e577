--------------------------- MODULE ServicesProofs ---------------------------
(***************************************************************************)
(* What the smaller services promise, for any number of workers, servers,  *)
(* clients and identities: configuration history (ConfigHistory), client   *)
(* configuration (ClientConfig), rate limits (RateLimiter) and the WHOIS   *)
(* cache (Whois); and the seven services side by side (Services).          *)
(***************************************************************************)
EXTENDS Services, NtsServerProofs, FeedProofs, FiniteSetTheorems, SequenceTheorems, TLAPS

-----------------------------------------------------------------------------
(* Configuration history. *)

ConfigRow  == [version : 0..MaxEdits, data : Payloads]
EditRecord == [pc : {"free", "bump", "log"}, version : 0..MaxEdits, data : Payloads]

\* The history has an entry for each version up to n.
LoggedTo(n) == /\ {h[1] : h \in history} = 1..n
               /\ IsFiniteSet(history) /\ Cardinality(history) = n

\* Until a race, one update runs at a time; the history follows the row, one
\* version behind while an entry is still to be written.
SerialEdits ==
    ~raced =>
        /\ \A v, w \in Editors : edit[v].pc # "free" /\ edit[w].pc # "free" => v = w
        /\ \A w \in Editors :
              /\ edit[w].pc # "free" => config.version > 0
              /\ edit[w].pc = "bump" => edit[w].version = config.version + 1
              /\ edit[w].pc = "log" => /\ edit[w].version = config.version
                                       /\ edit[w].data = config.data
                                       /\ LoggedTo(config.version - 1)
        /\ (\A w \in Editors : edit[w].pc # "log") =>
              /\ LoggedTo(config.version)
              /\ config.version > 0 => <<config.version, config.data>> \in history

HistInv ==
    /\ HistTypeOK /\ SerialEdits
    /\ \A w \in Editors : edit[w].pc # "free" => edit[w].version > 0

LEMMA HistInvInit == HistInit => HistInv
<1> SUFFICES ASSUME HistInit PROVE HistInv
  OBVIOUS
<1>1. SomeData \in Payloads /\ 0 \in 0..MaxEdits /\ 0 \in 0..MaxAborts
  BY HistoryAssumption DEF SomeData
<1>2. HistTypeOK
  BY <1>1 DEF HistInit, HistTypeOK, NoEdit
<1>3. LoggedTo(0)
  BY FS_EmptySet DEF HistInit, LoggedTo
<1>4. config.version = 0 /\ \A w \in Editors : edit[w].pc = "free"
  BY DEF HistInit, NoEdit
<1>5. SerialEdits
  BY <1>3, <1>4 DEF SerialEdits
<1>6. QED
  BY <1>2, <1>4, <1>5 DEF HistInv

\* One more entry: versions and entries stay in step.
LEMMA OneMoreEntry ==
    ASSUME NEW n \in Nat, LoggedTo(n), NEW data, history' = history \cup {<<n + 1, data>>}
    PROVE  LoggedTo(n + 1)'
<1>1. <<n + 1, data>> \notin history
  <2> SUFFICES ASSUME <<n + 1, data>> \in history PROVE FALSE
    OBVIOUS
  <2>1. n + 1 \in {h[1] : h \in history}
    OBVIOUS
  <2>2. QED
    BY <2>1 DEF LoggedTo
<1>2. IsFiniteSet(history') /\ Cardinality(history') = n + 1
  BY <1>1, FS_AddElement DEF LoggedTo
<1>3. {h[1] : h \in history'} = {h[1] : h \in history} \cup {n + 1}
  <2>1. <<n + 1, data>>[1] = n + 1 /\ <<n + 1, data>> \in history'
    OBVIOUS
  <2>2. ASSUME NEW x \in {h[1] : h \in history} PROVE x \in {h[1] : h \in history'}
    OBVIOUS
  <2>3. n + 1 \in {h[1] : h \in history'}
    BY <2>1
  <2>4. ASSUME NEW x \in {h[1] : h \in history'} PROVE x \in {h[1] : h \in history} \cup {n + 1}
    <3>1. PICK h \in history' : x = h[1]
      OBVIOUS
    <3>2. QED
      BY <2>1, <3>1
  <2>5. QED
    BY <2>2, <2>3, <2>4
<1>4. {h[1] : h \in history'} = 1..(n + 1)
  BY <1>3 DEF LoggedTo
<1>5. QED
  BY <1>2, <1>4 DEF LoggedTo

LEMMA HistInvNext == HistInv /\ [HistNext]_histVars => HistInv'
<1> SUFFICES ASSUME HistInv, [HistNext]_histVars PROVE HistInv'
  OBVIOUS
<1>1. /\ MaxEdits \in Nat /\ 1 \in 0..MaxEdits /\ 0 \in 0..MaxEdits /\ MaxAborts \in Nat
      /\ SomeData \in Payloads
  BY HistoryAssumption DEF SomeData
<1>2. /\ config \in ConfigRow /\ config.version \in 0..MaxEdits /\ config.data \in Payloads
      /\ history \subseteq ((1..MaxEdits) \X Payloads)
      /\ edit \in [Editors -> EditRecord]
      /\ aborts \in 0..MaxAborts /\ raced \in BOOLEAN
  BY DEF HistInv, HistTypeOK, ConfigRow, EditRecord
<1>3. NoEdit \in EditRecord /\ NoEdit.pc = "free"
  BY <1>1 DEF NoEdit, EditRecord
<1>4. ASSUME NEW w \in Editors, NEW data \in Payloads, CreateConfig(w, data) PROVE HistInv'
  <2>1. PICK e \in EditRecord : e = [pc |-> "log", version |-> 1, data |-> data]
    BY <1>1 DEF EditRecord
  <2>2. e.pc = "log" /\ e.version = 1 /\ e.data = data
    BY <2>1
  <2>3. /\ config.version = 0 /\ config' = [version |-> 1, data |-> data]
        /\ edit' = [edit EXCEPT ![w] = e] /\ UNCHANGED <<history, aborts, raced>>
    BY <1>4, <2>1 DEF CreateConfig
  <2>4. config'.version = 1 /\ config'.data = data
    BY <2>3
  <2>5. edit'[w] = e /\ \A v \in Editors \ {w} : edit'[v] = edit[v]
    BY <1>2, <2>3
  <2>6. HistTypeOK'
    BY <1>1, <1>2, <2>3 DEF HistTypeOK, EditRecord
  <2>7. SerialEdits'
    <3> SUFFICES ASSUME ~raced PROVE SerialEdits'
      BY <2>3 DEF SerialEdits
    <3>1. \A v \in Editors : edit[v].pc = "free"
      BY <2>3 DEF HistInv, SerialEdits
    <3>2. LoggedTo(0)
      BY <2>3, <3>1 DEF HistInv, SerialEdits
    <3>3. LoggedTo(0)'
      BY <2>3, <3>2 DEF LoggedTo
    <3>4. QED
      BY <2>2, <2>3, <2>4, <2>5, <3>1, <3>3 DEF SerialEdits
  <2>8. QED
    BY <2>2, <2>5, <2>6, <2>7 DEF HistInv
<1>5. ASSUME NEW w \in Editors, NEW data \in Payloads, ReadVersion(w, data) PROVE HistInv'
  <2>1. config.version + 1 \in 0..MaxEdits /\ config.version > 0
    BY <1>1, <1>2, <1>5 DEF ReadVersion
  <2>2. PICK e \in EditRecord : e = [pc |-> "bump", version |-> config.version + 1, data |-> data]
    BY <2>1 DEF EditRecord
  <2>3. e.pc = "bump" /\ e.version = config.version + 1
    BY <2>2
  <2>4. /\ edit' = [edit EXCEPT ![w] = e] /\ UNCHANGED <<config, history, aborts>>
        /\ raced' = (raced \/ \E v \in Editors : edit[v].pc # "free")
    BY <1>5, <2>2 DEF ReadVersion
  <2>5. edit'[w] = e /\ \A v \in Editors \ {w} : edit'[v] = edit[v]
    BY <1>2, <2>4
  <2>6. HistTypeOK'
    BY <1>2, <2>4 DEF HistTypeOK, EditRecord, ConfigRow
  <2>7. SerialEdits'
    <3> SUFFICES ASSUME ~raced' PROVE SerialEdits'
      BY DEF SerialEdits
    <3>1. ~raced /\ \A v \in Editors : edit[v].pc = "free"
      BY <2>4
    <3>2. /\ LoggedTo(config.version)'
          /\ <<config.version, config.data>> \in history
      BY <2>1, <2>4, <3>1 DEF HistInv, SerialEdits, LoggedTo
    <3>3. QED
      BY <2>1, <2>3, <2>4, <2>5, <3>1, <3>2 DEF SerialEdits
  <2>8. e.version > 0
    BY <1>2, <2>1, <2>3
  <2>9. QED
    BY <2>5, <2>6, <2>7, <2>8 DEF HistInv
<1>6. ASSUME NEW w \in Editors, BumpVersion(w) PROVE HistInv'
  <2>1. edit[w] \in EditRecord /\ edit[w].version \in 0..MaxEdits /\ edit[w].data \in Payloads
    BY <1>2 DEF EditRecord
  <2>2. PICK e \in EditRecord : e = [edit[w] EXCEPT !.pc = "log"]
    BY <2>1 DEF EditRecord
  <2>3. e.pc = "log" /\ e.version = edit[w].version /\ e.data = edit[w].data
    BY <2>1, <2>2 DEF EditRecord
  <2>4. /\ edit[w].pc = "bump" /\ UNCHANGED <<history, aborts, raced>>
        /\ config' = [version |-> edit[w].version, data |-> edit[w].data]
        /\ edit' = [edit EXCEPT ![w] = e]
    BY <1>6, <2>2 DEF BumpVersion
  <2>5. config'.version = edit[w].version /\ config'.data = edit[w].data
    BY <2>4
  <2>6. edit'[w] = e /\ \A v \in Editors \ {w} : edit'[v] = edit[v]
    BY <1>2, <2>4
  <2>7. HistTypeOK'
    BY <1>2, <2>1, <2>4 DEF HistTypeOK, EditRecord
  <2>8. SerialEdits'
    <3> SUFFICES ASSUME ~raced PROVE SerialEdits'
      BY <2>4 DEF SerialEdits
    <3>1. \A v \in Editors \ {w} : edit[v].pc = "free"
      BY <2>4 DEF HistInv, SerialEdits
    <3>2. edit[w].version = config.version + 1 /\ LoggedTo(config.version)
      BY <2>4, <3>1 DEF HistInv, SerialEdits
    <3>3. LoggedTo(config.version - 1)'
      <4>1. config'.version - 1 = config.version
        BY <1>2, <2>5, <3>2
      <4>2. QED
        BY <2>4, <3>2, <4>1 DEF LoggedTo
    <3>4. config'.version > 0
      BY <1>2, <2>5, <3>2
    <3>5. QED
      BY <2>3, <2>4, <2>5, <2>6, <3>1, <3>3, <3>4 DEF SerialEdits
  <2>9. QED
    BY <2>3, <2>4, <2>6, <2>7, <2>8 DEF HistInv
<1>7. ASSUME NEW w \in Editors, LogVersion(w) PROVE HistInv'
  <2>1. /\ edit[w].pc = "log" /\ history' = history \cup {<<edit[w].version, edit[w].data>>}
        /\ edit' = [edit EXCEPT ![w] = NoEdit] /\ UNCHANGED <<config, aborts, raced>>
    BY <1>7 DEF LogVersion
  <2>2. edit'[w] = NoEdit /\ \A v \in Editors \ {w} : edit'[v] = edit[v]
    BY <1>2, <2>1
  <2>3. edit[w].version \in 1..MaxEdits /\ edit[w].data \in Payloads
    <3>1. edit[w].version \in 0..MaxEdits /\ edit[w].data \in Payloads
      BY <1>2 DEF EditRecord
    <3>2. edit[w].version > 0
      BY <2>1 DEF HistInv
    <3>3. QED
      BY <1>1, <3>1, <3>2
  <2>4. HistTypeOK'
    BY <1>2, <1>3, <2>1, <2>3 DEF HistTypeOK, EditRecord, ConfigRow
  <2>5. SerialEdits'
    <3> SUFFICES ASSUME ~raced PROVE SerialEdits'
      BY <2>1 DEF SerialEdits
    <3>1. \A v \in Editors \ {w} : edit[v].pc = "free"
      BY <2>1 DEF HistInv, SerialEdits
    <3>2. /\ edit[w].version = config.version /\ edit[w].data = config.data
          /\ LoggedTo(config.version - 1) /\ config.version > 0
      BY <2>1 DEF HistInv, SerialEdits
    <3>3. PICK n \in Nat : n = config.version - 1
      BY <1>2, <3>2
    <3>4. n + 1 = config.version
      BY <1>2, <3>3
    <3>5. LoggedTo(n + 1)'
      BY <2>1, <3>2, <3>3, <3>4, OneMoreEntry
    <3>6. LoggedTo(config.version)'
      BY <2>1, <3>4, <3>5
    <3>7. \A v \in Editors : edit'[v].pc = "free"
      BY <1>3, <2>2, <3>1
    <3>8. QED
      BY <2>1, <3>2, <3>6, <3>7 DEF SerialEdits
  <2>6. QED
    BY <1>3, <2>2, <2>4, <2>5 DEF HistInv
<1>8. ASSUME NEW w \in Editors, AbortEdit(w) PROVE HistInv'
  <2>1. /\ edit' = [edit EXCEPT ![w] = NoEdit] /\ UNCHANGED <<config, history>>
        /\ edit[w].pc # "free" /\ aborts < MaxAborts /\ aborts' = aborts + 1
        /\ raced' = (raced \/ edit[w].pc = "log")
    BY <1>8 DEF AbortEdit
  <2>2. edit'[w] = NoEdit /\ \A v \in Editors \ {w} : edit'[v] = edit[v]
    BY <1>2, <2>1
  <2>3. HistTypeOK'
    BY <1>1, <1>2, <1>3, <2>1 DEF HistTypeOK, EditRecord, ConfigRow
  <2>4. SerialEdits'
    <3> SUFFICES ASSUME ~raced' PROVE SerialEdits'
      BY DEF SerialEdits
    <3>1. ~raced /\ edit[w].pc # "log"
      BY <2>1
    <3>2. \A v \in Editors \ {w} : edit[v].pc = "free"
      BY <2>1, <3>1 DEF HistInv, SerialEdits
    <3>3. /\ LoggedTo(config.version)'
          /\ config.version > 0 => <<config.version, config.data>> \in history
      BY <2>1, <3>1, <3>2 DEF HistInv, SerialEdits, LoggedTo
    <3>4. \A v \in Editors : edit'[v].pc = "free"
      BY <1>3, <2>2, <3>2
    <3>5. QED
      BY <2>1, <3>3, <3>4 DEF SerialEdits
  <2>5. QED
    BY <1>3, <2>2, <2>3, <2>4 DEF HistInv
<1>9. ASSUME UNCHANGED histVars PROVE HistInv'
  BY <1>9 DEF histVars, HistInv, HistTypeOK, SerialEdits, LoggedTo
<1>10. QED
  BY <1>4, <1>5, <1>6, <1>7, <1>8, <1>9 DEF HistNext

\* As long as no two updates overlap and none fails between row and history,
\* config_history has every version once (update_client_config).
THEOREM HistoryComplete == HistSpec => []HistoryCompleteIfSerial
<1>1. HistInv => HistoryCompleteIfSerial
  BY DEF HistInv, SerialEdits, LoggedTo, HistoryCompleteIfSerial
<1>2. QED
  BY <1>1, HistInvInit, HistInvNext, PTL DEF HistSpec

\* Rows, entries and requests of the configuration keep their types.
THEOREM HistTypeCorrect == HistSpec => []HistTypeOK
<1>1. HistInv => HistTypeOK
  BY DEF HistInv
<1>2. QED
  BY <1>1, HistInvInit, HistInvNext, PTL DEF HistSpec

-----------------------------------------------------------------------------
(* Client configuration. *)

ClientRow == [domain : Domains \cup {NoDomain}, config : ConfigIds \cup {0}]

ConfigRequest == [pc : {"free", "verify", "enrol", "find", "give", "check", "assign"},
                  domain : Domains \cup {NoDomain}, token : 0..MaxTokens,
                  config : ConfigIds \cup {0}, known : BOOLEAN]

\* What a request knows between its statements: the configuration it is about
\* to hand out or assign belongs to the domain it read, and a client that was
\* not cleaned up since is still in that domain.
RequestHolds(r) ==
    /\ r.pc = "give" /\ ~moved /\ r.config # 0 => DomainOf[r.config] = r.domain
    /\ r.pc \in {"check", "assign"} =>
          /\ r.config \in ConfigIds
          /\ ~moved => client # Unregistered /\ client.domain = r.domain
    /\ r.pc = "assign" => DomainOf[r.config] = r.domain

CcInv ==
    /\ CcTypeOK /\ PulledFromOwnDomain
    /\ ~moved /\ client.config # 0 => DomainOf[client.config] = client.domain
    /\ \A w \in Handlers : RequestHolds(req[w])

LEMMA NoReqType ==
    /\ NoReq \in ConfigRequest /\ NoReq.pc = "free"
    /\ Unregistered \in ClientRow /\ Unregistered.config = 0
<1>1. 0 \in 0..MaxTokens
  BY ClientConfigAssumption
<1>2. QED
  BY <1>1 DEF NoReq, ConfigRequest, Unregistered, ClientRow

LEMMA CcInvInit == CcInit => CcInv
<1> SUFFICES ASSUME CcInit PROVE CcInv
  OBVIOUS
<1>1. 0 \in 0..MaxTokens
  BY ClientConfigAssumption
<1>2. CcTypeOK
  BY <1>1, NoReqType DEF CcInit, CcTypeOK, ConfigRequest, ClientRow
<1>3. QED
  BY <1>2, NoReqType DEF CcInit, CcInv, PulledFromOwnDomain, RequestHolds

\* A step of one request that does not write the client's row.
LEMMA RequestMoves ==
    ASSUME CcInv, UNCHANGED <<domainToken, created, client, moved>>,
           NEW w \in Handlers, NEW r \in ConfigRequest, Do(w, r), RequestHolds(r),
           pulled' \in [by : Domains \cup {NoDomain}, from : Domains \cup {NoDomain}],
           PulledFromOwnDomain'
    PROVE  CcInv'
<1>1. /\ req \in [Handlers -> ConfigRequest] /\ req' = [req EXCEPT ![w] = r]
      /\ req' \in [Handlers -> ConfigRequest]
  BY DEF CcInv, CcTypeOK, ConfigRequest, Do
<1>2. CcTypeOK'
  BY <1>1 DEF CcInv, CcTypeOK, ConfigRequest
<1>3. \A v \in Handlers : RequestHolds(req[v])'
  BY <1>1 DEF CcInv, RequestHolds
<1>4. QED
  BY <1>2, <1>3 DEF CcInv

LEMMA CcInvNext == CcInv /\ [CcNext]_ccVars => CcInv'
<1> SUFFICES ASSUME CcInv, [CcNext]_ccVars PROVE CcInv'
  OBVIOUS
<1>1. /\ MaxTokens \in Nat /\ 0 \in 0..MaxTokens /\ 0 \notin ConfigIds
      /\ Defaults \subseteq ConfigIds /\ \A c \in ConfigIds : DomainOf[c] \in Domains
  BY ClientConfigAssumption
<1>2. /\ domainToken \in [Domains -> 0..MaxTokens] /\ created \subseteq ConfigIds
      /\ client \in ClientRow /\ req \in [Handlers -> ConfigRequest]
      /\ pulled \in [by : Domains \cup {NoDomain}, from : Domains \cup {NoDomain}]
      /\ moved \in BOOLEAN /\ PulledFromOwnDomain
  BY DEF CcInv, CcTypeOK, ClientRow, ConfigRequest
<1>3. \A w \in Handlers :
         /\ req[w] \in ConfigRequest /\ RequestHolds(req[w])
         /\ req[w].domain \in Domains \cup {NoDomain} /\ req[w].config \in ConfigIds \cup {0}
         /\ req[w].token \in 0..MaxTokens /\ req[w].known \in BOOLEAN
  BY <1>2 DEF CcInv, ConfigRequest
<1>4. ASSUME NEW w \in Handlers, NEW r \in ConfigRequest, Do(w, r), RequestHolds(r),
             UNCHANGED <<domainToken, created, client, pulled, moved>>
      PROVE  CcInv'
  <2>1. PulledFromOwnDomain'
    BY <1>2, <1>4 DEF PulledFromOwnDomain
  <2>2. QED
    BY <1>2, <1>4, <2>1, RequestMoves
<1>5. RequestHolds(NoReq)
  BY NoReqType DEF RequestHolds
<1>6. ASSUME NEW d \in Domains, IssueDomainToken(d) PROVE CcInv'
  <2>1. domainToken' \in [Domains -> 0..MaxTokens]
    BY <1>1, <1>2, <1>6 DEF IssueDomainToken
  <2>2. QED
    BY <1>6, <2>1 DEF IssueDomainToken, CcInv, CcTypeOK, PulledFromOwnDomain, RequestHolds
<1>7. ASSUME NEW c \in ConfigIds, AddConfig(c) PROVE CcInv'
  BY <1>7 DEF AddConfig, CcInv, CcTypeOK, PulledFromOwnDomain, RequestHolds
<1>8. ASSUME NEW w \in Handlers, NEW c \in ConfigIds, AssignStart(w, c) PROVE CcInv'
  <2>1. client.domain \in Domains \cup {NoDomain}
    BY <1>2 DEF ClientRow
  <2>2. PICK r \in ConfigRequest :
           r = [NoReq EXCEPT !.pc = "check", !.domain = client.domain, !.config = c]
    BY <1>1, <2>1 DEF NoReq, ConfigRequest
  <2>3. r.pc = "check" /\ r.domain = client.domain /\ r.config = c
    BY <2>2 DEF NoReq
  <2>4. RequestHolds(r)
    BY <1>8, <2>3 DEF AssignStart, RequestHolds
  <2>5. QED
    BY <1>4, <1>8, <2>2, <2>4 DEF AssignStart
<1>9. ASSUME NEW w \in Handlers, NEW d \in Domains, NEW t \in 1..MaxTokens,
             NEW pc \in {"verify", "find"}, Ask(w, d, t, pc)
      PROVE  CcInv'
  <2>1. t \in 0..MaxTokens
    BY <1>1
  <2>2. PICK r \in ConfigRequest : r = [NoReq EXCEPT !.pc = pc, !.domain = d, !.token = t]
    BY <1>1, <2>1 DEF NoReq, ConfigRequest
  <2>3. r.pc = pc
    BY <2>2 DEF NoReq
  <2>4. RequestHolds(r)
    BY <2>3 DEF RequestHolds
  <2>5. QED
    BY <1>4, <1>9, <2>2, <2>4 DEF Ask
<1>10. ASSUME NEW w \in Handlers, LookupClient(w) PROVE CcInv'
  <2>1. PICK r \in ConfigRequest :
           r = [req[w] EXCEPT !.pc = "enrol", !.known = client.domain = req[w].domain]
    BY <1>3 DEF ConfigRequest
  <2>2. r.pc = "enrol"
    BY <1>3, <2>1 DEF ConfigRequest
  <2>3. RequestHolds(r)
    BY <2>2 DEF RequestHolds
  <2>4. /\ Do(w, r) \/ Do(w, NoReq)
        /\ UNCHANGED <<domainToken, created, client, pulled, moved>>
    BY <1>10, <2>1 DEF LookupClient
  <2>5. QED
    BY <1>4, <1>5, <2>3, <2>4, NoReqType
<1>11. ASSUME NEW w \in Handlers, FindClient(w) PROVE CcInv'
  <2>1. client.config \in ConfigIds \cup {0}
    BY <1>2 DEF ClientRow
  <2>2. PICK r \in ConfigRequest : r = [req[w] EXCEPT !.pc = "give", !.config = client.config]
    BY <1>3, <2>1 DEF ConfigRequest
  <2>3. r.pc = "give" /\ r.config = client.config /\ r.domain = req[w].domain
    BY <1>3, <2>2 DEF ConfigRequest
  <2>4. /\ (client.domain = req[w].domain /\ Do(w, r)) \/ Do(w, NoReq)
        /\ UNCHANGED <<domainToken, created, client, pulled, moved>>
    BY <1>11, <2>2 DEF FindClient
  <2>5. ASSUME client.domain = req[w].domain PROVE RequestHolds(r)
    BY <2>3, <2>5 DEF RequestHolds, CcInv
  <2>6. QED
    BY <1>4, <1>5, <2>4, <2>5, NoReqType
<1>12. ASSUME NEW w \in Handlers, Give(w) PROVE CcInv'
  <2>1. /\ req[w].pc = "give" /\ Do(w, NoReq)
        /\ UNCHANGED <<domainToken, created, client, moved>>
    BY <1>12 DEF Give
  <2>2. /\ pulled' \in [by : Domains \cup {NoDomain}, from : Domains \cup {NoDomain}]
        /\ PulledFromOwnDomain'
    <3>1. CASE pulled' = pulled
      BY <1>2, <2>1, <3>1 DEF PulledFromOwnDomain
    <3>2. ASSUME NEW c \in ConfigIds, pulled' = [by |-> req[w].domain, from |-> DomainOf[c]],
                 ~moved => DomainOf[c] = req[w].domain
          PROVE  /\ pulled' \in [by : Domains \cup {NoDomain}, from : Domains \cup {NoDomain}]
                 /\ PulledFromOwnDomain'
      <4>1. DomainOf[c] \in Domains /\ req[w].domain \in Domains \cup {NoDomain}
        BY <1>1, <1>3
      <4>2. pulled'.by = req[w].domain /\ pulled'.from = DomainOf[c]
        BY <3>2
      <4>3. QED
        BY <2>1, <3>2, <4>1, <4>2 DEF PulledFromOwnDomain
    <3>3. CASE req[w].config # 0
      <4>1. pulled' = pulled \/ pulled' = [by |-> req[w].domain, from |-> DomainOf[req[w].config]]
        BY <1>12, <3>3 DEF Give
      <4>2. req[w].config \in ConfigIds /\ (~moved => DomainOf[req[w].config] = req[w].domain)
        BY <1>3, <2>1, <3>3 DEF RequestHolds
      <4>3. QED
        BY <3>1, <3>2, <4>1, <4>2
    <3>4. CASE req[w].config = 0
      <4>1. \/ pulled' = pulled
            \/ \E c \in {d \in Defaults \cap created : DomainOf[d] = req[w].domain} :
                  pulled' = [by |-> req[w].domain, from |-> DomainOf[c]]
        BY <1>12, <3>4 DEF Give
      <4>2. QED
        BY <1>1, <3>1, <3>2, <4>1
    <3>5. QED
      BY <3>3, <3>4
  <2>3. QED
    BY <1>5, <2>1, <2>2, NoReqType, RequestMoves
<1>13. ASSUME NEW w \in Handlers, AssignCheck(w) PROVE CcInv'
  <2>1. PICK r \in ConfigRequest : r = [req[w] EXCEPT !.pc = "assign"]
    BY <1>3 DEF ConfigRequest
  <2>2. r.pc = "assign" /\ r.config = req[w].config /\ r.domain = req[w].domain
    BY <1>3, <2>1 DEF ConfigRequest
  <2>3. /\ req[w].pc = "check"
        /\ (DomainOf[req[w].config] = req[w].domain /\ Do(w, r)) \/ Do(w, NoReq)
        /\ UNCHANGED <<domainToken, created, client, pulled, moved>>
    BY <1>13, <2>1 DEF AssignCheck
  <2>4. ASSUME DomainOf[req[w].config] = req[w].domain PROVE RequestHolds(r)
    BY <1>3, <2>2, <2>3, <2>4 DEF RequestHolds
  <2>5. QED
    BY <1>4, <1>5, <2>3, <2>4, NoReqType
\* The writes of the client's row: it stays in its domain.
<1>14. ASSUME NEW w \in Handlers, NEW row \in ClientRow, client' = row, Do(w, NoReq),
              UNCHANGED <<domainToken, created, pulled, moved>>,
              ~moved /\ row.config # 0 => DomainOf[row.config] = row.domain,
              client # Unregistered => row # Unregistered /\ row.domain = client.domain
       PROVE  CcInv'
  <2>1. req' \in [Handlers -> ConfigRequest]
    BY <1>2, <1>14, NoReqType DEF Do
  <2>2. CcTypeOK'
    BY <1>2, <1>14, <2>1 DEF CcTypeOK, ConfigRequest, ClientRow
  <2>3. \A v \in Handlers : req'[v] = req[v] \/ req'[v].pc = "free"
    BY <1>2, <1>14, NoReqType DEF Do
  <2>4. \A v \in Handlers : RequestHolds(req[v])'
    BY <1>3, <1>14, <2>3 DEF RequestHolds
  <2>5. QED
    BY <1>2, <1>14, <2>2, <2>4 DEF CcInv, PulledFromOwnDomain
<1>15. ASSUME NEW w \in Handlers, Enrol(w) PROVE CcInv'
  <2>1. PICK row \in ClientRow : row = [domain |-> req[w].domain, config |-> 0]
    BY <1>3 DEF ClientRow
  <2>2. row.config = 0
    BY <2>1
  <2>3. /\ Do(w, NoReq) /\ UNCHANGED <<domainToken, created, pulled, moved>>
        /\ client' = client \/ (client = Unregistered /\ client' = row)
    BY <1>15, <2>1 DEF Enrol
  <2>4. CASE client' = client
    BY <1>2, <1>14, <2>3, <2>4 DEF CcInv
  <2>5. CASE client = Unregistered /\ client' = row
    BY <1>14, <2>2, <2>3, <2>5
  <2>6. QED
    BY <2>3, <2>4, <2>5
<1>16. ASSUME NEW w \in Handlers, Assign(w) PROVE CcInv'
  <2>1. req[w].config \in ConfigIds /\ DomainOf[req[w].config] = req[w].domain
        /\ (~moved => client.domain = req[w].domain)
    BY <1>3, <1>16 DEF Assign, RequestHolds
  <2>2. PICK row \in ClientRow : row = [client EXCEPT !.config = req[w].config]
    BY <1>2, <2>1 DEF ClientRow
  <2>3. row.config = req[w].config /\ row.domain = client.domain
    BY <1>2, <2>2 DEF ClientRow
  <2>4. row # Unregistered
    BY <1>1, <2>1, <2>3, NoReqType
  <2>5. /\ Do(w, NoReq) /\ UNCHANGED <<domainToken, created, pulled, moved>>
        /\ client' = client \/ client' = row
    BY <1>16, <2>2 DEF Assign
  <2>6. CASE client' = client
    BY <1>2, <1>14, <2>5, <2>6 DEF CcInv
  <2>7. CASE client' = row
    BY <1>14, <2>1, <2>3, <2>4, <2>5, <2>7
  <2>8. QED
    BY <2>5, <2>6, <2>7
<1>17. ASSUME CleanupInactiveClients PROVE CcInv'
  <2>1. /\ client' = Unregistered /\ UNCHANGED <<domainToken, created, req, pulled>>
        /\ moved' \in BOOLEAN /\ (moved => moved')
        /\ (~moved' => \A w \in Handlers : req[w].pc \notin {"check", "assign"})
    BY <1>17 DEF CleanupInactiveClients
  <2>2. CcTypeOK'
    BY <1>2, <2>1, NoReqType DEF CcTypeOK, ClientRow, ConfigRequest
  <2>3. \A w \in Handlers : RequestHolds(req[w])'
    BY <1>3, <2>1 DEF RequestHolds
  <2>4. QED
    BY <1>2, <2>1, <2>2, <2>3, NoReqType DEF CcInv, PulledFromOwnDomain
<1>18. ASSUME UNCHANGED ccVars PROVE CcInv'
  BY <1>18 DEF ccVars, CcInv, CcTypeOK, PulledFromOwnDomain, RequestHolds
<1>19. QED
  BY <1>6, <1>7, <1>8, <1>9, <1>10, <1>11, <1>12, <1>13, <1>15, <1>16, <1>17, <1>18 DEF CcNext

\* With any number of domains, clients' requests and administrators, a pull
\* is answered from the domain whose token it showed, unless the client was
\* cleaned up under an assignment (pull_client_config).
THEOREM PulledFromDomain == CcSpec => []PulledFromOwnDomain
<1>1. CcInv => PulledFromOwnDomain
  BY DEF CcInv
<1>2. QED
  BY <1>1, CcInvInit, CcInvNext, PTL DEF CcSpec

\* Domains, the client's row and requests keep their types.
THEOREM CcTypeCorrect == CcSpec => []CcTypeOK
<1>1. CcInv => CcTypeOK
  BY DEF CcInv
<1>2. QED
  BY <1>1, CcInvInit, CcInvNext, PTL DEF CcSpec

-----------------------------------------------------------------------------
(* Rate limits: arithmetic of windows, and the order of a bucket dictionary. *)

LEMMA TimesMonotonic ==
    ASSUME NEW a \in Nat, NEW b \in Nat, NEW d \in Nat, a <= b
    PROVE  a * d <= b * d
<1>1. PICK k \in Nat : b = a + k
  <2>1. b - a \in Nat /\ b = a + (b - a)
    OBVIOUS
  <2>2. QED
    BY <2>1
<1>2. b * d = a * d + k * d
  BY <1>1
<1>3. a * d \in Nat /\ k * d \in Nat
  OBVIOUS
<1>4. QED
  BY <1>2, <1>3

LEMMA DivBounds ==
    ASSUME NEW n \in Nat, NEW d \in Nat \ {0}
    PROVE  n \div d \in Nat /\ (n \div d) * d <= n /\ n < (n \div d) * d + d
OBVIOUS

\* Window q has begun at time n just when q is not after the window of n.
LEMMA WindowBegun ==
    ASSUME NEW n \in Nat, NEW d \in Nat \ {0}, NEW q \in Nat
    PROVE  q <= n \div d <=> q * d <= n
<1>1. n \div d \in Nat /\ (n \div d) * d <= n /\ n < (n \div d) * d + d
  BY DivBounds
<1>2. PICK m \in Nat : m = n \div d
  BY <1>1
<1>3. m * d <= n /\ n < m * d + d /\ m * d \in Nat /\ q * d \in Nat
  BY <1>1, <1>2
<1>4. CASE q <= m
  <2>1. q * d <= m * d
    BY <1>4, TimesMonotonic
  <2>2. QED
    BY <1>2, <1>3, <1>4, <2>1
<1>5. CASE m + 1 <= q
  <2>1. (m + 1) * d <= q * d
    BY <1>5, TimesMonotonic
  <2>2. (m + 1) * d = m * d + d
    OBVIOUS
  <2>3. QED
    BY <1>2, <1>3, <1>5, <2>1, <2>2
<1>6. QED
  BY <1>2, <1>4, <1>5

\* After a request of k the dictionary is within its limit and k is in it.
LEMMA MovedOrder ==
    ASSUME order \in Seq(Keys), Len(order) <= MaxKeys, NEW k \in Keys
    PROVE  /\ Moved(k) \in Seq(Keys) /\ Len(Moved(k)) <= MaxKeys
           /\ \E i \in DOMAIN Moved(k) : Moved(k)[i] = k
<1>1. MaxKeys \in Nat /\ MaxKeys > 0
  BY LimiterAssumption
<1>2. Len(order) \in Nat /\ DOMAIN order = 1..Len(order)
  BY LenProperties
<1>3. ASSUME NEW rest \in Seq(Keys), Len(rest) < MaxKeys, Moved(k) = Append(rest, k)
      PROVE  /\ Moved(k) \in Seq(Keys) /\ Len(Moved(k)) <= MaxKeys
             /\ \E i \in DOMAIN Moved(k) : Moved(k)[i] = k
  <2>1. /\ Moved(k) \in Seq(Keys) /\ Len(Moved(k)) = Len(rest) + 1
        /\ Moved(k)[Len(rest) + 1] = k /\ Len(rest) \in Nat
    BY <1>3, AppendProperties, LenProperties
  <2>2. DOMAIN Moved(k) = 1..Len(Moved(k))
    BY <2>1, LenProperties
  <2>3. Len(rest) + 1 \in DOMAIN Moved(k)
    BY <2>1, <2>2
  <2>4. QED
    BY <1>1, <1>3, <2>1, <2>3
<1>4. CASE k \in Tracked
  <2>1. PICK i \in DOMAIN order : i = Place(k)
    BY <1>4 DEF Tracked, Place
  <2>2. i \in 1..Len(order)
    BY <1>2
  <2>3. PICK a \in Seq(Keys) : a = SubSeq(order, 1, i - 1) /\ Len(a) = i - 1
    <3>1. SubSeq(order, 1, i - 1) \in Seq(Keys) /\ Len(SubSeq(order, 1, i - 1)) = i - 1
      BY <1>2, <2>2
    <3>2. QED
      BY <3>1
  <2>4. PICK b \in Seq(Keys) : b = SubSeq(order, i + 1, Len(order)) /\ Len(b) = Len(order) - i
    <3>1. SubSeq(order, i + 1, Len(order)) \in Seq(Keys)
          /\ Len(SubSeq(order, i + 1, Len(order))) = Len(order) - i
      BY <1>2, <2>2
    <3>2. QED
      BY <3>1
  <2>5. Others(k) = a \o b
    BY <2>1, <2>3, <2>4 DEF Others
  <2>6. a \o b \in Seq(Keys) /\ Len(a \o b) = Len(a) + Len(b)
    BY ConcatProperties
  <2>7. Len(a \o b) < MaxKeys
    BY <1>1, <1>2, <2>2, <2>3, <2>4, <2>6
  <2>8. Moved(k) = Append(a \o b, k)
    BY <1>4, <2>5 DEF Moved
  <2>9. QED
    BY <1>3, <2>6, <2>7, <2>8
<1>5. CASE k \notin Tracked
  <2>1. PICK rest \in Seq(Keys) :
           rest = (IF Len(order) >= MaxKeys THEN Tail(order) ELSE order) /\ Len(rest) < MaxKeys
    <3>1. CASE Len(order) >= MaxKeys
      <4>1. order # <<>>
        BY <1>1, <1>2, <3>1, EmptySeq
      <4>2. Tail(order) \in Seq(Keys) /\ Len(Tail(order)) = Len(order) - 1
        BY <4>1, HeadTailProperties
      <4>3. Len(Tail(order)) < MaxKeys
        BY <1>1, <1>2, <4>2
      <4>4. PICK rest \in Seq(Keys) : rest = Tail(order)
        BY <4>2
      <4>5. QED
        BY <3>1, <4>3, <4>4
    <3>2. CASE ~(Len(order) >= MaxKeys)
      BY <1>1, <1>2, <3>2
    <3>3. QED
      BY <3>1, <3>2
  <2>2. Moved(k) = rest \o <<k>>
    BY <1>5, <2>1 DEF Moved
  <2>3. Moved(k) = Append(rest, k)
    BY <2>2, AppendIsConcat
  <2>4. QED
    BY <1>3, <2>1, <2>3
<1>6. QED
  BY <1>4, <1>5

\* A bucket that was never evicted: what passed unpaid and what is left in it
\* are together no more than the burst; one never asked for owes nothing.
BucketInv ==
    \A k \in Keys \ evicted :
        IF k \in Tracked THEN debt[k] + tokens[k] <= Burst ELSE debt[k] = 0

\* A server's own request counts as passed while it sends its EXPIRE.
WaitsFor(w) == \E s \in Servers : pending[s] = w

\* The counter of the running window has seen every request that passed, and
\* does not expire before the window ends: no counter is started over.
CounterOf(w) ==
    /\ w > Window => count[w] = 0 /\ passed[w] = 0 /\ ~WaitsFor(w)
    /\ w = Window => /\ passed[w] <= count[w]
                     /\ WaitsFor(w) => passed[w] + 1 <= count[w]
    /\ passed[w] <= MaxRequests
    /\ WaitsFor(w) /\ 1 <= MaxRequests => passed[w] + 1 <= MaxRequests
    /\ \A s, u \in Servers : pending[s] = w /\ pending[u] = w => s = u
    /\ expires[w] # Never => expires[w] > w * WindowSize + WindowSize
    /\ count[w] > 0 /\ expires[w] = Never => w \in leaked \/ WaitsFor(w)

CounterInv == \A w \in Windows : CounterOf(w)

LimInv == LimTypeOK /\ BucketInv /\ CounterInv

LEMMA LimConstants ==
    /\ Burst \in Nat /\ Rps \in Nat /\ MaxRequests \in Nat /\ MaxTime \in Nat /\ MaxAsks \in Nat
    /\ WindowSize \in Nat \ {0} /\ MaxKeys \in Nat /\ 0 <= MaxKeys
    /\ 0 \in 0..MaxTime /\ 0 \in 0..MaxAsks /\ 0 \in 0..(Burst + 1) /\ Burst \in 0..Burst
    /\ Never \in Never..(MaxTime + WindowSize + 1)
BY LimiterAssumption DEF Never

LEMMA WindowInRange ==
    ASSUME now \in 0..MaxTime
    PROVE  /\ Window \in Windows /\ Window \in Nat /\ Windows \subseteq Nat /\ Never \notin Windows
           /\ \A w \in Windows : w <= Window <=> w * WindowSize <= now
<1>1. now \in Nat /\ MaxTime \in Nat /\ WindowSize \in Nat \ {0} /\ now <= MaxTime
  BY LimConstants
<1>2. Window \in Nat /\ MaxTime \div WindowSize \in Nat
  BY <1>1, DivBounds DEF Window
<1>3. Window * WindowSize <= now
  BY <1>1, <1>2, WindowBegun DEF Window
<1>4. Window * WindowSize <= MaxTime
  <2>1. Window * WindowSize \in Nat
    BY <1>1, <1>2
  <2>2. QED
    BY <1>1, <1>3, <2>1
<1>5. Window <= MaxTime \div WindowSize
  BY <1>1, <1>2, <1>4, WindowBegun
<1>6. Windows \subseteq Nat /\ Never \notin Windows
  BY <1>2 DEF Windows, Never
<1>7. \A w \in Windows : w <= Window <=> w * WindowSize <= now
  BY <1>1, <1>6, WindowBegun DEF Window
<1>8. QED
  BY <1>2, <1>5, <1>6, <1>7 DEF Windows

LEMMA LimInvInit == LimInit => LimInv
<1> SUFFICES ASSUME LimInit PROVE LimInv
  OBVIOUS
<1>1. order = <<>> /\ order \in Seq(Keys) /\ Len(order) = 0
  BY EmptySeq DEF LimInit
<1>2. LimTypeOK
  BY <1>1, LimConstants DEF LimInit, LimTypeOK
<1>3. BucketInv
  BY LimConstants DEF LimInit, BucketInv
<1>4. CounterInv
  <2>1. now \in 0..MaxTime
    BY <1>2 DEF LimTypeOK
  <2>2. Never \notin Windows
    BY <2>1, WindowInRange
  <2>3. \A w \in Windows : ~WaitsFor(w)
    BY <2>2 DEF LimInit, WaitsFor
  <2>4. QED
    BY <2>2, <2>3, LimConstants DEF LimInit, CounterInv, CounterOf, WaitsFor
<1>5. QED
  BY <1>2, <1>3, <1>4 DEF LimInv

\* A request to the in-memory limiter.
LEMMA CheckMemoryKeeps ==
    ASSUME LimInv, NEW k \in Keys, CheckMemory(k)
    PROVE  LimInv'
<1>1. /\ order \in Seq(Keys) /\ Len(order) <= MaxKeys
      /\ tokens \in [Keys -> 0..Burst] /\ debt \in [Keys -> 0..(Burst + 1)] /\ evicted \subseteq Keys
      /\ Burst \in Nat
  BY LimConstants DEF LimInv, LimTypeOK
<1>2. /\ order' = Moved(k) /\ UNCHANGED <<backend, now, asks, kvVars>>
      /\ evicted' = evicted \cup (Tracked \ Tracked')
  BY DEF CheckMemory, Tracked
<1>3. order' \in Seq(Keys) /\ Len(order') <= MaxKeys /\ k \in Tracked'
  BY <1>1, <1>2, MovedOrder DEF Tracked
<1>4. Tracked \subseteq Keys
  BY <1>1, ElementOfSeq, LenProperties DEF Tracked
<1>5. PICK n \in 0..Burst : n = tokens[k]
  BY <1>1
<1>6. PICK d \in 0..(Burst + 1) : d = debt[k]
  BY <1>1
<1>7. PICK avail \in 0..Burst : avail = Available(k)
  BY <1>1 DEF Available
<1>8. \E n1 \in 0..Burst, d1 \in 0..(Burst + 1) :
         /\ tokens' = [tokens EXCEPT ![k] = n1] /\ debt' = [debt EXCEPT ![k] = d1]
         /\ k \notin evicted => d1 + n1 <= Burst
  <2>1. k \notin evicted => IF k \in Tracked THEN d + n <= Burst ELSE d = 0
    BY <1>5, <1>6 DEF LimInv, BucketInv
  <2>2. CASE avail >= 1
    <3>1. avail - 1 \in 0..Burst
      BY <1>1, <2>2
    <3>2. PICK d1 \in 0..(Burst + 1) : d1 = Capped(d + 1, Burst + 1)
      BY <1>1 DEF Capped
    <3>3. tokens' = [tokens EXCEPT ![k] = avail - 1] /\ debt' = [debt EXCEPT ![k] = d1]
      BY <1>6, <1>7, <2>2, <3>2 DEF CheckMemory
    <3>4. avail = IF k \in Tracked THEN n ELSE Burst
      BY <1>5, <1>7 DEF Available
    <3>5. k \notin evicted => d1 + (avail - 1) <= Burst
      BY <1>1, <2>1, <2>2, <3>2, <3>4 DEF Capped
    <3>6. QED
      BY <3>1, <3>3, <3>5
  <2>3. CASE ~(avail >= 1)
    <3>1. tokens' = tokens /\ debt' = debt
      BY <1>7, <2>3 DEF CheckMemory
    <3>2. tokens' = [tokens EXCEPT ![k] = n] /\ debt' = [debt EXCEPT ![k] = d]
      BY <1>1, <1>5, <1>6, <3>1
    <3>3. k \notin evicted => d + n <= Burst
      BY <1>1, <2>1
    <3>4. QED
      BY <3>2, <3>3
  <2>4. QED
    BY <2>2, <2>3
<1>9. PICK n1 \in 0..Burst, d1 \in 0..(Burst + 1) :
         /\ tokens' = [tokens EXCEPT ![k] = n1] /\ debt' = [debt EXCEPT ![k] = d1]
         /\ k \notin evicted => d1 + n1 <= Burst
  BY <1>8
<1>10. LimTypeOK'
  BY <1>1, <1>2, <1>3, <1>4, <1>9 DEF LimInv, LimTypeOK, kvVars
<1>11. BucketInv'
  <2> SUFFICES ASSUME NEW j \in Keys, j \notin evicted'
               PROVE  (IF j \in Tracked THEN debt[j] + tokens[j] <= Burst ELSE debt[j] = 0)'
    BY DEF BucketInv
  <2>1. j \notin evicted /\ (j \in Tracked => j \in Tracked')
    BY <1>2
  <2>2. CASE j = k
    BY <1>1, <1>3, <1>9, <2>1, <2>2
  <2>3. CASE j # k
    <3>1. tokens'[j] = tokens[j] /\ debt'[j] = debt[j] /\ tokens[j] \in 0..Burst
      BY <1>1, <1>9, <2>3
    <3>2. IF j \in Tracked THEN debt[j] + tokens[j] <= Burst ELSE debt[j] = 0
      BY <2>1 DEF LimInv, BucketInv
    <3>3. debt[j] \in 0..(Burst + 1)
      BY <1>1
    <3>4. QED
      BY <1>1, <2>1, <3>1, <3>2, <3>3
  <2>4. QED
    BY <2>2, <2>3
<1>12. CounterInv'
  BY <1>2 DEF LimInv, CounterInv, CounterOf, WaitsFor, Window, kvVars
<1>13. QED
  BY <1>10, <1>11, <1>12 DEF LimInv

\* The commands of a server to Valkey leave the buckets alone.
LEMMA BucketsUntouched ==
    ASSUME LimInv, UNCHANGED memVars PROVE BucketInv'
BY DEF LimInv, BucketInv, Tracked, memVars

LEMMA CounterTypes ==
    ASSUME LimInv
    PROVE  /\ now \in 0..MaxTime /\ now \in Nat /\ count \in [Windows -> Nat]
           /\ expires \in [Windows -> Never..(MaxTime + WindowSize + 1)]
           /\ pending \in [Servers -> Windows \cup {Never}] /\ leaked \subseteq Windows
           /\ passed \in [Windows -> Nat]
BY LimConstants DEF LimInv, LimTypeOK

\* INCR: the first request of a window goes on to EXPIRE, the others are
\* answered from the count.
LEMMA IncrKeeps ==
    ASSUME LimInv, NEW s \in Servers, Incr(s)
    PROVE  LimInv'
<1>1. /\ now \in 0..MaxTime /\ count \in [Windows -> Nat] /\ passed \in [Windows -> Nat]
      /\ pending \in [Servers -> Windows \cup {Never}]
  BY CounterTypes
<1>2. PICK v \in Windows : v = Window
  BY <1>1, WindowInRange
<1>3. Never \notin Windows /\ Windows \subseteq Nat
  BY <1>1, WindowInRange
<1>4. /\ pending[s] = Never /\ asks < MaxAsks /\ asks' = asks + 1
      /\ count' = [count EXCEPT ![v] = @ + 1]
      /\ UNCHANGED <<backend, now, memVars, expires, leaked>>
  BY <1>2 DEF Incr
<1>5. Window' = Window
  BY <1>4 DEF Window
<1>6. count'[v] = count[v] + 1 /\ \A w \in Windows \ {v} : count'[w] = count[w]
  BY <1>1, <1>4
<1>7. asks' \in 0..MaxAsks
  BY <1>4, LimConstants DEF LimInv, LimTypeOK
<1>8. BucketInv'
  BY <1>4, BucketsUntouched
<1>9. count' \in [Windows -> Nat]
  BY <1>1, <1>4
<1>10. CASE count[v] = 0
  <2>1. pending' = [pending EXCEPT ![s] = v] /\ passed' = passed
    BY <1>2, <1>10 DEF Incr
  <2>2. LimTypeOK'
    BY <1>1, <1>4, <1>7, <1>9, <2>1 DEF LimInv, LimTypeOK, memVars
  <2>3. ~WaitsFor(v) /\ passed[v] = 0
    BY <1>1, <1>2, <1>10 DEF LimInv, CounterInv, CounterOf
  <2>4. WaitsFor(v)' /\ \A w \in Windows \ {v} : WaitsFor(w)' <=> WaitsFor(w)
    BY <1>1, <1>3, <1>4, <2>1 DEF WaitsFor
  <2>5. \A u \in Servers : pending'[u] = v => u = s
    BY <1>1, <2>1, <2>3 DEF WaitsFor
  <2>6. \A w \in Windows \ {v} : \A t \in Servers : pending'[t] = w => pending[t] = w
    BY <1>1, <2>1
  <2>7. CounterInv'
    <3> SUFFICES ASSUME NEW w \in Windows
                 PROVE  CounterOf(w)'
      BY DEF CounterInv
    <3>1. CASE w = v
      <4>1. expires[w] # Never => expires[w] > w * WindowSize + WindowSize
        BY DEF LimInv, CounterInv, CounterOf
      <4>2. ~(w > Window')
        BY <1>2, <1>3, <1>5, <3>1
      <4>3. count'[w] = 1 /\ passed'[w] = 0
        BY <1>6, <1>10, <2>1, <2>3, <3>1
      <4>4. QED
        BY <1>4, <2>4, <2>5, <3>1, <4>1, <4>2, <4>3, LimConstants DEF CounterOf
    <3>2. CASE w # v
      BY <1>2, <1>4, <1>5, <1>6, <2>1, <2>4, <2>6, <3>2 DEF LimInv, CounterInv, CounterOf
    <3>3. QED
      BY <3>1, <3>2
  <2>8. QED
    BY <1>8, <2>2, <2>7 DEF LimInv
<1>11. CASE count[v] # 0
  <2>1. pending' = pending /\
        passed' = [passed EXCEPT ![v] = @ + (IF count[v] + 1 <= MaxRequests THEN 1 ELSE 0)]
    BY <1>2, <1>11 DEF Incr
  <2>2. /\ passed'[v] = passed[v] + (IF count[v] + 1 <= MaxRequests THEN 1 ELSE 0)
        /\ \A w \in Windows \ {v} : passed'[w] = passed[w]
        /\ passed' \in [Windows -> Nat]
    BY <1>1, <2>1
  <2>3. LimTypeOK'
    BY <1>4, <1>7, <1>9, <2>1, <2>2 DEF LimInv, LimTypeOK, memVars
  <2>4. \A w \in Windows : WaitsFor(w)' <=> WaitsFor(w)
    BY <2>1 DEF WaitsFor
  <2>5. PICK c \in Nat : c = count[v]
    BY <1>1
  <2>6. PICK p \in Nat : p = passed[v]
    BY <1>1
  <2>7. /\ p <= c /\ (WaitsFor(v) => p + 1 <= c) /\ p <= MaxRequests
        /\ (WaitsFor(v) /\ 1 <= MaxRequests => p + 1 <= MaxRequests)
    BY <1>2, <2>5, <2>6 DEF LimInv, CounterInv, CounterOf
  <2>8. CounterInv'
    <3> SUFFICES ASSUME NEW w \in Windows
                 PROVE  CounterOf(w)'
      BY DEF CounterInv
    <3>1. CASE w = v
      <4>1. /\ \A t, u \in Servers : pending[t] = w /\ pending[u] = w => t = u
            /\ expires[w] # Never => expires[w] > w * WindowSize + WindowSize
            /\ count[w] > 0 /\ expires[w] = Never => w \in leaked \/ WaitsFor(w)
        BY DEF LimInv, CounterInv, CounterOf
      <4>2. ~(w > Window')
        BY <1>2, <1>3, <1>5, <3>1
      <4>3. /\ passed'[w] = p + (IF c + 1 <= MaxRequests THEN 1 ELSE 0)
            /\ count'[w] = c + 1 /\ count[w] > 0
        BY <1>6, <1>11, <2>2, <2>5, <2>6, <3>1
      <4>4. /\ passed'[w] <= count'[w] /\ (WaitsFor(v) => passed'[w] + 1 <= count'[w])
            /\ passed'[w] <= MaxRequests
            /\ WaitsFor(v) /\ 1 <= MaxRequests => passed'[w] + 1 <= MaxRequests
        BY <2>7, <4>3, LimConstants
      <4>5. QED
        BY <1>4, <2>1, <2>4, <3>1, <4>1, <4>2, <4>3, <4>4 DEF CounterOf
    <3>2. CASE w # v
      BY <1>2, <1>4, <1>5, <1>6, <2>1, <2>2, <2>4, <3>2 DEF LimInv, CounterInv, CounterOf
    <3>3. QED
      BY <3>1, <3>2
  <2>9. QED
    BY <1>8, <2>3, <2>8 DEF LimInv
<1>12. QED
  BY <1>10, <1>11

\* What EXPIRE and its failure have in common: server s waits no more.
LEMMA NoLongerWaits ==
    ASSUME LimInv, NEW s \in Servers, NEW v \in Windows, pending[s] = v,
           pending' = [pending EXCEPT ![s] = Never]
    PROVE  /\ pending' \in [Servers -> Windows \cup {Never}]
           /\ ~WaitsFor(v)' /\ WaitsFor(v)
           /\ \A w \in Windows \ {v} : WaitsFor(w)' <=> WaitsFor(w)
           /\ \A w \in Windows : \A t \in Servers : pending'[t] = w => pending[t] = w
           /\ v <= Window
<1>1. /\ now \in 0..MaxTime /\ pending \in [Servers -> Windows \cup {Never}]
      /\ Never \notin Windows /\ Windows \subseteq Nat /\ Window \in Nat
  BY CounterTypes, WindowInRange
<1>2. WaitsFor(v)
  BY DEF WaitsFor
<1>3. ~(v > Window) /\ \A t, u \in Servers : pending[t] = v /\ pending[u] = v => t = u
  BY <1>2 DEF LimInv, CounterInv, CounterOf
<1>4. v <= Window
  BY <1>1, <1>3
<1>5. /\ pending' \in [Servers -> Windows \cup {Never}]
      /\ \A w \in Windows : \A t \in Servers : pending'[t] = w => pending[t] = w
  BY <1>1
<1>6. ~WaitsFor(v)'
  BY <1>1, <1>3 DEF WaitsFor
<1>7. \A w \in Windows \ {v} : WaitsFor(w)' <=> WaitsFor(w)
  BY <1>1 DEF WaitsFor
<1>8. QED
  BY <1>2, <1>4, <1>5, <1>6, <1>7

LEMMA ExpireKeeps ==
    ASSUME LimInv, NEW s \in Servers, Expire(s)
    PROVE  LimInv'
<1>1. /\ now \in 0..MaxTime /\ now \in Nat /\ count \in [Windows -> Nat] /\ passed \in [Windows -> Nat]
      /\ expires \in [Windows -> Never..(MaxTime + WindowSize + 1)]
      /\ pending \in [Servers -> Windows \cup {Never}]
  BY CounterTypes
<1>2. Windows \subseteq Nat /\ Never \notin Windows
  BY <1>1, WindowInRange
<1>3. PICK v \in Windows : v = pending[s]
  BY <1>1 DEF Expire
<1>4. /\ pending' = [pending EXCEPT ![s] = Never]
      /\ expires' = [expires EXCEPT ![v] = IF count[v] > 0 THEN now + Ttl ELSE @]
      /\ passed' = [passed EXCEPT ![v] = @ + (IF 1 <= MaxRequests THEN 1 ELSE 0)]
      /\ UNCHANGED <<backend, now, asks, memVars, count, leaked>>
  BY <1>3 DEF Expire
<1>5. /\ pending' \in [Servers -> Windows \cup {Never}]
      /\ ~WaitsFor(v)' /\ WaitsFor(v)
      /\ \A w \in Windows \ {v} : WaitsFor(w)' <=> WaitsFor(w)
      /\ \A w \in Windows : \A t \in Servers : pending'[t] = w => pending[t] = w
      /\ v <= Window
  BY <1>3, <1>4, NoLongerWaits
<1>6. PICK e \in 0..(MaxTime + WindowSize + 1) : e = now + Ttl
  BY <1>1, LimConstants DEF Ttl
<1>7. e > v * WindowSize + WindowSize /\ e # Never
  <2>1. v * WindowSize <= now
    BY <1>1, <1>5, WindowInRange
  <2>2. v * WindowSize \in Nat /\ WindowSize \in Nat
    BY <1>2, LimConstants
  <2>3. QED
    BY <1>1, <1>6, <2>1, <2>2 DEF Ttl, Never
<1>8. e \in Never..(MaxTime + WindowSize + 1)
  BY <1>6, LimConstants DEF Never
<1>9. PICK f \in Never..(MaxTime + WindowSize + 1) : f = IF count[v] > 0 THEN e ELSE expires[v]
  BY <1>1, <1>8
<1>10. /\ expires' \in [Windows -> Never..(MaxTime + WindowSize + 1)]
       /\ expires'[v] = f /\ \A w \in Windows \ {v} : expires'[w] = expires[w]
  BY <1>1, <1>4, <1>6, <1>9
<1>11. PICK p \in Nat : p = passed[v]
  BY <1>1
<1>12. /\ passed' \in [Windows -> Nat]
       /\ passed'[v] = p + (IF 1 <= MaxRequests THEN 1 ELSE 0)
       /\ \A w \in Windows \ {v} : passed'[w] = passed[w]
  BY <1>1, <1>4, <1>11
<1>13. LimTypeOK'
  BY <1>4, <1>5, <1>10, <1>12 DEF LimInv, LimTypeOK, memVars
<1>14. Window' = Window
  BY <1>4 DEF Window
<1>15. CounterInv'
  <2> SUFFICES ASSUME NEW w \in Windows
               PROVE  CounterOf(w)'
    BY DEF CounterInv
  <2>1. CASE w = v
    <3>1. /\ w = Window => p + 1 <= count[w]
          /\ 1 <= MaxRequests => p + 1 <= MaxRequests
          /\ p <= MaxRequests
          /\ \A t, u \in Servers : pending[t] = w /\ pending[u] = w => t = u
          /\ expires[w] # Never => expires[w] > w * WindowSize + WindowSize
      BY <1>5, <1>11, <2>1 DEF LimInv, CounterInv, CounterOf
    <3>2. ~(w > Window)
      BY <1>1, <1>2, <1>5, <2>1, WindowInRange
    <3>3. passed'[w] = p + (IF 1 <= MaxRequests THEN 1 ELSE 0)
      BY <1>12, <2>1
    <3>4. passed'[w] <= MaxRequests /\ (w = Window => passed'[w] <= count[w])
      BY <1>1, <3>1, <3>3, LimConstants
    <3>5. /\ expires'[w] # Never => expires'[w] > w * WindowSize + WindowSize
          /\ ~(count[w] > 0 /\ expires'[w] = Never)
      BY <1>7, <1>9, <1>10, <2>1, <3>1
    <3>6. QED
      BY <1>4, <1>5, <1>14, <2>1, <3>1, <3>2, <3>4, <3>5 DEF CounterOf
  <2>2. CASE w # v
    BY <1>4, <1>5, <1>10, <1>12, <1>14, <2>2 DEF LimInv, CounterInv, CounterOf
  <2>3. QED
    BY <2>1, <2>2
<1>16. BucketInv'
  BY <1>4, BucketsUntouched
<1>17. QED
  BY <1>13, <1>15, <1>16 DEF LimInv

LEMMA ExpireFailsKeeps ==
    ASSUME LimInv, NEW s \in Servers, ExpireFails(s)
    PROVE  LimInv'
<1>1. /\ now \in 0..MaxTime /\ pending \in [Servers -> Windows \cup {Never}] /\ leaked \subseteq Windows
  BY CounterTypes
<1>2. PICK v \in Windows : v = pending[s]
  BY <1>1 DEF ExpireFails
<1>3. /\ pending' = [pending EXCEPT ![s] = Never] /\ leaked' = leaked \cup {v}
      /\ UNCHANGED <<backend, now, asks, memVars, count, expires, passed>>
  BY <1>2 DEF ExpireFails
<1>4. /\ pending' \in [Servers -> Windows \cup {Never}] /\ ~WaitsFor(v)'
      /\ \A w \in Windows \ {v} : WaitsFor(w)' <=> WaitsFor(w)
      /\ \A w \in Windows : \A t \in Servers : pending'[t] = w => pending[t] = w
  BY <1>2, <1>3, NoLongerWaits
<1>5. LimTypeOK'
  BY <1>3, <1>4 DEF LimInv, LimTypeOK, memVars
<1>6. CounterInv'
  BY <1>3, <1>4 DEF LimInv, CounterInv, CounterOf, Window
<1>7. BucketInv'
  BY <1>3, BucketsUntouched
<1>8. QED
  BY <1>5, <1>6, <1>7 DEF LimInv

\* A tick: refills pay debts, and counters expire, but none of the window
\* that runs.
LEMMA TickKeeps ==
    ASSUME LimInv, LimTick
    PROVE  LimInv'
<1>1. /\ now \in 0..MaxTime /\ now \in Nat /\ count \in [Windows -> Nat] /\ passed \in [Windows -> Nat]
      /\ expires \in [Windows -> Never..(MaxTime + WindowSize + 1)]
      /\ tokens \in [Keys -> 0..Burst] /\ debt \in [Keys -> 0..(Burst + 1)]
      /\ now' = now + 1 /\ now' \in 0..MaxTime
  BY CounterTypes, LimConstants DEF LimInv, LimTypeOK, LimTick
<1>2. /\ asks' = 0 /\ tokens' = [k \in Keys |-> Capped(tokens[k] + Rps, Burst)]
      /\ debt' = [k \in Keys |-> Paid(debt[k])]
      /\ count' = [w \in Windows |-> IF Gone(w) THEN 0 ELSE count[w]]
      /\ expires' = [w \in Windows |-> IF Gone(w) THEN Never ELSE expires[w]]
      /\ UNCHANGED <<backend, order, evicted, pending, leaked, passed>>
  BY DEF LimTick
<1>3. \A k \in Keys : /\ Capped(tokens[k] + Rps, Burst) \in 0..Burst
                      /\ Paid(debt[k]) \in 0..(Burst + 1)
                      /\ debt[k] = 0 => Paid(debt[k]) = 0
                      /\ debt[k] + tokens[k] <= Burst =>
                            Paid(debt[k]) + Capped(tokens[k] + Rps, Burst) <= Burst
  <2> SUFFICES ASSUME NEW k \in Keys
               PROVE  /\ Capped(tokens[k] + Rps, Burst) \in 0..Burst
                      /\ Paid(debt[k]) \in 0..(Burst + 1)
                      /\ debt[k] = 0 => Paid(debt[k]) = 0
                      /\ debt[k] + tokens[k] <= Burst =>
                            Paid(debt[k]) + Capped(tokens[k] + Rps, Burst) <= Burst
    OBVIOUS
  <2>1. PICK n \in 0..Burst : n = tokens[k]
    BY <1>1
  <2>2. PICK d \in 0..(Burst + 1) : d = debt[k]
    BY <1>1
  <2>3. Burst \in Nat /\ Rps \in Nat
    BY LimConstants
  <2>4. QED
    BY <2>1, <2>2, <2>3 DEF Capped, Paid
<1>4. BucketInv'
  BY <1>2, <1>3 DEF LimInv, BucketInv, Tracked
<1>5. LimTypeOK'
  <2>1. /\ tokens' \in [Keys -> 0..Burst] /\ debt' \in [Keys -> 0..(Burst + 1)]
        /\ count' \in [Windows -> Nat]
    BY <1>1, <1>2, <1>3
  <2>2. expires' \in [Windows -> Never..(MaxTime + WindowSize + 1)]
    BY <1>1, <1>2, LimConstants
  <2>3. asks' \in 0..MaxAsks
    BY <1>2, LimConstants
  <2>4. QED
    BY <1>1, <1>2, <2>1, <2>2, <2>3 DEF LimInv, LimTypeOK
<1>6. /\ Window \in Windows /\ Window \in Nat /\ Windows \subseteq Nat
      /\ \A w \in Windows : w <= Window <=> w * WindowSize <= now
  BY <1>1, WindowInRange
<1>7. Window' \in Nat /\ \A w \in Windows : w <= Window' <=> w * WindowSize <= now'
  BY <1>1, DivBounds, WindowBegun, LimConstants, WindowInRange DEF Window
<1>8. \A w \in Windows : w <= Window => w <= Window'
  <2>1. ASSUME NEW w \in Windows, w * WindowSize <= now PROVE w * WindowSize <= now'
    <3>1. w * WindowSize \in Nat
      BY <1>6, LimConstants
    <3>2. QED
      BY <1>1, <2>1, <3>1
  <2>2. QED
    BY <1>6, <1>7, <2>1
<1>9. \A w \in Windows : WaitsFor(w)' <=> WaitsFor(w)
  BY <1>2 DEF WaitsFor
<1>10. ASSUME NEW w \in Windows PROVE CounterOf(w)'
  <2>1. CounterOf(w)
    BY DEF LimInv, CounterInv
  <2>2. PICK c \in Nat : c = count[w]
    BY <1>1
  <2>3. /\ count'[w] = (IF Gone(w) THEN 0 ELSE c)
        /\ expires'[w] = (IF Gone(w) THEN Never ELSE expires[w])
        /\ pending' = pending /\ passed' = passed /\ leaked' = leaked
    BY <1>2, <2>2
  <2>4. CASE w > Window
    <3>1. count[w] = 0 /\ passed[w] = 0 /\ ~WaitsFor(w) /\ count'[w] = 0
      BY <2>1, <2>2, <2>3, <2>4 DEF CounterOf
    <3>2. QED
      BY <1>9, <2>1, <2>3, <3>1, LimConstants DEF CounterOf
  <2>5. CASE ~(w > Window)
    <3>1. ~(w > Window')
      BY <1>6, <1>7, <1>8, <2>5
    <3>2. ASSUME w = Window' PROVE w = Window /\ ~Gone(w)
      <4>1. w = Window
        BY <1>6, <1>7, <1>8, <2>5, <3>2
      <4>2. now' < w * WindowSize + WindowSize
        BY <1>1, <3>2, DivBounds, LimConstants DEF Window
      <4>3. w * WindowSize \in Nat /\ WindowSize \in Nat
        BY <1>6, LimConstants
      <4>4. expires[w] # Never => expires[w] > now + 1
        <5>1. expires[w] # Never => expires[w] > w * WindowSize + WindowSize
          BY <2>1 DEF CounterOf
        <5>2. expires[w] \in Int
          BY <1>1, LimConstants DEF Never
        <5>3. QED
          BY <1>1, <4>2, <4>3, <5>1, <5>2
      <4>5. ~Gone(w)
        <5>1. expires[w] \in Int
          BY <1>1, LimConstants DEF Never
        <5>2. QED
          BY <1>1, <4>4, <5>1 DEF Gone
      <4>6. QED
        BY <4>1, <4>5
    <3>3. w = Window' => passed[w] <= count'[w] /\ (WaitsFor(w) => passed[w] + 1 <= count'[w])
      BY <2>1, <2>2, <2>3, <3>2 DEF CounterOf
    <3>4. expires'[w] # Never => expires'[w] > w * WindowSize + WindowSize
      BY <2>1, <2>3 DEF CounterOf
    <3>5. count'[w] > 0 /\ expires'[w] = Never => w \in leaked \/ WaitsFor(w)
      BY <2>1, <2>2, <2>3 DEF CounterOf
    <3>6. QED
      BY <1>9, <2>1, <2>3, <3>1, <3>3, <3>4, <3>5 DEF CounterOf
  <2>6. QED
    BY <2>4, <2>5
<1>11. QED
  BY <1>4, <1>5, <1>10 DEF LimInv, CounterInv

LEMMA LimInvNext == LimInv /\ [LimNext]_limVars => LimInv'
<1> SUFFICES ASSUME LimInv, [LimNext]_limVars PROVE LimInv'
  OBVIOUS
<1>1. ASSUME UNCHANGED limVars PROVE LimInv'
  BY <1>1 DEF limVars, memVars, kvVars, LimInv, LimTypeOK, BucketInv, Tracked, CounterInv,
              CounterOf, WaitsFor, Window
<1>2. QED
  BY <1>1, CheckMemoryKeeps, IncrKeeps, ExpireKeeps, ExpireFailsKeeps, TickKeeps DEF LimNext

\* The in-memory limiter: whatever other identities do, one whose bucket was
\* not evicted gets the burst and the refill rate, and no more.
THEOREM BurstKept == LimSpec => []BurstIfKept
<1>1. ASSUME LimInv PROVE BurstIfKept
  <2> SUFFICES ASSUME NEW k \in Keys \ evicted PROVE debt[k] <= Burst
    BY DEF BurstIfKept
  <2>1. tokens[k] \in 0..Burst /\ debt[k] \in 0..(Burst + 1) /\ Burst \in Nat
    BY <1>1, LimConstants DEF LimInv, LimTypeOK
  <2>2. IF k \in Tracked THEN debt[k] + tokens[k] <= Burst ELSE debt[k] = 0
    BY <1>1 DEF LimInv, BucketInv
  <2>3. QED
    BY <2>1, <2>2
<1>2. QED
  BY <1>1, LimInvInit, LimInvNext, PTL DEF LimSpec

\* The shared limiter: any number of servers together let no more than
\* MaxRequests requests of a window pass, with EXPIRE late, failing or lost.
THEOREM WindowKeepsQuota == LimSpec => []WindowQuota
<1>1. LimInv => WindowQuota
  BY DEF LimInv, CounterInv, CounterOf, WindowQuota
<1>2. QED
  BY <1>1, LimInvInit, LimInvNext, PTL DEF LimSpec

\* A counter without a TTL is left by a failed EXPIRE and by nothing else.
THEOREM OnlyFailedExpireLeaks == LimSpec => []OnlyFailuresLeak
<1>1. LimInv => OnlyFailuresLeak
  BY DEF LimInv, CounterInv, CounterOf, WaitsFor, OnlyFailuresLeak
<1>2. QED
  BY <1>1, LimInvInit, LimInvNext, PTL DEF LimSpec

\* Buckets and counters keep their types; the dictionary stays in its limit.
THEOREM LimTypeCorrect == LimSpec => []LimTypeOK
<1>1. LimInv => LimTypeOK
  BY DEF LimInv
<1>2. QED
  BY <1>1, LimInvInit, LimInvNext, PTL DEF LimSpec

-----------------------------------------------------------------------------
(* The WHOIS cache and its index. *)

CacheRow == [id : 0..MaxIds, kind : Kinds, data : Answers, fresh : BOOLEAN]

LookupCall == [pc : {"rest", "cached", "join", "get", "awaiting", "parked", "stuck",
                     "recheck", "register", "query", "select", "store",
                     "unindex", "reindex", "finish"},
               kind : Kinds, awaits : SUBSET Threads, data : Answers,
               row : 0..MaxIds, next : Nat, alone : BOOLEAN]

IndexEntry == (1..MaxIds) \X Answers \X Nat

Matches ==
    cache.id # 0 /\ cache.kind = "domain" => index = EntriesOf(cache.id, cache.data)

\* The index has entries of the cached row only (its foreign key), and the
\* cleanup job is about to delete nothing but that row.
OneRow ==
    /\ \A e \in index : cache.id # 0 /\ e[1] = cache.id
    /\ cleanup = NoJob \/ (cleanup.id = cache.id /\ cache.id # 0)

\* A writer that nobody overlapped has the cache to itself: the row is the one
\* it selected or stored, and the index holds what it has inserted so far.
WriterHolds(t) ==
    /\ Indexing(t) => thread[t].row # 0
    /\ Writing(t) /\ thread[t].alone =>
          /\ cleanup = NoJob /\ \A u \in Threads \ {t} : ~Writing(u)
          /\ thread[t].row = cache.id
          /\ Indexing(t) => thread[t].data = cache.data
          /\ thread[t].pc = "reindex" =>
                index = EntriesTo(thread[t].row, thread[t].data, thread[t].next)

\* While no writer is past its row, the index is as the last one left it.
KeptByStores == ~mingled /\ (\A t \in Threads : ~Indexing(t)) => Matches

WhoisInv ==
    /\ WhoisTypeOK /\ OneRow /\ KeptByStores
    /\ \A t \in Threads : WriterHolds(t)

LEMMA EntriesAddUp ==
    /\ \A r, d : EntriesTo(r, d, 0) = {}
    /\ \A r, d : \A n \in Nat :
          EntriesTo(r, d, n) \cup {<<r, d, n + 1>>} = EntriesTo(r, d, n + 1)
<1>1. \A r, d : EntriesTo(r, d, 0) = {}
  BY DEF EntriesTo
<1>2. ASSUME NEW r, NEW d, NEW n \in Nat
      PROVE  EntriesTo(r, d, n) \cup {<<r, d, n + 1>>} = EntriesTo(r, d, n + 1)
  <2>1. 1..(n + 1) = (1..n) \cup {n + 1}
    OBVIOUS
  <2>2. QED
    BY <2>1 DEF EntriesTo
<1>3. QED
  BY <1>1, <1>2

LEMMA WhoisConstants ==
    /\ MaxIds \in Nat /\ MaxLookups \in Nat /\ 0 \in 0..MaxIds /\ 0 \in 0..MaxLookups
    /\ Entries \in [Answers -> Nat]
    /\ NoRow \in CacheRow /\ NoRow.id = 0 /\ NoJob.pc = "idle" /\ NoJob.id = 0
    /\ NoJob \in [pc : {"idle", "unindex", "delete"}, id : 0..MaxIds]
    /\ Resting \in LookupCall /\ Resting.pc = "rest"
<1>1. /\ MaxIds \in Nat /\ MaxLookups \in Nat /\ 0 \in 0..MaxIds /\ 0 \in 0..MaxLookups
      /\ Entries \in [Answers -> Nat]
      /\ (CHOOSE a \in Answers : TRUE) \in Answers
  BY WhoisAssumption
<1>2. NoRow \in CacheRow /\ NoRow.id = 0 /\ NoRow.data \in Answers
  BY <1>1 DEF NoRow, CacheRow, Kinds
<1>3. /\ NoJob.pc = "idle" /\ NoJob.id = 0
      /\ NoJob \in [pc : {"idle", "unindex", "delete"}, id : 0..MaxIds]
  BY <1>1 DEF NoJob
<1>4. Resting \in LookupCall /\ Resting.pc = "rest"
  BY <1>1, <1>2 DEF Resting, LookupCall, Kinds
<1>5. QED
  BY <1>1, <1>2, <1>3, <1>4

LEMMA WhoisTypes ==
    ASSUME WhoisInv
    PROVE  /\ cache \in CacheRow /\ cache.id \in 0..MaxIds /\ cache.data \in Answers
           /\ index \subseteq IndexEntry /\ lastId \in 0..MaxIds
           /\ inProgress \in [Slots -> SUBSET Threads] /\ thread \in [Threads -> LookupCall]
           /\ cleanup \in [pc : {"idle", "unindex", "delete"}, id : 0..MaxIds]
           /\ lookups \in 0..MaxLookups /\ mingled \in BOOLEAN
           /\ \A t \in Threads : thread[t] \in LookupCall /\ SlotOf(t) \in Slots
BY DEF WhoisInv, WhoisTypeOK, CacheRow, LookupCall, IndexEntry, Procs, Slots, SlotOf

LEMMA WhoisInvInit == WhoisInit => WhoisInv
<1> SUFFICES ASSUME WhoisInit PROVE WhoisInv
  OBVIOUS
<1>1. WhoisTypeOK
  BY WhoisConstants DEF WhoisInit, WhoisTypeOK, CacheRow, LookupCall
<1>2. OneRow /\ KeptByStores
  BY WhoisConstants DEF WhoisInit, OneRow, KeptByStores, Matches
<1>3. \A t \in Threads : WriterHolds(t)
  BY WhoisConstants DEF WhoisInit, WriterHolds, Writing, Indexing, At
<1>4. QED
  BY <1>1, <1>2, <1>3 DEF WhoisInv

\* Steps of requests that are not between the select and the last index entry.
LEMMA QuietStep ==
    ASSUME WhoisInv, UNCHANGED <<cache, index, lastId, cleanup, mingled>>,
           lookups' \in 0..MaxLookups, inProgress' \in [Slots -> SUBSET Threads],
           thread' \in [Threads -> LookupCall],
           \A u \in Threads : thread'[u] = thread[u] \/ (~Writing(u) /\ ~Writing(u)')
    PROVE  WhoisInv'
<1>1. WhoisTypeOK'
  BY DEF WhoisInv, WhoisTypeOK, LookupCall
<1>2. OneRow'
  BY DEF WhoisInv, OneRow
<1>3. \A u \in Threads : (Writing(u)' <=> Writing(u)) /\ (Indexing(u)' <=> Indexing(u))
  BY DEF Writing, Indexing, At
<1>4. \A u \in Threads : WriterHolds(u)'
  <2>1. ASSUME NEW u \in Threads PROVE WriterHolds(u)'
    <3>1. CASE thread'[u] = thread[u]
      BY <1>3, <3>1 DEF WhoisInv, WriterHolds
    <3>2. CASE ~Writing(u)'
      BY <3>2 DEF WriterHolds, Writing
    <3>3. QED
      BY <3>1, <3>2
  <2>2. QED
    BY <2>1
<1>5. KeptByStores'
  BY <1>3 DEF WhoisInv, KeptByStores, Matches
<1>6. QED
  BY <1>1, <1>2, <1>4, <1>5 DEF WhoisInv

\* One thread goes on; the record it goes on with.
LEMMA StepTo ==
    ASSUME WhoisInv, NEW t \in Threads, NEW pc, Step(t, pc),
           pc \in {"join", "get", "parked", "register", "query"}
    PROVE  \E c \in LookupCall :
              /\ thread' = [thread EXCEPT ![t] = c]
              /\ c.pc = pc /\ c.kind = thread[t].kind /\ c.awaits = thread[t].awaits
<1>1. thread \in [Threads -> LookupCall] /\ thread[t] \in LookupCall
  BY WhoisTypes
<1>2. PICK c \in LookupCall : c = [thread[t] EXCEPT !.pc = pc]
  BY <1>1 DEF LookupCall
<1>3. c.pc = pc /\ c.kind = thread[t].kind /\ c.awaits = thread[t].awaits
  BY <1>1, <1>2 DEF LookupCall
<1>4. QED
  BY <1>2, <1>3 DEF Step

LEMMA DoneTo ==
    ASSUME WhoisInv, NEW t \in Threads, Done(t)
    PROVE  \E c \in LookupCall :
              thread' = [thread EXCEPT ![t] = c] /\ c.pc = "finish" /\ c.kind = thread[t].kind
<1>1. thread[t].kind \in Kinds
  BY WhoisTypes DEF LookupCall
<1>2. PICK r \in LookupCall, k \in Kinds : r = Resting /\ k = thread[t].kind
  BY <1>1, WhoisConstants
<1>3. [r EXCEPT !.pc = "finish", !.kind = k] \in LookupCall
  BY DEF LookupCall
<1>4. /\ [r EXCEPT !.pc = "finish", !.kind = k].pc = "finish"
      /\ [r EXCEPT !.pc = "finish", !.kind = k].kind = k
  BY DEF LookupCall
<1>5. QED
  BY <1>2, <1>3, <1>4 DEF Done

\* The lookup's own changes of more than the statement it is at.
LEMMA CallTo ==
    ASSUME WhoisInv, NEW t \in Threads
    PROVE  /\ \A k \in Kinds : thread' = [thread EXCEPT ![t].pc = "cached", ![t].kind = k] =>
                 \E c \in LookupCall : thread' = [thread EXCEPT ![t] = c] /\ c.pc = "cached"
           /\ thread' = [thread EXCEPT ![t].pc = "awaiting", ![t].awaits = inProgress[SlotOf(t)]] =>
                 \E c \in LookupCall :
                    /\ thread' = [thread EXCEPT ![t] = c]
                    /\ c.pc = "awaiting" /\ c.kind = thread[t].kind /\ c.awaits = inProgress[SlotOf(t)]
           /\ \A a \in Answers : thread' = [thread EXCEPT ![t].pc = "select", ![t].data = a] =>
                 \E c \in LookupCall :
                    thread' = [thread EXCEPT ![t] = c] /\ c.pc = "select" /\ c.kind = thread[t].kind
           /\ \A i \in 0..MaxIds : thread' = [thread EXCEPT ![t].pc = "unindex", ![t].row = i] =>
                 \E c \in LookupCall :
                    /\ thread' = [thread EXCEPT ![t] = c] /\ c.pc = "unindex" /\ c.row = i
                    /\ c.kind = thread[t].kind /\ c.data = thread[t].data /\ c.alone = thread[t].alone
           /\ thread' = [thread EXCEPT ![t].pc = "reindex", ![t].next = 0] =>
                 \E c \in LookupCall :
                    /\ thread' = [thread EXCEPT ![t] = c] /\ c.pc = "reindex" /\ c.next = 0
                    /\ c.kind = thread[t].kind /\ c.row = thread[t].row
                    /\ c.data = thread[t].data /\ c.alone = thread[t].alone
           /\ thread' = [thread EXCEPT ![t].next = thread[t].next + 1] =>
                 \E c \in LookupCall :
                    /\ thread' = [thread EXCEPT ![t] = c] /\ c.pc = thread[t].pc
                    /\ c.next = thread[t].next + 1
                    /\ c.kind = thread[t].kind /\ c.row = thread[t].row
                    /\ c.data = thread[t].data /\ c.alone = thread[t].alone
<1>1. PICK r \in LookupCall : r = thread[t]
  BY WhoisTypes
<1>2. inProgress[SlotOf(t)] \in SUBSET Threads /\ thread \in [Threads -> LookupCall]
  BY WhoisTypes
<1>3. ASSUME NEW k \in Kinds
      PROVE  /\ [r EXCEPT !.pc = "cached", !.kind = k] \in LookupCall
             /\ [r EXCEPT !.pc = "cached", !.kind = k].pc = "cached"
  BY DEF LookupCall
<1>4. ASSUME NEW s \in SUBSET Threads
      PROVE  /\ [r EXCEPT !.pc = "awaiting", !.awaits = s] \in LookupCall
             /\ [r EXCEPT !.pc = "awaiting", !.awaits = s].pc = "awaiting"
             /\ [r EXCEPT !.pc = "awaiting", !.awaits = s].kind = r.kind
             /\ [r EXCEPT !.pc = "awaiting", !.awaits = s].awaits = s
  BY DEF LookupCall
<1>5. ASSUME NEW a \in Answers
      PROVE  /\ [r EXCEPT !.pc = "select", !.data = a] \in LookupCall
             /\ [r EXCEPT !.pc = "select", !.data = a].pc = "select"
             /\ [r EXCEPT !.pc = "select", !.data = a].kind = r.kind
  BY DEF LookupCall
<1>6. ASSUME NEW i \in 0..MaxIds
      PROVE  /\ [r EXCEPT !.pc = "unindex", !.row = i] \in LookupCall
             /\ [r EXCEPT !.pc = "unindex", !.row = i].pc = "unindex"
             /\ [r EXCEPT !.pc = "unindex", !.row = i].row = i
             /\ [r EXCEPT !.pc = "unindex", !.row = i].kind = r.kind
             /\ [r EXCEPT !.pc = "unindex", !.row = i].data = r.data
             /\ [r EXCEPT !.pc = "unindex", !.row = i].alone = r.alone
  BY DEF LookupCall
<1>7. /\ [r EXCEPT !.pc = "reindex", !.next = 0] \in LookupCall
      /\ [r EXCEPT !.pc = "reindex", !.next = 0].pc = "reindex"
      /\ [r EXCEPT !.pc = "reindex", !.next = 0].next = 0
      /\ [r EXCEPT !.pc = "reindex", !.next = 0].kind = r.kind
      /\ [r EXCEPT !.pc = "reindex", !.next = 0].row = r.row
      /\ [r EXCEPT !.pc = "reindex", !.next = 0].data = r.data
      /\ [r EXCEPT !.pc = "reindex", !.next = 0].alone = r.alone
  BY DEF LookupCall
<1>8. PICK n \in Nat : n = r.next + 1
  BY DEF LookupCall
<1>9. /\ [r EXCEPT !.next = n] \in LookupCall
      /\ [r EXCEPT !.next = n].pc = r.pc /\ [r EXCEPT !.next = n].next = n
      /\ [r EXCEPT !.next = n].kind = r.kind /\ [r EXCEPT !.next = n].row = r.row
      /\ [r EXCEPT !.next = n].data = r.data /\ [r EXCEPT !.next = n].alone = r.alone
  BY DEF LookupCall
<1>10. /\ \A k : [thread EXCEPT ![t].pc = "cached", ![t].kind = k]
               = [thread EXCEPT ![t] = [r EXCEPT !.pc = "cached", !.kind = k]]
       /\ \A s : [thread EXCEPT ![t].pc = "awaiting", ![t].awaits = s]
               = [thread EXCEPT ![t] = [r EXCEPT !.pc = "awaiting", !.awaits = s]]
       /\ \A a : [thread EXCEPT ![t].pc = "select", ![t].data = a]
               = [thread EXCEPT ![t] = [r EXCEPT !.pc = "select", !.data = a]]
       /\ \A i : [thread EXCEPT ![t].pc = "unindex", ![t].row = i]
               = [thread EXCEPT ![t] = [r EXCEPT !.pc = "unindex", !.row = i]]
       /\ [thread EXCEPT ![t].pc = "reindex", ![t].next = 0]
               = [thread EXCEPT ![t] = [r EXCEPT !.pc = "reindex", !.next = 0]]
       /\ [thread EXCEPT ![t].next = n] = [thread EXCEPT ![t] = [r EXCEPT !.next = n]]
  BY <1>1, <1>2 DEF LookupCall
<1>11. thread[t].next + 1 = n
  BY <1>1, <1>8
<1>12. ASSUME NEW k \in Kinds, thread' = [thread EXCEPT ![t].pc = "cached", ![t].kind = k]
       PROVE \E c \in LookupCall : thread' = [thread EXCEPT ![t] = c] /\ c.pc = "cached"
  <2>1. PICK c \in LookupCall : c = [r EXCEPT !.pc = "cached", !.kind = k] /\ c.pc = "cached"
    BY Zenon, <1>3
  <2>2. thread' = [thread EXCEPT ![t] = c]
    BY <1>1, <1>2, <1>12, <2>1 DEF LookupCall
  <2>3. QED
    BY <1>1, <2>1, <2>2
<1>13. thread' = [thread EXCEPT ![t].pc = "awaiting", ![t].awaits = inProgress[SlotOf(t)]] =>
          \E c \in LookupCall :
             /\ thread' = [thread EXCEPT ![t] = c]
             /\ c.pc = "awaiting" /\ c.kind = thread[t].kind /\ c.awaits = inProgress[SlotOf(t)]
  BY Zenon, <1>1, <1>2, <1>4, <1>10
<1>14. ASSUME NEW a \in Answers, thread' = [thread EXCEPT ![t].pc = "select", ![t].data = a]
       PROVE \E c \in LookupCall :
             thread' = [thread EXCEPT ![t] = c] /\ c.pc = "select" /\ c.kind = thread[t].kind
  <2>1. PICK c \in LookupCall : c = [r EXCEPT !.pc = "select", !.data = a] /\ c.pc = "select" /\ c.kind = r.kind
    BY Zenon, <1>5
  <2>2. thread' = [thread EXCEPT ![t] = c]
    BY <1>1, <1>2, <1>14, <2>1 DEF LookupCall
  <2>3. QED
    BY <1>1, <2>1, <2>2
<1>15. ASSUME NEW i \in 0..MaxIds, thread' = [thread EXCEPT ![t].pc = "unindex", ![t].row = i]
       PROVE \E c \in LookupCall :
             /\ thread' = [thread EXCEPT ![t] = c] /\ c.pc = "unindex" /\ c.row = i
             /\ c.kind = thread[t].kind /\ c.data = thread[t].data /\ c.alone = thread[t].alone
  <2>1. PICK c \in LookupCall : c = [r EXCEPT !.pc = "unindex", !.row = i] /\ c.pc = "unindex" /\ c.row = i
                                   /\ c.kind = r.kind /\ c.data = r.data /\ c.alone = r.alone
    BY Zenon, <1>6
  <2>2. thread' = [thread EXCEPT ![t] = c]
    BY <1>1, <1>2, <1>15, <2>1 DEF LookupCall
  <2>3. QED
    BY <1>1, <2>1, <2>2
<1>16. thread' = [thread EXCEPT ![t].pc = "reindex", ![t].next = 0] =>
          \E c \in LookupCall :
             /\ thread' = [thread EXCEPT ![t] = c] /\ c.pc = "reindex" /\ c.next = 0
             /\ c.kind = thread[t].kind /\ c.row = thread[t].row
             /\ c.data = thread[t].data /\ c.alone = thread[t].alone
  BY Zenon, <1>1, <1>7, <1>10
<1>17. thread' = [thread EXCEPT ![t].next = thread[t].next + 1] =>
          \E c \in LookupCall :
             /\ thread' = [thread EXCEPT ![t] = c] /\ c.pc = thread[t].pc
             /\ c.next = thread[t].next + 1
             /\ c.kind = thread[t].kind /\ c.row = thread[t].row
             /\ c.data = thread[t].data /\ c.alone = thread[t].alone
  BY Zenon, <1>1, <1>9, <1>10, <1>11
<1>18. QED
  BY Zenon, <1>12, <1>13, <1>14, <1>15, <1>16, <1>17

LEMMA QuietMove ==
    ASSUME WhoisInv, UNCHANGED <<cache, index, lastId, cleanup, mingled>>,
           lookups' \in 0..MaxLookups, inProgress' \in [Slots -> SUBSET Threads],
           NEW t \in Threads, ~Writing(t), NEW c \in LookupCall, thread' = [thread EXCEPT ![t] = c],
           c.pc \notin {"store", "unindex", "reindex"}
    PROVE  WhoisInv'
<1>1. /\ thread \in [Threads -> LookupCall] /\ thread' \in [Threads -> LookupCall]
      /\ thread'[t] = c /\ \A u \in Threads \ {t} : thread'[u] = thread[u]
  BY WhoisTypes
<1>2. ~Writing(t)'
  BY <1>1 DEF Writing, Indexing, At
<1>3. QED
  BY <1>1, <1>2, QuietStep

LEMMA QuietActions ==
    ASSUME WhoisInv, NEW t \in Threads,
           \/ \E kind \in Kinds : Request(t, kind)
           \/ ReadCache(t) \/ Join(t) \/ Get(t) \/ Park(t) \/ Register(t) \/ Perform(t)
    PROVE  WhoisInv'
<1>1. /\ lookups \in 0..MaxLookups /\ inProgress \in [Slots -> SUBSET Threads]
      /\ thread[t] \in LookupCall /\ SlotOf(t) \in Slots /\ MaxLookups \in Nat
  BY WhoisTypes, WhoisConstants
<1>2. ~Writing(t) /\ UNCHANGED <<cache, index, lastId, cleanup, mingled>>
  BY DEF Request, ReadCache, Join, Get, Park, Register, Perform, At, Writing, Indexing
<1>3. lookups' \in 0..MaxLookups
  BY <1>1 DEF Request, ReadCache, Join, Get, Park, Register, Perform
<1>4. inProgress' \in [Slots -> SUBSET Threads]
  BY <1>1 DEF Request, ReadCache, Join, Get, Park, Register, Perform
<1> DEFINE NotWriting == \E c \in LookupCall : /\ thread' = [thread EXCEPT ![t] = c]
                                         /\ c.pc \notin {"store", "unindex", "reindex"}
<1>5. NotWriting
  <2>1. ASSUME NEW pc \in {"join", "get", "parked", "register", "query"}, Step(t, pc)
        PROVE  NotWriting
    <3>1. PICK c \in LookupCall : thread' = [thread EXCEPT ![t] = c] /\ c.pc = pc
      BY <2>1, StepTo
    <3>2. QED
      BY <2>1, <3>1
  <2>2. CASE Done(t)
    BY <2>2, DoneTo
  <2>3. CASE Reply(t)
    BY <2>3, WhoisConstants DEF Reply
  <2>4. ASSUME NEW kind \in Kinds, Request(t, kind) PROVE NotWriting
    <3>1. thread' = [thread EXCEPT ![t].pc = "cached", ![t].kind = kind]
      BY <2>4 DEF Request
    <3>2. PICK c \in LookupCall : thread' = [thread EXCEPT ![t] = c] /\ c.pc = "cached"
      BY <3>1, CallTo
    <3>3. QED
      BY <3>2
  <2>5. CASE ReadCache(t) \/ Join(t) \/ Park(t) \/ Register(t)
    BY <2>1, <2>3, <2>5 DEF ReadCache, Join, Park, Register
  <2>6. CASE Get(t)
    <3>1. CASE thread' = [thread EXCEPT ![t].pc = "awaiting", ![t].awaits = inProgress[SlotOf(t)]]
      <4>1. PICK c \in LookupCall : thread' = [thread EXCEPT ![t] = c] /\ c.pc = "awaiting"
        BY <3>1, CallTo
      <4>2. QED
        BY <4>1
    <3>2. QED
      BY <2>3, <2>6, <3>1 DEF Get
  <2>7. CASE Perform(t)
    <3>1. ASSUME NEW a \in Answers, thread' = [thread EXCEPT ![t].pc = "select", ![t].data = a]
          PROVE  NotWriting
      <4>1. PICK c \in LookupCall : thread' = [thread EXCEPT ![t] = c] /\ c.pc = "select"
        BY <3>1, CallTo
      <4>2. QED
        BY <4>1
    <3>2. QED
      BY <2>2, <2>7, <3>1 DEF Perform
  <2>8. QED
    BY <2>4, <2>5, <2>6, <2>7
<1>6. QED
  BY <1>2, <1>3, <1>4, <1>5, QuietMove

LEMMA FinishKeeps ==
    ASSUME WhoisInv, NEW t \in Threads, Finish(t)
    PROVE  WhoisInv'
<1>1. /\ thread \in [Threads -> LookupCall] /\ thread[t].pc = "finish"
      /\ inProgress' \in [Slots -> SUBSET Threads] /\ lookups' \in 0..MaxLookups
      /\ UNCHANGED <<cache, index, lastId, cleanup, mingled>>
  BY WhoisTypes DEF Finish, At
<1>2. ASSUME NEW u \in Threads
      PROVE  /\ thread'[u] \in LookupCall
             /\ thread'[u] = thread[u] \/ (~Writing(u) /\ ~Writing(u)')
  <2>1. thread[u] \in LookupCall
    BY <1>1
  <2>2. CASE u = t
    <3>1. thread'[u] = Resting
      BY <1>1, <2>2 DEF Finish, Signalled, AfterSignal, At
    <3>2. Resting \in LookupCall /\ Resting.pc = "rest"
      BY WhoisConstants
    <3>3. ~Writing(u)
      BY <1>1, <2>2 DEF Writing, Indexing, At
    <3>4. ~Writing(u)'
      BY <3>1, <3>2 DEF Writing, Indexing, At
    <3>5. QED
      BY <3>1, <3>2, <3>3, <3>4
  <2>3. CASE u # t /\ t \in thread[u].awaits /\ At(u, "awaiting")
    <3>1. PICK c \in LookupCall : c = [thread[u] EXCEPT !.pc = "recheck", !.awaits = {}]
      BY Zenon, <2>1 DEF LookupCall
    <3>2. c.pc = "recheck"
      BY <2>1, <3>1 DEF LookupCall
    <3>3. thread'[u] = c
      BY Zenon, <2>3, <3>1 DEF Finish, Signalled, AfterSignal, At
    <3>4. QED
      BY <2>3, <3>2, <3>3 DEF Writing, Indexing, At
  <2>4. CASE u # t /\ t \in thread[u].awaits /\ At(u, "parked")
    <3>1. PICK c \in LookupCall : c = [thread[u] EXCEPT !.pc = "stuck", !.awaits = {}]
      BY Zenon, <2>1 DEF LookupCall
    <3>2. c.pc = "stuck"
      BY <2>1, <3>1 DEF LookupCall
    <3>3. thread'[u] = c
      BY Zenon, <2>4, <3>1 DEF Finish, Signalled, AfterSignal, At
    <3>4. QED
      BY <2>4, <3>2, <3>3 DEF Writing, Indexing, At
  <2>5. CASE u # t /\ ~(t \in thread[u].awaits /\ (At(u, "awaiting") \/ At(u, "parked")))
    <3>1. thread'[u] = thread[u]
      BY Zenon, <2>5 DEF Finish, Signalled, AfterSignal
    <3>2. QED
      BY Zenon, <2>1, <3>1
  <2>6. QED
    BY <2>2, <2>3, <2>4, <2>5
<1>3. thread' \in [Threads -> LookupCall]
  <2>1. thread' = [u \in Threads |-> thread'[u]]
    BY DEF Finish, Signalled
  <2>2. QED
    BY <1>2, <2>1
<1>4. QED
  BY <1>1, <1>2, <1>3, QuietStep

\* What a select and the loss of privacy do to a request.
LEMMA AloneUpdate ==
    ASSUME NEW c \in LookupCall, NEW b \in BOOLEAN
    PROVE  \E d \in LookupCall :
              /\ d = [c EXCEPT !.alone = b]
              /\ d.pc = c.pc /\ d.kind = c.kind /\ d.row = c.row /\ d.data = c.data
              /\ d.next = c.next /\ d.awaits = c.awaits /\ d.alone = b
<1>1. [c EXCEPT !.alone = b] \in LookupCall
  BY DEF LookupCall
<1>2. /\ [c EXCEPT !.alone = b].pc = c.pc /\ [c EXCEPT !.alone = b].row = c.row
      /\ [c EXCEPT !.alone = b].kind = c.kind /\ [c EXCEPT !.alone = b].next = c.next
      /\ [c EXCEPT !.alone = b].awaits = c.awaits
      /\ [c EXCEPT !.alone = b].data = c.data /\ [c EXCEPT !.alone = b].alone = b
  BY DEF LookupCall
<1>3. QED
  BY Zenon, <1>1, <1>2

\* What every other request keeps when one selects, or the cleanup job does.
Overlapped(u) ==
    /\ thread'[u] \in LookupCall
    /\ thread'[u].pc = thread[u].pc /\ thread'[u].kind = thread[u].kind
    /\ thread'[u].row = thread[u].row /\ thread'[u].data = thread[u].data
    /\ thread'[u].next = thread[u].next /\ thread'[u].awaits = thread[u].awaits
    /\ thread'[u].alone = ~Writing(u)

LEMMA OverlapUpdate ==
    ASSUME WhoisInv, NEW u \in Threads, thread'[u] = [thread[u] EXCEPT !.alone = ~Writing(u)]
    PROVE  Overlapped(u)
<1>1. PICK still \in BOOLEAN : still = ~Writing(u)
  OBVIOUS
<1>2. PICK c \in LookupCall : c = thread[u]
  BY WhoisTypes
<1>3. PICK d \in LookupCall :
         /\ d = [c EXCEPT !.alone = still]
         /\ d.pc = c.pc /\ d.kind = c.kind /\ d.row = c.row /\ d.data = c.data
         /\ d.next = c.next /\ d.awaits = c.awaits /\ d.alone = still
  BY AloneUpdate
<1>4. thread'[u] = d
  BY <1>1, <1>2, <1>3
<1>5. QED
  BY <1>1, <1>2, <1>3, <1>4 DEF Overlapped

\* A new select, and a new cleanup, end the privacy of whoever is writing.
LEMMA OverlapKeeps ==
    ASSUME WhoisInv, UNCHANGED <<cache, index, lastId, inProgress, lookups, mingled>>,
           cleanup' \in [pc : {"idle", "unindex", "delete"}, id : 0..MaxIds],
           cleanup' = NoJob \/ (cleanup'.id = cache.id /\ cache.id # 0),
           thread' \in [Threads -> LookupCall],
           \A u \in Threads :
              \/ Overlapped(u)
              \/ /\ thread[u].pc = "select" /\ thread'[u].pc = "store" /\ thread'[u].row = cache.id
                 /\ thread'[u].alone => /\ cleanup' = NoJob
                                        /\ \A v \in Threads \ {u} : ~Writing(v)'
    PROVE  WhoisInv'
<1>1. WhoisTypeOK'
  BY WhoisTypes DEF WhoisTypeOK, LookupCall, CacheRow, IndexEntry
<1>2. OneRow'
  BY DEF WhoisInv, OneRow
<1>3. ASSUME NEW u \in Threads
      PROVE  WriterHolds(u)' /\ (Indexing(u)' <=> Indexing(u))
  <2>1. CASE Overlapped(u)
    <3>1. /\ thread'[u].pc = thread[u].pc /\ thread'[u].row = thread[u].row
          /\ thread'[u].alone = ~Writing(u)
      BY <2>1 DEF Overlapped
    <3>2. (Indexing(u)' <=> Indexing(u)) /\ (Writing(u)' <=> Writing(u))
      BY <3>1 DEF Indexing, Writing, At
    <3>3. QED
      BY <3>1, <3>2 DEF WhoisInv, WriterHolds
  <2>2. CASE /\ thread[u].pc = "select" /\ thread'[u].pc = "store" /\ thread'[u].row = cache.id
             /\ thread'[u].alone => /\ cleanup' = NoJob
                                    /\ \A v \in Threads \ {u} : ~Writing(v)'
    BY <2>2 DEF WriterHolds, Writing, Indexing, At
  <2>3. QED
    BY <2>1, <2>2
<1>4. KeptByStores'
  BY <1>3 DEF WhoisInv, KeptByStores, Matches
<1>5. QED
  BY <1>1, <1>2, <1>3, <1>4 DEF WhoisInv

LEMMA SelectKeeps ==
    ASSUME WhoisInv, NEW t \in Threads, Select(t)
    PROVE  /\ WhoisInv'
           /\ thread'[t].pc = "store" /\ thread'[t].kind = thread[t].kind
           /\ \A u \in Threads \ {t} : Overlapped(u)
<1>1. /\ thread[t].pc = "select" /\ cache.id \in 0..MaxIds
      /\ UNCHANGED <<cache, index, lastId, inProgress, cleanup, lookups, mingled>>
      /\ \A u \in Threads : thread[u] \in LookupCall
  BY WhoisTypes DEF Select, At
<1>2. PICK quiet \in BOOLEAN : quiet = (cleanup = NoJob /\ ~\E v \in Threads : Writing(v))
  OBVIOUS
<1>3. PICK c \in LookupCall :
         /\ c = [thread[t] EXCEPT !.pc = "store", !.row = cache.id, !.alone = quiet]
         /\ c.pc = "store" /\ c.row = cache.id /\ c.alone = quiet /\ c.kind = thread[t].kind
  <2>1. thread[t] \in LookupCall /\ cache.id \in 0..MaxIds
    BY <1>1
  <2>2. PICK r \in LookupCall, i \in 0..MaxIds : r = thread[t] /\ i = cache.id
    BY <2>1
  <2>3. [r EXCEPT !.pc = "store", !.row = i, !.alone = quiet] \in LookupCall
    BY DEF LookupCall
  <2>4. /\ [r EXCEPT !.pc = "store", !.row = i, !.alone = quiet].pc = "store"
        /\ [r EXCEPT !.pc = "store", !.row = i, !.alone = quiet].row = i
        /\ [r EXCEPT !.pc = "store", !.row = i, !.alone = quiet].alone = quiet
        /\ [r EXCEPT !.pc = "store", !.row = i, !.alone = quiet].kind = r.kind
    BY DEF LookupCall
  <2>5. QED
    BY Zenon, <2>2, <2>3, <2>4
<1>4. c.pc = "store" /\ c.row = cache.id /\ c.alone = quiet /\ c.kind = thread[t].kind
  BY <1>3
<1>5. thread'[t] = c
  BY <1>2, <1>3 DEF Select
<1>6. \A u \in Threads \ {t} : Overlapped(u)
  BY OverlapUpdate DEF Select
<1>7. thread' \in [Threads -> LookupCall]
  <2>1. thread' = [u \in Threads |-> thread'[u]]
    BY DEF Select
  <2>2. QED
    BY <1>3, <1>5, <1>6, <2>1 DEF Overlapped
<1>8. cleanup' = NoJob \/ (cleanup'.id = cache.id /\ cache.id # 0)
  BY <1>1 DEF WhoisInv, OneRow
<1>9. c.alone => cleanup' = NoJob /\ \A v \in Threads \ {t} : ~Writing(v)'
  BY <1>1, <1>2, <1>4, <1>6 DEF Overlapped, Writing, Indexing, At
<1>10. cleanup' \in [pc : {"idle", "unindex", "delete"}, id : 0..MaxIds]
  BY <1>1, WhoisTypes
<1>11. WhoisInv'
  BY <1>1, <1>4, <1>5, <1>6, <1>7, <1>8, <1>9, <1>10, OverlapKeeps
<1>12. QED
  BY <1>4, <1>5, <1>6, <1>11

LEMMA CleanupSelectKeeps ==
    ASSUME WhoisInv, CleanupSelect
    PROVE  WhoisInv' /\ \A u \in Threads : Overlapped(u)
<1>1. /\ cache.id \in 0..MaxIds /\ cache.id # 0 /\ MaxIds \in Nat
      /\ cleanup' = [pc |-> "unindex", id |-> cache.id]
      /\ UNCHANGED <<cache, index, lastId, inProgress, lookups, mingled>>
  BY WhoisTypes, WhoisConstants DEF CleanupSelect
<1>2. \A u \in Threads : Overlapped(u)
  BY OverlapUpdate DEF CleanupSelect
<1>3. thread' \in [Threads -> LookupCall]
  <2>1. thread' = [u \in Threads |-> thread'[u]]
    BY DEF CleanupSelect
  <2>2. QED
    BY <1>2, <2>1 DEF Overlapped
<1>4. /\ cleanup' \in [pc : {"idle", "unindex", "delete"}, id : 0..MaxIds]
      /\ cleanup'.id = cache.id
  BY <1>1
<1>5. QED
  BY <1>1, <1>2, <1>3, <1>4, OverlapKeeps

\* What a writer's own steps must establish when others are not moved.
LEMMA WriterStep ==
    ASSUME WhoisInv, NEW t \in Threads, Writing(t), NEW c \in LookupCall,
           thread' = [thread EXCEPT ![t] = c],
           UNCHANGED <<inProgress, cleanup, lookups>>
    PROVE  /\ thread \in [Threads -> LookupCall] /\ thread' \in [Threads -> LookupCall]
           /\ thread'[t] = c
           /\ \A u \in Threads \ {t} : thread'[u] = thread[u] /\ WriterHolds(u)'
           /\ thread[t].alone =>
                 /\ cleanup = NoJob /\ \A u \in Threads \ {t} : ~Writing(u)
                 /\ thread[t].row = cache.id
<1>1. /\ thread \in [Threads -> LookupCall] /\ thread' \in [Threads -> LookupCall]
      /\ thread'[t] = c /\ \A u \in Threads \ {t} : thread'[u] = thread[u]
  BY WhoisTypes
<1>2. ASSUME NEW u \in Threads \ {t} PROVE WriterHolds(u)'
  <2>1. WriterHolds(u) /\ ~(Writing(u) /\ thread[u].alone)
    BY DEF WhoisInv, WriterHolds
  <2>2. thread'[u] = thread[u]
    BY <1>1
  <2>3. QED
    BY <2>1, <2>2 DEF WriterHolds, Writing, Indexing, At
<1>3. QED
  BY <1>1, <1>2 DEF WhoisInv, WriterHolds

\* A domain's row is stored and its index is next.
LEMMA StoreDomain ==
    ASSUME WhoisInv, NEW t \in Threads, At(t, "store"), NEW row \in 1..MaxIds,
           thread' = [thread EXCEPT ![t].pc = "unindex", ![t].row = row],
           UNCHANGED <<index, inProgress, cleanup, lookups, mingled>>,
           cache' \in CacheRow, lastId' \in 0..MaxIds, OneRow',
           thread[t].alone => cache'.id = row /\ cache'.data = thread[t].data
    PROVE  WhoisInv'
<1>1. Writing(t) /\ row \in 0..MaxIds /\ row # 0
  BY WhoisConstants DEF Writing
<1>2. PICK c \in LookupCall :
         /\ thread' = [thread EXCEPT ![t] = c] /\ c.pc = "unindex" /\ c.row = row
         /\ c.data = thread[t].data /\ c.alone = thread[t].alone
  <2>1. \A i \in 0..MaxIds : thread' = [thread EXCEPT ![t].pc = "unindex", ![t].row = i] =>
           \E c \in LookupCall :
              /\ thread' = [thread EXCEPT ![t] = c] /\ c.pc = "unindex" /\ c.row = i
              /\ c.kind = thread[t].kind /\ c.data = thread[t].data /\ c.alone = thread[t].alone
    BY Zenon, CallTo
  <2>2. QED
    BY Zenon, <1>1, <2>1
<1>3. /\ thread' \in [Threads -> LookupCall] /\ thread'[t] = c
      /\ \A u \in Threads \ {t} : thread'[u] = thread[u] /\ WriterHolds(u)'
      /\ thread[t].alone => cleanup = NoJob /\ \A u \in Threads \ {t} : ~Writing(u)
  BY <1>1, <1>2, WriterStep
<1>4. WhoisTypeOK'
  BY <1>3, WhoisTypes DEF WhoisTypeOK, LookupCall, CacheRow, IndexEntry
<1>5. Indexing(t)'
  BY <1>2, <1>3 DEF Indexing
<1>6. KeptByStores'
  BY <1>5 DEF KeptByStores
<1>7. thread[t].alone => \A u \in Threads \ {t} : ~Writing(u)'
  BY <1>3 DEF Writing, Indexing, At
<1>8. WriterHolds(t)'
  BY <1>1, <1>2, <1>3, <1>7 DEF WriterHolds
<1>9. QED
  BY <1>3, <1>4, <1>6, <1>8 DEF WhoisInv

\* A writer is done with the cache: it stored an IP's answer, found its row
\* there already, or one of its statements failed.
LEMMA WriterLeaves ==
    ASSUME WhoisInv, NEW t \in Threads, Writing(t), Done(t),
           UNCHANGED <<index, inProgress, cleanup, lookups>>,
           cache' \in CacheRow, lastId' \in 0..MaxIds, OneRow', mingled' \in BOOLEAN,
           mingled' \/ Matches' \/ (UNCHANGED <<cache, mingled>> /\ ~Indexing(t))
    PROVE  WhoisInv'
<1>1. PICK c \in LookupCall : thread' = [thread EXCEPT ![t] = c] /\ c.pc = "finish"
  BY DoneTo
<1>2. /\ thread' \in [Threads -> LookupCall] /\ thread'[t] = c
      /\ \A u \in Threads \ {t} : thread'[u] = thread[u] /\ WriterHolds(u)'
  BY <1>1, WriterStep
<1>3. WhoisTypeOK'
  BY <1>2, WhoisTypes DEF WhoisTypeOK, LookupCall, CacheRow, IndexEntry
<1>4. ~Writing(t)' /\ ~Indexing(t)'
  BY <1>1, <1>2 DEF Writing, Indexing, At
<1>5. WriterHolds(t)'
  BY <1>4 DEF WriterHolds
<1>6. \A u \in Threads \ {t} : Indexing(u)' <=> Indexing(u)
  BY <1>2 DEF Indexing
<1>7. KeptByStores'
  <2>1. CASE mingled' \/ Matches'
    BY <2>1 DEF KeptByStores
  <2>2. CASE UNCHANGED <<cache, mingled>> /\ ~Indexing(t)
    BY <1>6, <2>2 DEF WhoisInv, KeptByStores, Matches
  <2>3. QED
    BY <2>1, <2>2
<1>8. QED
  BY <1>2, <1>3, <1>5, <1>7 DEF WhoisInv

LEMMA StoreKeeps ==
    ASSUME WhoisInv, NEW t \in Threads, Store(t)
    PROVE  WhoisInv'
<1>1. /\ At(t, "store") /\ Writing(t) /\ ~Indexing(t)
      /\ thread[t].data \in Answers /\ thread[t].kind \in Kinds /\ thread[t].row \in 0..MaxIds
      /\ cache \in CacheRow /\ cache.id \in 0..MaxIds /\ lastId \in 0..MaxIds /\ MaxIds \in Nat
      /\ UNCHANGED <<index, inProgress, cleanup, lookups, mingled>> /\ mingled \in BOOLEAN
  BY WhoisTypes, WhoisConstants DEF Store, At, Writing, Indexing, LookupCall
<1>2. thread[t].alone => thread[t].row = cache.id
  BY <1>1 DEF WhoisInv, WriterHolds
<1>3. ASSUME thread[t].row # 0,
             cache' = IF cache.id # thread[t].row THEN cache
                      ELSE [id |-> cache.id, kind |-> thread[t].kind, data |-> thread[t].data,
                            fresh |-> TRUE],
             Stored(t, thread[t].row), UNCHANGED lastId
      PROVE  WhoisInv'
  <2>1. /\ cache' \in CacheRow /\ cache'.id = cache.id
        /\ thread[t].row = cache.id => /\ cache'.data = thread[t].data
                                       /\ cache'.kind = thread[t].kind
        /\ thread[t].row # cache.id => cache' = cache
    BY <1>1, <1>3 DEF CacheRow
  <2>2. OneRow'
    BY <1>1, <2>1 DEF WhoisInv, OneRow
  <2>3. CASE thread[t].kind = "ip"
    <3>1. Done(t)
      BY <1>3, <2>3 DEF Stored
    <3>2. Matches' \/ (UNCHANGED <<cache, mingled>> /\ ~Indexing(t))
      BY <1>1, <2>1, <2>3 DEF Matches
    <3>3. QED
      BY <1>1, <1>3, <2>1, <2>2, <3>1, <3>2, WriterLeaves
  <2>4. CASE thread[t].kind # "ip"
    <3>1. thread' = [thread EXCEPT ![t].pc = "unindex", ![t].row = thread[t].row]
      BY <1>3, <2>4 DEF Stored
    <3>2. thread[t].row \in 1..MaxIds
      BY <1>1, <1>3
    <3>3. QED
      BY <1>1, <1>2, <1>3, <2>1, <2>2, <3>1, <3>2, StoreDomain
  <2>5. QED
    BY <2>3, <2>4
<1>4. ASSUME thread[t].row = 0, cache.id = 0, lastId < MaxIds, lastId' = lastId + 1,
             cache' = [id |-> lastId + 1, kind |-> thread[t].kind, data |-> thread[t].data,
                       fresh |-> TRUE],
             Stored(t, lastId + 1)
      PROVE  WhoisInv'
  <2>1. lastId + 1 \in 1..MaxIds /\ lastId + 1 \in 0..MaxIds
    BY <1>1, <1>4
  <2>2. /\ cache' \in CacheRow /\ cache'.id = lastId + 1 /\ cache'.data = thread[t].data
        /\ cache'.kind = thread[t].kind
    BY <1>1, <1>4, <2>1 DEF CacheRow
  <2>3. index = {} /\ cleanup = NoJob
    BY <1>4 DEF WhoisInv, OneRow
  <2>4. OneRow'
    BY <1>1, <2>3 DEF OneRow
  <2>5. CASE thread[t].kind = "ip"
    <3>1. Done(t) /\ Matches'
      BY <1>4, <2>2, <2>5 DEF Stored, Matches
    <3>2. QED
      BY <1>1, <1>4, <2>1, <2>2, <2>4, <3>1, WriterLeaves
  <2>6. CASE thread[t].kind # "ip"
    <3>1. thread' = [thread EXCEPT ![t].pc = "unindex", ![t].row = lastId + 1]
      BY <1>4, <2>6 DEF Stored
    <3>2. QED
      BY <1>1, <1>4, <2>1, <2>2, <2>4, <3>1, StoreDomain
  <2>7. QED
    BY <2>5, <2>6
<1>5. ASSUME Done(t), UNCHANGED <<cache, lastId>> PROVE WhoisInv'
  <2>1. OneRow'
    BY <1>1, <1>5 DEF WhoisInv, OneRow
  <2>2. QED
    BY <1>1, <1>5, <2>1, WriterLeaves
<1>6. QED
  BY <1>3, <1>4, <1>5 DEF Store

LEMMA UnindexKeeps ==
    ASSUME WhoisInv, NEW t \in Threads, Unindex(t)
    PROVE  WhoisInv'
<1>1. /\ thread[t].pc = "unindex" /\ Writing(t) /\ Indexing(t)
      /\ thread' = [thread EXCEPT ![t].pc = "reindex", ![t].next = 0]
      /\ index' = {e \in index : e[1] # thread[t].row}
      /\ UNCHANGED <<cache, lastId, inProgress, cleanup, lookups, mingled>>
  BY DEF Unindex, At, Writing, Indexing
<1>2. PICK c \in LookupCall :
         /\ thread' = [thread EXCEPT ![t] = c] /\ c.pc = "reindex" /\ c.next = 0
         /\ c.row = thread[t].row /\ c.data = thread[t].data /\ c.alone = thread[t].alone
  BY <1>1, CallTo
<1>3. /\ thread' \in [Threads -> LookupCall] /\ thread'[t] = c
      /\ \A u \in Threads \ {t} : thread'[u] = thread[u] /\ WriterHolds(u)'
      /\ thread[t].alone =>
            /\ cleanup = NoJob /\ \A u \in Threads \ {t} : ~Writing(u)
            /\ thread[t].row = cache.id
  BY <1>1, <1>2, WriterStep
<1>4. index' \subseteq index
  BY <1>1
<1>5. WhoisTypeOK'
  BY <1>1, <1>3, <1>4, WhoisTypes DEF WhoisTypeOK, LookupCall, CacheRow, IndexEntry
<1>6. OneRow'
  BY <1>1, <1>4 DEF WhoisInv, OneRow
<1>7. thread[t].alone => index' = EntriesTo(c.row, c.data, c.next)
  <2>1. thread[t].alone => index' = {}
    BY <1>1, <1>3 DEF WhoisInv, OneRow
  <2>2. QED
    BY <1>2, <2>1, EntriesAddUp
<1>8. /\ thread[t].row # 0
      /\ thread[t].alone => thread[t].data = cache.data
  BY <1>1 DEF WhoisInv, WriterHolds
<1>9. Indexing(t)' /\ (thread[t].alone => \A u \in Threads \ {t} : ~Writing(u)')
  BY <1>2, <1>3 DEF Writing, Indexing, At
<1>10. WriterHolds(t)'
  BY <1>1, <1>2, <1>3, <1>7, <1>8, <1>9 DEF WriterHolds
<1>11. KeptByStores'
  BY <1>9 DEF KeptByStores
<1>12. QED
  BY <1>3, <1>5, <1>6, <1>10, <1>11 DEF WhoisInv

LEMMA EntryInsertKeeps ==
    ASSUME WhoisInv, NEW t \in Threads, InsertEntry(t)
    PROVE  WhoisInv'
<1>1. /\ thread[t].pc = "reindex" /\ Writing(t) /\ Indexing(t) /\ cache.id = thread[t].row
      /\ index' = index \cup {<<thread[t].row, thread[t].data, thread[t].next + 1>>}
      /\ thread' = [thread EXCEPT ![t].next = thread[t].next + 1]
      /\ UNCHANGED <<cache, lastId, inProgress, cleanup, lookups, mingled>>
  BY DEF InsertEntry, At, Writing, Indexing
<1>2. PICK c \in LookupCall :
         /\ thread' = [thread EXCEPT ![t] = c] /\ c.pc = thread[t].pc /\ c.next = thread[t].next + 1
         /\ c.row = thread[t].row /\ c.data = thread[t].data /\ c.alone = thread[t].alone
  BY <1>1, CallTo
<1>3. /\ thread' \in [Threads -> LookupCall] /\ thread'[t] = c
      /\ \A u \in Threads \ {t} : thread'[u] = thread[u] /\ WriterHolds(u)'
      /\ thread[t].alone => cleanup = NoJob /\ \A u \in Threads \ {t} : ~Writing(u)
  BY <1>1, <1>2, WriterStep
<1>4. /\ thread[t].row # 0
      /\ thread[t].alone =>
            /\ thread[t].data = cache.data
            /\ index = EntriesTo(thread[t].row, thread[t].data, thread[t].next)
  BY <1>1 DEF WhoisInv, WriterHolds
<1>5. /\ thread[t].row \in 1..MaxIds /\ thread[t].data \in Answers /\ thread[t].next \in Nat
  BY <1>4, WhoisTypes, WhoisConstants DEF LookupCall
<1>6. PICK r \in 1..MaxIds, d \in Answers, n \in Nat :
         r = thread[t].row /\ d = thread[t].data /\ n = thread[t].next + 1
  <2>1. thread[t].next + 1 \in Nat
    BY <1>5
  <2>2. QED
    BY Zenon, <1>5, <2>1
<1>7. PICK e \in IndexEntry : e[1] = thread[t].row /\ index' = index \cup {e}
  <2>1. <<r, d, n>> \in IndexEntry /\ <<r, d, n>>[1] = r
    BY DEF IndexEntry
  <2>2. index' = index \cup {<<r, d, n>>}
    BY <1>1, <1>6
  <2>3. <<r, d, n>>[1] = thread[t].row
    BY <1>6, <2>1
  <2>4. QED
    BY Zenon, <2>1, <2>2, <2>3
<1>8. WhoisTypeOK'
  BY <1>1, <1>3, <1>7, WhoisTypes DEF WhoisTypeOK, LookupCall, CacheRow, IndexEntry
<1>9. OneRow'
  BY <1>1, <1>4, <1>7 DEF WhoisInv, OneRow
<1>10. thread[t].alone => index' = EntriesTo(c.row, c.data, c.next)
  BY <1>1, <1>2, <1>4, <1>5, EntriesAddUp
<1>11. Indexing(t)' /\ (thread[t].alone => \A u \in Threads \ {t} : ~Writing(u)')
  BY <1>1, <1>2, <1>3 DEF Writing, Indexing, At
<1>12. WriterHolds(t)'
  BY <1>1, <1>2, <1>3, <1>4, <1>10, <1>11 DEF WriterHolds
<1>13. KeptByStores'
  BY <1>11 DEF KeptByStores
<1>14. QED
  BY <1>3, <1>8, <1>9, <1>12, <1>13 DEF WhoisInv

LEMMA ReindexedKeeps ==
    ASSUME WhoisInv, NEW t \in Threads, Reindexed(t)
    PROVE  WhoisInv'
<1>1. /\ thread[t].pc = "reindex" /\ Writing(t) /\ Indexing(t)
      /\ thread[t].next = Entries[thread[t].data] /\ Done(t) /\ mingled' = ~thread[t].alone
      /\ UNCHANGED <<cache, index, lastId, inProgress, cleanup, lookups>>
  BY DEF Reindexed, At, Writing, Indexing
<1>2. thread[t].alone => /\ thread[t].row = cache.id /\ thread[t].data = cache.data
                         /\ index = EntriesTo(thread[t].row, thread[t].data, thread[t].next)
  BY <1>1 DEF WhoisInv, WriterHolds
<1>3. mingled' \in BOOLEAN /\ (mingled' \/ Matches')
  BY <1>1, <1>2 DEF Matches, EntriesOf
<1>4. OneRow' /\ cache' \in CacheRow /\ lastId' \in 0..MaxIds
  BY <1>1, WhoisTypes DEF WhoisInv, OneRow
<1>5. QED
  BY <1>1, <1>3, <1>4, WriterLeaves

LEMMA WriteFailsKeeps ==
    ASSUME WhoisInv, NEW t \in Threads, WriteFails(t)
    PROVE  WhoisInv'
<1>1. /\ Done(t) /\ mingled' = (mingled \/ Indexing(t)) /\ mingled \in BOOLEAN
      /\ UNCHANGED <<cache, index, lastId, inProgress, cleanup, lookups>>
      /\ cache \in CacheRow /\ lastId \in 0..MaxIds /\ lookups \in 0..MaxLookups
      /\ inProgress \in [Slots -> SUBSET Threads]
  BY WhoisTypes DEF WriteFails
<1>2. CASE Writing(t)
  <2>1. OneRow' /\ mingled' \in BOOLEAN
    BY <1>1 DEF WhoisInv, OneRow
  <2>2. mingled' \/ (UNCHANGED <<cache, mingled>> /\ ~Indexing(t))
    BY <1>1
  <2>3. QED
    BY <1>1, <1>2, <2>1, <2>2, WriterLeaves
<1>3. CASE ~Writing(t)
  <2>1. PICK c \in LookupCall : thread' = [thread EXCEPT ![t] = c] /\ c.pc = "finish"
    BY <1>1, DoneTo
  <2>2. mingled' = mingled
    BY <1>1, <1>3 DEF Writing
  <2>3. QED
    BY <1>1, <1>3, <2>1, <2>2, QuietMove
<1>4. QED
  BY <1>2, <1>3

\* The requests of a killed worker are gone; the others do not notice.
LEMMA KillWorkerKeeps ==
    ASSUME WhoisInv, NEW p \in Procs, KillWorker(p)
    PROVE  WhoisInv'
<1>1. /\ thread' = [t \in Threads |-> IF ProcOf[t] = p THEN Resting ELSE thread[t]]
      /\ mingled' = (mingled \/ \E t \in Threads : ProcOf[t] = p /\ Indexing(t))
      /\ UNCHANGED <<cache, index, lastId, cleanup, lookups>>
  BY DEF KillWorker
<1>2. inProgress' \in [Slots -> SUBSET Threads] /\ mingled' \in BOOLEAN
  BY WhoisTypes DEF KillWorker
<1>3. thread' \in [Threads -> LookupCall]
  BY <1>1, WhoisTypes, WhoisConstants
<1>4. ASSUME NEW u \in Threads
      PROVE  thread'[u] = thread[u] \/ (ProcOf[u] = p /\ ~Writing(u)' /\ ~Indexing(u)')
  <2>1. CASE ProcOf[u] = p
    <3>1. thread'[u].pc = "rest"
      BY <1>1, <2>1, WhoisConstants
    <3>2. QED
      BY <2>1, <3>1 DEF Writing, Indexing, At
  <2>2. QED
    BY <1>1, <2>1
<1>5. WhoisTypeOK'
  BY <1>1, <1>2, <1>3, WhoisTypes DEF WhoisTypeOK, LookupCall, CacheRow, IndexEntry
<1>6. OneRow'
  BY <1>1 DEF WhoisInv, OneRow
<1>7. \A u \in Threads : Writing(u)' => Writing(u) /\ thread'[u] = thread[u]
  BY <1>4 DEF Writing, Indexing, At
<1>8. ASSUME NEW u \in Threads PROVE WriterHolds(u)'
  <2>1. CASE ~Writing(u)'
    BY <2>1 DEF WriterHolds, Writing
  <2>2. CASE Writing(u)'
    <3>1. Writing(u) /\ thread'[u] = thread[u] /\ (Indexing(u)' <=> Indexing(u))
      BY <1>7, <2>2 DEF Indexing
    <3>2. QED
      BY <1>1, <1>7, <3>1 DEF WhoisInv, WriterHolds
  <2>3. QED
    BY <2>1, <2>2
<1>9. KeptByStores'
  <2>1. SUFFICES ASSUME ~mingled', \A u \in Threads : ~Indexing(u)' PROVE Matches'
    BY DEF KeptByStores
  <2>2. ~mingled /\ \A u \in Threads : ~Indexing(u)
    BY <1>1, <1>4, <2>1 DEF Indexing
  <2>3. QED
    BY <1>1, <2>2 DEF WhoisInv, KeptByStores, Matches
<1>10. QED
  BY <1>5, <1>6, <1>8, <1>9 DEF WhoisInv

\* While the cleanup job is at work no writer is alone.
LEMMA CleanupStep ==
    ASSUME WhoisInv, cleanup # NoJob, UNCHANGED thread
    PROVE  \A t \in Threads : WriterHolds(t)'
BY DEF WhoisInv, WriterHolds, Writing, Indexing, At

LEMMA CleanupKeeps ==
    ASSUME WhoisInv, CleanupUnindex \/ CleanupDelete \/ CleanupFails
    PROVE  WhoisInv'
<1>1. /\ cleanup # NoJob /\ cleanup.id = cache.id /\ cache.id # 0
      /\ UNCHANGED <<lastId, inProgress, thread, lookups>>
  BY WhoisConstants DEF WhoisInv, OneRow, CleanupUnindex, CleanupDelete, CleanupFails
<1>2. index' \subseteq index
  BY DEF CleanupUnindex, CleanupDelete, CleanupFails
<1>3. cleanup' \in [pc : {"idle", "unindex", "delete"}, id : 0..MaxIds]
      /\ (cleanup' = NoJob \/ (CleanupUnindex /\ cleanup'.id = cleanup.id))
  BY WhoisTypes, WhoisConstants DEF CleanupUnindex, CleanupDelete, CleanupFails
<1>4. cache' \in CacheRow /\ mingled' \in BOOLEAN
  BY WhoisTypes, WhoisConstants DEF CleanupUnindex, CleanupDelete, CleanupFails
<1>5. WhoisTypeOK'
  BY <1>1, <1>2, <1>3, <1>4, WhoisTypes DEF WhoisTypeOK, LookupCall, CacheRow, IndexEntry
<1>6. \A t \in Threads : WriterHolds(t)'
  BY <1>1, CleanupStep
<1>7. CASE CleanupDelete
  <2>1. index' = {} /\ cache' = NoRow /\ cleanup' = NoJob
    BY <1>1, <1>7 DEF CleanupDelete, WhoisInv, OneRow
  <2>2. OneRow' /\ KeptByStores'
    BY <2>1, WhoisConstants DEF OneRow, KeptByStores, Matches
  <2>3. QED
    BY <1>5, <1>6, <2>2 DEF WhoisInv
<1>8. CASE CleanupUnindex
  <2>1. mingled' /\ UNCHANGED cache
    BY <1>8 DEF CleanupUnindex
  <2>2. OneRow' /\ KeptByStores'
    BY <1>1, <1>2, <1>3, <2>1 DEF WhoisInv, OneRow, KeptByStores
  <2>3. QED
    BY <1>5, <1>6, <2>2 DEF WhoisInv
<1>9. CASE CleanupFails
  <2>1. UNCHANGED <<cache, index, thread, mingled>> /\ cleanup' = NoJob
    BY <1>9 DEF CleanupFails
  <2>2. OneRow' /\ KeptByStores'
    BY <2>1 DEF WhoisInv, OneRow, KeptByStores, Matches, Indexing
  <2>3. QED
    BY <1>5, <1>6, <2>2 DEF WhoisInv
<1>10. QED
  BY <1>7, <1>8, <1>9

LEMMA GrowOldKeeps ==
    ASSUME WhoisInv, GrowOld
    PROVE  WhoisInv'
<1>1. /\ cache' = [cache EXCEPT !.fresh = FALSE]
      /\ UNCHANGED <<index, lastId, inProgress, thread, cleanup, lookups, mingled>>
  BY DEF GrowOld
<1>2. /\ cache' \in CacheRow /\ cache'.id = cache.id /\ cache'.data = cache.data
      /\ cache'.kind = cache.kind
  BY <1>1, WhoisTypes DEF CacheRow
<1>3. WhoisTypeOK'
  BY <1>1, <1>2, WhoisTypes DEF WhoisTypeOK, LookupCall, CacheRow, IndexEntry
<1>4. OneRow' /\ KeptByStores'
  BY <1>1, <1>2 DEF WhoisInv, OneRow, KeptByStores, Matches, Indexing
<1>5. \A t \in Threads : WriterHolds(t)'
  BY <1>1, <1>2 DEF WhoisInv, WriterHolds, Writing, Indexing, At
<1>6. QED
  BY <1>3, <1>4, <1>5 DEF WhoisInv

LEMMA WhoisInvNext == WhoisInv /\ [WhoisNext]_whoisVars => WhoisInv'
<1> SUFFICES ASSUME WhoisInv, [WhoisNext]_whoisVars PROVE WhoisInv'
  OBVIOUS
<1>1. ASSUME UNCHANGED whoisVars PROVE WhoisInv'
  BY <1>1 DEF whoisVars, WhoisInv, WhoisTypeOK, OneRow, KeptByStores, Matches, WriterHolds,
              Writing, Indexing, At
<1>2. ASSUME NEW t \in Threads, (\E kind \in Kinds : Request(t, kind)) \/ Lookup(t)
      PROVE  WhoisInv'
  BY <1>2, QuietActions, SelectKeeps, StoreKeeps, UnindexKeeps, EntryInsertKeeps, ReindexedKeeps,
     WriteFailsKeeps, FinishKeeps DEF Lookup
<1>3. QED
  BY <1>1, <1>2, KillWorkerKeeps, CleanupSelectKeeps, CleanupKeeps, GrowOldKeeps DEF WhoisNext

\* _cache_whois_data writes the row, deletes the index entries and inserts the
\* new ones in separate statements whose errors are swallowed, workers are
\* killed in between, lookup_ip may write the same row, and the cleanup job
\* deletes both. With any number of processes, threads and entries the index
\* has entries of the cached row only, and once a write of a domain that
\* nothing overlapped or cut short is done, a row that holds a domain's answer
\* has exactly the entries of that answer.
THEOREM IndexMatches == WhoisSpec => []IndexMatchesIfAlone
<1>1. ASSUME WhoisInv PROVE IndexMatchesIfAlone
  BY <1>1 DEF WhoisInv, OneRow, KeptByStores, Matches, IndexMatchesIfAlone, Writing
<1>2. QED
  BY <1>1, WhoisInvInit, WhoisInvNext, PTL DEF WhoisSpec

\* Requests, the cache row and the table of lookups in progress keep their types.
THEOREM WhoisTypeCorrect == WhoisSpec => []WhoisTypeOK
<1>1. WhoisInv => WhoisTypeOK
  BY DEF WhoisInv
<1>2. QED
  BY <1>1, WhoisInvInit, WhoisInvNext, PTL DEF WhoisSpec

(* Requests that wait for another thread's lookup. *)

WaitsForLookup(u) == At(u, "awaiting") \/ At(u, "parked")

\* The entry of a process and kind, and what a request took from it, name
\* lookups of that process and kind that are still running.
WaitInv ==
    /\ \A k \in Slots : \A t \in inProgress[k] : t \in Threads /\ Looking(t) /\ SlotOf(t) = k
    /\ \A u \in Threads : WaitsForLookup(u) =>
          /\ thread[u].awaits # {}
          /\ \A t \in thread[u].awaits : t \in Threads /\ Looking(t) /\ SlotOf(t) = SlotOf(u)

LEMMA WaitInvInit == WhoisInit => WaitInv
BY WhoisConstants DEF WhoisInit, WaitInv, WaitsForLookup, At

\* A step after which the same lookups run, no entry is added and nobody waits
\* who did not, or for anything else.
LEMMA WaitKept ==
    ASSUME WaitInv, UNCHANGED inProgress,
           \A t \in Threads : Looking(t) => Looking(t)' /\ thread'[t].kind = thread[t].kind,
           \A u \in Threads : WaitsForLookup(u)' =>
              /\ WaitsForLookup(u) /\ thread'[u].awaits = thread[u].awaits
              /\ thread'[u].kind = thread[u].kind
    PROVE  WaitInv'
<1>1. \A t \in Threads : Looking(t) => SlotOf(t)' = SlotOf(t)
  BY DEF SlotOf
<1>2. \A u \in Threads : WaitsForLookup(u)' => SlotOf(u)' = SlotOf(u)
  BY DEF SlotOf
<1>3. QED
  BY <1>1, <1>2 DEF WaitInv

\* One thread moves within its request.
LEMMA WaitMove ==
    ASSUME WhoisInv, WaitInv, UNCHANGED inProgress, NEW t \in Threads,
           NEW c \in LookupCall, thread' = [thread EXCEPT ![t] = c],
           Looking(t) => /\ c.pc \in {"query", "select", "store", "unindex", "reindex", "finish"}
                         /\ c.kind = thread[t].kind,
           c.pc \in {"awaiting", "parked"} =>
              At(t, "awaiting") /\ c.awaits = thread[t].awaits /\ c.kind = thread[t].kind
    PROVE  WaitInv'
<1>1. thread'[t] = c /\ \A u \in Threads \ {t} : thread'[u] = thread[u]
  BY WhoisTypes
<1>2. \A u \in Threads : Looking(u) => Looking(u)' /\ thread'[u].kind = thread[u].kind
  BY <1>1 DEF Looking
<1>3. \A u \in Threads : WaitsForLookup(u)' =>
         /\ WaitsForLookup(u) /\ thread'[u].awaits = thread[u].awaits /\ thread'[u].kind = thread[u].kind
  BY <1>1 DEF WaitsForLookup, At
<1>4. QED
  BY <1>2, <1>3, WaitKept

\* The same for a step given by its statement, an answer and a lookup's end.
LEMMA WaitStep ==
    ASSUME WhoisInv, WaitInv, UNCHANGED inProgress, NEW t \in Threads,
           \/ ~Looking(t) /\ (Step(t, "join") \/ Step(t, "get") \/ Step(t, "register") \/ Reply(t))
           \/ At(t, "awaiting") /\ Step(t, "parked")
           \/ Done(t)
    PROVE  WaitInv'
<1>1. CASE ~Looking(t) /\ (Step(t, "join") \/ Step(t, "get") \/ Step(t, "register"))
  <2>1. PICK c \in LookupCall :
           thread' = [thread EXCEPT ![t] = c] /\ c.pc \in {"join", "get", "register"}
    BY <1>1, StepTo
  <2>2. QED
    BY <1>1, <2>1, WaitMove
<1>2. CASE ~Looking(t) /\ Reply(t)
  BY <1>2, WhoisConstants, WaitMove DEF Reply
<1>3. CASE At(t, "awaiting") /\ Step(t, "parked")
  <2>1. PICK c \in LookupCall :
           /\ thread' = [thread EXCEPT ![t] = c] /\ c.pc = "parked"
           /\ c.kind = thread[t].kind /\ c.awaits = thread[t].awaits
    BY <1>3, StepTo
  <2>2. ~Looking(t)
    BY <1>3 DEF Looking, At
  <2>3. QED
    BY <1>3, <2>1, <2>2, WaitMove
<1>4. CASE Done(t)
  <2>1. PICK c \in LookupCall :
           thread' = [thread EXCEPT ![t] = c] /\ c.pc = "finish" /\ c.kind = thread[t].kind
    BY <1>4, DoneTo
  <2>2. QED
    BY <2>1, WaitMove
<1>5. QED
  BY <1>1, <1>2, <1>3, <1>4

\* Requests before and within the lookup, the cache and the index.
LEMMA WaitQuiet ==
    ASSUME WhoisInv, WaitInv, NEW t \in Threads,
           \/ \E kind \in Kinds : Request(t, kind)
           \/ ReadCache(t) \/ Join(t) \/ Park(t) \/ Perform(t)
           \/ Store(t) \/ Unindex(t) \/ InsertEntry(t) \/ Reindexed(t) \/ WriteFails(t)
    PROVE  WaitInv'
<1>1. UNCHANGED inProgress
  BY DEF Request, ReadCache, Join, Park, Perform, Store, Unindex, InsertEntry, Reindexed, WriteFails
<1>2. ASSUME NEW kind \in Kinds, Request(t, kind) PROVE WaitInv'
  <2>1. thread' = [thread EXCEPT ![t].pc = "cached", ![t].kind = kind] /\ ~Looking(t)
    BY <1>2 DEF Request, At, Looking
  <2>2. PICK c \in LookupCall : thread' = [thread EXCEPT ![t] = c] /\ c.pc = "cached"
    BY <2>1, CallTo
  <2>3. QED
    BY <1>1, <2>1, <2>2, WaitMove
<1>3. CASE ReadCache(t) \/ Join(t)
  BY <1>1, <1>3, WaitStep DEF ReadCache, Join, At, Looking
<1>4. CASE Park(t)
  BY <1>1, <1>4, WaitStep DEF Park
<1>5. CASE Reindexed(t) \/ WriteFails(t)
  BY <1>1, <1>5, WaitStep DEF Reindexed, WriteFails
<1>6. CASE Perform(t)
  <2>1. CASE Done(t)
    BY <1>1, <2>1, WaitStep
  <2>2. ASSUME NEW a \in Answers, thread' = [thread EXCEPT ![t].pc = "select", ![t].data = a]
        PROVE  WaitInv'
    <3>1. PICK c \in LookupCall :
             thread' = [thread EXCEPT ![t] = c] /\ c.pc = "select" /\ c.kind = thread[t].kind
      BY <2>2, CallTo
    <3>2. QED
      BY <1>1, <3>1, WaitMove
  <2>3. QED
    BY <1>6, <2>1, <2>2 DEF Perform
<1>7. CASE Store(t)
  <2>1. CASE Done(t)
    BY <1>1, <2>1, WaitStep
  <2>2. ASSUME NEW row \in 0..MaxIds, thread' = [thread EXCEPT ![t].pc = "unindex", ![t].row = row]
        PROVE  WaitInv'
    <3>1. PICK c \in LookupCall :
             thread' = [thread EXCEPT ![t] = c] /\ c.pc = "unindex" /\ c.kind = thread[t].kind
      <4>1. \A i \in 0..MaxIds : thread' = [thread EXCEPT ![t].pc = "unindex", ![t].row = i] =>
               \E c \in LookupCall :
                  /\ thread' = [thread EXCEPT ![t] = c] /\ c.pc = "unindex" /\ c.row = i
                  /\ c.kind = thread[t].kind /\ c.data = thread[t].data /\ c.alone = thread[t].alone
        BY Zenon, CallTo
      <4>2. QED
        BY Zenon, <2>2, <4>1
    <3>2. QED
      BY <1>1, <3>1, WaitMove
  <2>3. thread[t].row \in 0..MaxIds /\ (lastId < MaxIds => lastId + 1 \in 0..MaxIds)
    BY WhoisTypes, WhoisConstants DEF LookupCall
  <2>4. \/ Done(t)
        \/ \E row \in 0..MaxIds : thread' = [thread EXCEPT ![t].pc = "unindex", ![t].row = row]
    BY <1>7, <2>3 DEF Store, Stored
  <2>5. QED
    BY <2>1, <2>2, <2>4
<1>8. CASE Unindex(t)
  <2>1. thread' = [thread EXCEPT ![t].pc = "reindex", ![t].next = 0]
    BY <1>8 DEF Unindex
  <2>2. PICK c \in LookupCall :
           thread' = [thread EXCEPT ![t] = c] /\ c.pc = "reindex" /\ c.kind = thread[t].kind
    BY <2>1, CallTo
  <2>3. QED
    BY <1>1, <2>2, WaitMove
<1>9. CASE InsertEntry(t)
  <2>1. thread' = [thread EXCEPT ![t].next = thread[t].next + 1] /\ thread[t].pc = "reindex"
    BY <1>9 DEF InsertEntry, At
  <2>2. PICK c \in LookupCall :
           thread' = [thread EXCEPT ![t] = c] /\ c.pc = thread[t].pc /\ c.kind = thread[t].kind
    BY <2>1, CallTo
  <2>3. QED
    BY <1>1, <2>1, <2>2, WaitMove
<1>10. QED
  BY <1>2, <1>3, <1>4, <1>5, <1>6, <1>7, <1>8, <1>9

\* A request takes the entry of its process and kind as what it waits for.
LEMMA WaitGet ==
    ASSUME WhoisInv, WaitInv, NEW t \in Threads, Get(t)
    PROVE  WaitInv'
<1>1. /\ thread \in [Threads -> LookupCall] /\ SlotOf(t) \in Slots
      /\ inProgress \in [Slots -> SUBSET Threads]
  BY WhoisTypes
<1>2. UNCHANGED inProgress /\ At(t, "get") /\ ~Looking(t)
  BY DEF Get, At, Looking
<1>3. CASE Reply(t)
  BY <1>2, <1>3, WaitStep
<1>4. CASE /\ inProgress[SlotOf(t)] # {}
           /\ thread' = [thread EXCEPT ![t].pc = "awaiting", ![t].awaits = inProgress[SlotOf(t)]]
  <2>1. PICK c \in LookupCall :
           /\ thread' = [thread EXCEPT ![t] = c]
           /\ c.pc = "awaiting" /\ c.kind = thread[t].kind /\ c.awaits = inProgress[SlotOf(t)]
    BY <1>4, CallTo
  <2>2. thread'[t] = c /\ \A u \in Threads \ {t} : thread'[u] = thread[u]
    BY <1>1, <2>1
  <2>3. \A u \in Threads : SlotOf(u)' = SlotOf(u)
    BY <2>1, <2>2 DEF SlotOf
  <2>4. \A u \in Threads : Looking(u) => Looking(u)'
    BY <1>2, <2>2 DEF Looking
  <2>5. \A s \in inProgress[SlotOf(t)] : s \in Threads /\ Looking(s) /\ SlotOf(s) = SlotOf(t)
    BY <1>1 DEF WaitInv
  <2>6. \A k \in Slots : \A s \in inProgress'[k] : s \in Threads /\ Looking(s)' /\ SlotOf(s)' = k
    BY <1>2, <2>3, <2>4 DEF WaitInv
  <2>7. ASSUME NEW u \in Threads, WaitsForLookup(u)'
        PROVE  /\ thread'[u].awaits # {}
               /\ \A s \in thread'[u].awaits : s \in Threads /\ Looking(s)' /\ SlotOf(s)' = SlotOf(u)'
    <3>1. CASE u = t
      BY <1>4, <2>1, <2>2, <2>3, <2>4, <2>5, <3>1
    <3>2. CASE u # t
      <4>1. WaitsForLookup(u)
        BY <2>2, <2>7, <3>2 DEF WaitsForLookup, At
      <4>2. QED
        BY <2>2, <2>3, <2>4, <3>2, <4>1 DEF WaitInv
    <3>3. QED
      BY <3>1, <3>2
  <2>8. QED
    BY <2>6, <2>7 DEF WaitInv
<1>5. QED
  BY <1>3, <1>4 DEF Get

\* A lookup enters itself, over an entry that may be another's.
LEMMA WaitRegister ==
    ASSUME WhoisInv, WaitInv, NEW t \in Threads, Register(t)
    PROVE  WaitInv'
<1>1. /\ thread \in [Threads -> LookupCall] /\ SlotOf(t) \in Slots
      /\ inProgress \in [Slots -> SUBSET Threads]
      /\ inProgress' = [inProgress EXCEPT ![SlotOf(t)] = {t}]
  BY WhoisTypes DEF Register
<1>2. PICK c \in LookupCall :
         thread' = [thread EXCEPT ![t] = c] /\ c.pc = "query" /\ c.kind = thread[t].kind
  BY StepTo DEF Register
<1>3. thread'[t] = c /\ \A u \in Threads \ {t} : thread'[u] = thread[u]
  BY <1>1, <1>2
<1>4. \A u \in Threads : SlotOf(u)' = SlotOf(u)
  BY <1>2, <1>3 DEF SlotOf
<1>5. Looking(t)' /\ \A u \in Threads : Looking(u) => Looking(u)'
  BY <1>2, <1>3 DEF Looking
<1>6. ASSUME NEW k \in Slots, NEW s \in inProgress'[k]
      PROVE  s \in Threads /\ Looking(s)' /\ SlotOf(s)' = k
  <2>1. CASE k = SlotOf(t)
    BY <1>1, <1>4, <1>5, <1>6, <2>1
  <2>2. CASE k # SlotOf(t)
    <3>1. s \in inProgress[k]
      BY <1>1, <1>6, <2>2
    <3>2. QED
      BY <1>4, <1>5, <3>1 DEF WaitInv
  <2>3. QED
    BY <2>1, <2>2
<1>7. ASSUME NEW u \in Threads, WaitsForLookup(u)'
      PROVE  /\ thread'[u].awaits # {}
             /\ \A s \in thread'[u].awaits : s \in Threads /\ Looking(s)' /\ SlotOf(s)' = SlotOf(u)'
  <2>1. thread'[u] = thread[u]
    BY <1>2, <1>3, <1>7 DEF WaitsForLookup, At
  <2>2. WaitsForLookup(u)
    BY <1>7, <2>1 DEF WaitsForLookup, At
  <2>3. QED
    BY <1>4, <1>5, <2>1, <2>2 DEF WaitInv
<1>8. QED
  BY <1>6, <1>7 DEF WaitInv

\* A writer or the cleanup job begins: of the others only alone changes.
LEMMA WaitOverlap ==
    ASSUME WhoisInv, WaitInv, CleanupSelect \/ \E t \in Threads : Select(t)
    PROVE  WaitInv'
<1>1. UNCHANGED inProgress
  BY DEF CleanupSelect, Select
<1>2. ASSUME NEW u \in Threads
      PROVE  /\ thread'[u].kind = thread[u].kind
             /\ \/ thread'[u].pc = thread[u].pc /\ thread'[u].awaits = thread[u].awaits
                \/ thread[u].pc = "select" /\ thread'[u].pc = "store"
  <2>1. CASE CleanupSelect
    BY <2>1, CleanupSelectKeeps DEF Overlapped
  <2>2. ASSUME NEW t \in Threads, Select(t)
        PROVE  /\ thread'[u].kind = thread[u].kind
               /\ \/ thread'[u].pc = thread[u].pc /\ thread'[u].awaits = thread[u].awaits
                  \/ thread[u].pc = "select" /\ thread'[u].pc = "store"
    <3>1. /\ thread[t].pc = "select" /\ thread'[t].pc = "store" /\ thread'[t].kind = thread[t].kind
          /\ \A v \in Threads \ {t} : Overlapped(v)
      <4>1. thread[t].pc = "select"
        BY <2>2 DEF Select, At
      <4>2. QED
        BY <2>2, <4>1, SelectKeeps
    <3>2. QED
      BY <3>1 DEF Overlapped
  <2>3. QED
    BY <2>1, <2>2
<1>3. \A u \in Threads : Looking(u) => Looking(u)' /\ thread'[u].kind = thread[u].kind
  BY <1>2 DEF Looking
<1>4. \A u \in Threads : WaitsForLookup(u)' =>
         /\ WaitsForLookup(u) /\ thread'[u].awaits = thread[u].awaits /\ thread'[u].kind = thread[u].kind
  BY <1>2 DEF WaitsForLookup, At
<1>5. QED
  BY <1>1, <1>3, <1>4, WaitKept

\* A lookup ends: it wakes whoever waits for it, so nobody goes on waiting for
\* it, and takes the entry of its process and kind away.
LEMMA WaitFinish ==
    ASSUME WhoisInv, WaitInv, NEW t \in Threads, Finish(t)
    PROVE  WaitInv'
<1>1. /\ thread \in [Threads -> LookupCall] /\ SlotOf(t) \in Slots
      /\ inProgress \in [Slots -> SUBSET Threads]
      /\ inProgress' = [inProgress EXCEPT ![SlotOf(t)] = {}]
      /\ thread[t].pc = "finish" /\ thread' = Signalled(t)
  BY WhoisTypes DEF Finish, At
<1>2. ASSUME NEW u \in Threads \ {t}
      PROVE  \/ thread'[u] = thread[u] /\ ~(t \in thread[u].awaits /\ WaitsForLookup(u))
             \/ ~Looking(u) /\ thread'[u].pc \in {"recheck", "stuck"}
  <2>1. thread[u] \in LookupCall /\ thread'[u] = AfterSignal(t, u)
    BY <1>1 DEF Signalled
  <2>2. CASE t \in thread[u].awaits /\ At(u, "awaiting")
    <3>1. thread'[u] = [thread[u] EXCEPT !.pc = "recheck", !.awaits = {}]
      BY Zenon, <2>1, <2>2 DEF AfterSignal, At
    <3>2. QED
      BY <2>1, <2>2, <3>1 DEF LookupCall, At, Looking
  <2>3. CASE t \in thread[u].awaits /\ At(u, "parked")
    <3>1. thread'[u] = [thread[u] EXCEPT !.pc = "stuck", !.awaits = {}]
      BY Zenon, <2>1, <2>3 DEF AfterSignal, At
    <3>2. QED
      BY <2>1, <2>3, <3>1 DEF LookupCall, At, Looking
  <2>4. CASE ~(t \in thread[u].awaits /\ (At(u, "awaiting") \/ At(u, "parked")))
    BY Zenon, <2>1, <2>4 DEF AfterSignal, WaitsForLookup
  <2>5. QED
    BY <2>2, <2>3, <2>4
<1>3. thread'[t].pc = "rest"
  <2>1. thread'[t] = Resting
    BY <1>1 DEF Signalled, AfterSignal, At
  <2>2. QED
    BY <2>1, WhoisConstants
<1>4. \A u \in Threads \ {t} : Looking(u) => Looking(u)' /\ SlotOf(u)' = SlotOf(u)
  BY <1>2 DEF Looking, SlotOf
<1>5. ASSUME NEW k \in Slots, NEW s \in inProgress'[k]
      PROVE  s \in Threads /\ Looking(s)' /\ SlotOf(s)' = k
  <2>1. k # SlotOf(t) /\ s \in inProgress[k]
    BY <1>1, <1>5
  <2>2. s \in Threads /\ Looking(s) /\ SlotOf(s) = k
    BY <2>1 DEF WaitInv
  <2>3. QED
    BY <1>4, <2>1, <2>2
<1>6. ASSUME NEW u \in Threads, WaitsForLookup(u)'
      PROVE  /\ thread'[u].awaits # {}
             /\ \A s \in thread'[u].awaits : s \in Threads /\ Looking(s)' /\ SlotOf(s)' = SlotOf(u)'
  <2>1. u # t
    BY <1>3, <1>6 DEF WaitsForLookup, At
  <2>2. thread'[u] = thread[u] /\ ~(t \in thread[u].awaits /\ WaitsForLookup(u))
    BY <1>2, <1>6, <2>1 DEF WaitsForLookup, At
  <2>3. WaitsForLookup(u) /\ SlotOf(u)' = SlotOf(u)
    BY <1>6, <2>2 DEF WaitsForLookup, At, SlotOf
  <2>4. QED
    BY <1>4, <2>2, <2>3 DEF WaitInv
<1>7. QED
  BY <1>5, <1>6 DEF WaitInv

\* A killed worker takes its lookups, its waiting requests and its table along.
LEMMA WaitKill ==
    ASSUME WhoisInv, WaitInv, NEW p \in Procs, KillWorker(p)
    PROVE  WaitInv'
<1>1. /\ thread' = [t \in Threads |-> IF ProcOf[t] = p THEN Resting ELSE thread[t]]
      /\ inProgress' = [k \in Slots |-> IF k[1] = p THEN {} ELSE inProgress[k]]
  BY DEF KillWorker
<1>2. \A u \in Threads : SlotOf(u)[1] = ProcOf[u]
  BY DEF SlotOf
<1>3. \A u \in Threads : ProcOf[u] # p => thread'[u] = thread[u]
  BY <1>1
<1>4. \A u \in Threads : ProcOf[u] # p => (Looking(u) => Looking(u)') /\ SlotOf(u)' = SlotOf(u)
  BY <1>3 DEF Looking, SlotOf
<1>5. ASSUME NEW k \in Slots, NEW s \in inProgress'[k]
      PROVE  s \in Threads /\ Looking(s)' /\ SlotOf(s)' = k
  <2>1. k[1] # p /\ s \in inProgress[k]
    BY <1>1, <1>5
  <2>2. s \in Threads /\ Looking(s) /\ SlotOf(s) = k
    BY <2>1 DEF WaitInv
  <2>3. QED
    BY <1>2, <1>4, <2>1, <2>2
<1>6. ASSUME NEW u \in Threads, WaitsForLookup(u)'
      PROVE  /\ thread'[u].awaits # {}
             /\ \A s \in thread'[u].awaits : s \in Threads /\ Looking(s)' /\ SlotOf(s)' = SlotOf(u)'
  <2>1. ProcOf[u] # p
    BY <1>1, <1>6, WhoisConstants DEF WaitsForLookup, At
  <2>2. thread'[u] = thread[u] /\ WaitsForLookup(u) /\ SlotOf(u)' = SlotOf(u)
    BY <1>3, <1>4, <1>6, <2>1 DEF WaitsForLookup, At
  <2>3. \A s \in thread[u].awaits : s \in Threads /\ Looking(s) /\ SlotOf(s) = SlotOf(u)
    BY <2>2 DEF WaitInv
  <2>4. \A s \in thread[u].awaits : ProcOf[s] # p
    BY <1>2, <2>1, <2>3
  <2>5. QED
    BY <1>4, <2>2, <2>3, <2>4 DEF WaitInv
<1>7. QED
  BY <1>5, <1>6 DEF WaitInv

LEMMA WaitInvNext == WhoisInv /\ WaitInv /\ [WhoisNext]_whoisVars => WaitInv'
<1> SUFFICES ASSUME WhoisInv, WaitInv, [WhoisNext]_whoisVars PROVE WaitInv'
  OBVIOUS
<1>1. ASSUME UNCHANGED <<inProgress, thread>> PROVE WaitInv'
  BY <1>1, WaitKept DEF Looking, WaitsForLookup, At
<1>2. ASSUME NEW t \in Threads, (\E kind \in Kinds : Request(t, kind)) \/ Lookup(t) PROVE WaitInv'
  BY <1>2, WaitQuiet, WaitGet, WaitRegister, WaitOverlap, WaitFinish DEF Lookup
<1>3. CASE CleanupUnindex \/ CleanupDelete \/ CleanupFails \/ GrowOld \/ UNCHANGED whoisVars
  BY <1>1, <1>3 DEF CleanupUnindex, CleanupDelete, CleanupFails, GrowOld, whoisVars
<1>4. QED
  BY <1>2, <1>3, WaitOverlap, WaitKill DEF WhoisNext

\* lookup_domain and lookup_ip wait for the event they find in _in_progress,
\* entries are overwritten by a second lookup and removed by the first that
\* ends. With any number of processes and threads a request that waits does so
\* for a lookup of its own process and kind that still runs: waiting requests
\* form no circle, and the event they wait for is still to be set.
THEOREM WaitersHaveALookup == WhoisSpec => []WaitersAwaitALookup
<1>1. ASSUME WaitInv PROVE WaitersAwaitALookup
  BY <1>1 DEF WaitInv, WaitsForLookup, WaitersAwaitALookup
<1>2. QED
  BY <1>1, WhoisInvInit, WhoisInvNext, WaitInvInit, WaitInvNext, PTL DEF WhoisSpec


-----------------------------------------------------------------------------
(* The services side by side. *)

LEMMA ServicesStep ==
    ASSUME [ServicesNext]_servicesVars
    PROVE  /\ [NtsNext]_ntsVars /\ [LimNext]_limVars /\ [OvNext]_ovVars
           /\ [WhoisNext]_whoisVars /\ [CcNext]_ccVars /\ [HistNext]_histVars
           /\ [ExportNext]_exportVars
<1>1. CASE UNCHANGED servicesVars
  BY <1>1 DEF servicesVars
<1>2. CASE ServicesNext
  BY <1>2 DEF ServicesNext, Still
<1>3. QED
  BY <1>1, <1>2

\* The services share no state: a behaviour of all of them is a behaviour of
\* each (fairness of the WHOIS threads apart), so what the run shows of one
\* holds of it alone and what is proved of it alone holds here.
THEOREM ServicesAreTheirParts ==
    ServicesSpec => /\ NtsSpec /\ LimSpec /\ OvSpec /\ CcSpec /\ HistSpec /\ ExportSpec
                    /\ WhoisInit /\ [][WhoisNext]_whoisVars
<1>1. ServicesInit => NtsInit /\ LimInit /\ OvInit /\ WhoisInit /\ CcInit /\ HistInit /\ ExportInit
  BY DEF ServicesInit
<1>2. QED
  BY <1>1, ServicesStep, PTL DEF ServicesSpec, NtsSpec, LimSpec, OvSpec, CcSpec, HistSpec,
     ExportSpec

\* Cookies, counts, overrides, cache rows, clients, history, zones and records keep
\* their types in every state of the services, whichever of them runs.
THEOREM ServicesTypeCorrect == ServicesSpec => []ServicesTypeOK
<1>1. WhoisInv => WhoisTypeOK
  BY DEF WhoisInv
<1>2. /\ NtsTypeOK /\ LimTypeOK /\ OvTypeOK /\ WhoisTypeOK /\ CcTypeOK /\ HistTypeOK
      /\ ExportTypeOK
      => ServicesTypeOK
  BY DEF ServicesTypeOK
<1>3. QED
  BY <1>1, <1>2, ServicesAreTheirParts, NtsTypeCorrect, LimTypeCorrect, OvTypeCorrect, CcTypeCorrect,
     HistTypeCorrect, ExportTypeCorrect, WhoisInvInit, WhoisInvNext, PTL
=============================================================================
