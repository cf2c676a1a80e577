----------------------------- MODULE FeedProofs -----------------------------
(***************************************************************************)
(* What the Manager promises about threat feeds and the configuration it   *)
(* exports, for any number of instances, workers, feeds, indicators, zones *)
(* and records: the verdict with overrides (IocOverrides), the entries     *)
(* that an ingestion leaves (IocIngest), and the zones with their records  *)
(* (ConfigExport).                                                         *)
(***************************************************************************)
EXTENDS IocOverrides, IocIngest, ConfigExport, SequenceTheorems, TLAPS

-----------------------------------------------------------------------------
(* Overrides of the threat feeds. *)

OverrideCall == [pc : {"idle", "write", "load"}, on : Targets,
                 type : {"allow", "block", "remove"}, found : BOOLEAN]

Sayings == [Targets -> {"allow", "block", "none"}]

OverrideMemory == [allow : SUBSET Targets, block : SUBSET Targets, feeds : FeedLists \cup {{}},
                   said : Sayings, whole : BOOLEAN]

\* Indicators with an override of the type in force.
OfType(type) == {o.on : o \in {p \in table : p.type = type /\ ~p.expired}}

\* One call at a time writes an indicator, and what it found is still so.
WritersApart ==
    /\ \A m, k \in Managers :
          m # k /\ call[m].pc = "write" /\ call[k].pc = "write" => call[m].on # call[k].on
    /\ \A m \in Managers :
          call[m].pc = "write" /\ call[m].type # "remove"
             => (call[m].found <=> Matching(call[m].on) # {})

\* The table has one row per indicator, and says what the last call said.
TableOfCalls ==
    /\ \A o, p \in table : o.on = p.on => o = p
    /\ \A type \in {"allow", "block"} : OfType(type) = {i \in Targets : said[i] = type}

\* A load takes nothing that the calls did not say, and all of it unless it
\* failed.
Recalls(mem) ==
    /\ mem.allow \subseteq {i \in Targets : mem.said[i] = "allow"}
    /\ mem.block \subseteq {i \in Targets : mem.said[i] = "block"}
    /\ mem.whole => /\ mem.allow = {i \in Targets : mem.said[i] = "allow"}
                    /\ mem.block = {i \in Targets : mem.said[i] = "block"}

MemoryOfCalls == \A m \in Managers : Recalls(memory[m])

OvInv ==
    /\ OvTypeOK
    /\ ~blurred => WritersApart /\ TableOfCalls /\ MemoryOfCalls

LEMMA OvConstants ==
    /\ MaxOverrides \in Nat /\ 0 \in 0..MaxOverrides
    /\ Nothing \in Sayings /\ NoMemory \in OverrideMemory
    /\ NoCall \in OverrideCall /\ NoCall.pc = "idle"
    /\ \A m \in {NoMemory} : m.allow = {} /\ m.block = {} /\ m.said = Nothing
<1>1. (CHOOSE i \in Targets : TRUE) \in Targets /\ MaxOverrides \in Nat /\ 0 \in 0..MaxOverrides
  BY OverridesAssumption
<1>2. Nothing \in Sayings
  BY DEF Nothing, Sayings
<1>3. NoMemory \in OverrideMemory
  BY <1>2 DEF NoMemory, OverrideMemory
<1>4. NoCall \in OverrideCall /\ NoCall.pc = "idle"
  BY <1>1 DEF NoCall, OverrideCall
<1>5. QED
  BY <1>1, <1>2, <1>3, <1>4 DEF NoMemory

LEMMA OvTypes ==
    ASSUME OvInv
    PROVE  /\ table \subseteq Override /\ inserted \in 0..MaxOverrides /\ listed \in FeedLists
           /\ memory \in [Managers -> OverrideMemory] /\ call \in [Managers -> OverrideCall]
           /\ said \in Sayings /\ blurred \in BOOLEAN
           /\ \A m \in Managers : memory[m] \in OverrideMemory /\ call[m] \in OverrideCall
BY DEF OvInv, OvTypeOK, OverrideMemory, OverrideCall, Sayings

LEMMA OvInvInit == OvInit => OvInv
<1> SUFFICES ASSUME OvInit PROVE OvInv
  OBVIOUS
<1>1. OvTypeOK
  BY OvConstants DEF OvInit, OvTypeOK, OverrideMemory, OverrideCall, Sayings
<1>2. WritersApart
  BY OvConstants DEF OvInit, WritersApart
<1>3. TableOfCalls
  BY DEF OvInit, TableOfCalls, OfType, Nothing
<1>4. MemoryOfCalls
  BY OvConstants DEF OvInit, MemoryOfCalls, Recalls, Nothing
<1>5. QED
  BY <1>1, <1>2, <1>3, <1>4 DEF OvInv

LEMMA BeginKeeps ==
    ASSUME OvInv, NEW m \in Managers, NEW on \in Targets,
           NEW type \in {"allow", "block", "remove"}, Begin(m, on, type)
    PROVE  OvInv'
<1>1. UNCHANGED <<table, inserted, listed, memory, said>> /\ blurred' = (blurred \/ Overlap(m, on))
  BY DEF Begin
<1>2. PICK f \in BOOLEAN : f = (type # "remove" /\ Matching(on) # {})
  OBVIOUS
<1>3. PICK c \in OverrideCall :
         /\ c = [pc |-> "write", on |-> on, type |-> type, found |-> f]
         /\ c.pc = "write" /\ c.on = on /\ c.type = type /\ c.found = f
  <2>1. [pc |-> "write", on |-> on, type |-> type, found |-> f] \in OverrideCall
    BY DEF OverrideCall
  <2>2. /\ [pc |-> "write", on |-> on, type |-> type, found |-> f].pc = "write"
        /\ [pc |-> "write", on |-> on, type |-> type, found |-> f].on = on
        /\ [pc |-> "write", on |-> on, type |-> type, found |-> f].type = type
        /\ [pc |-> "write", on |-> on, type |-> type, found |-> f].found = f
    OBVIOUS
  <2>3. QED
    BY Zenon, <2>1, <2>2
<1>4. call' = [call EXCEPT ![m] = c]
  BY <1>2, <1>3 DEF Begin
<1>5. /\ call' \in [Managers -> OverrideCall] /\ call'[m] = c
      /\ \A k \in Managers \ {m} : call'[k] = call[k]
  BY <1>4, OvTypes
<1>6. blurred' \in BOOLEAN
  BY <1>1
<1>7. OvTypeOK'
  BY <1>1, <1>5, <1>6, OvTypes DEF OvTypeOK, OverrideCall, OverrideMemory, Sayings
<1>8. ASSUME ~blurred' PROVE WritersApart' /\ TableOfCalls' /\ MemoryOfCalls'
  <2>1. WritersApart /\ TableOfCalls /\ MemoryOfCalls /\ ~Overlap(m, on)
    BY <1>1, <1>8 DEF OvInv
  <2>2. TableOfCalls' /\ MemoryOfCalls'
    BY <1>1, <2>1 DEF TableOfCalls, MemoryOfCalls, OfType
  <2>3. \A k \in Managers \ {m} : call'[k].pc = "write" => call'[k].on # on
    BY <1>5, <2>1 DEF Overlap
  <2>4. WritersApart'
    <3>1. \A i : Matching(i)' = Matching(i)
      BY <1>1 DEF Matching
    <3>2. c.type # "remove" => (c.found <=> Matching(c.on) # {})
      BY <1>2, <1>3
    <3>3. \A j, k \in Managers :
             j # k /\ call'[j].pc = "write" /\ call'[k].pc = "write" => call'[j].on # call'[k].on
      BY <1>3, <1>5, <2>1, <2>3 DEF WritersApart
    <3>4. ASSUME NEW k \in Managers, call'[k].pc = "write", call'[k].type # "remove"
          PROVE  call'[k].found <=> Matching(call'[k].on) # {}
      BY <1>5, <2>1, <3>2, <3>4 DEF WritersApart
    <3>5. QED
      BY <3>1, <3>3, <3>4 DEF WritersApart
  <2>5. QED
    BY <2>2, <2>4
<1>9. QED
  BY <1>7, <1>8 DEF OvInv

\* A statement about one indicator keeps table and calls together.
LEMMA TableWritten ==
    ASSUME OvInv, ~blurred, NEW on \in Targets, NEW what \in {"allow", "block", "none"},
           table' \subseteq Override, said' = [said EXCEPT ![on] = what],
           \A o \in Override : o.on # on => (o \in table' <=> o \in table),
           \A o, p \in table' : o.on = on /\ p.on = on => o = p,
           \A o \in table' : o.on = on => (IF what = "none" THEN o.expired
                                          ELSE o.type = what /\ ~o.expired),
           what # "none" => \E o \in table' : o.on = on
    PROVE  TableOfCalls'
<1>1. TableOfCalls /\ table \subseteq Override /\ said \in Sayings
  BY OvTypes DEF OvInv
<1>2. said' \in Sayings /\ said'[on] = what /\ \A i \in Targets \ {on} : said'[i] = said[i]
  BY <1>1 DEF Sayings
<1>3. \A o, p \in table' : o.on = p.on => o = p
  BY <1>1 DEF TableOfCalls
<1>4. ASSUME NEW type \in {"allow", "block"}
      PROVE  OfType(type)' = {i \in Targets : said'[i] = type}
  <2>1. ASSUME NEW i \in Targets
        PROVE  i \in OfType(type)' <=> said'[i] = type
    <3>1. i \in OfType(type)' <=> \E o \in table' : o.on = i /\ o.type = type /\ ~o.expired
      BY DEF OfType
    <3>2. i \in OfType(type) <=> \E o \in table : o.on = i /\ o.type = type /\ ~o.expired
      BY DEF OfType
    <3>3. i \in OfType(type) <=> said[i] = type
      BY <1>1 DEF TableOfCalls
    <3>4. CASE i = on
      <4>1. CASE what = "none"
        BY <1>2, <3>1, <3>4, <4>1
      <4>2. CASE what # "none"
        BY <1>2, <3>1, <3>4, <4>2
      <4>3. QED
        BY <4>1, <4>2
    <3>5. CASE i # on
      <4>1. (\E o \in table' : o.on = i /\ o.type = type /\ ~o.expired)
            <=> \E o \in table : o.on = i /\ o.type = type /\ ~o.expired
        BY <1>1, <3>5
      <4>2. QED
        BY <1>2, <3>1, <3>2, <3>3, <3>5, <4>1
    <3>6. QED
      BY <3>4, <3>5
  <2>2. OfType(type)' \subseteq Targets
    BY DEF OfType, Override
  <2>3. QED
    BY <2>1, <2>2
<1>5. QED
  BY <1>3, <1>4 DEF TableOfCalls

\* Each of the three statements of a call writes its indicator and no other.
LEMMA WriteRows ==
    ASSUME OvInv, NEW m \in Managers, Write(m), NEW on \in Targets,
           NEW type \in {"allow", "block", "remove"}, on = call[m].on, type = call[m].type
    PROVE  /\ table' \subseteq Override /\ inserted' \in 0..MaxOverrides
           /\ \A o \in Override : o.on # on => (o \in table' <=> o \in table)
           /\ ~blurred => \A o \in table' :
                 o.on = on => type # "remove" /\ o.type = type /\ ~o.expired
           /\ ~blurred => \A o, p \in table' : o.on = on /\ p.on = on => o = p
           /\ ~blurred /\ type # "remove" => \E o \in table' : o.on = on
<1>1. /\ table \subseteq Override /\ inserted \in 0..MaxOverrides /\ MaxOverrides \in Nat
      /\ call[m].pc = "write"
  BY OvTypes, OvConstants DEF OverrideCall, Write
<1>2. ~blurred => \A o, p \in table : o.on = p.on => o = p
  BY DEF OvInv, TableOfCalls
<1>3. ~blurred /\ type # "remove" =>
         IF call[m].found THEN \E o \in table : o.on = on ELSE \A o \in table : o.on # on
  <2>1. ~blurred /\ type # "remove" => (call[m].found <=> Matching(on) # {})
    BY <1>1 DEF OvInv, WritersApart
  <2>2. Matching(on) # {} <=> \E o \in table : o.on = on
    BY DEF Matching
  <2>3. QED
    BY <2>1, <2>2
<1>4. CASE type = "remove" /\ table' = table \ Matching(on) /\ UNCHANGED inserted
  BY <1>1, <1>4 DEF Matching
<1>5. CASE /\ type # "remove" /\ call[m].found /\ UNCHANGED inserted
           /\ table' = {IF o.on = on THEN [o EXCEPT !.type = type, !.expired = FALSE] ELSE o
                         : o \in table}
  <2>1. PICK g : g = [o \in table |-> IF o.on = on THEN [o EXCEPT !.type = type, !.expired = FALSE]
                                     ELSE o]
    OBVIOUS
  <2>2. table' = {g[o] : o \in table}
    BY <1>5, <2>1
  <2>3. ASSUME NEW o \in table
        PROVE  /\ g[o] \in Override /\ g[o].on = o.on /\ (o.on # on => g[o] = o)
               /\ o.on = on => g[o].type = type /\ ~g[o].expired
    <3>1. o \in Override
      BY <1>1
    <3>2. CASE o.on # on
      BY <2>1, <3>1, <3>2
    <3>3. CASE o.on = on
      <4>1. g[o] = [o EXCEPT !.type = type, !.expired = FALSE]
        BY <2>1, <3>3
      <4>2. g[o] \in Override
        BY <1>5, <3>1, <4>1 DEF Override
      <4>3. g[o].on = o.on /\ g[o].type = type /\ ~g[o].expired
        BY <3>1, <4>1 DEF Override
      <4>4. QED
        BY <3>3, <4>2, <4>3
    <3>4. QED
      BY <3>2, <3>3
  <2>4. \A o \in Override : o.on # on => (o \in table' <=> o \in table)
    BY <2>2, <2>3
  <2>5. ~blurred => \A o, p \in table' : o.on = on /\ p.on = on => o = p
    BY <1>2, <2>2, <2>3
  <2>6. ~blurred => \E o \in table' : o.on = on
    <3>1. ~blurred => \E o \in table : o.on = on
      BY <1>3, <1>5
    <3>2. QED
      BY <2>2, <2>3, <3>1
  <2>7. \A o \in table' : o.on = on => type # "remove" /\ o.type = type /\ ~o.expired
    <3>1. type # "remove"
      BY <1>5
    <3>2. ASSUME NEW p \in table', p.on = on PROVE p.type = type /\ ~p.expired
      <4>1. PICK o \in table : p = g[o]
        BY <2>2
      <4>2. o.on = on
        BY <2>3, <3>2, <4>1
      <4>3. QED
        BY <2>3, <4>1, <4>2
    <3>3. QED
      BY <3>1, <3>2
  <2>8. table' \subseteq Override /\ inserted' \in 0..MaxOverrides
    BY <1>1, <1>5, <2>2, <2>3
  <2>9. QED
    BY <2>4, <2>5, <2>6, <2>7, <2>8
<1>6. CASE /\ type # "remove" /\ ~call[m].found
           /\ inserted < MaxOverrides /\ inserted' = inserted + 1
           /\ table' = table \cup {[id |-> inserted + 1, on |-> on, type |-> type,
                                   expired |-> FALSE]}
  <2>1. inserted + 1 \in 1..MaxOverrides /\ inserted' \in 0..MaxOverrides
    BY <1>1, <1>6
  <2>2. PICK p \in Override :
           p = [id |-> inserted + 1, on |-> on, type |-> type, expired |-> FALSE]
    BY <1>6, <2>1 DEF Override
  <2>3. p.on = on /\ p.type = type /\ ~p.expired
    BY <2>2
  <2>4. table' = table \cup {p}
    BY <1>6, <2>2
  <2>5. ~blurred => \A o \in table : o.on # on
    BY <1>3, <1>6
  <2>6. ~blurred => \A o, q \in table' : o.on = on /\ q.on = on => o = q
    BY <2>4, <2>5
  <2>7. \A o \in Override : o.on # on => (o \in table' <=> o \in table)
    BY <2>3, <2>4
  <2>8. ~blurred => \A o \in table' : o.on = on => type # "remove" /\ o.type = type /\ ~o.expired
    BY <1>6, <2>3, <2>4, <2>5
  <2>9. table' \subseteq Override /\ inserted' \in 0..MaxOverrides /\ \E o \in table' : o.on = on
    BY <1>1, <2>1, <2>3, <2>4
  <2>10. QED
    BY <2>6, <2>7, <2>8, <2>9
<1>7. QED
  BY <1>4, <1>5, <1>6 DEF Write

LEMMA WriteKeeps ==
    ASSUME OvInv, NEW m \in Managers, Write(m)
    PROVE  OvInv'
<1>1. /\ call[m] \in OverrideCall /\ call[m].pc = "write" /\ said \in Sayings
      /\ UNCHANGED <<listed, memory, blurred>>
  BY OvTypes DEF Write
<1>2. PICK on \in Targets, type \in {"allow", "block", "remove"} :
         on = call[m].on /\ type = call[m].type
  BY <1>1 DEF OverrideCall
<1>3. PICK what \in {"allow", "block", "none"} : what = IF type = "remove" THEN "none" ELSE type
  OBVIOUS
<1>4. said' = [said EXCEPT ![on] = what]
  BY <1>2, <1>3 DEF Write
<1>5. said' \in Sayings
  BY <1>1, <1>4 DEF Sayings
<1>6. PICK c \in OverrideCall : c = [NoCall EXCEPT !.pc = "load"] /\ c.pc = "load"
  <2>1. PICK k \in OverrideCall : k = NoCall
    BY OvConstants
  <2>2. [k EXCEPT !.pc = "load"] \in OverrideCall /\ [k EXCEPT !.pc = "load"].pc = "load"
    BY DEF OverrideCall
  <2>3. QED
    BY Zenon, <2>1, <2>2
<1>7. c.pc = "load"
  BY <1>6
<1>8. call' = [call EXCEPT ![m] = c]
  BY <1>6, OvTypes DEF Write
<1>9. /\ call' \in [Managers -> OverrideCall] /\ call'[m].pc = "load"
      /\ \A k \in Managers \ {m} : call'[k] = call[k]
  BY <1>7, <1>8, OvTypes
<1>10. /\ table' \subseteq Override /\ inserted' \in 0..MaxOverrides
       /\ \A o \in Override : o.on # on => (o \in table' <=> o \in table)
  BY <1>2, WriteRows
<1>11. OvTypeOK'
  BY <1>1, <1>5, <1>9, <1>10, OvTypes DEF OvTypeOK, OverrideCall, OverrideMemory, Sayings
<1>12. ASSUME ~blurred' PROVE WritersApart' /\ TableOfCalls' /\ MemoryOfCalls'
  <2>1. ~blurred /\ WritersApart /\ MemoryOfCalls
    BY <1>1, <1>12 DEF OvInv
  <2>2. /\ \A o \in table' : o.on = on => type # "remove" /\ o.type = type /\ ~o.expired
        /\ \A o, p \in table' : o.on = on /\ p.on = on => o = p
        /\ type # "remove" => \E o \in table' : o.on = on
    BY <1>2, <2>1, WriteRows
  <2>3. \A o \in table' : o.on = on => (IF what = "none" THEN o.expired
                                       ELSE o.type = what /\ ~o.expired)
    BY <1>3, <2>2
  <2>4. what # "none" => \E o \in table' : o.on = on
    BY <1>3, <2>2
  <2>5. TableOfCalls'
    BY <1>4, <1>10, <2>1, <2>2, <2>3, <2>4, TableWritten
  <2>6. MemoryOfCalls'
    BY <1>1, <2>1 DEF MemoryOfCalls
  <2>7. \A j, k \in Managers :
           j # k /\ call'[j].pc = "write" /\ call'[k].pc = "write" => call'[j].on # call'[k].on
    BY <1>9, <2>1 DEF WritersApart
  <2>8. ASSUME NEW k \in Managers, call'[k].pc = "write", call'[k].type # "remove"
        PROVE  call'[k].found <=> {o \in table' : o.on = call'[k].on} # {}
    <3>1. k # m /\ call'[k] = call[k] /\ call[k].on # on
      BY <1>1, <1>2, <1>9, <2>1, <2>8 DEF WritersApart
    <3>2. PICK i \in Targets : i = call[k].on
      BY OvTypes DEF OverrideCall
    <3>3. {o \in table' : o.on = i} = Matching(i)
      BY <1>10, <3>1, <3>2, OvTypes DEF Matching
    <3>4. call[k].found <=> Matching(i) # {}
      BY <2>1, <2>8, <3>1, <3>2 DEF WritersApart
    <3>5. QED
      BY <3>1, <3>2, <3>3, <3>4
  <2>9. WritersApart'
    BY <2>7, <2>8 DEF WritersApart, Matching
  <2>10. QED
    BY <2>5, <2>6, <2>9
<1>13. QED
  BY <1>11, <1>12 DEF OvInv

\* An instance that reads the table remembers what the calls said.
LEMMA MemoryLoaded ==
    ASSUME OvInv, NEW m \in Managers, NEW mem \in OverrideMemory,
           memory' = [memory EXCEPT ![m] = mem],
           mem.allow \subseteq OfType("allow"), mem.block \subseteq OfType("block"),
           mem.whole => mem.allow = OfType("allow") /\ mem.block = OfType("block"), mem.said = said,
           UNCHANGED <<table, inserted, listed, said, blurred>>,
           call' \in [Managers -> OverrideCall],
           \A k \in Managers : call'[k] = call[k] \/ call'[k].pc = "idle"
    PROVE  OvInv'
<1>1. /\ memory' \in [Managers -> OverrideMemory] /\ memory'[m] = mem
      /\ \A k \in Managers \ {m} : memory'[k] = memory[k]
  BY OvTypes
<1>2. OvTypeOK'
  BY <1>1, OvTypes DEF OvTypeOK, OverrideCall, OverrideMemory, Sayings
<1>3. ASSUME ~blurred' PROVE WritersApart' /\ TableOfCalls' /\ MemoryOfCalls'
  <2>1. WritersApart /\ TableOfCalls /\ MemoryOfCalls
    BY <1>3 DEF OvInv
  <2>2. WritersApart'
    BY <2>1 DEF WritersApart, Matching
  <2>3. TableOfCalls'
    BY <2>1 DEF TableOfCalls, OfType
  <2>4. Recalls(mem)
    BY <2>1 DEF TableOfCalls, Recalls
  <2>5. MemoryOfCalls'
    BY <1>1, <2>1, <2>4 DEF MemoryOfCalls
  <2>6. QED
    BY <2>2, <2>3, <2>5
<1>4. QED
  BY <1>2, <1>3 DEF OvInv

\* What Reload makes of the rows it got.
LEMMA Reloaded ==
    ASSUME OvInv, NEW mem \in OverrideMemory, NEW loaded \in SUBSET InForce
    PROVE  /\ Reload(mem, loaded) \in OverrideMemory
           /\ Reload(mem, loaded).allow \subseteq OfType("allow")
           /\ Reload(mem, loaded).block \subseteq OfType("block")
           /\ Reload(mem, loaded).whole => /\ Reload(mem, loaded).allow = OfType("allow")
                                           /\ Reload(mem, loaded).block = OfType("block")
           /\ Reload(mem, loaded).said = said
<1>1. loaded \subseteq Override /\ said \in Sayings
  BY OvTypes DEF InForce
<1>2. PICK a \in SUBSET Targets, b \in SUBSET Targets, w \in BOOLEAN :
         /\ a = {o.on : o \in {p \in loaded : p.type = "allow"}}
         /\ b = {o.on : o \in {p \in loaded : p.type = "block"}}
         /\ w = (loaded = InForce)
  <2>1. \A type : {o.on : o \in {p \in loaded : p.type = type}} \subseteq Targets
    BY <1>1 DEF Override
  <2>2. (loaded = InForce) \in BOOLEAN
    OBVIOUS
  <2>3. QED
    BY <2>1, <2>2
<1>3. /\ a \subseteq OfType("allow") /\ b \subseteq OfType("block")
      /\ w => a = OfType("allow") /\ b = OfType("block")
  BY <1>2 DEF OfType, InForce
<1>4. Reload(mem, loaded) = [mem EXCEPT !.allow = a, !.block = b, !.said = said, !.whole = w]
  BY <1>2 DEF Reload
<1>5. /\ Reload(mem, loaded) \in OverrideMemory
      /\ Reload(mem, loaded).allow = a /\ Reload(mem, loaded).block = b
      /\ Reload(mem, loaded).said = said /\ Reload(mem, loaded).whole = w
  BY <1>1, <1>4 DEF OverrideMemory
<1>6. QED
  BY <1>3, <1>5

LEMMA LoadsKeep ==
    ASSUME OvInv, NEW m \in Managers, Load(m) \/ Rebuild(m)
    PROVE  OvInv'
<1>1. /\ memory[m] \in OverrideMemory /\ memory \in [Managers -> OverrideMemory]
      /\ call \in [Managers -> OverrideCall] /\ said \in Sayings /\ listed \in FeedLists
  BY OvTypes
<1>2. /\ UNCHANGED <<table, inserted, listed, said, blurred>>
      /\ call' \in [Managers -> OverrideCall]
      /\ \A k \in Managers : call'[k] = call[k] \/ call'[k].pc = "idle"
  BY <1>1, OvConstants DEF Load, Rebuild
<1>3. ASSUME NEW mem \in OverrideMemory, NEW loaded \in SUBSET InForce,
             memory' = [memory EXCEPT ![m] = Reload(mem, loaded)]
      PROVE  OvInv'
  BY <1>2, <1>3, Reloaded, MemoryLoaded
<1>4. CASE Load(m)
  BY <1>1, <1>3, <1>4 DEF Load
<1>5. CASE Rebuild(m) /\ memory' = [memory EXCEPT ![m].feeds = {}]
  <2>1. PICK mem \in OverrideMemory : mem = [memory[m] EXCEPT !.feeds = {}]
    BY <1>1 DEF OverrideMemory
  <2>2. /\ mem.allow = memory[m].allow /\ mem.block = memory[m].block
        /\ mem.said = memory[m].said /\ mem.whole = memory[m].whole
    BY <1>1, <2>1 DEF OverrideMemory
  <2>3. memory' = [memory EXCEPT ![m] = mem]
    BY <1>1, <1>5, <2>1 DEF OverrideMemory
  <2>4. /\ memory' \in [Managers -> OverrideMemory] /\ memory'[m] = mem
        /\ \A k \in Managers \ {m} : memory'[k] = memory[k]
    BY <1>1, <2>3
  <2>5. OvTypeOK'
    BY <1>2, <2>4, OvTypes DEF OvTypeOK, OverrideCall, OverrideMemory, Sayings
  <2>6. ASSUME ~blurred' PROVE WritersApart' /\ TableOfCalls' /\ MemoryOfCalls'
    <3>1. WritersApart /\ TableOfCalls /\ MemoryOfCalls
      BY <1>2, <2>6 DEF OvInv
    <3>2. WritersApart' /\ TableOfCalls'
      BY <1>2, <3>1 DEF WritersApart, Matching, TableOfCalls, OfType
    <3>3. Recalls(mem)
      BY <2>2, <3>1 DEF MemoryOfCalls, Recalls
    <3>4. MemoryOfCalls'
      BY <2>4, <3>1, <3>3 DEF MemoryOfCalls
    <3>5. QED
      BY <3>2, <3>4
  <2>7. QED
    BY <2>5, <2>6 DEF OvInv
<1>6. CASE /\ Rebuild(m)
           /\ \E loaded \in SUBSET InForce :
                 memory' = [memory EXCEPT ![m] = Reload([memory[m] EXCEPT !.feeds = listed], loaded)]
  <2>1. [memory[m] EXCEPT !.feeds = listed] \in OverrideMemory
    BY <1>1 DEF OverrideMemory
  <2>2. QED
    BY <1>3, <1>6, <2>1
<1>7. QED
  BY <1>4, <1>5, <1>6 DEF Rebuild

LEMMA FailureKeeps ==
    ASSUME OvInv, NEW m \in Managers, FailOverride(m)
    PROVE  OvInv'
<1>1. /\ UNCHANGED <<table, inserted, listed, memory, said, blurred>>
      /\ call' \in [Managers -> OverrideCall]
      /\ \A k \in Managers : call'[k] = call[k] \/ call'[k].pc = "idle"
  BY OvTypes, OvConstants DEF FailOverride
<1>2. OvTypeOK'
  BY <1>1, OvTypes DEF OvTypeOK, OverrideCall, OverrideMemory, Sayings
<1>3. QED
  BY <1>1, <1>2 DEF OvInv, WritersApart, TableOfCalls, MemoryOfCalls, Matching, OfType

LEMMA ExpiryKeeps ==
    ASSUME OvInv, NEW o \in table, ExpireOverride(o)
    PROVE  OvInv'
<1>1. /\ table \subseteq Override /\ o \in Override /\ ~o.expired /\ said \in Sayings
      /\ UNCHANGED <<inserted, listed, memory, call, blurred>>
  BY OvTypes DEF ExpireOverride
<1>2. PICK p \in Override : p = [o EXCEPT !.expired = TRUE]
  BY <1>1 DEF Override
<1>3. p.on = o.on /\ p.expired /\ o.on \in Targets
  BY <1>1, <1>2 DEF Override
<1>4. PICK on \in Targets : on = o.on
  BY <1>3
<1>5. table' = (table \ {o}) \cup {p} /\ said' = [said EXCEPT ![on] = "none"]
  BY <1>2, <1>4 DEF ExpireOverride
<1>6. table' \subseteq Override /\ said' \in Sayings
  BY <1>1, <1>2, <1>5 DEF Sayings
<1>7. OvTypeOK'
  BY <1>1, <1>6, OvTypes DEF OvTypeOK, OverrideCall, OverrideMemory, Sayings
<1>8. ASSUME ~blurred' PROVE WritersApart' /\ TableOfCalls' /\ MemoryOfCalls'
  <2>1. ~blurred /\ WritersApart /\ TableOfCalls /\ MemoryOfCalls
    BY <1>1, <1>8 DEF OvInv
  <2>2. \A q \in table' : q.on = on => q = p
    BY <1>4, <1>5, <2>1 DEF TableOfCalls
  <2>3. \A q \in Override : q.on # on => (q \in table' <=> q \in table)
    BY <1>3, <1>4, <1>5
  <2>4. \A q \in table' : q.on = on => (IF "none" = "none" THEN q.expired
                                       ELSE q.type = "none" /\ ~q.expired)
    BY <1>3, <2>2
  <2>5. TableOfCalls'
    BY <1>5, <1>6, <2>1, <2>2, <2>3, <2>4, TableWritten
  <2>6. MemoryOfCalls'
    BY <1>1, <2>1 DEF MemoryOfCalls
  <2>7. \A i \in Targets : (\E q \in table' : q.on = i) <=> (\E q \in table : q.on = i)
    BY <1>3, <1>4, <1>5
  <2>8. \A i \in Targets : Matching(i)' # {} <=> Matching(i) # {}
    BY <2>7 DEF Matching
  <2>9. \A k \in Managers : call[k].on \in Targets
    BY OvTypes DEF OverrideCall
  <2>10. WritersApart'
    BY <1>1, <2>1, <2>8, <2>9 DEF WritersApart
  <2>11. QED
    BY <2>5, <2>6, <2>10
<1>9. QED
  BY <1>7, <1>8 DEF OvInv

LEMMA OvInvNext == OvInv /\ [OvNext]_ovVars => OvInv'
<1> SUFFICES ASSUME OvInv, [OvNext]_ovVars PROVE OvInv'
  OBVIOUS
<1>1. ASSUME UNCHANGED ovVars PROVE OvInv'
  BY <1>1 DEF ovVars, OvInv, OvTypeOK, WritersApart, TableOfCalls, MemoryOfCalls, Matching, OfType
<1>2. ASSUME NEW feeds \in FeedLists, Relist(feeds) PROVE OvInv'
  BY <1>2 DEF Relist, OvInv, OvTypeOK, WritersApart, TableOfCalls, MemoryOfCalls, Matching, OfType
<1>3. QED
  BY <1>1, <1>2, BeginKeeps, WriteKeeps, FailureKeeps, LoadsKeep, ExpiryKeeps DEF OvNext

LEMMA NamesAreSequences ==
    ASSUME NEW n \in Names
    PROVE  \E S : n \in Seq(S) /\ Len(n) \in Nat /\ Len(n) > 0
<1>1. n \in Seq({n[k] : k \in DOMAIN n}) /\ Len(n) > 0
  BY Zenon, OverridesAssumption
<1>2. PICK S : n \in Seq(S)
  BY Zenon, <1>1
<1>3. Len(n) \in Nat
  BY <1>2
<1>4. QED
  BY Zenon, <1>1, <1>2, <1>3

\* The parents a name is compared with are the names it lies under.
LEMMA ParentsAreAbove ==
    ASSUME NEW n \in Names, NEW name \in Names
    PROVE  /\ (\E k \in 1..(Len(n) - 1) : SubSeq(n, k + 1, Len(n)) = name)
                 <=> (Under(n, name) /\ n # name)
           /\ Under(n, n)
<1>1. PICK S : n \in Seq(S) /\ Len(n) \in Nat /\ Len(n) > 0
  BY NamesAreSequences
<1>2. Len(name) \in Nat /\ Len(name) > 0
  BY NamesAreSequences
<1>3. SubSeq(n, 1, Len(n)) = n
  BY <1>1
<1>4. ASSUME NEW k \in 1..(Len(n) - 1), SubSeq(n, k + 1, Len(n)) = name
      PROVE  Under(n, name) /\ n # name
  <2>1. Len(SubSeq(n, k + 1, Len(n))) = Len(n) - k
    BY <1>1
  <2>2. Len(name) = Len(n) - k
    BY Zenon, <1>4, <2>1
  <2>3. Len(n) >= Len(name) /\ Len(n) # Len(name) /\ Len(n) - Len(name) + 1 = k + 1
    BY <1>1, <2>2
  <2>4. SubSeq(n, Len(n) - Len(name) + 1, Len(n)) = name
    BY <1>4, <2>3
  <2>5. QED
    BY Zenon, <2>3, <2>4 DEF Under
<1>5. ASSUME Under(n, name), n # name
      PROVE  \E k \in 1..(Len(n) - 1) : SubSeq(n, k + 1, Len(n)) = name
  <2>1. Len(n) >= Len(name) /\ SubSeq(n, Len(n) - Len(name) + 1, Len(n)) = name
    BY <1>5 DEF Under
  <2>2. Len(n) # Len(name)
    <3>1. CASE Len(n) = Len(name)
      <4>1. Len(n) - Len(name) + 1 = 1
        BY <1>1, <3>1
      <4>2. QED
        BY <1>3, <1>5, <2>1, <4>1
    <3>2. QED
      BY <3>1
  <2>3. Len(n) - Len(name) \in 1..(Len(n) - 1)
    <3>1. PICK a \in Nat, b \in Nat : a = Len(n) /\ b = Len(name)
      BY <1>1, <1>2
    <3>2. a >= b /\ a # b /\ b > 0
      BY <1>2, <2>1, <2>2, <3>1
    <3>3. a - b \in 1..(a - 1)
      BY <3>2
    <3>4. QED
      BY <3>1, <3>3
  <2>4. QED
    BY <2>1, <2>3
<1>6. Under(n, n)
  <2>1. Len(n) >= Len(n) /\ Len(n) - Len(n) + 1 = 1
    BY <1>1
  <2>2. QED
    BY <1>3, <2>1 DEF Under
<1>7. QED
  BY <1>4, <1>5, <1>6

LEMMA CoversIsUnder ==
    ASSUME NEW i \in Indicator, NEW n \in Names
    PROVE  Covers(i, n) <=> (n = i.name \/ (i.wild /\ Under(n, i.name)))
<1>1. PICK name \in Names : name = i.name
  BY DEF Indicator
<1>2. QED
  BY <1>1, ParentsAreAbove DEF Covers

LEMMA ListedIsUnder ==
    ASSUME NEW feeds, feeds \subseteq Indicator, NEW n \in Names
    PROVE  Listed(feeds, n) <=> \E i \in feeds : Under(n, i.name) /\ ~(i.wild /\ n = i.name)
<1>1. ASSUME NEW i \in feeds
      PROVE  /\ i.name \in Names /\ i.wild \in BOOLEAN
             /\ i = [name |-> i.name, wild |-> i.wild]
  BY <1>1 DEF Indicator
<1>2. ASSUME Listed(feeds, n)
      PROVE  \E i \in feeds : Under(n, i.name) /\ ~(i.wild /\ n = i.name)
  <2>1. CASE [name |-> n, wild |-> FALSE] \in feeds
    <3>1. PICK i \in feeds : i = [name |-> n, wild |-> FALSE]
      BY <2>1
    <3>2. i.name = n /\ ~i.wild
      BY <3>1
    <3>3. QED
      BY <3>2, ParentsAreAbove
  <2>2. CASE \E k \in 1..(Len(n) - 1) :
                \E w \in BOOLEAN : [name |-> SubSeq(n, k + 1, Len(n)), wild |-> w] \in feeds
    <3>1. PICK k \in 1..(Len(n) - 1), w \in BOOLEAN :
             [name |-> SubSeq(n, k + 1, Len(n)), wild |-> w] \in feeds
      BY <2>2
    <3>2. PICK i \in feeds : i = [name |-> SubSeq(n, k + 1, Len(n)), wild |-> w]
      BY <3>1
    <3>3. PICK name \in Names : name = i.name /\ name = SubSeq(n, k + 1, Len(n))
      BY <1>1, <3>2
    <3>4. Under(n, name) /\ n # name
      BY <3>3, ParentsAreAbove
    <3>5. QED
      BY <3>3, <3>4
  <2>3. QED
    BY <1>2, <2>1, <2>2 DEF Listed
<1>3. ASSUME NEW i \in feeds, Under(n, i.name), ~(i.wild /\ n = i.name)
      PROVE  Listed(feeds, n)
  <2>1. PICK name \in Names, w \in BOOLEAN :
           name = i.name /\ w = i.wild /\ [name |-> name, wild |-> w] \in feeds
    BY <1>1
  <2>2. CASE n = name
    <3>1. w = FALSE
      BY <1>3, <2>1, <2>2
    <3>2. QED
      BY <2>1, <2>2, <3>1 DEF Listed
  <2>3. CASE n # name
    <3>1. PICK k \in 1..(Len(n) - 1) : SubSeq(n, k + 1, Len(n)) = name
      BY <1>3, <2>1, <2>3, ParentsAreAbove
    <3>2. QED
      BY <2>1, <3>1 DEF Listed
  <2>4. QED
    BY <2>2, <2>3
<1>4. QED
  BY <1>2, <1>3

\* add_override, remove_override, _load_overrides and check_domain: with any
\* number of instances over one table, as long as no two calls overlapped on
\* one indicator, an instance whose last load went through answers for a name
\* by what the last call had said of each indicator, whatever rows were
\* inserted, updated, expired or removed before. A load that failed and was
\* swallowed forgets overrides and invents none.
THEOREM VerdictFollowsCalls == OvSpec => []VerdictOfLastCall
<1>1. ASSUME OvInv PROVE VerdictOfLastCall
  <2> SUFFICES ASSUME ~blurred, NEW m \in Managers, NEW n \in Names
               PROVE  LET mem == memory[m]
                          Says(type) == \E i \in Targets : mem.said[i] = type
                             /\ (n = i.name \/ (i.wild /\ Under(n, i.name)))
                          fed == \E i \in mem.feeds : Under(n, i.name) /\ ~(i.wild /\ n = i.name)
                      IN  /\ mem.whole => (Blocked(m, n) <=> ~Says("allow") /\ (Says("block") \/ fed))
                          /\ Blocked(m, n) => Says("block") \/ fed
                          /\ fed /\ ~Blocked(m, n) => Says("allow")
    BY DEF VerdictOfLastCall
  <2> DEFINE Says(type) == \E i \in Targets : memory[m].said[i] = type
                              /\ (n = i.name \/ (i.wild /\ Under(n, i.name)))
             fed == \E i \in memory[m].feeds : Under(n, i.name) /\ ~(i.wild /\ n = i.name)
             allowed == \E i \in memory[m].allow : Covers(i, n)
             denied == \E i \in memory[m].block : Covers(i, n)
  <2>1. Recalls(memory[m])
    BY <1>1 DEF OvInv, MemoryOfCalls
  <2>2. \A i \in Targets : Covers(i, n) <=> (n = i.name \/ (i.wild /\ Under(n, i.name)))
    BY OverridesAssumption, CoversIsUnder
  <2>3. (allowed => Says("allow")) /\ (memory[m].whole => (allowed <=> Says("allow")))
    BY <2>1, <2>2 DEF Recalls
  <2>4. (denied => Says("block")) /\ (memory[m].whole => (denied <=> Says("block")))
    BY <2>1, <2>2 DEF Recalls
  <2>5. memory[m].feeds \subseteq Indicator
    BY <1>1, OvTypes, OverridesAssumption DEF OverrideMemory
  <2>6. Listed(memory[m].feeds, n) <=> fed
    BY <2>5, ListedIsUnder
  <2>7. Blocked(m, n) <=> ~allowed /\ (denied \/ fed)
    BY <2>6 DEF Blocked
  <2> HIDE DEF Says, fed, allowed, denied
  <2>8. /\ memory[m].whole => (Blocked(m, n) <=> ~Says("allow") /\ (Says("block") \/ fed))
        /\ Blocked(m, n) => Says("block") \/ fed
        /\ fed /\ ~Blocked(m, n) => Says("allow")
    BY <2>3, <2>4, <2>7
  <2>9. QED
    BY <2>8 DEF Says, fed
<1>2. QED
  BY <1>1, OvInvInit, OvInvNext, PTL DEF OvSpec

\* The override table and what the instances remember of it keep their types.
THEOREM OvTypeCorrect == OvSpec => []OvTypeOK
<1>1. OvInv => OvTypeOK
  BY DEF OvInv
<1>2. QED
  BY <1>1, OvInvInit, OvInvNext, PTL DEF OvSpec

-----------------------------------------------------------------------------
(* Ingestion of feeds. *)

IngestWork == [pc : {"idle", "next", "fetch", "find", "create", "clear", "insert", "mark"},
               asked : 0..MaxRows, row : 0..MaxRows, doc : Docs, items : SUBSET Indicators,
               left : SUBSET Indicators, alone : BOOLEAN]

\* The row exists or existed: its id will not be given to another feed.
Taken(i) == i \in Rows /\ rows[i].status # "absent"

\* What an ingester carries from the select or the fetch to its statements.
Carried(w, v) ==
    /\ v.pc \notin {"idle", "next"} => v.asked \in Rows
    /\ v.pc \in {"clear", "insert"} => Taken(v.row)
    /\ w = "job" /\ v.pc = "fetch" => Taken(v.row)
    /\ v.pc \in {"find", "create", "clear"} => v.left = v.items
    /\ v.left \subseteq v.items

\* An ingester that stores into a feed nobody else is storing into has put
\* there what is not left, and the feed does not count as settled.
Stores(w) ==
    LET v == work[w] IN
    v.pc = "insert" =>
       /\ Live(v.row) => settled[v.row] = {}
       /\ v.alone => ~Storing(v.row, w) /\ (Live(v.row) => entries[v.row] = v.items \ v.left)

\* A row without a feed has no entries, and a settled one holds its document.
Holds(i) == /\ ~Live(i) => entries[i] = {}
            /\ settled[i] \subseteq {entries[i]}

IocInv ==
    /\ IocTypeOK
    /\ \A i \in plan : Taken(i)
    /\ \A i \in Rows : Holds(i)
    /\ \A w \in Ingesters : Carried(w, work[w]) /\ Stores(w)

LEMMA IocConstants ==
    /\ MaxRows \in Nat /\ 0 \in 0..MaxRows /\ Rows \subseteq 0..MaxRows
    /\ MaxSyncs \in Nat /\ MaxFailures \in Nat /\ 0 \in 0..MaxSyncs /\ 0 \in 0..MaxFailures
    /\ NoDoc \in Docs /\ "job" \in Ingesters /\ Absent \in Row /\ Absent.status = "absent"
    /\ Idle \in IngestWork /\ Idle.pc = "idle" /\ Idle.items = {} /\ Idle.left = {}
<1>1. /\ MaxRows \in Nat /\ 0 \in 0..MaxRows /\ Rows \subseteq 0..MaxRows
      /\ MaxSyncs \in Nat /\ MaxFailures \in Nat /\ 0 \in 0..MaxSyncs /\ 0 \in 0..MaxFailures
      /\ "job" \in Ingesters
  BY IocAssumption DEF Rows, Ingesters
<1>2. NoDoc \in Docs
  BY DEF NoDoc, Docs
<1>3. Absent \in Row /\ Absent.status = "absent"
  BY DEF Absent, Row
<1>4. Idle \in IngestWork /\ Idle.pc = "idle" /\ Idle.items = {} /\ Idle.left = {}
  BY <1>1, <1>2 DEF Idle, IngestWork
<1>5. QED
  BY <1>1, <1>2, <1>3, <1>4

LEMMA IocTypes ==
    ASSUME IocInv
    PROVE  /\ rows \in [Rows -> Row] /\ entries \in [Rows -> SUBSET Indicators]
           /\ work \in [Ingesters -> IngestWork] /\ plan \subseteq Rows
           /\ syncs \in 0..MaxSyncs /\ failures \in 0..MaxFailures
           /\ settled \in [Rows -> SUBSET SUBSET Indicators]
           /\ \A w \in Ingesters : work[w] \in IngestWork
           /\ \A i \in Rows : rows[i] \in Row
BY DEF IocInv, IocTypeOK, IngestWork

LEMMA IocInvInit == IocInit => IocInv
<1> SUFFICES ASSUME IocInit PROVE IocInv
  OBVIOUS
<1>1. IocTypeOK
  BY IocConstants DEF IocInit, IocTypeOK, IngestWork
<1>2. \A i \in Rows : Holds(i)
  BY DEF IocInit, Holds
<1>3. \A w \in Ingesters : Carried(w, work[w]) /\ Stores(w)
  BY IocConstants DEF IocInit, Carried, Stores
<1>4. QED
  BY <1>1, <1>2, <1>3 DEF IocInv, IocInit

\* A row is created once and keeps its status through every other change.
RowsKept == /\ rows' \in [Rows -> Row]
            /\ \A j \in Rows : IF rows[j].status = "absent" THEN rows'[j].status \in {"absent", "live"}
                               ELSE rows'[j].status = rows[j].status

LEMMA KeptRows ==
    ASSUME RowsKept
    PROVE  /\ \A j : Taken(j) => Taken(j)' /\ (Live(j)' <=> Live(j))
           /\ \A j : Live(j) => Live(j)'
BY DEF RowsKept, Taken, Live

\* Administration.
LEMMA RowsStep ==
    ASSUME IocInv, RowsKept, UNCHANGED <<entries, work, plan, syncs, failures, settled>>
    PROVE  IocInv'
<1>1. IocTypeOK'
  BY IocTypes DEF RowsKept, IocTypeOK, IngestWork
<1>2. \A i \in plan' : Taken(i)'
  BY KeptRows DEF IocInv
<1>3. \A i \in Rows : Holds(i)'
  BY KeptRows DEF IocInv, Holds
<1>4. \A w \in Ingesters : Carried(w, work[w])'
  BY KeptRows DEF IocInv, Carried
<1>5. \A w \in Ingesters : Stores(w)'
  BY KeptRows DEF IocInv, Stores, Carried, Storing
<1>6. QED
  BY <1>1, <1>2, <1>3, <1>4, <1>5 DEF IocInv

\* A step of one ingester that changes no entries and does not begin to store.
LEMMA WorkStep ==
    ASSUME IocInv, RowsKept, NEW w \in Ingesters, NEW c \in IngestWork,
           work' = [work EXCEPT ![w] = c], c.pc # "insert", Carried(w, c),
           UNCHANGED <<entries, settled>>, plan' \subseteq Rows, \A i \in plan' : Taken(i),
           syncs' \in 0..MaxSyncs, failures' \in 0..MaxFailures
    PROVE  IocInv'
<1>1. /\ work' \in [Ingesters -> IngestWork] /\ work'[w] = c
      /\ \A v \in Ingesters \ {w} : work'[v] = work[v]
  BY IocTypes
<1>2. IocTypeOK'
  BY <1>1, IocTypes DEF RowsKept, IocTypeOK, IngestWork
<1>3. \A i \in plan' : Taken(i)'
  BY KeptRows
<1>4. \A i \in Rows : Holds(i)'
  BY KeptRows DEF IocInv, Holds
<1>5. \A v \in Ingesters : Carried(v, work[v])'
  BY <1>1, KeptRows DEF IocInv, Carried
<1>6. ASSUME NEW v \in Ingesters PROVE Stores(v)'
  <2>1. CASE v = w
    BY <1>1, <2>1 DEF Stores
  <2>2. CASE v # w
    <3>1. work'[v] = work[v] /\ Stores(v) /\ Carried(v, work[v])
      BY <1>1, <2>2 DEF IocInv
    <3>2. \A i : Storing(i, v)' => Storing(i, v)
      BY <1>1 DEF Storing
    <3>3. QED
      BY <3>1, <3>2, KeptRows DEF Stores, Carried
  <2>3. QED
    BY <2>1, <2>2
<1>7. QED
  BY <1>2, <1>3, <1>4, <1>5, <1>6 DEF IocInv

LEMMA OneRowKept ==
    ASSUME IocInv, NEW i \in Rows, NEW r \in Row, rows' = [rows EXCEPT ![i] = r],
           IF rows[i].status = "absent" THEN r.status \in {"absent", "live"}
           ELSE r.status = rows[i].status
    PROVE  RowsKept
<1>1. rows \in [Rows -> Row] /\ \A j \in Rows : rows[j].status \in {"absent", "live", "deleted"}
  BY IocTypes DEF Row
<1>2. /\ rows' \in [Rows -> Row] /\ rows'[i] = r
      /\ \A j \in Rows \ {i} : rows'[j] = rows[j]
  BY <1>1
<1>3. QED
  BY <1>1, <1>2 DEF RowsKept

LEMMA SameRowsKept ==
    ASSUME IocInv, UNCHANGED rows
    PROVE  RowsKept
BY IocTypes DEF RowsKept

LEMMA AdminKeeps ==
    ASSUME IocInv, NEW i \in Rows,
           \/ \E active \in BOOLEAN : CreateFeed(i, active)
           \/ \E format \in Formats : RegisterFeed(i, format)
           \/ \E url, active \in BOOLEAN : UpdateFeed(i, url, active)
           \/ \E enabled \in BOOLEAN : SetFeedEnabled(i, enabled)
           \/ Elapse(i)
    PROVE  IocInv'
<1>1. rows \in [Rows -> Row] /\ rows[i] \in Row
  BY IocTypes
<1>2. ASSUME NEW r \in Row, rows' = [rows EXCEPT ![i] = r], Live(i), r.status = rows[i].status,
             UNCHANGED <<entries, work, plan, syncs, failures, settled>>
      PROVE  IocInv'
  BY <1>2, OneRowKept, RowsStep DEF Live
<1>3. ASSUME NEW format \in Formats \cup {"null"}, NEW active \in BOOLEAN, NewFeed(i, format, active)
      PROVE  IocInv'
  <2>1. PICK r \in Row : r = [status |-> "live", url |-> TRUE, active |-> active,
                              enabled |-> TRUE, due |-> TRUE, format |-> format]
    BY DEF Row
  <2>2. r.status = "live"
    BY <2>1
  <2>3. /\ rows' = [rows EXCEPT ![i] = r] /\ rows[i].status = "absent"
        /\ UNCHANGED <<entries, work, plan, syncs, failures, settled>>
    BY <1>3, <2>1 DEF NewFeed, Fresh
  <2>4. QED
    BY <2>2, <2>3, OneRowKept, RowsStep
<1>4. ASSUME NEW active \in BOOLEAN, CreateFeed(i, active) PROVE IocInv'
  BY <1>3, <1>4 DEF CreateFeed
<1>5. ASSUME NEW format \in Formats, RegisterFeed(i, format) PROVE IocInv'
  BY <1>3, <1>5 DEF RegisterFeed
<1>6. ASSUME NEW url \in BOOLEAN, NEW active \in BOOLEAN, UpdateFeed(i, url, active) PROVE IocInv'
  <2>1. PICK r \in Row : r = [rows[i] EXCEPT !.url = url, !.active = active]
    <3>1. [rows[i] EXCEPT !.url = url, !.active = active] \in Row
      BY <1>1 DEF Row
    <3>2. QED
      BY Zenon, <3>1
  <2>2. r.status = rows[i].status
    BY <1>1, <2>1 DEF Row
  <2>3. /\ rows' = [rows EXCEPT ![i] = r] /\ Live(i)
        /\ UNCHANGED <<entries, work, plan, syncs, failures, settled>>
    BY <1>1, <1>6, <2>1 DEF UpdateFeed, Row
  <2>4. QED
    BY <1>2, <2>2, <2>3
<1>7. ASSUME NEW enabled \in BOOLEAN, SetFeedEnabled(i, enabled) PROVE IocInv'
  <2>1. PICK r \in Row : r = [rows[i] EXCEPT !.enabled = enabled]
    <3>1. [rows[i] EXCEPT !.enabled = enabled] \in Row
      BY <1>1 DEF Row
    <3>2. QED
      BY Zenon, <3>1
  <2>2. r.status = rows[i].status
    BY <1>1, <2>1 DEF Row
  <2>3. /\ rows' = [rows EXCEPT ![i] = r] /\ Live(i)
        /\ UNCHANGED <<entries, work, plan, syncs, failures, settled>>
    BY <1>1, <1>7, <2>1 DEF SetFeedEnabled
  <2>4. QED
    BY <1>2, <2>2, <2>3
<1>8. ASSUME Elapse(i) PROVE IocInv'
  <2>1. PICK r \in Row : r = [rows[i] EXCEPT !.due = TRUE]
    BY <1>1 DEF Row
  <2>2. r.status = rows[i].status
    BY <1>1, <2>1 DEF Row
  <2>3. /\ rows' = [rows EXCEPT ![i] = r] /\ Live(i)
        /\ UNCHANGED <<entries, work, plan, syncs, failures, settled>>
    BY <1>1, <1>8, <2>1 DEF Elapse
  <2>4. QED
    BY <1>2, <2>2, <2>3
<1>9. QED
  BY <1>4, <1>5, <1>6, <1>7, <1>8

LEMMA DeleteFeedKeeps ==
    ASSUME IocInv, NEW i \in Rows, DeleteFeed(i)
    PROVE  IocInv'
<1>1. /\ rows \in [Rows -> Row] /\ rows[i] \in Row /\ Live(i) /\ rows[i].status = "live"
      /\ UNCHANGED <<work, plan, syncs, failures>>
  BY IocTypes DEF DeleteFeed, Live
<1>2. PICK r \in Row : r = [Absent EXCEPT !.status = "deleted", !.format = rows[i].format]
  BY <1>1, IocConstants DEF Row
<1>3. r.status = "deleted"
  BY <1>2, IocConstants DEF Row
<1>4. /\ rows' = [rows EXCEPT ![i] = r] /\ entries' = [entries EXCEPT ![i] = {}]
      /\ settled' = [settled EXCEPT ![i] = {{}}]
  BY <1>2 DEF DeleteFeed
<1>5. /\ rows' \in [Rows -> Row] /\ entries' \in [Rows -> SUBSET Indicators]
      /\ settled' \in [Rows -> SUBSET SUBSET Indicators]
      /\ rows'[i] = r /\ entries'[i] = {} /\ settled'[i] = {{}}
      /\ \A j \in Rows \ {i} : /\ rows'[j] = rows[j] /\ entries'[j] = entries[j]
                               /\ settled'[j] = settled[j]
  BY <1>4, IocTypes
<1>6. /\ \A j : Taken(j) => Taken(j)' /\ ~Live(i)'
      /\ \A j \in Rows \ {i} : Live(j)' <=> Live(j)
  BY <1>1, <1>3, <1>5 DEF Taken, Live
<1>7. IocTypeOK'
  BY <1>1, <1>5, IocTypes DEF IocTypeOK, IngestWork
<1>8. \A j \in plan' : Taken(j)'
  BY <1>1, <1>6 DEF IocInv
<1>9. \A j \in Rows : Holds(j)'
  BY <1>5, <1>6 DEF IocInv, Holds
<1>10. ASSUME NEW w \in Ingesters PROVE Carried(w, work[w])' /\ Stores(w)'
  <2>1. Carried(w, work[w]) /\ Stores(w)
    BY DEF IocInv
  <2>2. Carried(w, work[w])'
    BY <1>1, <1>6, <2>1 DEF Carried
  <2>3. work[w].pc = "insert" => work[w].row \in Rows
    BY <2>1 DEF Carried, Taken
  <2>4. \A j : Storing(j, w)' <=> Storing(j, w)
    BY <1>1 DEF Storing
  <2>5. Stores(w)'
    <3>1. CASE work[w].row = i
      <4>1. work' = work /\ ~Live(work[w].row)'
        BY <1>1, <1>3, <1>5, <3>1 DEF Live
      <4>2. work[w].pc = "insert" /\ work[w].alone => ~Storing(work[w].row, w)
        BY <2>1 DEF Stores
      <4>3. QED
        BY <2>4, <4>1, <4>2 DEF Stores
    <3>2. CASE work[w].row # i
      BY <1>1, <1>5, <1>6, <2>1, <2>3, <2>4, <3>2 DEF Stores
    <3>3. QED
      BY <3>1, <3>2
  <2>6. QED
    BY <2>2, <2>5
<1>11. QED
  BY <1>7, <1>8, <1>9, <1>10 DEF IocInv

\* The records that an ingester goes on with.
LEMMA AfterIs ==
    ASSUME NEW w
    PROVE  /\ After(w) \in IngestWork /\ After(w).pc \in {"idle", "next"}
           /\ After(w).left = {} /\ Carried(w, After(w)) /\ Carried(w, Idle)
<1>1. [Idle EXCEPT !.pc = "next"] \in IngestWork
  BY IocConstants DEF IngestWork
<1>2. [Idle EXCEPT !.pc = "next"].pc = "next" /\ [Idle EXCEPT !.pc = "next"].left = {}
  BY IocConstants DEF IngestWork
<1>3. After(w) \in IngestWork /\ After(w).pc \in {"idle", "next"} /\ After(w).left = {}
  BY <1>1, <1>2, IocConstants DEF After
<1>4. QED
  BY <1>3, IocConstants DEF Carried

LEMMA StartsKeep ==
    ASSUME IocInv, JobStart \/ JobNext \/ \E w \in Syncs, i \in Rows : SyncStart(w, i)
    PROVE  IocInv'
<1>1. /\ "job" \in Ingesters /\ plan \subseteq Rows /\ syncs \in 0..MaxSyncs /\ MaxSyncs \in Nat
      /\ failures \in 0..MaxFailures /\ \A i \in plan : Taken(i)
  BY IocTypes, IocConstants DEF IocInv
<1>2. PICK c \in IngestWork : c = [Idle EXCEPT !.pc = "next"]
  BY IocConstants DEF IngestWork
<1>3. c.pc = "next" /\ c.left = {} /\ c.items = {}
  BY <1>2, IocConstants DEF IngestWork
<1>4. Carried("job", c)
  BY <1>3 DEF Carried
<1>5. CASE JobStart
  <2>1. /\ work' = [work EXCEPT !["job"] = c] /\ plan' \subseteq Rows /\ \A i \in plan' : Taken(i)
        /\ UNCHANGED <<rows, entries, syncs, failures, settled>>
    BY <1>2, <1>5 DEF JobStart, Work, Taken, Live
  <2>2. QED
    BY <1>1, <1>3, <1>4, <2>1, SameRowsKept, WorkStep
<1>6. CASE JobNext
  <2>1. UNCHANGED <<rows, entries, syncs, failures, settled>>
    BY <1>6 DEF JobNext
  <2>2. CASE plan = {}
    <3>1. work' = [work EXCEPT !["job"] = Idle] /\ plan' = plan
      BY <1>6, <2>2 DEF JobNext, Work
    <3>2. QED
      BY <1>1, <2>1, <3>1, IocConstants, AfterIs, SameRowsKept, WorkStep
  <2>3. CASE plan # {}
    <3>1. PICK i \in plan : /\ plan' = plan \ {i}
                            /\ Work("job", [Idle EXCEPT !.pc = "fetch", !.asked = i, !.row = i])
      BY <1>6, <2>3 DEF JobNext
    <3>2. i \in Rows /\ i \in 0..MaxRows /\ Taken(i)
      BY <1>1, <3>1, IocConstants
    <3>3. PICK d \in IngestWork : d = [Idle EXCEPT !.pc = "fetch", !.asked = i, !.row = i]
      BY <3>2, IocConstants DEF IngestWork
    <3>4. d.pc = "fetch" /\ d.asked = i /\ d.row = i /\ d.left = {} /\ d.items = {}
      BY <3>3, IocConstants DEF IngestWork
    <3>5. work' = [work EXCEPT !["job"] = d]
      BY <3>1, <3>3 DEF Work
    <3>6. Carried("job", d)
      BY <3>2, <3>4 DEF Carried
    <3>7. plan' \subseteq Rows /\ \A j \in plan' : Taken(j)
      BY <1>1, <3>1
    <3>8. QED
      BY <1>1, <2>1, <3>4, <3>5, <3>6, <3>7, SameRowsKept, WorkStep
  <2>4. QED
    BY <2>2, <2>3
<1>7. ASSUME NEW w \in Syncs, NEW i \in Rows, SyncStart(w, i) PROVE IocInv'
  <2>1. /\ w \in Ingesters /\ w # "job" /\ i \in 0..MaxRows /\ syncs' \in 0..MaxSyncs
        /\ UNCHANGED <<rows, entries, plan, failures, settled>>
    <3>1. w \in Ingesters /\ w # "job"
      BY IocAssumption DEF Ingesters
    <3>2. syncs' \in 0..MaxSyncs
      <4>1. syncs < MaxSyncs /\ syncs' = syncs + 1
        BY <1>7 DEF SyncStart
      <4>2. QED
        BY <1>1, <4>1
    <3>3. QED
      BY <1>7, <3>1, <3>2, IocConstants DEF SyncStart
  <2>2. PICK d \in IngestWork : d = [Idle EXCEPT !.pc = "fetch", !.asked = i]
    BY <2>1, IocConstants DEF IngestWork
  <2>3. d.pc = "fetch" /\ d.asked = i /\ d.left = {} /\ d.items = {}
    BY <2>2, IocConstants DEF IngestWork
  <2>4. work' = [work EXCEPT ![w] = d]
    BY <1>7, <2>2 DEF SyncStart, Work
  <2>5. Carried(w, d)
    BY <2>1, <2>3 DEF Carried
  <2>6. QED
    BY <1>1, <2>1, <2>3, <2>4, <2>5, SameRowsKept, WorkStep
<1>8. QED
  BY <1>5, <1>6, <1>7

\* Parsers give nothing that the document did not list.
LEMMA ParsedItems ==
    ASSUME NEW doc \in Docs, NEW format
    PROVE  ParseFeedContent(doc, format).items \in SUBSET Indicators
<1>1. doc.items \in SUBSET Indicators
  BY DEF Docs
<1>2. CASE format \in {"txt", "csv"}
  BY <1>1, <1>2 DEF ParseFeedContent, ParseLines
<1>3. CASE format = "json"
  BY <1>1, <1>3 DEF ParseFeedContent, ParseJson
<1>4. CASE format = "xml"
  BY <1>1, <1>4 DEF ParseFeedContent, ParseXml
<1>5. CASE format \notin {"txt", "csv", "json", "xml"}
  BY <1>5 DEF ParseFeedContent
<1>6. QED
  BY <1>2, <1>3, <1>4, <1>5

LEMMA FetchKeeps ==
    ASSUME IocInv, NEW w \in Ingesters, NEW doc \in Docs, Fetch(w, doc)
    PROVE  IocInv'
<1>1. /\ work[w] \in IngestWork /\ work[w].pc = "fetch" /\ Carried(w, work[w])
      /\ UNCHANGED <<rows, entries, plan, syncs, settled>>
      /\ plan \subseteq Rows /\ syncs \in 0..MaxSyncs /\ \A i \in plan : Taken(i)
  BY Zenon, IocTypes DEF Fetch, IocInv
<1>2. failures' \in 0..MaxFailures
  <2>1. PICK n \in 0..1 : failures + n <= MaxFailures /\ failures' = failures + n
    <3>1. PICK n : n = IF doc.broken THEN 1 ELSE 0
      BY Zenon
    <3>2. failures + n <= MaxFailures /\ failures' = failures + n
      BY Zenon, <3>1 DEF Fetch
    <3>3. QED
      BY <3>1, <3>2
  <2>2. QED
    BY <2>1, IocTypes, IocConstants
<1>3. ASSUME NEW c \in IngestWork, c.pc # "insert", Carried(w, c), work' = [work EXCEPT ![w] = c]
      PROVE  IocInv'
  BY Zenon, <1>1, <1>2, <1>3, SameRowsKept, WorkStep
<1>4. PICK format : format = IF w # "job" /\ rows[work[w].asked].format = "null" THEN "txt"
                            ELSE rows[work[w].asked].format
  OBVIOUS
<1>5. PICK parsed : parsed = ParseFeedContent(doc, format)
  OBVIOUS
<1>6. parsed.items \in SUBSET Indicators
  BY <1>5, ParsedItems
<1>7. work' = [work EXCEPT ![w] =
                 CASE ~parsed.ok -> After(w)
                   [] parsed.ok /\ w # "job" /\ parsed.items = {}
                         -> [work[w] EXCEPT !.pc = "mark", !.doc = doc]
                   [] OTHER -> [work[w] EXCEPT !.pc = IF w = "job" THEN "clear" ELSE "find",
                                  !.doc = doc, !.items = parsed.items, !.left = parsed.items]]
  BY Zenon, <1>4, <1>5 DEF Fetch, Work
<1>8. CASE work' = [work EXCEPT ![w] = After(w)]
  BY <1>3, <1>8, AfterIs
<1>9. CASE work' = [work EXCEPT ![w] = [work[w] EXCEPT !.pc = "mark", !.doc = doc]]
  <2>1. PICK c \in IngestWork : c = [work[w] EXCEPT !.pc = "mark", !.doc = doc]
    BY <1>1 DEF IngestWork
  <2>2. c.pc = "mark" /\ c.asked = work[w].asked /\ c.left = work[w].left /\ c.items = work[w].items
    BY <1>1, <2>1 DEF IngestWork
  <2>3. Carried(w, c)
    BY <1>1, <2>2 DEF Carried
  <2>4. QED
    BY <1>3, <1>9, <2>1, <2>2, <2>3
<1>10. CASE work' = [work EXCEPT ![w] =
                       [work[w] EXCEPT !.pc = IF w = "job" THEN "clear" ELSE "find",
                          !.doc = doc, !.items = parsed.items, !.left = parsed.items]]
  <2>1. PICK pc \in {"clear", "find"} :
           pc = (IF w = "job" THEN "clear" ELSE "find") /\ (pc = "clear" => w = "job")
    OBVIOUS
  <2>2. PICK c \in IngestWork :
           c = [work[w] EXCEPT !.pc = pc, !.doc = doc, !.items = parsed.items, !.left = parsed.items]
    BY <1>1, <1>6 DEF IngestWork
  <2>3. /\ c.pc = pc /\ c.asked = work[w].asked /\ c.row = work[w].row
        /\ c.left = parsed.items /\ c.items = parsed.items
    BY <1>1, <2>2 DEF IngestWork
  <2>4. Carried(w, c)
    BY <1>1, <2>1, <2>3 DEF Carried
  <2>5. QED
    BY <1>3, <1>10, <2>1, <2>2, <2>3, <2>4
<1>11. QED
  <2>1. CASE ~parsed.ok
    BY <1>7, <1>8, <2>1
  <2>2. CASE parsed.ok /\ w # "job" /\ parsed.items = {}
    BY <1>7, <1>9, <2>2
  <2>3. CASE parsed.ok /\ ~(w # "job" /\ parsed.items = {})
    BY Zenon, <1>7, <1>10, <2>3
  <2>4. QED
    BY <2>1, <2>2, <2>3

LEMMA FindKeeps ==
    ASSUME IocInv, NEW w \in Ingesters, Find(w)
    PROVE  IocInv'
<1>1. /\ work[w] \in IngestWork /\ work[w].pc = "find" /\ Carried(w, work[w])
      /\ UNCHANGED <<rows, entries, plan, syncs, failures, settled>>
      /\ plan \subseteq Rows /\ syncs \in 0..MaxSyncs /\ failures \in 0..MaxFailures
      /\ \A i \in plan : Taken(i)
  BY IocTypes DEF Find, IocInv
<1>2. CASE \E i \in Rows : Live(i)
  <2>1. PICK i \in Rows : Live(i) /\ Work(w, [work[w] EXCEPT !.pc = "clear", !.row = i])
    BY <1>2 DEF Find
  <2>2. Taken(i) /\ i \in 0..MaxRows
    BY <2>1, IocConstants DEF Taken, Live
  <2>3. PICK c \in IngestWork : c = [work[w] EXCEPT !.pc = "clear", !.row = i]
    BY <1>1, <2>2 DEF IngestWork
  <2>4. /\ c.pc = "clear" /\ c.asked = work[w].asked /\ c.row = i
        /\ c.left = work[w].left /\ c.items = work[w].items
    BY <1>1, <2>3 DEF IngestWork
  <2>5. Carried(w, c)
    BY <1>1, <2>2, <2>4 DEF Carried
  <2>6. QED
    BY <1>1, <2>1, <2>3, <2>4, <2>5, SameRowsKept, WorkStep DEF Work
<1>3. CASE ~\E i \in Rows : Live(i)
  <2>1. PICK c \in IngestWork : c = [work[w] EXCEPT !.pc = "create"]
    BY <1>1 DEF IngestWork
  <2>2. /\ c.pc = "create" /\ c.asked = work[w].asked
        /\ c.left = work[w].left /\ c.items = work[w].items
    BY <1>1, <2>1 DEF IngestWork
  <2>3. Carried(w, c)
    BY <1>1, <2>2 DEF Carried
  <2>4. work' = [work EXCEPT ![w] = c]
    BY <1>3, <2>1 DEF Find, Work
  <2>5. QED
    BY <1>1, <2>2, <2>3, <2>4, SameRowsKept, WorkStep
<1>4. QED
  BY <1>2, <1>3

LEMMA MarkKeeps ==
    ASSUME IocInv, NEW w \in Ingesters, Mark(w)
    PROVE  IocInv'
<1>1. /\ UNCHANGED <<entries, plan, syncs, failures, settled>> /\ work' = [work EXCEPT ![w] = After(w)]
      /\ plan \subseteq Rows /\ syncs \in 0..MaxSyncs /\ failures \in 0..MaxFailures
      /\ \A i \in plan : Taken(i)
  BY IocTypes DEF Mark, Work, IocInv
<1>2. RowsKept
  <2>1. CASE Live(work[w].asked)
    <3>1. PICK i \in Rows : i = work[w].asked
      BY <2>1 DEF Live
    <3>2. rows[i] \in Row
      BY IocTypes
    <3>3. PICK r \in Row : r = [rows[i] EXCEPT !.due = FALSE]
      BY <3>2 DEF Row
    <3>4. r.status = rows[i].status /\ rows[i].status = "live"
      BY <2>1, <3>1, <3>2, <3>3 DEF Row, Live
    <3>5. rows' = [rows EXCEPT ![i] = r]
      BY <2>1, <3>1, <3>3, IocTypes DEF Mark
    <3>6. QED
      BY <3>4, <3>5, OneRowKept
  <2>2. CASE ~Live(work[w].asked)
    BY <2>2, SameRowsKept DEF Mark
  <2>3. QED
    BY <2>1, <2>2
<1>3. QED
  BY <1>1, <1>2, AfterIs, WorkStep

LEMMA FailKeeps ==
    ASSUME IocInv, NEW w \in Ingesters, Fail(w)
    PROVE  IocInv'
<1>1. /\ UNCHANGED <<rows, entries, syncs, settled>>
      /\ plan \subseteq Rows /\ syncs \in 0..MaxSyncs /\ \A i \in plan : Taken(i)
      /\ plan' \subseteq plan
  BY IocTypes DEF Fail, IocInv
<1>2. failures' \in 0..MaxFailures
  BY IocTypes, IocConstants DEF Fail
<1>3. work' = [work EXCEPT ![w] = After(w)] \/ work' = [work EXCEPT ![w] = Idle]
  BY DEF Fail, Work
<1>4. QED
  BY <1>1, <1>2, <1>3, AfterIs, IocConstants, SameRowsKept, WorkStep

LEMMA CreateKeeps ==
    ASSUME IocInv, NEW w \in Ingesters, Create(w)
    PROVE  IocInv'
<1>1. /\ work[w] \in IngestWork /\ work[w].pc = "create" /\ Carried(w, work[w])
      /\ rows \in [Rows -> Row] /\ UNCHANGED <<entries, plan, syncs, failures>>
      /\ plan \subseteq Rows /\ syncs \in 0..MaxSyncs /\ failures \in 0..MaxFailures
      /\ \A i \in plan : Taken(i)
  BY IocTypes DEF Create, IocInv
<1>2. CASE Work(w, Idle) /\ UNCHANGED <<rows, settled>>
  BY <1>1, <1>2, AfterIs, IocConstants, SameRowsKept, WorkStep DEF Work
<1>3. ASSUME NEW i \in Rows, Fresh(i),
             rows' = [rows EXCEPT ![i] = [Absent EXCEPT !.status = "live", !.active = TRUE,
                            !.enabled = TRUE, !.due = TRUE,
                            !.format = IF rows[work[w].asked].format = "null" THEN "txt"
                                       ELSE rows[work[w].asked].format]],
             settled' = [settled EXCEPT ![i] = {}],
             Work(w, [work[w] EXCEPT !.pc = "insert", !.row = i])
      PROVE  IocInv'
  <2>1. /\ rows[i].status = "absent" /\ ~Live(i) /\ entries[i] = {} /\ i \in 0..MaxRows
        /\ work[w].left = work[w].items /\ work[w].asked \in Rows
    BY <1>1, <1>3, IocConstants DEF IocInv, Fresh, Live, Holds, Carried
  <2>2. PICK format \in Formats \cup {"null", "txt"} :
           format = IF rows[work[w].asked].format = "null" THEN "txt"
                    ELSE rows[work[w].asked].format
    BY <1>1, <2>1 DEF Row
  <2>3. PICK r \in Row : r = [Absent EXCEPT !.status = "live", !.active = TRUE, !.enabled = TRUE,
                                          !.due = TRUE, !.format = format]
    BY IocConstants DEF Row
  <2>4. r.status = "live"
    BY <2>3, IocConstants DEF Row
  <2>5. rows' = [rows EXCEPT ![i] = r]
    BY <1>3, <2>2, <2>3
  <2>6. RowsKept
    BY <2>1, <2>4, <2>5, OneRowKept
  <2>7. PICK c \in IngestWork : c = [work[w] EXCEPT !.pc = "insert", !.row = i]
    BY <1>1, <2>1 DEF IngestWork
  <2>8. /\ c.pc = "insert" /\ c.row = i /\ c.asked = work[w].asked
        /\ c.left = work[w].left /\ c.items = work[w].items
    BY <1>1, <2>7 DEF IngestWork
  <2>9. /\ work' \in [Ingesters -> IngestWork] /\ work'[w] = c
        /\ \A v \in Ingesters \ {w} : work'[v] = work[v]
    BY <1>3, <2>7, IocTypes DEF Work
  <2>10. /\ rows' \in [Rows -> Row] /\ rows'[i] = r /\ \A j \in Rows \ {i} : rows'[j] = rows[j]
    BY <1>1, <2>5
  <2>11. /\ settled' \in [Rows -> SUBSET SUBSET Indicators] /\ settled'[i] = {}
         /\ \A j \in Rows \ {i} : settled'[j] = settled[j]
    BY <1>3, IocTypes
  <2>12. IocTypeOK'
    BY <1>1, <2>9, <2>10, <2>11, IocTypes DEF IocTypeOK, IngestWork
  <2>13. \A j \in plan' : Taken(j)'
    BY <1>1, <2>6, KeptRows
  <2>14. \A j \in Rows : Holds(j)'
    <3>1. \A j \in Rows : Live(j) => Live(j)'
      BY <2>6, KeptRows
    <3>2. \A j \in Rows : Holds(j)
      BY DEF IocInv
    <3>3. QED
      BY <1>1, <2>1, <2>11, <3>1, <3>2 DEF Holds
  <2>15. ASSUME NEW v \in Ingesters \ {w} PROVE Carried(v, work[v])' /\ Stores(v)'
    <3>1. work'[v] = work[v] /\ Carried(v, work[v]) /\ Stores(v)
      BY <2>9 DEF IocInv
    <3>2. Carried(v, work[v])'
      BY <2>6, <3>1, KeptRows DEF Carried
    <3>3. CASE work[v].pc = "insert"
      <4>1. work[v].row # i /\ work[v].row \in Rows
        BY <2>1, <3>1, <3>3 DEF Carried, Taken
      <4>2. Storing(work[v].row, v)' => Storing(work[v].row, v)
        BY <2>8, <2>9, <4>1 DEF Storing
      <4>3. Live(work[v].row)' <=> Live(work[v].row)
        BY <2>10, <3>1, <4>1 DEF Live
      <4>4. QED
        BY <1>1, <2>11, <3>1, <3>2, <4>1, <4>2, <4>3 DEF Stores
    <3>4. QED
      BY <3>1, <3>2, <3>3 DEF Stores
  <2>16. Carried(w, work[w])'
    <3>1. Taken(i)'
      BY <2>4, <2>10 DEF Taken
    <3>2. QED
      BY <1>1, <2>1, <2>8, <2>9, <3>1 DEF Carried
  <2>17. Stores(w)'
    <3>1. ~Storing(i, w)'
      <4>1. \A v \in Ingesters \ {w} : work[v].pc = "insert" => work[v].row # i
        BY <2>1 DEF IocInv, Carried, Taken
      <4>2. QED
        BY <2>9, <4>1 DEF Storing
    <3>2. entries'[i] = c.items \ c.left
      BY <1>1, <2>1, <2>8
    <3>3. QED
      BY <2>8, <2>9, <2>11, <3>1, <3>2 DEF Stores
  <2>18. QED
    BY <2>12, <2>13, <2>14, <2>15, <2>16, <2>17 DEF IocInv
<1>4. QED
  BY <1>2, <1>3 DEF Create

LEMMA ClearKeeps ==
    ASSUME IocInv, NEW w \in Ingesters, Clear(w)
    PROVE  IocInv'
<1>1. /\ work[w] \in IngestWork /\ work[w].pc = "clear" /\ Carried(w, work[w])
      /\ UNCHANGED <<rows, plan, syncs, failures>>
  BY IocTypes DEF Clear, IocInv
<1>2. PICK i \in Rows : i = work[w].row
  BY <1>1 DEF Carried, Taken
<1>3. entries' = [entries EXCEPT ![i] = {}] /\ settled' = [settled EXCEPT ![i] = {}]
  BY <1>2 DEF Clear
<1>4. /\ entries' \in [Rows -> SUBSET Indicators] /\ entries'[i] = {}
      /\ settled' \in [Rows -> SUBSET SUBSET Indicators] /\ settled'[i] = {}
      /\ \A j \in Rows \ {i} : entries'[j] = entries[j] /\ settled'[j] = settled[j]
  BY <1>3, IocTypes
<1>5. PICK first \in BOOLEAN : first = ~Storing(i, w)
  OBVIOUS
<1>6. /\ work'[w] \in IngestWork /\ work'[w].pc = "insert" /\ work'[w].row = i
      /\ work'[w].asked = work[w].asked /\ work'[w].left = work[w].left
      /\ work'[w].items = work[w].items /\ work'[w].alone = first
  <2>1. PICK u \in IngestWork : u = work[w]
    BY <1>1
  <2>2. work'[w] = [u EXCEPT !.pc = "insert", !.alone = first]
    BY <1>2, <1>5, <2>1 DEF Clear
  <2>3. work'[w] \in IngestWork
    BY <2>2 DEF IngestWork
  <2>4. /\ work'[w].pc = "insert" /\ work'[w].row = u.row /\ work'[w].asked = u.asked
        /\ work'[w].left = u.left /\ work'[w].items = u.items /\ work'[w].alone = first
    BY <2>2 DEF IngestWork
  <2>5. QED
    BY <1>2, <2>1, <2>3, <2>4
<1>7. ASSUME NEW v \in Ingesters \ {w}
      PROVE  /\ work'[v] \in IngestWork /\ work'[v].pc = work[v].pc /\ work'[v].row = work[v].row
             /\ work'[v].asked = work[v].asked /\ work'[v].left = work[v].left
             /\ work'[v].items = work[v].items
             /\ IF work[v].row = i /\ work[v].pc = "insert" THEN ~work'[v].alone
                ELSE work'[v] = work[v]
  <2>1. PICK u \in IngestWork : u = work[v]
    BY IocTypes
  <2>2. CASE u.row = i /\ u.pc = "insert"
    <3>1. work'[v] = [u EXCEPT !.alone = FALSE]
      BY <1>2, <2>1, <2>2 DEF Clear
    <3>2. work'[v] \in IngestWork
      BY <3>1 DEF IngestWork
    <3>3. /\ work'[v].pc = u.pc /\ work'[v].row = u.row /\ work'[v].asked = u.asked
          /\ work'[v].left = u.left /\ work'[v].items = u.items /\ ~work'[v].alone
      BY <3>1 DEF IngestWork
    <3>4. QED
      BY <2>1, <2>2, <3>2, <3>3
  <2>3. CASE ~(u.row = i /\ u.pc = "insert")
    <3>1. work'[v] = work[v]
      BY <1>2, <2>1, <2>3 DEF Clear
    <3>2. QED
      BY <2>1, <2>3, <3>1
  <2>4. QED
    BY <2>2, <2>3
<1>8. work' \in [Ingesters -> IngestWork]
  <2>1. work' = [v \in Ingesters |-> work'[v]]
    BY DEF Clear
  <2>2. QED
    BY <1>6, <1>7, <2>1
<1>9. IocTypeOK'
  BY <1>1, <1>4, <1>8, IocTypes DEF IocTypeOK, IngestWork
<1>10. \A j : (Taken(j)' <=> Taken(j)) /\ (Live(j)' <=> Live(j))
  BY <1>1 DEF Taken, Live
<1>11. \A j \in plan' : Taken(j)'
  BY <1>1, <1>10 DEF IocInv
<1>12. \A j \in Rows : Holds(j)'
  BY <1>4, <1>10 DEF IocInv, Holds
<1>13. \A v \in Ingesters : Carried(v, work[v])'
  <2>1. Carried(w, work[w])'
    BY <1>1, <1>2, <1>6, <1>10 DEF Carried
  <2>2. \A v \in Ingesters \ {w} : Carried(v, work[v])'
    BY <1>7, <1>10 DEF IocInv, Carried
  <2>3. QED
    BY <2>1, <2>2
<1>14. Stores(w)'
  <2>1. Storing(i, w)' <=> Storing(i, w)
    BY <1>7 DEF Storing
  <2>2. entries'[i] = work'[w].items \ work'[w].left
    BY <1>1, <1>4, <1>6 DEF Carried
  <2>3. QED
    BY <1>4, <1>5, <1>6, <2>1, <2>2 DEF Stores
<1>15. ASSUME NEW v \in Ingesters \ {w} PROVE Stores(v)'
  <2>1. CASE work[v].pc = "insert" /\ work[v].row = i
    BY <1>4, <1>7, <2>1 DEF Stores
  <2>2. CASE work[v].pc = "insert" /\ work[v].row # i
    <3>1. work'[v] = work[v] /\ Stores(v) /\ work[v].row \in Rows
      BY <1>7, <2>2 DEF IocInv, Carried, Taken
    <3>2. Storing(work[v].row, v)' => Storing(work[v].row, v)
      BY <1>6, <1>7, <2>2, <3>1 DEF Storing
    <3>3. Live(work[v].row)' <=> Live(work[v].row)
      BY <1>10, <3>1
    <3>4. QED
      BY <1>4, <2>2, <3>1, <3>2, <3>3 DEF Stores
  <2>3. CASE work[v].pc # "insert"
    BY <1>7, <2>3 DEF Stores
  <2>4. QED
    BY <2>1, <2>2, <2>3
<1>16. QED
  BY <1>9, <1>11, <1>12, <1>13, <1>14, <1>15 DEF IocInv

LEMMA InsertKeeps ==
    ASSUME IocInv, NEW w \in Ingesters, Insert(w)
    PROVE  IocInv'
<1>1. /\ work[w] \in IngestWork /\ work[w].pc = "insert" /\ Carried(w, work[w]) /\ Stores(w)
      /\ UNCHANGED <<rows, plan, syncs, failures>>
      /\ plan \subseteq Rows /\ syncs \in 0..MaxSyncs /\ failures \in 0..MaxFailures
      /\ \A i \in plan : Taken(i)
  BY IocTypes DEF Insert, IocInv
<1>2. PICK i \in Rows : i = work[w].row
  BY <1>1 DEF Carried, Taken
<1>3. \A j : (Taken(j)' <=> Taken(j)) /\ (Live(j)' <=> Live(j))
  BY <1>1 DEF Taken, Live
<1>4. \A j \in plan' : Taken(j)'
  BY <1>1, <1>3
<1>5. ASSUME NEW v \in Ingesters, v # w, work[v].pc = "insert", work[v].row = i
      PROVE  ~work[v].alone /\ ~work[w].alone
  <2>1. Storing(i, v) /\ Storing(i, w)
    BY <1>1, <1>2, <1>5 DEF Storing
  <2>2. QED
    BY <1>1, <1>2, <1>5, <2>1 DEF IocInv, Stores
<1>6. ASSUME work[w].left = {}, Work(w, [work[w] EXCEPT !.pc = "mark"]),
             settled' = [settled EXCEPT ![i] = IF Live(i) /\ work[w].alone THEN {work[w].items}
                                               ELSE IF Live(i) THEN {} ELSE {{}}],
             UNCHANGED entries
      PROVE  IocInv'
  <2>1. PICK c \in IngestWork : c = [work[w] EXCEPT !.pc = "mark"]
    BY <1>1 DEF IngestWork
  <2>2. c.pc = "mark" /\ c.asked = work[w].asked /\ c.left = work[w].left /\ c.items = work[w].items
    BY <1>1, <2>1 DEF IngestWork
  <2>3. /\ work' \in [Ingesters -> IngestWork] /\ work'[w] = c
        /\ \A v \in Ingesters \ {w} : work'[v] = work[v]
    BY <1>6, <2>1, IocTypes DEF Work
  <2>4. PICK d \in SUBSET SUBSET Indicators :
           d = IF Live(i) /\ work[w].alone THEN {work[w].items} ELSE IF Live(i) THEN {} ELSE {{}}
    BY <1>1 DEF IngestWork
  <2>5. /\ settled' \in [Rows -> SUBSET SUBSET Indicators] /\ settled'[i] = d
        /\ \A j \in Rows \ {i} : settled'[j] = settled[j]
    BY <1>6, <2>4, IocTypes
  <2>6. d \subseteq {entries[i]} /\ (Live(i) /\ ~work[w].alone => d = {})
    <3>1. CASE Live(i) /\ work[w].alone
      BY <1>1, <1>2, <1>6, <2>4, <3>1 DEF Stores
    <3>2. CASE Live(i) /\ ~work[w].alone
      BY <2>4, <3>2
    <3>3. CASE ~Live(i)
      BY <2>4, <3>3 DEF IocInv, Holds
    <3>4. QED
      BY <3>1, <3>2, <3>3
  <2>7. IocTypeOK'
    BY <1>1, <1>6, <2>3, <2>5, IocTypes DEF IocTypeOK, IngestWork
  <2>8. \A j \in Rows : Holds(j)'
    BY <1>3, <1>6, <2>5, <2>6 DEF IocInv, Holds
  <2>9. \A v \in Ingesters : Carried(v, work[v])'
    <3>1. Carried(w, work[w])'
      BY <1>1, <2>2, <2>3 DEF Carried
    <3>2. \A v \in Ingesters \ {w} : Carried(v, work[v])'
      BY <1>3, <2>3 DEF IocInv, Carried
    <3>3. QED
      BY <3>1, <3>2
  <2>10. ASSUME NEW v \in Ingesters PROVE Stores(v)'
    <3>1. CASE v = w
      BY <2>2, <2>3, <3>1 DEF Stores
    <3>2. CASE v # w /\ work[v].pc = "insert"
      <4>1. work'[v] = work[v] /\ Stores(v) /\ work[v].row \in Rows
        BY <2>3, <3>2 DEF IocInv, Carried, Taken
      <4>2. Storing(work[v].row, v)' => Storing(work[v].row, v)
        BY <2>2, <2>3, <4>1 DEF Storing
      <4>3. Live(work[v].row)' <=> Live(work[v].row)
        BY <1>3, <4>1
      <4>4. Live(work[v].row) => settled'[work[v].row] = {}
        <5>1. CASE work[v].row = i
          BY <1>5, <2>5, <2>6, <3>2, <5>1
        <5>2. CASE work[v].row # i
          BY <2>5, <3>2, <4>1, <5>2 DEF Stores
        <5>3. QED
          BY <5>1, <5>2
      <4>5. QED
        BY <1>6, <3>2, <4>1, <4>2, <4>3, <4>4 DEF Stores
    <3>3. CASE v # w /\ work[v].pc # "insert"
      BY <2>3, <3>3 DEF Stores
    <3>4. QED
      BY <3>1, <3>2, <3>3
  <2>11. QED
    BY <1>4, <2>7, <2>8, <2>9, <2>10 DEF IocInv
<1>7. CASE Work(w, After(w)) /\ UNCHANGED <<entries, settled>>
  BY <1>1, <1>7, AfterIs, SameRowsKept, WorkStep DEF Work
<1>8. ASSUME NEW x \in work[w].left, Live(i), entries' = [entries EXCEPT ![i] = @ \cup {x}],
             Work(w, [work[w] EXCEPT !.left = @ \ {x}]), UNCHANGED settled
      PROVE  IocInv'
  <2>1. PICK c \in IngestWork : c = [work[w] EXCEPT !.left = work[w].left \ {x}]
    BY <1>1 DEF IngestWork
  <2>2. /\ c.pc = "insert" /\ c.asked = work[w].asked /\ c.row = i /\ c.left = work[w].left \ {x}
        /\ c.items = work[w].items /\ c.alone = work[w].alone
    BY <1>1, <1>2, <2>1 DEF IngestWork
  <2>3. work' = [work EXCEPT ![w] = c]
    BY <1>8, <2>1, IocTypes DEF Work
  <2>4. /\ work' \in [Ingesters -> IngestWork] /\ work'[w] = c
        /\ \A v \in Ingesters \ {w} : work'[v] = work[v]
    BY <2>3, IocTypes
  <2>5. x \in Indicators /\ x \in work[w].items /\ work[w].left \subseteq work[w].items
    BY <1>1, <1>8 DEF IngestWork, Carried
  <2>6. /\ entries' \in [Rows -> SUBSET Indicators] /\ entries'[i] = entries[i] \cup {x}
        /\ \A j \in Rows \ {i} : entries'[j] = entries[j]
    BY <1>8, <2>5, IocTypes
  <2>7. settled[i] = {}
    BY <1>1, <1>2, <1>8 DEF Stores
  <2>8. IocTypeOK'
    BY <1>1, <1>8, <2>4, <2>6, IocTypes DEF IocTypeOK, IngestWork
  <2>9. \A j \in Rows : Holds(j)'
    BY <1>3, <1>8, <2>6, <2>7 DEF IocInv, Holds
  <2>10. \A v \in Ingesters : Carried(v, work[v])'
    <3>1. Carried(w, work[w])'
      BY <1>1, <1>2, <1>3, <2>2, <2>4 DEF Carried
    <3>2. \A v \in Ingesters \ {w} : Carried(v, work[v])'
      BY <1>3, <2>4 DEF IocInv, Carried
    <3>3. QED
      BY <3>1, <3>2
  <2>11. \A v \in Ingesters : \A j : Storing(j, v)' => Storing(j, v)
    BY <1>1, <1>2, <2>2, <2>4 DEF Storing
  <2>12. Stores(w)'
    <3>1. c.alone => ~Storing(i, w)' /\ entries'[i] = c.items \ c.left
      BY <1>1, <1>2, <1>8, <2>2, <2>5, <2>6, <2>11 DEF Stores
    <3>2. QED
      BY <1>8, <2>2, <2>4, <2>7, <3>1 DEF Stores
  <2>13. ASSUME NEW v \in Ingesters \ {w} PROVE Stores(v)'
    <3>1. work'[v] = work[v] /\ Stores(v)
      BY <2>4 DEF IocInv
    <3>2. CASE work[v].pc = "insert" /\ work[v].row = i
      BY <1>5, <1>8, <2>7, <3>1, <3>2 DEF Stores
    <3>3. CASE work[v].pc = "insert" /\ work[v].row # i
      <4>1. work[v].row \in Rows
        BY <3>3 DEF IocInv, Carried, Taken
      <4>2. Storing(work[v].row, v)' => Storing(work[v].row, v)
        BY <2>11, <3>1
      <4>3. Live(work[v].row)' <=> Live(work[v].row)
        BY <1>3, <3>1
      <4>4. QED
        BY <1>8, <2>6, <3>1, <3>3, <4>1, <4>2, <4>3 DEF Stores
    <3>4. CASE work[v].pc # "insert"
      BY <3>1, <3>4 DEF Stores
    <3>5. QED
      BY <3>2, <3>3, <3>4
  <2>14. QED
    BY <1>4, <2>8, <2>9, <2>10, <2>12, <2>13 DEF IocInv
<1>9. QED
  BY <1>2, <1>6, <1>7, <1>8 DEF Insert

LEMMA IocInvNext == IocInv /\ [IocNext]_iocVars => IocInv'
<1> SUFFICES ASSUME IocInv, [IocNext]_iocVars PROVE IocInv'
  OBVIOUS
<1>1. ASSUME UNCHANGED iocVars PROVE IocInv'
  BY <1>1, SameRowsKept, RowsStep DEF iocVars
<1>2. ASSUME NEW w \in Ingesters, Ingest(w) PROVE IocInv'
  BY <1>2, FetchKeeps, FindKeeps, CreateKeeps, ClearKeeps, InsertKeeps, MarkKeeps DEF Ingest
<1>3. QED
  BY <1>1, <1>2, AdminKeeps, DeleteFeedKeeps, StartsKeep, FailKeeps DEF IocNext

\* get_active_ioc_feeds, the refresh job, the sync route and administration:
\* with any number of workers, feeds and indicators, and whatever failed or was
\* deleted before, a feed whose last ingestion ran to its end and overlapped no
\* other is exported with exactly the entries of that one document.
THEOREM ExportIsOneDocument == IocSpec => []ExportedFeedIsOneDocument
<1>1. ASSUME IocInv PROVE ExportedFeedIsOneDocument
  BY <1>1 DEF IocInv, Holds, ExportedFeedIsOneDocument, ActiveIocFeeds
<1>2. QED
  BY <1>1, IocInvInit, IocInvNext, PTL DEF IocSpec

\* Feeds, entries and ingesters keep their types.
THEOREM IocTypeCorrect == IocSpec => []IocTypeOK
<1>1. IocInv => IocTypeOK
  BY DEF IocInv
<1>2. QED
  BY <1>1, IocInvInit, IocInvNext, PTL DEF IocSpec

-----------------------------------------------------------------------------
(* The export of zones. *)

\* A zone whose records are still to be read was changed, or is as it was listed
\* and what it holds has been noted.
ExportInv ==
    /\ ExportTypeOK
    /\ \A row \in unread : row[1] \in edited \/ (row \in zoneTable /\ RecordsOf(row) \subseteq together)
    /\ ExportedRecordsCoexist

LEMMA RecordsTyped ==
    ASSUME recordTable \subseteq RecordRow
    PROVE  /\ \A row \in ZoneIds \X Policies : RecordsOf(row) \subseteq Triple
           /\ zoneTable \subseteq ZoneIds \X Policies => Standing \subseteq Triple
  BY DEF RecordsOf, Standing, RecordRow, Triple

\* An administrator's step keeps the invariant when it notes the zones whose rows
\* it takes out of the table.
LEMMA NoteKeeps ==
    ASSUME ExportInv, NEW Z \in SUBSET ZoneIds, Note(Z),
           zoneTable' \subseteq ZoneIds \X Policies, recordTable' \subseteq RecordRow,
           UNCHANGED <<cascades, unread>>,
           \A row \in zoneTable : row[1] \notin Z => row \in zoneTable'
    PROVE  ExportInv'
<1>1. Standing' \subseteq Triple
  BY DEF RecordsOf, Standing, RecordRow, Triple
<1>2. ExportTypeOK'
  BY <1>1 DEF Note, ExportInv, ExportTypeOK
<1>3. ASSUME NEW row \in unread', row[1] \notin edited'
      PROVE  row \in zoneTable' /\ (RecordsOf(row) \subseteq together)'
  <2>1. row \in unread /\ row[1] \in Waiting /\ row[1] \in Waiting'
    BY DEF Waiting
  <2>2. row[1] \notin Z /\ row[1] \notin edited
    BY <1>3, <2>1 DEF Note
  <2>3. row \in zoneTable'
    BY <2>1, <2>2 DEF ExportInv
  <2>4. RecordsOf(row)' \subseteq Standing'
    BY <2>1, <2>3 DEF Standing
  <2>5. QED
    BY <2>3, <2>4 DEF Note
<1>4. ExportedRecordsCoexist'
  BY DEF Note, ExportedRecordsCoexist
<1>5. QED
  BY <1>2, <1>3, <1>4 DEF ExportInv

LEMMA ZoneEditsKeep ==
    ASSUME ExportInv, NEW z \in ZoneIds,
           DeleteZone(z) \/ \E v \in Policies : CreateZone(z, v) \/ UpdateZone(z, v)
    PROVE  ExportInv'
<1>1. Note({z}) /\ UNCHANGED <<cascades, unread>>
  BY DEF DeleteZone, CreateZone, UpdateZone
<1>2. zoneTable' \subseteq ZoneIds \X Policies /\ recordTable' \subseteq RecordRow
  BY DEF DeleteZone, CreateZone, UpdateZone, ExportInv, ExportTypeOK
<1>3. \A row \in zoneTable : row[1] \notin {z} => row \in zoneTable'
  BY DEF DeleteZone, CreateZone, UpdateZone
<1>4. QED
  BY <1>1, <1>2, <1>3, NoteKeeps

LEMMA RecordEditsKeep ==
    ASSUME ExportInv,
           \/ \E i \in RecordIds, z \in ZoneIds, x \in RecordData : CreateRecord(i, z, x)
           \/ \E r \in recordTable : DeleteRecord(r) \/ \E x \in RecordData : UpdateRecord(r, x)
    PROVE  ExportInv'
<1>1. Note({}) /\ UNCHANGED <<cascades, zoneTable, unread>>
  BY DEF CreateRecord, DeleteRecord, UpdateRecord
<1>2. recordTable' \subseteq RecordRow
  BY DEF CreateRecord, DeleteRecord, UpdateRecord, ExportInv, ExportTypeOK, RecordRow
<1>3. QED
  BY <1>1, <1>2, NoteKeeps DEF ExportInv, ExportTypeOK

LEMMA ListZonesKeeps == ExportInv /\ ListZones => ExportInv'
<1> SUFFICES ASSUME ExportInv, ListZones PROVE ExportInv'
  OBVIOUS
<1>1. Standing' \subseteq Triple
  BY DEF ExportInv, ExportTypeOK, ListZones, RecordsOf, Standing, RecordRow, Triple
<1>2. ExportTypeOK'
  BY <1>1 DEF ExportInv, ExportTypeOK, ListZones
<1>3. ASSUME NEW row \in unread' PROVE row \in zoneTable' /\ RecordsOf(row)' \subseteq Standing'
  BY DEF ListZones, Standing, Waiting
<1>4. QED
  BY <1>2, <1>3 DEF ExportInv, ListZones, ExportedRecordsCoexist

\* A zone that was not changed since it was listed is still in the table, and its
\* records have been noted with the listed visibility.
LEMMA ReadRecordsKeeps ==
    ASSUME ExportInv, NEW row \in unread, ReadRecords(row)
    PROVE  ExportInv'
<1>1. UNCHANGED <<cascades, zoneTable, recordTable, edited, together>>
  BY DEF ReadRecords
<1>2. row \in ZoneIds \X Policies /\ recordTable \subseteq RecordRow
  BY DEF ExportInv, ExportTypeOK
<1>3. ExportTypeOK'
  BY <1>1, <1>2, RecordsTyped DEF ExportInv, ExportTypeOK, ReadRecords
<1>4. ASSUME NEW e \in RecordsOf(row) PROVE e[1] \in edited \/ e \in together
  BY <1>4 DEF ExportInv, RecordsOf
<1>5. ExportedRecordsCoexist'
  BY <1>1, <1>4 DEF ExportedRecordsCoexist, ReadRecords
<1>6. \A r \in unread : RecordsOf(r)' = RecordsOf(r)
  BY <1>1 DEF RecordsOf
<1>7. QED
  BY <1>1, <1>3, <1>5, <1>6 DEF ExportInv, ReadRecords

LEMMA ExportInvNext == ExportInv /\ [ExportNext]_exportVars => ExportInv'
<1> SUFFICES ASSUME ExportInv, [ExportNext]_exportVars PROVE ExportInv'
  OBVIOUS
<1>1. CASE UNCHANGED exportVars
  BY <1>1 DEF exportVars, ExportInv, ExportTypeOK, RecordsOf, ExportedRecordsCoexist
<1>2. CASE ExportNext
  BY <1>2, ZoneEditsKeep, RecordEditsKeep, ListZonesKeeps, ReadRecordsKeeps DEF ExportNext
<1>3. QED
  BY <1>1, <1>2

\* get_all_zones: for any zones, records and interleaving of administrators'
\* statements with those of the export, a record leaves the Manager under a
\* visibility its zone had while it held the record, unless the zone itself was
\* changed between the two reads.
THEOREM ExportedTogether == ExportSpec => []ExportedRecordsCoexist
<1>1. ExportInit => ExportInv
  BY DEF ExportInit, ExportInv, ExportTypeOK, ExportedRecordsCoexist
<1>2. ExportInv => ExportedRecordsCoexist
  BY DEF ExportInv
<1>3. QED
  BY <1>1, <1>2, ExportInvNext, PTL DEF ExportSpec

\* The tables and the export keep their types.
THEOREM ExportTypeCorrect == ExportSpec => []ExportTypeOK
<1>1. ExportInit => ExportInv
  BY DEF ExportInit, ExportInv, ExportTypeOK, ExportedRecordsCoexist
<1>2. ExportInv => ExportTypeOK
  BY DEF ExportInv
<1>3. QED
  BY <1>1, <1>2, ExportInvNext, PTL DEF ExportSpec
=============================================================================
