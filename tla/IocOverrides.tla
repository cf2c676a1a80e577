---------------------------- MODULE IocOverrides ----------------------------
(***************************************************************************)
(* Per-token overrides of the threat feeds and the verdict of check_domain *)
(* and check_ip, in the IOCManager instances of the Manager's workers.     *)
(*   services/ioc_ingestion_service.py                                     *)
(*                                                                         *)
(* The override table is shared; each instance answers from its own memory,*)
(* loaded when it writes an override or rebuilds. The methods of one       *)
(* instance do not interleave, but the statements of two instances do, and *)
(* the table has no UNIQUE key.                                            *)
(*                                                                         *)
(* An indicator is a name (its labels, most specific first), with or       *)
(* without a leading "*."; an address has one label and no wildcard, and a *)
(* CIDR block is a wildcard, which check_ip reads like check_domain.       *)
(***************************************************************************)
EXTENDS Integers, Sequences

CONSTANTS
    Managers,     \* IOCManager instances
    Names,        \* names that can be asked for: non-empty sequences of labels
    Targets,      \* indicators that overrides name
    FeedLists,    \* what the feeds may list: sets of indicators
    MaxOverrides  \* bound on override rows ever inserted

Indicator == [name : Names, wild : BOOLEAN]

ASSUME OverridesAssumption ==
    /\ MaxOverrides \in Nat
    /\ \A n \in Names : n \in Seq({n[k] : k \in DOMAIN n}) /\ Len(n) > 0
    /\ Targets \subseteq Indicator /\ Targets # {}
    /\ \A feeds \in FeedLists : feeds \subseteq Indicator

\* A row of ioc_override for the token at hand.
Override == [id : 1..MaxOverrides, on : Targets, type : {"allow", "block"}, expired : BOOLEAN]

Nothing  == [i \in Targets |-> "none"]
NoMemory == [allow |-> {}, block |-> {}, feeds |-> {}, said |-> Nothing, whole |-> TRUE]

VARIABLES
    table,     \* ioc_override
    inserted,  \* rows ever inserted
    listed,    \* indicators in ioc_entry
    memory,    \* instance -> allow_overrides, block_overrides, blocked_domains;
               \* said and whole are history: what the calls had said when the
               \* overrides were last loaded, and whether all of them were
    call,      \* instance -> the add_override or remove_override it is running
    said,      \* history: what the last call said of each indicator
    blurred    \* history: two overlapping calls wrote one indicator

ovVars == <<table, inserted, listed, memory, call, said, blurred>>

NoCall == [pc |-> "idle", on |-> CHOOSE i \in Targets : TRUE, type |-> "allow", found |-> FALSE]

OvTypeOK ==
    /\ table \subseteq Override
    /\ inserted \in 0..MaxOverrides
    /\ listed \in FeedLists
    /\ memory \in [Managers -> [allow : SUBSET Targets, block : SUBSET Targets,
                                feeds : FeedLists \cup {{}},
                                said : [Targets -> {"allow", "block", "none"}],
                                whole : BOOLEAN]]
    /\ call \in [Managers -> [pc : {"idle", "write", "load"}, on : Targets,
                              type : {"allow", "block", "remove"}, found : BOOLEAN]]
    /\ said \in [Targets -> {"allow", "block", "none"}]
    /\ blurred \in BOOLEAN

OvInit ==
    /\ table = {} /\ inserted = 0
    /\ listed \in FeedLists
    /\ memory = [m \in Managers |-> NoMemory]
    /\ call = [m \in Managers |-> NoCall]
    /\ said = Nothing /\ blurred = FALSE

-----------------------------------------------------------------------------
(* Verdicts. *)

\* "*.example.com" covers example.com and what is under it.
Covers(i, n) ==
    \/ i.name = n
    \/ i.wild /\ \E k \in 1..(Len(n) - 1) : SubSeq(n, k + 1, Len(n)) = i.name

\* The feed part of check_domain: the name itself, or any parent, with or
\* without wildcard.
Listed(feeds, n) ==
    \/ [name |-> n, wild |-> FALSE] \in feeds
    \/ \E k \in 1..(Len(n) - 1) :
          \E w \in BOOLEAN : [name |-> SubSeq(n, k + 1, Len(n)), wild |-> w] \in feeds

\* check_domain and check_ip for a request with the token.
Blocked(m, n) ==
    /\ ~\E i \in memory[m].allow : Covers(i, n)
    /\ (\E i \in memory[m].block : Covers(i, n)) \/ Listed(memory[m].feeds, n)

-----------------------------------------------------------------------------
(* Writes. *)

Matching(on) == {o \in table : o.on = on}

\* Calls of other instances on the same indicator are between their statements.
Overlap(m, on) == \E k \in Managers \ {m} : call[k].pc = "write" /\ call[k].on = on

\* Mutation: the lookup also asks for the same override_type.
BeginTyped(m, on, type) ==
    /\ call[m].pc = "idle"
    /\ call' = [call EXCEPT ![m] = [pc |-> "write", on |-> on, type |-> type,
                                    found |-> \E o \in Matching(on) : o.type = type]]
    /\ blurred' = (blurred \/ Overlap(m, on))
    /\ UNCHANGED <<table, inserted, listed, memory, said>>

\* add_override normalises and looks for a row; remove_override goes on.
Begin(m, on, type) ==
    /\ call[m].pc = "idle"
    /\ call' = [call EXCEPT ![m] = [pc |-> "write", on |-> on, type |-> type,
                                    found |-> type # "remove" /\ Matching(on) # {}]]
    /\ blurred' = (blurred \/ Overlap(m, on))
    /\ UNCHANGED <<table, inserted, listed, memory, said>>

\* The update writes every matching row. A row removed meanwhile is not put
\* back; one added meanwhile stays beside the inserted one.
Write(m) ==
    LET c == call[m] IN
    /\ c.pc = "write"
    /\ \/ c.type = "remove" /\ table' = table \ Matching(c.on) /\ UNCHANGED inserted
       \/ /\ c.type # "remove" /\ c.found
          /\ table' = {IF o.on = c.on THEN [o EXCEPT !.type = c.type, !.expired = FALSE] ELSE o
                        : o \in table}
          /\ UNCHANGED inserted
       \/ /\ c.type # "remove" /\ ~c.found
          /\ inserted < MaxOverrides /\ inserted' = inserted + 1
          /\ table' = table \cup {[id |-> inserted + 1, on |-> c.on, type |-> c.type,
                                   expired |-> FALSE]}
    /\ call' = [call EXCEPT ![m] = [NoCall EXCEPT !.pc = "load"]]
    /\ said' = [said EXCEPT ![c.on] = IF c.type = "remove" THEN "none" ELSE c.type]
    /\ UNCHANGED <<listed, memory, blurred>>

\* A statement raises, or the database is not there: the call returns False.
\* What it wrote stays, and the instance does not load it.
FailOverride(m) ==
    /\ call[m].pc # "idle"
    /\ call' = [call EXCEPT ![m] = NoCall]
    /\ UNCHANGED <<table, inserted, listed, memory, said, blurred>>

\* _load_overrides clears the dictionaries before it selects, and swallows an
\* error of the select or of a row: only the rows read before it are there.
InForce == {o \in table : ~o.expired}

Reload(mem, rows) ==
    [mem EXCEPT !.allow = {o.on : o \in {p \in rows : p.type = "allow"}},
                !.block = {o.on : o \in {p \in rows : p.type = "block"}},
                !.said = said, !.whole = (rows = InForce)]

\* add_override and remove_override return True whether it failed or not.
Load(m) ==
    /\ call[m].pc = "load"
    /\ \E rows \in SUBSET InForce : memory' = [memory EXCEPT ![m] = Reload(memory[m], rows)]
    /\ call' = [call EXCEPT ![m] = NoCall]
    /\ UNCHANGED <<table, inserted, listed, said, blurred>>

\* _rebuild_cache: entries of every feed, then the overrides. When the select
\* of the entries fails the feeds are gone and the overrides not loaded.
Rebuild(m) ==
    /\ call[m].pc = "idle"
    /\ \/ memory' = [memory EXCEPT ![m].feeds = {}]
       \/ \E rows \in SUBSET InForce :
             memory' = [memory EXCEPT ![m] = Reload([memory[m] EXCEPT !.feeds = listed], rows)]
    /\ UNCHANGED <<table, inserted, listed, call, said, blurred>>

-----------------------------------------------------------------------------
(* Environment. *)

\* expires_at passes.
ExpireOverride(o) ==
    /\ o \in table /\ ~o.expired
    /\ table' = (table \ {o}) \cup {[o EXCEPT !.expired = TRUE]}
    /\ said' = [said EXCEPT ![o.on] = "none"]
    /\ UNCHANGED <<inserted, listed, memory, call, blurred>>

\* An ingestion changes ioc_entry.
Relist(feeds) ==
    /\ listed' = feeds
    /\ UNCHANGED <<table, inserted, memory, call, said, blurred>>

OvNext ==
    \/ \E m \in Managers :
          \/ \E on \in Targets, type \in {"allow", "block", "remove"} : Begin(m, on, type)
          \/ Write(m) \/ FailOverride(m) \/ Load(m) \/ Rebuild(m)
    \/ \E o \in table : ExpireOverride(o)
    \/ \E feeds \in FeedLists : Relist(feeds)

OvSpec == OvInit /\ [][OvNext]_ovVars

-----------------------------------------------------------------------------
(* Properties. *)

\* n is the name or lies under it.
Under(n, name) == Len(n) >= Len(name) /\ SubSeq(n, Len(n) - Len(name) + 1, Len(n)) = name

\* add_override inserts when its select found nothing, check_domain lets allow
\* beat block and block beat the feeds, and _load_overrides swallows its
\* errors. While no two calls overlapped on one indicator:
\*   - an instance whose last load went through answers by the last call about
\*     each indicator before it, never by rows that earlier calls left: an
\*     override speaks for its name and what is under it, a feed entry in
\*     memory likewise, except that a wildcard entry leaves out its own name;
\*   - a load that failed only forgets overrides: a name is blocked only if a
\*     last call or a feed says so, and one that a feed lists passes only if a
\*     last call allowed it.
VerdictOfLastCall ==
    ~blurred => \A m \in Managers, n \in Names :
        LET mem == memory[m]
            Says(type) == \E i \in Targets : mem.said[i] = type
                             /\ (n = i.name \/ (i.wild /\ Under(n, i.name)))
            fed == \E i \in mem.feeds : Under(n, i.name) /\ ~(i.wild /\ n = i.name)
        IN  /\ mem.whole => (Blocked(m, n) <=> ~Says("allow") /\ (Says("block") \/ fed))
            /\ Blocked(m, n) => Says("block") \/ fed
            /\ fed /\ ~Blocked(m, n) => Says("allow")
=============================================================================
