-------------------------------- MODULE Whois --------------------------------
(***************************************************************************)
(* WHOIS lookups of the Manager: the shared cache and its search index,    *)
(* the per-process table of lookups in progress, and the cleanup job.      *)
(*   services/whois_service.py, blueprints/whois.py, jobs/whois_cleanup.py *)
(*                                                                         *)
(* gunicorn runs several processes of two threads; each request runs its   *)
(* coroutine in an event loop of its own. One WHOISManager serves both     *)
(* threads, so the asyncio.Event of one thread's lookup is awaited in the  *)
(* other thread's loop. The statements of all threads interleave.          *)
(*                                                                         *)
(* One query is modelled: an IPv4 literal, which _is_valid_domain accepts  *)
(* as well as _is_valid_ip, so lookup_domain and lookup_ip may both be     *)
(* asked for it. (A name is asked for as a domain only: that is the same   *)
(* with no request of kind "ip".) No route asks for a forced refresh, and  *)
(* the semaphore of ten never blocks two threads. Each statement commits   *)
(* by itself and may fail; a worker may be killed between any two.         *)
(***************************************************************************)
EXTENDS Integers

CONSTANTS
    Threads,      \* request threads
    ProcOf,       \* [Threads -> processes]
    Answers,      \* what the WHOIS servers may answer
    Entries,      \* [Answers -> number of index entries: registrar, organization, nameservers]
    MaxIds,       \* bound on cache rows ever inserted
    MaxLookups    \* bound on requests

ASSUME WhoisAssumption ==
    /\ {MaxIds, MaxLookups} \subseteq Nat /\ Answers # {}
    /\ Entries \in [Answers -> Nat]
    /\ \A t \in Threads : \A u, v \in Threads :
          ProcOf[t] = ProcOf[u] /\ ProcOf[u] = ProcOf[v] => t = u \/ u = v \/ t = v

Kinds == {"domain", "ip"}
Procs == {ProcOf[t] : t \in Threads}
Slots == Procs \X Kinds

\* The index entries of an answer stored in a row, up to the n-th.
EntriesTo(row, data, n) == {row} \X {data} \X (1..n)
EntriesOf(row, data)    == EntriesTo(row, data, Entries[data])

\* The cache row of the query: none when id = 0.
NoRow  == [id |-> 0, kind |-> "domain", data |-> CHOOSE a \in Answers : TRUE, fresh |-> FALSE]
NoJob  == [pc |-> "idle", id |-> 0]

VARIABLES
    cache,       \* whois_cache
    index,       \* whois_search_index: <<row id, answer, number of the entry>>
    lastId,      \* ids handed out
    inProgress,  \* <<process, kind>> -> {thread whose event is in _in_progress}
    thread,      \* request of each thread
    cleanup,     \* cleanup job and the id it has selected
    lookups,     \* requests so far
    mingled      \* history: the last write of a domain's row and its index
                 \* overlapped another write, or was cut short

whoisVars == <<cache, index, lastId, inProgress, thread, cleanup, lookups, mingled>>

Resting == [pc |-> "rest", kind |-> "domain", awaits |-> {}, data |-> NoRow.data, row |-> 0,
            next |-> 0, alone |-> TRUE]

WhoisTypeOK ==
    /\ cache \in [id : 0..MaxIds, kind : Kinds, data : Answers, fresh : BOOLEAN]
    /\ index \subseteq ((1..MaxIds) \X Answers \X Nat)
    /\ lastId \in 0..MaxIds
    /\ inProgress \in [Slots -> SUBSET Threads]
    /\ thread \in [Threads -> [pc : {"rest", "cached", "join", "get", "awaiting", "parked", "stuck",
                                     "recheck", "register", "query", "select", "store",
                                     "unindex", "reindex", "finish"},
                               kind : Kinds, awaits : SUBSET Threads, data : Answers,
                               row : 0..MaxIds, next : Nat, alone : BOOLEAN]]
    /\ cleanup \in [pc : {"idle", "unindex", "delete"}, id : 0..MaxIds]
    /\ lookups \in 0..MaxLookups
    /\ mingled \in BOOLEAN

WhoisInit ==
    /\ cache = NoRow /\ index = {} /\ lastId = 0
    /\ inProgress = [k \in Slots |-> {}]
    /\ thread = [t \in Threads |-> Resting]
    /\ cleanup = NoJob /\ lookups = 0
    /\ mingled = FALSE

-----------------------------------------------------------------------------
(* Up to the lookup. *)

At(t, pc) == thread[t].pc = pc
Step(t, pc) == thread' = [thread EXCEPT ![t].pc = pc]
Reply(t) == thread' = [thread EXCEPT ![t] = Resting]
Done(t) == thread' = [thread EXCEPT ![t] = [Resting EXCEPT !.pc = "finish", !.kind = thread[t].kind]]

\* query_key, in the table of the thread's process.
SlotOf(t) == <<ProcOf[t], thread[t].kind>>

\* lookup_domain, lookup_ip and their routes. An invalid name is refused.
Request(t, kind) ==
    /\ At(t, "rest")
    /\ lookups < MaxLookups /\ lookups' = lookups + 1
    /\ thread' = [thread EXCEPT ![t].pc = "cached", ![t].kind = kind]
    /\ UNCHANGED <<cache, index, lastId, inProgress, cleanup, mingled>>

\* _get_cached_whois, before and after waiting: a fresh row of the kind asked
\* for. An error of the read counts as a miss.
ReadCache(t) ==
    /\ At(t, "cached") \/ At(t, "recheck")
    /\ \/ cache.id # 0 /\ cache.fresh /\ cache.kind = thread[t].kind /\ Reply(t)
       \/ Step(t, IF At(t, "cached") THEN "join" ELSE "register")
    /\ UNCHANGED <<cache, index, lastId, inProgress, cleanup, lookups, mingled>>

\* if query_key in self._in_progress
Join(t) ==
    /\ At(t, "join")
    /\ Step(t, IF inProgress[SlotOf(t)] # {} THEN "get" ELSE "register")
    /\ UNCHANGED <<cache, index, lastId, inProgress, cleanup, lookups, mingled>>

\* self._in_progress[query_key].wait(): a KeyError, if the other thread removed
\* the entry since, ends the request with an error.
Get(t) ==
    /\ At(t, "get")
    /\ IF inProgress[SlotOf(t)] = {} THEN Reply(t)
       ELSE thread' = [thread EXCEPT ![t].pc = "awaiting", ![t].awaits = inProgress[SlotOf(t)]]
    /\ UNCHANGED <<cache, index, lastId, inProgress, cleanup, lookups, mingled>>

\* The loop has nothing else to run and blocks in its selector.
Park(t) ==
    /\ At(t, "awaiting")
    /\ Step(t, "parked")
    /\ UNCHANGED <<cache, index, lastId, inProgress, cleanup, lookups, mingled>>

-----------------------------------------------------------------------------
(* The lookup. *)

Register(t) ==
    /\ At(t, "register")
    /\ inProgress' = [inProgress EXCEPT ![SlotOf(t)] = {t}]
    /\ Step(t, "query")
    /\ UNCHANGED <<cache, index, lastId, cleanup, lookups, mingled>>

\* _perform_domain_whois, _perform_ip_whois: an answer, or success: False.
Perform(t) ==
    /\ At(t, "query")
    /\ \/ \E a \in Answers : thread' = [thread EXCEPT ![t].pc = "select", ![t].data = a]
       \/ Done(t)
    /\ UNCHANGED <<cache, index, lastId, inProgress, cleanup, lookups, mingled>>

Indexing(t) == thread[t].pc \in {"unindex", "reindex"}
Writing(t)  == At(t, "store") \/ Indexing(t)

\* _cache_whois_data: look for the row, by the query alone, then update or
\* insert it. Both fail without effect when the row changed meanwhile (gone, or
\* there already). Only a domain goes on to its index: an IP's answer leaves
\* the entries of the domain's in place.
Select(t) ==
    /\ At(t, "select")
    /\ thread' = [u \in Threads |->
                    IF u = t THEN [thread[t] EXCEPT !.pc = "store", !.row = cache.id,
                                     !.alone = cleanup = NoJob /\ ~\E v \in Threads : Writing(v)]
                    ELSE [thread[u] EXCEPT !.alone = ~Writing(u)]]
    /\ UNCHANGED <<cache, index, lastId, inProgress, cleanup, lookups, mingled>>

\* The row id is known: on to the index, or done.
Stored(t, row) ==
    IF thread[t].kind = "ip" THEN Done(t)
    ELSE thread' = [thread EXCEPT ![t].pc = "unindex", ![t].row = row]

Store(t) ==
    /\ At(t, "store")
    /\ \/ /\ thread[t].row # 0
          /\ cache' = IF cache.id # thread[t].row THEN cache
                      ELSE [id |-> cache.id, kind |-> thread[t].kind, data |-> thread[t].data,
                            fresh |-> TRUE]
          /\ Stored(t, thread[t].row) /\ UNCHANGED lastId
       \/ /\ thread[t].row = 0 /\ cache.id = 0
          /\ lastId < MaxIds /\ lastId' = lastId + 1
          /\ cache' = [id |-> lastId + 1, kind |-> thread[t].kind, data |-> thread[t].data,
                       fresh |-> TRUE]
          /\ Stored(t, lastId + 1)
       \/ /\ thread[t].row = 0 /\ cache.id # 0
          /\ Done(t) /\ UNCHANGED <<cache, lastId>>
    /\ UNCHANGED <<index, inProgress, cleanup, lookups, mingled>>

\* Mutation: the old index entries are kept.
UnindexNothing(t) ==
    /\ At(t, "unindex")
    /\ thread' = [thread EXCEPT ![t].pc = "reindex", ![t].next = 0]
    /\ UNCHANGED <<cache, index, lastId, inProgress, cleanup, lookups, mingled>>

\* _update_search_index: delete the row's entries ...
Unindex(t) ==
    /\ At(t, "unindex")
    /\ index' = {e \in index : e[1] # thread[t].row}
    /\ thread' = [thread EXCEPT ![t].pc = "reindex", ![t].next = 0]
    /\ UNCHANGED <<cache, lastId, inProgress, cleanup, lookups, mingled>>

\* ... and insert the new ones, one by one. The foreign key refuses an entry
\* of a deleted row.
InsertEntry(t) ==
    /\ At(t, "reindex") /\ cache.id = thread[t].row
    /\ thread[t].next < Entries[thread[t].data]
    /\ index' = index \cup {<<thread[t].row, thread[t].data, thread[t].next + 1>>}
    /\ thread' = [thread EXCEPT ![t].next = thread[t].next + 1]
    /\ UNCHANGED <<cache, lastId, inProgress, cleanup, lookups, mingled>>

Reindexed(t) ==
    /\ At(t, "reindex") /\ thread[t].next = Entries[thread[t].data]
    /\ Done(t)
    /\ mingled' = ~thread[t].alone
    /\ UNCHANGED <<cache, index, lastId, inProgress, cleanup, lookups>>

\* A statement of _cache_whois_data or _update_search_index raises: it is
\* logged, and what went before it stays.
WriteFails(t) ==
    /\ At(t, "select") \/ Writing(t)
    /\ Done(t)
    /\ mingled' = (mingled \/ Indexing(t))
    /\ UNCHANGED <<cache, index, lastId, inProgress, cleanup, lookups>>

\* event.set(). The waiter's future is resolved from this thread with
\* call_soon, which does not wake the other loop's selector: a waiter that is
\* not yet blocked goes on, one that is stays there.
AfterSignal(t, u) ==
    LET Woken(pc) == [thread[u] EXCEPT !.pc = pc, !.awaits = {}]
    IN  CASE u = t -> Resting
          [] t \in thread[u].awaits /\ At(u, "awaiting") -> Woken("recheck")
          [] t \in thread[u].awaits /\ At(u, "parked") -> Woken("stuck")
          [] OTHER -> thread[u]

\* Mutation: the lookup ends without event.set().
SignalledNobody(t) == [thread EXCEPT ![t] = Resting]

Signalled(t) == [u \in Threads |-> AfterSignal(t, u)]

\* event.set() and pop.
Finish(t) ==
    /\ At(t, "finish")
    /\ inProgress' = [inProgress EXCEPT ![SlotOf(t)] = {}]
    /\ thread' = Signalled(t)
    /\ UNCHANGED <<cache, index, lastId, cleanup, lookups, mingled>>

-----------------------------------------------------------------------------
(* Killed workers, the cleanup job, and time. *)

\* gunicorn replaces a process that died: its requests and its table are gone.
KillWorker(p) ==
    /\ \E t \in Threads : ProcOf[t] = p /\ ~At(t, "rest")
    /\ thread' = [t \in Threads |-> IF ProcOf[t] = p THEN Resting ELSE thread[t]]
    /\ inProgress' = [k \in Slots |-> IF k[1] = p THEN {} ELSE inProgress[k]]
    /\ mingled' = (mingled \/ \E t \in Threads : ProcOf[t] = p /\ Indexing(t))
    /\ UNCHANGED <<cache, index, lastId, cleanup, lookups>>

\* cleanup_old_data selects the ids that are too old ...
CleanupSelect ==
    /\ cleanup = NoJob /\ cache.id # 0 /\ ~cache.fresh
    /\ cleanup' = [pc |-> "unindex", id |-> cache.id]
    /\ thread' = [t \in Threads |-> [thread[t] EXCEPT !.alone = ~Writing(t)]]
    /\ UNCHANGED <<cache, index, lastId, inProgress, lookups, mingled>>

\* ... deletes their index entries ...
CleanupUnindex ==
    /\ cleanup.pc = "unindex"
    /\ index' = {e \in index : e[1] # cleanup.id}
    /\ cleanup' = [cleanup EXCEPT !.pc = "delete"]
    /\ mingled' = TRUE
    /\ UNCHANGED <<cache, lastId, inProgress, thread, lookups>>

\* ... and then the rows, even a row refreshed in between (its entries go with
\* ON DELETE CASCADE).
CleanupDelete ==
    /\ cleanup.pc = "delete"
    /\ index' = {e \in index : e[1] # cleanup.id}
    /\ cache' = IF cache.id = cleanup.id THEN NoRow ELSE cache
    /\ cleanup' = NoJob
    /\ UNCHANGED <<lastId, inProgress, thread, lookups, mingled>>

\* One of its statements raises, or the job is killed.
CleanupFails ==
    /\ cleanup # NoJob
    /\ cleanup' = NoJob
    /\ UNCHANGED <<cache, index, lastId, inProgress, thread, lookups, mingled>>

\* retention_days pass.
GrowOld ==
    /\ cache.id # 0 /\ cache.fresh
    /\ cache' = [cache EXCEPT !.fresh = FALSE]
    /\ UNCHANGED <<index, lastId, inProgress, thread, cleanup, lookups, mingled>>

Lookup(t) ==
    \/ ReadCache(t) \/ Join(t) \/ Get(t) \/ Park(t) \/ Register(t) \/ Perform(t)
    \/ Select(t) \/ Store(t) \/ Unindex(t) \/ InsertEntry(t) \/ Reindexed(t) \/ WriteFails(t)
    \/ Finish(t)

WhoisNext ==
    \/ \E t \in Threads : (\E kind \in Kinds : Request(t, kind)) \/ Lookup(t)
    \/ \E p \in Procs : KillWorker(p)
    \/ CleanupSelect \/ CleanupUnindex \/ CleanupDelete \/ CleanupFails \/ GrowOld

\* A running thread runs on; library calls return.
WhoisFair == \A t \in Threads : WF_whoisVars(Lookup(t))

WhoisSpec == WhoisInit /\ [][WhoisNext]_whoisVars /\ WhoisFair

-----------------------------------------------------------------------------
(* Properties. *)

\* The index has entries of the cached row only; and it says of the row what
\* the row says, if the row holds a domain's answer, nobody is writing, and the
\* last write of a domain neither overlapped another writer or the cleanup job
\* nor was cut short. Update, delete and inserts are separate statements whose
\* errors are swallowed, and a worker may be killed in between. Of a row that
\* lookup_ip wrote over a domain's (an IPv4 literal asked for through both
\* routes) nothing is said: its index keeps the domain's entries.
IndexMatchesIfAlone ==
    /\ \A e \in index : e[1] = cache.id
    /\ cache.id # 0 /\ cache.kind = "domain" /\ ~mingled /\ (\A t \in Threads : ~Writing(t))
       => index = EntriesOf(cache.id, cache.data)

\* A lookup that will end: it waits for nobody.
Looking(t) == thread[t].pc \in {"query", "select", "store", "unindex", "reindex", "finish"}

\* Whoever waits, waits for a lookup of its own process and kind that is still
\* running: requests never wait for each other in a circle, nor for a lookup
\* that is over, although a second registration overwrites the entry of the
\* first and the first to finish removes the entry of the second.
WaitersAwaitALookup ==
    \A u \in Threads : At(u, "awaiting") \/ At(u, "parked") =>
        \E t \in thread[u].awaits : Looking(t) /\ SlotOf(t) = SlotOf(u)

\* whois_service.py:107 "Check if already in progress and wait" and :147
\* "Signal completion": whoever waits is told, so every request is answered.
LookupsReturn == \A t \in Threads : At(t, "cached") ~> At(t, "rest")
=============================================================================
