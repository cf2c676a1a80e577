------------------------------ MODULE IocIngest ------------------------------
(***************************************************************************)
(* Threat feeds in the Manager: administration, the refresh job, the sync  *)
(* route, and the export of a feed to the DNS servers.                     *)
(*   services/ioc_ingestion_service.py, blueprints/ioc_feeds.py,           *)
(*   jobs/ioc_refresh.py, services/config_service.py                       *)
(*                                                                         *)
(* Every statement commits by itself, so a refresh (delete the entries,    *)
(* insert the new ones one by one, stamp the feed) interleaves with every  *)
(* other refresh, with administration and with an export.                  *)
(*                                                                         *)
(* One feed name is modelled; deleting the feed and creating it again      *)
(* gives it a new row. An indicator is a value the validators accept:      *)
(* what they reject never leaves the parser.                               *)
(***************************************************************************)
EXTENDS Integers

CONSTANTS
    Indicators,   \* valid indicators
    Formats,      \* formats a feed is registered with
    Syncs,        \* workers serving the sync route
    MaxRows,      \* bound on rows ever created
    MaxSyncs,     \* bound on sync requests
    MaxFailures   \* bound on failed fetches, failed statements and crashes

ASSUME IocAssumption == {MaxRows, MaxSyncs, MaxFailures} \subseteq Nat /\ "job" \notin Syncs

Rows == 1..MaxRows
Ingesters == Syncs \cup {"job"}

\* What the feed's URL returns: items, or something no parser can read.
Docs == [items : SUBSET Indicators, broken : {FALSE}] \cup [items : {{}}, broken : {TRUE}]

\* A row of ioc_feed. format "null": the column is not set. due: last_updated
\* is NULL or older than update_interval.
Row == [status : {"absent", "live", "deleted"}, url : BOOLEAN, active : BOOLEAN,
        enabled : BOOLEAN, due : BOOLEAN, format : Formats \cup {"null", "txt"}]

VARIABLES
    rows,      \* table ioc_feed
    entries,   \* table ioc_entry: feed row -> indicators
    work,      \* what each ingester is doing
    plan,      \* feeds the job still has to refresh, from its select at the start
    syncs,     \* sync requests so far
    failures,  \* failures so far
    settled    \* history: row -> {the document its last ingestion stored}, or {} while
               \*   one is storing and after one was interrupted or overlapped

iocVars == <<rows, entries, work, plan, syncs, failures, settled>>

NoDoc == [items |-> {}, broken |-> FALSE]
Idle == [pc |-> "idle", asked |-> 0, row |-> 0, doc |-> NoDoc, items |-> {}, left |-> {},
         alone |-> TRUE]

IocTypeOK ==
    /\ rows \in [Rows -> Row]
    /\ entries \in [Rows -> SUBSET Indicators]
    /\ work \in [Ingesters -> [pc : {"idle", "next", "fetch", "find", "create",
                                     "clear", "insert", "mark"},
                               asked : 0..MaxRows, row : 0..MaxRows,
                               doc : Docs, items : SUBSET Indicators, left : SUBSET Indicators,
                               alone : BOOLEAN]]
    /\ plan \subseteq Rows
    /\ syncs \in 0..MaxSyncs /\ failures \in 0..MaxFailures
    /\ settled \in [Rows -> SUBSET SUBSET Indicators]

Live(i) == i \in Rows /\ rows[i].status = "live"
Absent == [status |-> "absent", url |-> FALSE, active |-> FALSE, enabled |-> FALSE,
           due |-> FALSE, format |-> "null"]

IocInit ==
    /\ rows = [i \in Rows |-> Absent]
    /\ entries = [i \in Rows |-> {}]
    /\ work = [w \in Ingesters |-> Idle]
    /\ plan = {}
    /\ syncs = 0 /\ failures = 0
    /\ settled = [i \in Rows |-> {{}}]

-----------------------------------------------------------------------------
(* Parsing. *)

\* The text and CSV parsers skip what they cannot read.
ParseLines(doc) == [ok |-> TRUE, items |-> doc.items]

\* Broken JSON raises.
ParseJson(doc) == [ok |-> ~doc.broken, items |-> doc.items]

\* Broken XML is logged and gives no indicators.
ParseXml(doc) == [ok |-> TRUE, items |-> doc.items]

\* _parse_feed_content: an unknown format gives no indicators.
ParseFeedContent(doc, format) ==
    CASE format \in {"txt", "csv"} -> ParseLines(doc)
      [] format = "json" -> ParseJson(doc)
      [] format = "xml" -> ParseXml(doc)
      [] OTHER -> [ok |-> TRUE, items |-> {}]

\* _is_format_licensed without a licence manager.
Community == {"txt", "csv", "json", "xml"}

-----------------------------------------------------------------------------
(* Administration. *)

\* The name is UNIQUE; ids are never used again.
Fresh(i) == /\ rows[i].status = "absent" /\ \A j \in 1..(i - 1) : rows[j].status = "deleted"

NewFeed(i, format, active) ==
    /\ Fresh(i)
    /\ rows' = [rows EXCEPT ![i] = [status |-> "live", url |-> TRUE, active |-> active,
                                    enabled |-> TRUE, due |-> TRUE, format |-> format]]
    /\ UNCHANGED <<entries, work, plan, syncs, failures, settled>>

\* create_ioc_feed leaves format unset.
CreateFeed(i, active) == NewFeed(i, "null", active)

\* register_feed, also for the default feeds, sets it and refuses an enterprise
\* format without a licence.
RegisterFeed(i, format) == format \in Community /\ NewFeed(i, format, TRUE)

\* An administrator who sets the URL gives one.
UpdateFeed(i, url, active) ==
    /\ Live(i) /\ (rows[i].url => url)
    /\ rows' = [rows EXCEPT ![i].url = url, ![i].active = active]
    /\ UNCHANGED <<entries, work, plan, syncs, failures, settled>>

SetFeedEnabled(i, enabled) ==
    /\ Live(i)
    /\ rows' = [rows EXCEPT ![i].enabled = enabled]
    /\ UNCHANGED <<entries, work, plan, syncs, failures, settled>>

\* delete_ioc_feed; the entries go with ON DELETE CASCADE.
DeleteFeed(i) ==
    /\ Live(i)
    /\ rows' = [rows EXCEPT ![i] = [Absent EXCEPT !.status = "deleted", !.format = rows[i].format]]
    /\ entries' = [entries EXCEPT ![i] = {}]
    /\ settled' = [settled EXCEPT ![i] = {{}}]
    /\ UNCHANGED <<work, plan, syncs, failures>>

-----------------------------------------------------------------------------
(* The refresh job and the sync route. *)

Work(w, rec) == work' = [work EXCEPT ![w] = rec]

\* A job goes on with its next feed; a request ends.
After(w) == IF w = "job" THEN [Idle EXCEPT !.pc = "next"] ELSE Idle

\* Another ingester is storing entries of row i.
Storing(i, w) == \E v \in Ingesters \ {w} : work[v].row = i /\ work[v].pc = "insert"

\* Mutation: the job passes over a feed whose last ingestion failed.
JobStartOnce ==
    /\ work["job"].pc = "idle"
    /\ plan' = {i \in Rows : Live(i) /\ rows[i].enabled /\ rows[i].due /\ rows[i].url
                             /\ settled[i] # {}}
    /\ Work("job", [Idle EXCEPT !.pc = "next"])
    /\ UNCHANGED <<rows, entries, syncs, failures, settled>>

\* ioc_refresh.main and update_all_feeds up to the loop. last_updated is the one
\* read here; a feed without URL fails and changes nothing.
JobStart ==
    /\ work["job"].pc = "idle"
    /\ plan' = {i \in Rows : Live(i) /\ rows[i].enabled /\ rows[i].due /\ rows[i].url}
    /\ Work("job", [Idle EXCEPT !.pc = "next"])
    /\ UNCHANGED <<rows, entries, syncs, failures, settled>>

\* The loop of update_all_feeds; rebuilding the job's own cache ends it.
JobNext ==
    /\ work["job"].pc = "next"
    /\ IF plan = {} THEN Work("job", Idle) /\ plan' = plan
       ELSE \E i \in plan : /\ plan' = plan \ {i}
                            /\ Work("job", [Idle EXCEPT !.pc = "fetch", !.asked = i, !.row = i])
    /\ UNCHANGED <<rows, entries, syncs, failures, settled>>

\* trigger_ioc_feed_sync up to the fetch.
SyncStart(w, i) ==
    /\ work[w].pc = "idle" /\ Live(i) /\ rows[i].url
    /\ syncs < MaxSyncs /\ syncs' = syncs + 1
    /\ Work(w, [Idle EXCEPT !.pc = "fetch", !.asked = i])
    /\ UNCHANGED <<rows, entries, plan, failures, settled>>

\* The document doc arrives. The job parses with the column as it is, the route
\* reads an unset one as txt; the route keeps the entries when nothing was
\* found, the job does not. An unreadable document counts as a failure.
Fetch(w, doc) ==
    LET i == work[w].asked
        format == IF w # "job" /\ rows[i].format = "null" THEN "txt" ELSE rows[i].format
        parsed == ParseFeedContent(doc, format)
    IN  /\ work[w].pc = "fetch"
        /\ failures + (IF doc.broken THEN 1 ELSE 0) <= MaxFailures
        /\ failures' = failures + (IF doc.broken THEN 1 ELSE 0)
        /\ Work(w, CASE ~parsed.ok -> After(w)
                     [] parsed.ok /\ w # "job" /\ parsed.items = {}
                           -> [work[w] EXCEPT !.pc = "mark", !.doc = doc]
                     [] OTHER -> [work[w] EXCEPT !.pc = IF w = "job" THEN "clear" ELSE "find",
                                    !.doc = doc, !.items = parsed.items, !.left = parsed.items])
        /\ UNCHANGED <<rows, entries, plan, syncs, settled>>

\* update_feed_from_content looks the feed up by name.
Find(w) ==
    /\ work[w].pc = "find"
    /\ IF \E i \in Rows : Live(i)
       THEN \E i \in Rows : Live(i) /\ Work(w, [work[w] EXCEPT !.pc = "clear", !.row = i])
       ELSE Work(w, [work[w] EXCEPT !.pc = "create"])
    /\ UNCHANGED <<rows, entries, plan, syncs, failures, settled>>

\* A feed deleted since the request began comes back, without URL. The UNIQUE
\* name refuses a second one.
Create(w) ==
    /\ work[w].pc = "create"
    /\ \/ /\ \E i \in Rows : Live(i)
          /\ Work(w, Idle) /\ UNCHANGED <<rows, settled>>
       \/ \E i \in Rows :
             /\ Fresh(i)
             /\ rows' = [rows EXCEPT ![i] = [Absent EXCEPT !.status = "live", !.active = TRUE,
                            !.enabled = TRUE, !.due = TRUE,
                            !.format = IF rows[work[w].asked].format = "null" THEN "txt"
                                       ELSE rows[work[w].asked].format]]
             /\ settled' = [settled EXCEPT ![i] = {}]
             /\ Work(w, [work[w] EXCEPT !.pc = "insert", !.row = i])
    /\ UNCHANGED <<entries, plan, syncs, failures>>

\* Mutation: new entries are added to the old ones.
ClearNothing(w) ==
    /\ work[w].pc = "clear"
    /\ settled' = [settled EXCEPT ![work[w].row] = {}]
    /\ work' = [v \in Ingesters |->
                  IF v = w THEN [work[w] EXCEPT !.pc = "insert", !.alone = ~Storing(work[w].row, w)]
                  ELSE IF work[v].row = work[w].row /\ work[v].pc = "insert"
                       THEN [work[v] EXCEPT !.alone = FALSE] ELSE work[v]]
    /\ UNCHANGED <<rows, entries, plan, syncs, failures>>

\* db(db.ioc_entry.feed_id == feed_id).delete()
Clear(w) ==
    /\ work[w].pc = "clear"
    /\ entries' = [entries EXCEPT ![work[w].row] = {}]
    /\ settled' = [settled EXCEPT ![work[w].row] = {}]
    /\ work' = [v \in Ingesters |->
                  IF v = w THEN [work[w] EXCEPT !.pc = "insert", !.alone = ~Storing(work[w].row, w)]
                  ELSE IF work[v].row = work[w].row /\ work[v].pc = "insert"
                       THEN [work[v] EXCEPT !.alone = FALSE] ELSE work[v]]
    /\ UNCHANGED <<rows, plan, syncs, failures>>

\* One db.ioc_entry.insert, or the end of the loop. The foreign key refuses an
\* entry of a feed deleted meanwhile.
Insert(w) ==
    LET i == work[w].row IN
    /\ work[w].pc = "insert"
    /\ \/ /\ work[w].left = {}
          /\ Work(w, [work[w] EXCEPT !.pc = "mark"])
          /\ settled' = [settled EXCEPT ![i] = IF Live(i) /\ work[w].alone THEN {work[w].items}
                                               ELSE IF Live(i) THEN {} ELSE {{}}]
          /\ UNCHANGED entries
       \/ /\ work[w].left # {} /\ ~Live(i)
          /\ Work(w, After(w)) /\ UNCHANGED <<entries, settled>>
       \/ \E x \in work[w].left :
             /\ Live(i)
             /\ entries' = [entries EXCEPT ![i] = @ \cup {x}]
             /\ Work(w, [work[w] EXCEPT !.left = @ \ {x}])
             /\ UNCHANGED settled
    /\ UNCHANGED <<rows, plan, syncs, failures>>

\* last_updated is stamped on the feed first asked for, if it still exists.
Mark(w) ==
    /\ work[w].pc = "mark"
    /\ rows' = IF Live(work[w].asked) THEN [rows EXCEPT ![work[w].asked].due = FALSE] ELSE rows
    /\ Work(w, After(w))
    /\ UNCHANGED <<entries, plan, syncs, failures, settled>>

\* A fetch or a statement fails: the exception ends this feed. The process
\* dies: the job's list is gone too. Neither stamps the feed.
Fail(w) ==
    /\ work[w].pc \notin {"idle", "next"}
    /\ failures < MaxFailures /\ failures' = failures + 1
    /\ \/ Work(w, After(w)) /\ UNCHANGED plan
       \/ Work(w, Idle) /\ plan' = (IF w = "job" THEN {} ELSE plan)
    /\ UNCHANGED <<rows, entries, syncs, settled>>

-----------------------------------------------------------------------------
(* Export and environment. *)

\* get_active_ioc_feeds: the entries of every active feed.
ActiveIocFeeds == [i \in {j \in Rows : Live(j) /\ rows[j].active} |-> entries[i]]

\* update_interval passes.
Elapse(i) ==
    /\ Live(i) /\ ~rows[i].due
    /\ rows' = [rows EXCEPT ![i].due = TRUE]
    /\ UNCHANGED <<entries, work, plan, syncs, failures, settled>>

Ingest(w) ==
    \/ \E doc \in Docs : Fetch(w, doc)
    \/ Find(w) \/ Create(w) \/ Clear(w) \/ Insert(w) \/ Mark(w)

IocNext ==
    \/ \E i \in Rows :
          \/ \E active \in BOOLEAN : CreateFeed(i, active)
          \/ \E format \in Formats : RegisterFeed(i, format)
          \/ \E url, active \in BOOLEAN : UpdateFeed(i, url, active)
          \/ \E enabled \in BOOLEAN : SetFeedEnabled(i, enabled)
          \/ DeleteFeed(i) \/ Elapse(i)
          \/ \E w \in Syncs : SyncStart(w, i)
    \/ JobStart \/ JobNext
    \/ \E w \in Ingesters : Ingest(w) \/ Fail(w)

\* cron starts the job every half hour, intervals pass and running code runs on.
IocFair ==
    /\ WF_iocVars(JobStart) /\ WF_iocVars(JobNext)
    /\ \A w \in Ingesters : WF_iocVars(Ingest(w))
    /\ \A i \in Rows : WF_iocVars(Elapse(i))

IocSpec == IocInit /\ [][IocNext]_iocVars /\ IocFair

-----------------------------------------------------------------------------
(* Properties. *)

\* get_active_ioc_feeds reads the entries of a feed while others delete and
\* insert them. What it exports for a feed that no ingestion is storing, and
\* whose last one was neither cut short nor overlapped, is exactly what one
\* document listed: a refresh leaves nothing behind, whatever ran, failed or
\* was deleted before.
ExportedFeedIsOneDocument ==
    \A i \in DOMAIN ActiveIocFeeds : settled[i] \subseteq {ActiveIocFeeds[i]}

\* An ingestion cut short or blended with another does not stay: last_updated
\* is stamped only at the end, so a feed that stays enabled is refreshed again
\* and ends up holding one document.
TornFeedRepaired ==
    \A i \in Rows :
        <>[](Live(i) /\ rows[i].enabled /\ rows[i].url) => []<>(settled[i] # {})

\* ioc_refresh.py:6 "Fetches all enabled IOC feeds, respects per-feed update
\* frequency": the job stores what a readable document lists.
JobStoresWhatWasPublished ==
    work["job"].pc = "mark" => work["job"].items = work["job"].doc.items
=============================================================================
