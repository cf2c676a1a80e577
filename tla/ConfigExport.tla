---------------------------- MODULE ConfigExport -----------------------------
(***************************************************************************)
(* The zones of the configuration that the Manager sends to a DNS server,  *)
(* read while administrators edit zones and records.                       *)
(*   services/config_service.py   get_all_zones                            *)
(*   blueprints/zones.py          zones and their records                  *)
(*                                                                         *)
(* get_all_zones reads the zones in one statement and the records of each  *)
(* in a statement of its own, later; every statement sees what the other   *)
(* workers have committed. An export is a read, so one at a time says all  *)
(* there is to say of several, and one that is cut short is a new one      *)
(* begun. Of a zone the model keeps who may see it (visibility and team),  *)
(* of a record the zone and the data. An id names a row; SQLite may use    *)
(* the id of a deleted row again. The feeds are those of IocIngest.        *)
(***************************************************************************)
EXTENDS Integers

CONSTANTS
    ZoneIds,     \* dns_zone.id
    Policies,    \* visibility and team of a zone
    RecordIds,   \* dns_record.id
    RecordData   \* what records say

VARIABLES
    cascades,    \* foreign keys are enforced (PostgreSQL, not SQLite)
    zoneTable,   \* dns_zone: <<id, policy>>
    recordTable, \* dns_record
    unread,      \* the export: rows of dns_zone whose records are still to be read
    exported,    \* the export: <<zone, policy, data>> it has just added to its answer
    edited,      \* history: zones changed between the two reads of the export
    together     \* history: <<zone, policy, data>> that the tables held at some
                 \* moment between the two reads of the export

exportVars == <<cascades, zoneTable, recordTable, unread, exported, edited, together>>

RecordRow == [id : RecordIds, zone : ZoneIds, data : RecordData]
Triple    == ZoneIds \X Policies \X RecordData

ExportTypeOK ==
    /\ cascades \in BOOLEAN
    /\ zoneTable \subseteq ZoneIds \X Policies
    /\ recordTable \subseteq RecordRow
    /\ unread \subseteq ZoneIds \X Policies
    /\ exported \subseteq Triple /\ together \subseteq Triple
    /\ edited \subseteq ZoneIds

-----------------------------------------------------------------------------
HasZone(z)   == \E row \in zoneTable : row[1] = z
HasRecord(i) == \E r \in recordTable : r.id = i

\* The records of a row of the zone list, as they are exported with it.
RecordsOf(row) == {<<row[1], row[2], r.data>> : r \in {s \in recordTable : s.zone = row[1]}}

\* Zones whose records are still to be read, and what the tables hold of them.
Waiting  == {row[1] : row \in unread}
Standing == UNION {RecordsOf(row) : row \in {r \in zoneTable : r[1] \in Waiting}}

\* The history of a step of an administrator that has changed the zones Z: what
\* matters are the zones still to be read.
Note(Z) ==
    /\ exported' = {}
    /\ edited' = (edited \cup Z) \cap Waiting
    /\ together' = {e \in together : e[1] \in Waiting} \cup Standing'

ExportInit ==
    /\ cascades \in BOOLEAN
    /\ zoneTable = {} /\ recordTable = {}
    /\ unread = {} /\ exported = {}
    /\ edited = {} /\ together = {}

CreateZone(z, v) ==
    /\ ~HasZone(z)
    /\ zoneTable' = zoneTable \cup {<<z, v>>}
    /\ UNCHANGED <<cascades, recordTable, unread>>
    /\ Note({z})

UpdateZone(z, v) ==
    /\ HasZone(z)
    /\ zoneTable' = {row \in zoneTable : row[1] # z} \cup {<<z, v>>}
    /\ UNCHANGED <<cascades, recordTable, unread>>
    /\ Note({z})

\* delete_zone: "cascade will delete records", where foreign keys are enforced.
DeleteZone(z) ==
    /\ HasZone(z)
    /\ zoneTable' = {row \in zoneTable : row[1] # z}
    /\ recordTable' = IF cascades THEN {r \in recordTable : r.zone # z} ELSE recordTable
    /\ UNCHANGED <<cascades, unread>>
    /\ Note({z})

\* create_dns_record. The routes let a system administrator pass whether or not
\* the zone exists, and the zone another user was checked for may be gone: only
\* a foreign key refuses the row.
CreateRecord(i, z, x) ==
    /\ ~HasRecord(i)
    /\ cascades => HasZone(z)
    /\ recordTable' = recordTable \cup {[id |-> i, zone |-> z, data |-> x]}
    /\ UNCHANGED <<cascades, zoneTable, unread>>
    /\ Note({})

\* update_dns_record never moves a record to another zone.
UpdateRecord(r, x) ==
    /\ recordTable' = (recordTable \ {r}) \cup {[r EXCEPT !.data = x]}
    /\ UNCHANGED <<cascades, zoneTable, unread>>
    /\ Note({})

DeleteRecord(r) ==
    /\ recordTable' = recordTable \ {r}
    /\ UNCHANGED <<cascades, zoneTable, unread>>
    /\ Note({})

\* get_all_zones selects the zones ...
ListZones ==
    /\ unread' = zoneTable
    /\ exported' = {} /\ edited' = {}
    /\ UNCHANGED <<cascades, zoneTable, recordTable>>
    /\ together' = Standing'

\* Mutation: the select is not restricted to the zone.
ReadRecordsOfAll(row) ==
    /\ unread' = unread \ {row}
    /\ exported' = {<<row[1], row[2], r.data>> : r \in recordTable}
    /\ UNCHANGED <<cascades, zoneTable, recordTable, edited, together>>

\* ... and the records of one after the other (by name, which an id does not show).
ReadRecords(row) ==
    /\ unread' = unread \ {row}
    /\ exported' = RecordsOf(row)
    /\ UNCHANGED <<cascades, zoneTable, recordTable, edited, together>>

ExportNext ==
    \/ \E z \in ZoneIds :
          \/ \E v \in Policies : CreateZone(z, v) \/ UpdateZone(z, v)
          \/ DeleteZone(z)
          \/ \E i \in RecordIds, x \in RecordData : CreateRecord(i, z, x)
    \/ \E r \in recordTable : DeleteRecord(r) \/ \E x \in RecordData : UpdateRecord(r, x)
    \/ ListZones
    \/ \E row \in unread : ReadRecords(row)

ExportSpec == ExportInit /\ [][ExportNext]_exportVars

-----------------------------------------------------------------------------
(* Properties. *)

\* A record is exported under a visibility that its zone had while it held the
\* record, at some moment between the read of the zones and the read of the zone's
\* records, unless that zone was changed in between. No edit of another zone or of
\* records puts a record of a protected zone into a public one.
ExportedRecordsCoexist ==
    \A e \in exported : e[1] \in edited \/ e \in together
=============================================================================
