--------------------------- MODULE ComplianceExport ---------------------------
(***************************************************************************)
(* GET /api/compliance/export: a customer's runs that started in a range   *)
(* of days, with their spans and log records.  The route reads the three   *)
(* tables in separate statements while the ingest route goes on adding to  *)
(* them, and records the export in the audit log before it answers.        *)
(***************************************************************************)
EXTENDS Integers, FiniteSets

CONSTANTS
  ExportRunIds,
  ExportDay,          \* instants of a day
  ExportMaxDays,      \* MAX_RANGE_DAYS
  ExportIncludes,     \* bound: the values of the include parameter that are asked for
  ExportMaxTime,      \* bound: the instants
  ExportStarts,       \* bound: those that runs start at
  ExportDates         \* bound: those that are asked for

ExportTables == {"spans", "logs"}
ExportValidIncludes == {"runs"} \cup ExportTables

ASSUME ExportAssumption ==
  /\ ExportDay \in Nat \ {0} /\ ExportMaxDays \in Nat /\ ExportMaxTime \in Nat
  /\ ExportStarts \subseteq 0 .. ExportMaxTime /\ ExportDates \subseteq 0 .. ExportMaxTime

VARIABLES
  exportRuns,      \* trace_runs: whose the run is, "none": not stored, and its start
  exportRows,      \* trace_spans and trace_logs, the rows of one run as one
  exportStage,     \* the statement the request is at, or how it ended
  exportAsked,     \* its parameters,
  exportFound,     \* the runs
  exportGot,       \* and the rows it has read
  exportDue,       \* the rows it owes: those stored when it read the runs
  exportAudit      \* its record in the audit log

exportVars == <<exportRuns, exportRows, exportStage, exportAsked, exportFound,
                exportGot, exportDue, exportAudit>>

ExportInstants == 0 .. ExportMaxTime
ExportStages == {"idle", "refused", "runs", "spans", "logs", "audit", "answered"}

ExportInit ==
  /\ exportRuns = [r \in ExportRunIds |-> [owner |-> "none", at |-> 0]]
  /\ exportRows = {}
  /\ exportStage = "idle" /\ exportAsked = [from |-> 0, to |-> 0, include |-> {}]
  /\ exportFound = {} /\ exportGot = {} /\ exportDue = {}
  /\ exportAudit = "none"

ExportTypeOK ==
  /\ exportRuns \in [ExportRunIds -> [owner : {"none", "own", "other"}, at : ExportInstants]]
  /\ exportRows \subseteq [table : ExportTables, run : ExportRunIds]
  /\ exportStage \in ExportStages
  /\ exportAsked \in [from : ExportInstants, to : ExportInstants,
                      include : SUBSET ExportValidIncludes]
  /\ exportFound \subseteq ExportRunIds
  /\ exportGot \subseteq [table : ExportTables, run : ExportRunIds]
  /\ exportDue \subseteq [table : ExportTables, run : ExportRunIds]
  /\ exportAudit \in {"none", "written", "failed"}

ExportRequest == <<exportStage, exportAsked, exportFound, exportGot, exportDue, exportAudit>>

-------------------------------------------------------------------------------
(* Faulty variants, see AcpMerchant. *)

ExportUntil_NextDay(to) == to + ExportDay
ExportRowsOf_Any(table, runs) == {row \in exportRows : row.table = table}

-------------------------------------------------------------------------------
(* What the ingest route does meanwhile. *)

\* A run's start is what its agent's clock says, so runs come in any order.
ExportStoreRun(r, owner, at) ==
  /\ exportRuns[r].owner = "none"
  /\ exportRuns' = [exportRuns EXCEPT ![r] = [owner |-> owner, at |-> at]]
  /\ UNCHANGED <<exportRows, ExportRequest>>

\* Rows refer to the row of their run.
ExportStoreRow(table, r) ==
  /\ exportRuns[r].owner # "none"
  /\ exportRows' = exportRows \cup {[table |-> table, run |-> r]}
  /\ UNCHANGED <<exportRuns, ExportRequest>>

-------------------------------------------------------------------------------
(* The request. *)

\* The end of the day of to.
ExportUntil(to) == (to \div ExportDay) * ExportDay + ExportDay - 1

ExportInRange(from, to) == to >= from /\ to - from <= ExportMaxDays * ExportDay

\* No include parameter means the runs.
ExportIncluded(include) == IF include = {} THEN {"runs"} ELSE include

\* The customer is logged in and the parameters are valid.
ExportAsk(from, to, include) ==
  /\ exportStage \in {"idle", "refused", "answered"}
  /\ ExportInRange(from, to) /\ include \subseteq ExportValidIncludes
  /\ exportStage' = "runs"
  /\ exportAsked' = [from |-> from, to |-> to, include |-> ExportIncluded(include)]
  /\ exportFound' = {} /\ exportGot' = {} /\ exportDue' = {} /\ exportAudit' = "none"
  /\ UNCHANGED <<exportRuns, exportRows>>

ExportSelected ==
  {r \in ExportRunIds : /\ exportRuns[r].owner = "own"
                        /\ exportAsked.from <= exportRuns[r].at
                        /\ exportRuns[r].at <= ExportUntil(exportAsked.to)}

ExportRowsOf(table, runs) == {row \in exportRows : row.table = table /\ row.run \in runs}

ExportReadRuns ==
  /\ exportStage = "runs"
  /\ exportStage' = "spans"
  /\ exportFound' = ExportSelected
  /\ exportDue' = {row \in exportRows : /\ row.run \in ExportSelected
                                        /\ row.table \in exportAsked.include}
  /\ UNCHANGED <<exportRuns, exportRows, exportAsked, exportGot, exportAudit>>

ExportRead(table) ==
  exportGot' = exportGot \cup (IF table \in exportAsked.include /\ exportFound # {}
                               THEN ExportRowsOf(table, exportFound) ELSE {})

ExportReadSpans ==
  /\ exportStage = "spans"
  /\ exportStage' = "logs"
  /\ ExportRead("spans")
  /\ UNCHANGED <<exportRuns, exportRows, exportAsked, exportFound, exportDue, exportAudit>>

ExportReadLogs ==
  /\ exportStage = "logs"
  /\ exportStage' = "audit"
  /\ ExportRead("logs")
  /\ UNCHANGED <<exportRuns, exportRows, exportAsked, exportFound, exportDue, exportAudit>>

\* appendAudit() swallows the failure of its insert; then the route answers.
ExportAppendAudit ==
  /\ exportStage = "audit"
  /\ exportStage' = "answered"
  /\ exportAudit' \in {"written", "failed"}
  /\ UNCHANGED <<exportRuns, exportRows, exportAsked, exportFound, exportGot, exportDue>>

\* The answer is an error, with nothing in the audit log: 401 or 400 before any select,
\* 500 when the database fails one.
ExportRefuse ==
  /\ exportStage # "audit"
  /\ exportStage' = "refused"
  /\ exportAsked' = [from |-> 0, to |-> 0, include |-> {}]
  /\ exportFound' = {} /\ exportGot' = {} /\ exportDue' = {} /\ exportAudit' = "none"
  /\ UNCHANGED <<exportRuns, exportRows>>

\* What the answer lists, in either format: a section of each included table.
ExportAnswer ==
  [runs |-> IF "runs" \in exportAsked.include THEN exportFound ELSE {}, rows |-> exportGot]

ExportNext ==
  \/ \E r \in ExportRunIds : \E owner \in {"own", "other"}, at \in ExportStarts :
       ExportStoreRun(r, owner, at)
  \/ \E r \in ExportRunIds, table \in ExportTables : ExportStoreRow(table, r)
  \/ \E from, to \in ExportDates, include \in ExportIncludes : ExportAsk(from, to, include)
  \/ ExportReadRuns \/ ExportReadSpans \/ ExportReadLogs \/ ExportAppendAudit
  \/ ExportRefuse

ExportSpec == ExportInit /\ [][ExportNext]_exportVars

-------------------------------------------------------------------------------
(* Properties. *)

ExportListed == ExportAnswer.runs \cup {row.run : row \in ExportAnswer.rows}

\* An answer lists nothing of another customer's runs nor of runs that started outside
\* its range, of which two are less than a day more than the cap apart.
ExportIsOwn ==
  exportStage = "answered" =>
    /\ \A r \in ExportListed : /\ exportRuns[r].owner = "own"
                               /\ exportRuns[r].at >= exportAsked.from
    /\ \A r1, r2 \in ExportListed :
         exportRuns[r1].at - exportRuns[r2].at < (ExportMaxDays + 1) * ExportDay

\* It lists every row of the included tables that was stored when the runs were read,
\* although rows keep coming, and the log records are read after the spans.
ExportIsComplete == exportStage = "answered" => exportDue \subseteq ExportAnswer.rows
===============================================================================
