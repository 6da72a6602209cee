------------------------------- MODULE Listings -------------------------------
(***************************************************************************)
(* The lists that clients read page by page while rows are being added.    *)
(* Collections that only grow are read by cursor, which is the key of the  *)
(* last row seen; small ones by page number, with a total.                 *)
(*                                                                         *)
(* created_at is read when the row is inserted, the row is there for       *)
(* others when its session commits, and ids are random: neither the keys   *)
(* nor the commits come in order.  Several rows may have one created_at.   *)
(***************************************************************************)
EXTENDS Naturals, Sequences, FiniteSets, SequencesExt

CONSTANTS
  Ids,          \* rows to come, a set of numbers: UUIDs are ordered
  MaxClock,     \* bound: readings of the clock
  Limits        \* the limit or page_size of requests

ASSUME ListingsAssumption ==
  Ids \subseteq Nat /\ MaxClock \in Nat \ {0} /\ Limits \subseteq Nat \ {0}

VARIABLES
  table,        \* the rows: state and created_at
  clock,
  reader,       \* one client on its way through one list
  passed        \* auxiliary: a row was committed between a count and its page

listingVars == <<table, clock, reader, passed>>

NoRow == [state |-> "none", at |-> 0]
CommittedRows == {r \in Ids : table[r].state = "committed"}

NoCursor == [at |-> 0, id |-> 0]
Key(r) == [at |-> table[r].at, id |-> r]

------------------------------------------------------------------------------
(***************************************************************************)
(* Cursors.  encode_cursor and decode_cursor hand the whole key through.   *)
(***************************************************************************)

DecodeCursor(cursor) == [at |-> cursor.at, id |-> cursor.id]
EncodeCursor(r) == Key(r)

\* A faulty variant, as in TaskStates.
OlderByTime(a, b) == a.at < b.at

Older(a, b) == a.at < b.at \/ (a.at = b.at /\ a.id < b.id)
Newer(a, b) == Older(b, a)

\* ORDER BY both columns, rows beyond the cursor only, LIMIT one more than
\* the page: the extra row says whether there is another page.
CursorPage(newest, cursor, limit) ==
  LET Before(a, b) == IF newest THEN Newer(a, b) ELSE Older(a, b)
      found == {r \in CommittedRows : cursor = NoCursor \/ Before(DecodeCursor(cursor), Key(r))}
      ordered == CHOOSE o \in SetToSeqs(found) :
                   \A i, j \in DOMAIN o : i < j => ~ Before(Key(o[j]), Key(o[i]))
      page == SubSeq(ordered, 1, IF Len(ordered) < limit THEN Len(ordered) ELSE limit)
      more == Len(ordered) > limit
  IN [page |-> page, more |-> more,
      next |-> IF more THEN EncodeCursor(page[Len(page)]) ELSE NoCursor]

AuditEventPage(cursor, limit) == CursorPage(TRUE, cursor, limit)
ExecutionHistoryPage(cursor, limit) == CursorPage(TRUE, cursor, limit)
TaskPage(cursor, limit) == CursorPage(FALSE, cursor, limit)
AgentRunPage(cursor, limit) == CursorPage(FALSE, cursor, limit)
MetricPage(cursor, limit) == CursorPage(FALSE, cursor, limit)

------------------------------------------------------------------------------
(***************************************************************************)
(* Page numbers.  ORDER BY created_at alone: rows that share it come in    *)
(* any order, and each query chooses anew.                                 *)
(***************************************************************************)

Misplaced(newest, a, b) ==
  IF newest THEN table[a].at < table[b].at ELSE table[b].at < table[a].at

OffsetPages(newest, limit, offset) ==
  {SubSeq(order, offset + 1, IF Len(order) < offset + limit THEN Len(order) ELSE offset + limit) :
     order \in {o \in SetToSeqs(CommittedRows) :
                  \A i, j \in DOMAIN o : i < j => ~ Misplaced(newest, o[i], o[j])}}

\* Projects and users can be sorted either way.
ProjectPages(newest, limit, offset) == OffsetPages(newest, limit, offset)
UserPages(newest, limit, offset) == OffsetPages(newest, limit, offset)
AgentPages(limit, offset) == OffsetPages(TRUE, limit, offset)
ContextPackagePages(limit, offset) == OffsetPages(TRUE, limit, offset)
SourceDocumentPages(limit, offset) == OffsetPages(TRUE, limit, offset)
PromptTemplatePages(limit, offset) == OffsetPages(TRUE, limit, offset)

------------------------------------------------------------------------------
(***************************************************************************)
(* The rows                                                                *)
(***************************************************************************)

NoReader == [list |-> "none", newest |-> TRUE, limit |-> 0, pc |-> "idle", cursor |-> NoCursor,
             offset |-> 0, total |-> 0, got |-> <<>>, before |-> {}]

ListingsInit ==
  /\ table = [r \in Ids |-> NoRow]
  /\ clock = 1
  /\ reader = NoReader
  /\ passed = FALSE

Tick ==
  /\ clock < MaxClock
  /\ clock' = clock + 1
  /\ UNCHANGED <<table, reader, passed>>

AddRow(r) ==
  /\ table[r] = NoRow
  /\ table' = [table EXCEPT ![r] = [state |-> "flushed", at |-> clock]]
  /\ UNCHANGED <<clock, reader, passed>>

CommitRow(r) ==
  /\ table[r].state = "flushed"
  /\ table' = [table EXCEPT ![r].state = "committed"]
  /\ passed' = (passed \/ reader.pc = "counted")
  /\ UNCHANGED <<clock, reader>>

RollBackRow(r) ==
  /\ table[r].state = "flushed"
  /\ table' = [table EXCEPT ![r] = NoRow]
  /\ UNCHANGED <<clock, reader, passed>>

------------------------------------------------------------------------------
(***************************************************************************)
(* The endpoints: the query of one page, or the count that precedes it.    *)
(* A client asks for the first page and follows next_cursor while has_more *)
(* is true, or asks for page after page until it has total rows.           *)
(***************************************************************************)

Opens(list, newest, pc) ==
  /\ reader = NoReader
  /\ \E limit \in Limits :
       reader' = [NoReader EXCEPT !.list = list, !.newest = newest, !.limit = limit, !.pc = pc,
                                  !.before = CommittedRows]
  /\ UNCHANGED <<table, clock, passed>>

ListAuditEvents == Opens("audit_events", TRUE, "cursor")
ListExecutionHistory == Opens("execution_history", TRUE, "cursor")
ListTasks == Opens("tasks", FALSE, "cursor")
ListRuns == Opens("agent_runs", FALSE, "cursor")
ListMetrics == Opens("metrics", FALSE, "cursor")
ListProjects == \E newest \in BOOLEAN : Opens("projects", newest, "count")
ListUsers == \E newest \in BOOLEAN : Opens("users", newest, "count")
ListAgents == Opens("agents", TRUE, "count")
ListContextPackages == Opens("context_packages", TRUE, "count")
ListSourceDocuments == Opens("source_documents", TRUE, "count")
ListTemplates == Opens("prompt_templates", TRUE, "count")

\* The dashboard's task graph follows the cursor by itself, to the end.
ListAllTasksForFeature == Opens("task_graph", FALSE, "cursor")

AskedPage(cursor, limit) ==
  CASE reader.list = "audit_events" -> AuditEventPage(cursor, limit)
    [] reader.list = "execution_history" -> ExecutionHistoryPage(cursor, limit)
    [] reader.list \in {"tasks", "task_graph"} -> TaskPage(cursor, limit)
    [] reader.list = "agent_runs" -> AgentRunPage(cursor, limit)
    [] reader.list = "metrics" -> MetricPage(cursor, limit)

AskedPages(limit, offset) ==
  CASE reader.list = "projects" -> ProjectPages(reader.newest, limit, offset)
    [] reader.list = "users" -> UserPages(reader.newest, limit, offset)
    [] reader.list = "agents" -> AgentPages(limit, offset)
    [] reader.list = "context_packages" -> ContextPackagePages(limit, offset)
    [] reader.list = "source_documents" -> SourceDocumentPages(limit, offset)
    [] reader.list = "prompt_templates" -> PromptTemplatePages(limit, offset)

ReadCursorPage ==
  /\ reader.pc = "cursor"
  /\ LET answer == AskedPage(reader.cursor, reader.limit) IN
     reader' = [reader EXCEPT !.got = @ \o answer.page, !.cursor = answer.next,
                              !.pc = IF answer.more THEN "cursor" ELSE "finished"]
  /\ UNCHANGED <<table, clock, passed>>

CountRows ==
  /\ reader.pc = "count"
  /\ reader' = [reader EXCEPT !.total = Cardinality(CommittedRows), !.pc = "counted"]
  /\ UNCHANGED <<table, clock, passed>>

ReadOffsetPage ==
  /\ reader.pc = "counted"
  /\ LET offset == reader.offset + reader.limit IN
     \E page \in AskedPages(reader.limit, reader.offset) :
       reader' = [reader EXCEPT !.got = @ \o page, !.offset = offset,
                                !.pc = IF offset < reader.total THEN "count" ELSE "finished"]
  /\ UNCHANGED <<table, clock, passed>>

ListingsNext ==
  \/ Tick
  \/ \E r \in Ids : AddRow(r) \/ CommitRow(r) \/ RollBackRow(r)
  \/ ListAuditEvents \/ ListExecutionHistory \/ ListTasks \/ ListRuns \/ ListMetrics
  \/ ListProjects \/ ListUsers \/ ListAgents \/ ListContextPackages
  \/ ListSourceDocuments \/ ListTemplates \/ ListAllTasksForFeature
  \/ ReadCursorPage \/ CountRows \/ ReadOffsetPage

ListingsSpec == ListingsInit /\ [][ListingsNext]_listingVars

------------------------------------------------------------------------------
(***************************************************************************)
(* Properties                                                              *)
(***************************************************************************)

ListingsTypeOK ==
  /\ \A r \in Ids : table[r].state \in {"none", "flushed", "committed"} /\ table[r].at \in 0..MaxClock
  /\ reader.pc \in {"idle", "cursor", "count", "counted", "finished"}
  /\ reader.got \in Seq(Ids) /\ reader.before \subseteq Ids
  /\ passed \in BOOLEAN

Ties == \E a, b \in CommittedRows : a # b /\ table[a].at = table[b].at
InOrder(a, b) == IF reader.newest THEN Newer(Key(a), Key(b)) ELSE Older(Key(a), Key(b))

\* A client that has read a list to its end has, whatever was committed on
\* the way, every row that was there when it began.  By cursor it has them
\* once and in order, rows with one created_at included.  By page number rows
\* may come twice, but none is lost as long as no two share a created_at and
\* no row is committed between a count and its page; without any commit the
\* list is exact.
PagesTellAll ==
  reader.pc = "finished" =>
    LET byCursor == reader.total = 0 /\ reader.offset = 0 IN
    /\ byCursor \/ (~ Ties /\ ~ passed) => reader.before \subseteq ToSet(reader.got)
    /\ byCursor \/ (~ Ties /\ reader.before = CommittedRows) =>
         \A i, j \in DOMAIN reader.got : i < j => InOrder(reader.got[i], reader.got[j])

==============================================================================
