------------------------------ MODULE Resources -------------------------------
(***************************************************************************)
(* The rows that users edit: projects, features, git repositories, agents, *)
(* users and their roles, by database statement.                           *)
(*                                                                         *)
(* An update reads its row, changes the object it made of it, loads the    *)
(* row once more and flushes the columns in which the two differ; the      *)
(* flush waits for the session that has the row.  A create looks its key   *)
(* up and inserts, and the unique index has the last word.                 *)
(*                                                                         *)
(* One row of each kind.  The columns are status (is_enabled of an agent), *)
(* text (names, titles, descriptions, config) and link, the repository of  *)
(* a project.                                                              *)
(***************************************************************************)
EXTENDS Naturals, FiniteSets

CONSTANT Requests     \* requests to come, numbered as they arrive

VARIABLES
  rows,         \* committed rows, one of each kind
  handler,         \* the requests: place in the code, reads and writes
  overtaken,    \* auxiliary: requests whose rows another changed since they read
  shadowed      \* auxiliary: those for which it was before the second read

resourceVars == <<rows, handler, overtaken, shadowed>>

Kinds == {"project", "feature", "repository", "agent", "user", "user_role"}

FeatureTransitions ==
  [draft       |-> {"in_progress", "cancelled"},
   in_progress |-> {"in_review", "cancelled"},
   in_review   |-> {"done", "in_progress", "cancelled"},
   done        |-> {},
   cancelled   |-> {}]

FeatureStatus == DOMAIN FeatureTransitions
FirstStatus(k) == IF k = "feature" THEN "draft" ELSE "active"
\* What earlier requests may have left.
ReachedStatus(k) ==
  CASE k = "feature" -> FeatureStatus
    [] k = "project" -> {"active", "archived"}
    [] k \in {"agent", "user"} -> {"active", "disabled"}
    [] OTHER -> {"active"}

Statuses == FeatureStatus \cup {"active", "archived", "disabled"}
Texts == {"first", "second"}

Row == [status : Statuses, text : Texts, link : BOOLEAN]
Missing == [status |-> "none", text |-> "none", link |-> FALSE]
Fresh(k) == [status |-> FirstStatus(k), text |-> "first", link |-> FALSE]

\* An operation: the row it is about and what it asks for; the row of
\* another kind that it inserts first, if that is missing.
Operation(name, kind, text, status) ==
  [name |-> name, kind |-> kind, text |-> text, status |-> status]
Creates == {"create", "create_feature", "grant"}

------------------------------------------------------------------------------
(***************************************************************************)
(* The services: the object to be stored, or none if the request is        *)
(* refused.  "none" as an argument leaves the column alone.                *)
(***************************************************************************)

Given(new, old) == IF new = "none" THEN old ELSE new

UpdateProject(row, op) == {[row EXCEPT !.text = Given(op.text, @)]}

ArchiveProject(row, op) ==
  IF row.status = "archived" THEN {} ELSE {[row EXCEPT !.status = "archived"]}

AttachRepository(row, op) == {[row EXCEPT !.link = TRUE]}

UpdateFeature(row, op) == {[row EXCEPT !.text = Given(op.text, @)]}

TransitionFeature(row, op) ==
  IF op.status \in FeatureTransitions[row.status] THEN {[row EXCEPT !.status = op.status]} ELSE {}

UpdateAgent(row, op) == {[row EXCEPT !.status = Given(op.status, @), !.text = Given(op.text, @)]}

UpdateUser(row, op) == {[row EXCEPT !.status = Given(op.status, @), !.text = Given(op.text, @)]}

RevokeRole(row, op) == {Missing}

Wanted(row, op) ==
  CASE op.name = "update_project"     -> UpdateProject(row, op)
    [] op.name = "archive"            -> ArchiveProject(row, op)
    [] op.name = "attach"             -> AttachRepository(row, op)
    [] op.name = "update_feature"     -> UpdateFeature(row, op)
    [] op.name = "transition_feature" -> TransitionFeature(row, op)
    [] op.name = "update_agent"       -> UpdateAgent(row, op)
    [] op.name = "update_user"        -> UpdateUser(row, op)
    [] op.name = "revoke"             -> RevokeRole(row, op)

\* A faulty variant, as in TaskStates.
ProjectTextColumns == {"text", "status"}

\* The columns that the update() of each repository copies into the row.
ProjectColumns == {"text", "status", "link"}
FeatureColumns == {"text", "status"}
AgentColumns == {"status", "text"}
UserColumns == {"text", "status"}

Columns(k) ==
  CASE k = "project" -> ProjectColumns [] k = "feature" -> FeatureColumns
    [] k = "agent" -> AgentColumns [] k = "user" -> UserColumns
    [] OTHER -> {"status", "text", "link"}       \* a DELETE takes all of the row

------------------------------------------------------------------------------

NoOperation == Operation("none", "none", "none", "none")
Unasked == [pc |-> "new", op |-> NoOperation, want |-> Missing, base |-> Missing,
            new |-> {}, cols |-> {}]

ResourcesInit ==
  /\ \E k \in Kinds, row \in Row :
       /\ row.status \in ReachedStatus(k)
       /\ row.link => k = "project"
       /\ row.text = "second" => k \in {"project", "feature", "agent", "user"}
       /\ rows \in {[[x \in Kinds |-> Fresh(x)] EXCEPT ![k] = row],
                    [x \in Kinds |-> IF x = "user" THEN Fresh(x) ELSE Missing]}
  /\ handler = [s \in Requests |-> Unasked]
  /\ overtaken = {}
  /\ shadowed = {}

Underway(s) == handler[s].pc \notin {"new", "done", "refused"}
Holds(s, k) == k \in handler[s].new \/ (k = handler[s].op.kind /\ handler[s].cols # {})
Taken(s, k) == \E o \in Requests \ {s} : Underway(o) /\ Holds(o, k)

Goes(s, c) == handler' = [handler EXCEPT ![s] = c] /\ UNCHANGED <<rows, overtaken, shadowed>>
Over(s, pc) == Goes(s, [Unasked EXCEPT !.pc = pc])

\* get_by_id and the service's own conditions.
ReadRow(s, c) ==
  LET found == IF rows[c.op.kind] = Missing THEN {} ELSE Wanted(rows[c.op.kind], c.op) IN
  IF found = {} THEN Over(s, "refused")
  ELSE \E row \in found : Goes(s, [c EXCEPT !.pc = "reload", !.want = row])

\* The look-up of a key: the slug, the name and version, the url, the grant.
LookUp(s, c, key) ==
  IF rows[key] # Missing THEN Over(s, "refused") ELSE Goes(s, [c EXCEPT !.pc = "insert"])

\* The services that create: what the new row belongs to has to be there,
\* and the row itself has not to be.
NewProject(s, c) == LookUp(s, c, "project")
NewAgent(s, c) == LookUp(s, c, "agent")
NewFeature(s, c) ==
  IF rows["project"] = Missing THEN Over(s, "refused") ELSE LookUp(s, c, "feature")
NewRole(s, c) ==
  IF rows["user"] = Missing THEN Over(s, "refused") ELSE LookUp(s, c, "user_role")

Asks(s, op, First(_, _)) ==
  /\ handler[s].pc = "new" /\ \A o \in Requests : o < s => handler[o].pc # "new"
  /\ First(s, [Unasked EXCEPT !.op = op])

CreateProject(s) ==
  Asks(s, Operation("create", "project", "none", "none"), NewProject)

PatchProject(s) ==
  \E text \in Texts : Asks(s, Operation("update_project", "project", text, "none"), ReadRow)

PostArchive(s) == Asks(s, Operation("archive", "project", "none", "archived"), ReadRow)

\* The repository is looked up by its url, and created if there is none.
PutRepository(s) ==
  Asks(s, Operation("attach", "project", "none", "none"), LAMBDA r, c :
    IF rows["repository"] = Missing THEN Goes(r, [c EXCEPT !.pc = "insert"]) ELSE ReadRow(r, c))

\* A feature has no key of its own; of several, the first is followed.
CreateFeature(s) ==
  /\ rows["feature"] = Missing
  /\ \A o \in Requests : handler[o].op.name # "create_feature"
  /\ Asks(s, Operation("create_feature", "feature", "none", "none"), NewFeature)

PatchFeature(s) ==
  \E text \in Texts : Asks(s, Operation("update_feature", "feature", text, "none"), ReadRow)

PostFeatureStatus(s) ==
  \E to \in FeatureStatus :
    Asks(s, Operation("transition_feature", "feature", "none", to), ReadRow)

RegisterAgent(s) ==
  Asks(s, Operation("create", "agent", "none", "none"), NewAgent)

PatchAgent(s) ==
  \E text \in {"second", "none"}, status \in {"active", "disabled", "none"} :
    Asks(s, Operation("update_agent", "agent", text, status), ReadRow)

PatchUser(s) ==
  \E text \in {"second", "none"}, status \in {"active", "disabled", "none"} :
    Asks(s, Operation("update_user", "user", text, status), ReadRow)

GrantRole(s) ==
  Asks(s, Operation("grant", "user_role", "none", "none"), NewRole)

DeleteRole(s) == Asks(s, Operation("revoke", "user_role", "none", "none"), ReadRow)

------------------------------------------------------------------------------

\* The unique index: an uncommitted row of that key is waited for, a
\* committed one fails the request.
InsertRow(s) ==
  LET c == handler[s]
      key == IF c.op.name = "attach" THEN "repository" ELSE c.op.kind
  IN
  /\ c.pc = "insert"
  /\ ~ Taken(s, key)
  /\ IF rows[key] # Missing THEN Over(s, "refused")
     ELSE Goes(s, [c EXCEPT !.new = {key},
                            !.pc = IF c.op.name \in Creates THEN "commit" ELSE "read"])

ReadProject(s) == handler[s].pc = "read" /\ ReadRow(s, handler[s])

\* update() loads the row again.
Reload(s) ==
  /\ handler[s].pc = "reload"
  /\ Goes(s, [handler[s] EXCEPT !.pc = "flush", !.base = rows[handler[s].op.kind]])

Flush(s) ==
  LET c == handler[s]
      differ == {col \in Columns(c.op.kind) : c.want[col] # c.base[col]}
  IN
  /\ c.pc = "flush"
  /\ differ # {} => ~ Taken(s, c.op.kind)
  /\ Goes(s, [c EXCEPT !.pc = "commit", !.cols = differ])

Committed(s) ==
  [k \in Kinds |->
     IF k \in handler[s].new THEN Fresh(k)
     ELSE IF k = handler[s].op.kind /\ rows[k] # Missing
     THEN IF handler[s].want = Missing /\ handler[s].cols # {} THEN Missing
          ELSE [c \in {"status", "text", "link"} |->
                  IF c \in handler[s].cols THEN handler[s].want[c] ELSE rows[k][c]]
     ELSE rows[k]]

CommitRequest(s) ==
  /\ handler[s].pc = "commit"
  /\ rows' = Committed(s)
  /\ handler' = [handler EXCEPT ![s] = [Unasked EXCEPT !.pc = "done"]]
  /\ LET behind == {o \in Requests \ {s} : Underway(o) /\ rows'[handler[o].op.kind] # rows[handler[o].op.kind]}
     IN /\ overtaken' = overtaken \cup behind
        /\ shadowed' = shadowed \cup {o \in behind : handler[o].pc = "reload"}

ResourceRequestFails(s) == Underway(s) /\ Over(s, "refused")

ResourcesNext ==
  \E s \in Requests :
    \/ CreateProject(s) \/ PatchProject(s) \/ PostArchive(s) \/ PutRepository(s)
    \/ CreateFeature(s) \/ PatchFeature(s) \/ PostFeatureStatus(s)
    \/ RegisterAgent(s) \/ PatchAgent(s) \/ PatchUser(s) \/ GrantRole(s) \/ DeleteRole(s)
    \/ InsertRow(s) \/ ReadProject(s) \/ Reload(s) \/ Flush(s)
    \/ CommitRequest(s) \/ ResourceRequestFails(s)

ResourcesSpec == ResourcesInit /\ [][ResourcesNext]_resourceVars

------------------------------------------------------------------------------
(***************************************************************************)
(* Properties                                                              *)
(***************************************************************************)

ResourcesTypeOK ==
  /\ rows \in [Kinds -> Row \cup {Missing}]
  /\ \A s \in Requests : handler[s].want \in Row \cup {Missing} /\ handler[s].cols \subseteq DOMAIN Missing
  /\ shadowed \subseteq overtaken /\ overtaken \subseteq Requests

\* What the operation would do if it ran alone, as one step.
Alone(op) ==
  [k \in Kinds |->
     IF k = op.kind
     THEN IF op.name \in Creates THEN Fresh(k) ELSE CHOOSE row \in Wanted(rows[k], op) : TRUE
     ELSE IF k = "repository" /\ op.name = "attach" /\ rows[k] = Missing THEN Fresh(k)
     ELSE rows[k]]

Permitted(op) ==
  IF op.name \in Creates THEN rows[op.kind] = Missing ELSE Wanted(rows[op.kind], op) # {}

Requested(op) ==
  {col \in DOMAIN Missing :
     \/ col = "text" /\ op.text # "none"
     \/ col = "status" /\ op.status # "none"
     \/ col = "link" /\ op.name = "attach"}

\* A request whose row nobody changed since it read it takes effect as if it
\* ran alone at its commit: it is permitted then, and leaves what it should.
\* In particular no feature leaves done or cancelled, no project is archived
\* twice.  A request that was overtaken only after its second read may break
\* that, but still writes no column it was not asked to: it gives nobody's
\* change back.
UpdatesAsIfAlone ==
  [][\A s \in Requests : CommitRequest(s) =>
       LET op == handler[s].op IN
       /\ s \notin overtaken => Permitted(op) /\ rows' = Alone(op)
       /\ s \notin shadowed /\ op.name \notin Creates \cup {"revoke"} =>
            \A col \in DOMAIN Missing \ Requested(op) : rows'[op.kind][col] = rows[op.kind][col]]_resourceVars

==============================================================================
