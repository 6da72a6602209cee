---------------------------- MODULE PromptLibrary ----------------------------
(***************************************************************************)
(* The Prompt Library, by database statement: the versions of a template   *)
(* are numbered, immutable, and at most one of them is active.             *)
(*                                                                         *)
(* Sessions are those of RunSessions: a SELECT sees the last commit and    *)
(* the session's own writes, a write waits for the session that has the    *)
(* row.  Two unique indexes guard the table: on the number, and on the     *)
(* template where is_active.  A write that meets a committed row there     *)
(* fails the request; one that meets an uncommitted row waits.  Sessions   *)
(* that wait for each other are a deadlock, which PostgreSQL breaks by     *)
(* failing one of them.                                                    *)
(*                                                                         *)
(* A version is named by the request that creates it.                      *)
(***************************************************************************)
EXTENDS Naturals, Sequences, FiniteSets, FiniteSetsExt

CONSTANT Editors      \* requests to come, numbered as they arrive, each for one operation

VARIABLES
  template,         \* the requests whose row is in prompt_templates
  versions,         \* committed rows of prompt_versions
  edit              \* the requests: place in the code, reads and writes

promptVars == <<template, versions, edit>>

NoVersion == [number |-> 0, active |-> FALSE]
VersionRow == [number : Nat \ {0}, active : BOOLEAN]

\* number, activate   what create_version is about to write
\* todo               the rows set_active has still to write: <<row, value>>
\* seen               is_active as set_active loaded it
\* new                the rows this session has written and not committed
Nothing == [x \in {} |-> NoVersion]
Unbegun == [pc |-> "new", number |-> 0, activate |-> FALSE,
            todo |-> <<>>, seen |-> FALSE, new |-> Nothing]

Present(row) == row # NoVersion
Begins(s) == edit[s].pc = "new" /\ \A o \in Editors : o < s => edit[o].pc # "new"
Others(s) == Editors \ {s}
Written(s) == DOMAIN edit[s].new

\* What a SELECT of the session returns.
Select(s, v) == IF v \in Written(s) THEN edit[s].new[v] ELSE versions[v]
Selected(s) == {v \in Editors : Present(Select(s, v))}

Fail(s) == [edit EXCEPT ![s] = [Unbegun EXCEPT !.pc = "failed"]]

Write(s, v, row, pc) ==
  [edit EXCEPT ![s].new = [x \in DOMAIN @ \cup {v} |-> IF x = v THEN row ELSE @[x]],
               ![s].todo = IF @ = <<>> THEN <<>> ELSE Tail(@),
               ![s].pc = pc]

------------------------------------------------------------------------------

PromptInit ==
  /\ template = {}
  /\ versions = [v \in Editors |-> NoVersion]
  /\ edit = [s \in Editors |-> Unbegun]

\* create_template: the name is looked up, then inserted, and is unique.
CreateTemplate(s) ==
  /\ edit' = [edit EXCEPT ![s].pc = IF template = {} THEN "insert_template" ELSE "failed"]
  /\ UNCHANGED <<template, versions>>

InsertTemplate(s) ==
  /\ edit[s].pc = "insert_template"
  /\ IF template = {}
     THEN template' = {s} /\ edit' = [edit EXCEPT ![s].pc = "done"]
     ELSE template' = template /\ edit' = Fail(s)
  /\ UNCHANGED versions

\* validate_variables_declared: what the content refers to and nobody declared.
Undeclared(referenced, declared) == referenced \ declared

\* create_version: get_template, and the check of the variables.
CreateVersion(s, activate, referenced, declared) ==
  /\ edit' = IF template # {} /\ Undeclared(referenced, declared) = {}
             THEN [edit EXCEPT ![s].pc = "read_max", ![s].activate = activate]
             ELSE Fail(s)
  /\ UNCHANGED <<template, versions>>

ReadMax(s) ==
  /\ edit[s].pc = "read_max"
  /\ edit' = [edit EXCEPT ![s].pc = "insert",
                ![s].number = Max({Select(s, v).number : v \in Selected(s)} \cup {0}) + 1]
  /\ UNCHANGED <<template, versions>>

\* The unique index on the number.
NumberPending(s) ==
  \E o \in Others(s) : \E v \in Written(o) \ Selected(s) : edit[o].new[v].number = edit[s].number
\* A faulty variant, as in TaskStates.
NumberTakenByActive(s) ==
  \E v \in Selected(s) : Select(s, v).active /\ Select(s, v).number = edit[s].number

NumberTaken(s) == \E v \in Selected(s) : Select(s, v).number = edit[s].number

InsertVersion(s) ==
  /\ edit[s].pc = "insert"
  /\ ~ NumberPending(s)
  /\ edit' = IF NumberTaken(s) THEN Fail(s)
             ELSE Write(s, s, [number |-> edit[s].number, active |-> FALSE],
                        IF edit[s].activate THEN "find_active" ELSE "commit")
  /\ UNCHANGED <<template, versions>>

\* activate_version: the version has to be there, and not to be active.
ActivateVersion(s, v) ==
  /\ edit' = IF Present(versions[v]) /\ ~ versions[v].active
             THEN [edit EXCEPT ![s].pc = "find_active", ![s].todo = << <<v, TRUE>> >>]
             ELSE Fail(s)
  /\ UNCHANGED <<template, versions>>

\* _activate: what is active now is switched off first.
FindActive(s) ==
  /\ edit[s].pc = "find_active"
  /\ LET on == IF edit[s].todo = <<>> THEN << <<s, TRUE>> >> ELSE edit[s].todo
         off == {v \in Selected(s) : Select(s, v).active}
     IN edit' = [edit EXCEPT ![s].pc = "load",
          ![s].todo = IF off \subseteq {on[1][1]} THEN on
                      ELSE << <<CHOOSE v \in off : TRUE, FALSE>> >> \o on]
  /\ UNCHANGED <<template, versions>>

\* set_active loads the row ...
LoadVersion(s) ==
  /\ edit[s].pc = "load"
  /\ edit' = [edit EXCEPT ![s].pc = "flush",
                ![s].seen = Select(s, Head(edit[s].todo)[1]).active]
  /\ UNCHANGED <<template, versions>>

\* The partial unique index on is_active.
ActivePending(s, v) ==
  \E o \in Others(s) : \E x \in Written(o) \ {v} : versions[x].active \/ edit[o].new[x].active
\* A faulty variant, as in TaskStates.
ActiveTakenWithNumber(s, v) ==
  \E x \in Selected(s) \ {v} : Select(s, x).active /\ Select(s, x).number = Select(s, v).number

ActiveTaken(s, v) == \E x \in Selected(s) \ {v} : Select(s, x).active

\* ... and flushes it when the value differs.
FlushActive(s) ==
  /\ edit[s].pc = "flush"
  /\ LET v == Head(edit[s].todo)[1]
         on == Head(edit[s].todo)[2]
         next == IF Len(edit[s].todo) = 1 THEN "commit" ELSE "load"
     IN
     IF on = edit[s].seen
     THEN edit' = [edit EXCEPT ![s].pc = next, ![s].todo = Tail(@)]
     ELSE /\ \A o \in Others(s) : v \notin Written(o)
          /\ on => ~ ActivePending(s, v)
          /\ edit' = IF on /\ ActiveTaken(s, v) THEN Fail(s)
                     ELSE Write(s, v, [Select(s, v) EXCEPT !.active = on], next)
  /\ UNCHANGED <<template, versions>>

CommitEdit(s) ==
  /\ edit[s].pc = "commit"
  /\ versions' = [v \in Editors |-> Select(s, v)]
  /\ edit' = [edit EXCEPT ![s] = [Unbegun EXCEPT !.pc = "done"]]
  /\ UNCHANGED template

\* A deadlock, a lost connection, a process that dies: rolled back.
EditFails(s) ==
  /\ edit[s].pc \notin {"new", "done", "failed"}
  /\ edit' = Fail(s)
  /\ UNCHANGED <<template, versions>>

\* The endpoints.  A service's error ends the request: 404, 409 or 422.
PostTemplate(s) == Begins(s) /\ CreateTemplate(s)
PostVersion(s) ==
  /\ Begins(s)
  /\ \E activate \in BOOLEAN, referenced, declared \in SUBSET {"variable"} :
       CreateVersion(s, activate, referenced, declared)
PostActivate(s) == Begins(s) /\ \E v \in Editors : ActivateVersion(s, v)

PromptNext ==
  \E s \in Editors :
    \/ PostTemplate(s) \/ PostVersion(s) \/ PostActivate(s)
    \/ InsertTemplate(s) \/ ReadMax(s) \/ InsertVersion(s)
    \/ FindActive(s) \/ LoadVersion(s) \/ FlushActive(s) \/ CommitEdit(s) \/ EditFails(s)

PromptSpec == PromptInit /\ [][PromptNext]_promptVars

------------------------------------------------------------------------------
(***************************************************************************)
(* Properties                                                              *)
(***************************************************************************)

PromptTypeOK ==
  /\ template \subseteq Editors
  /\ versions \in [Editors -> VersionRow \cup {NoVersion}]
  /\ \A s \in Editors : \A v \in Written(s) : edit[s].new[v] \in VersionRow

ActiveVersions == {v \in Editors : versions[v].active}

\* Versions are numbered 1, 2, 3 and so on in the order in which they are
\* committed: requests that compute the same number, wait for each other,
\* fail or start over leave neither a gap nor a number used twice.
NumbersHaveNoGaps ==
  LET stored == {v \in Editors : Present(versions[v])} IN
  {versions[v].number : v \in stored} = 1..Cardinality(stored)

\* Once a version is active there is exactly one, in every committed state:
\* activations that overlap switch off what is no longer active and never
\* leave a template without the prompt its agents use.
ActiveVersionStays ==
  [][ActiveVersions # {} => Cardinality(ActiveVersions') = 1]_promptVars

==============================================================================
