-------------------------- MODULE RunSessionsProofs --------------------------
(***************************************************************************)
(* The rows of a task and its runs under any number of requests, failures  *)
(* and crashes.                                                            *)
(***************************************************************************)
EXTENDS RunSessions, TLAPS

\* The sessions of two requests differ, and so do the two of one.
LEMMA Names ==
  /\ \A q \in Requests : Front(q) \in Fronts /\ Back(q) \in Backs /\ Front(q)[1] = q /\ Back(q)[1] = q
  /\ \A s \in Fronts : s[1] \in Requests /\ s = Front(s[1]) /\ s \notin Backs
  /\ \A s \in Backs : s[1] \in Requests /\ s = Back(s[1]) /\ s \notin Fronts
  /\ Fronts \subseteq Sessions /\ Backs \subseteq Sessions
  /\ \A s \in Sessions : s \in Fronts \/ s \in Backs
  BY DEF Front, Back, Fronts, Backs, Sessions

------------------------------------------------------------------------------
(***************************************************************************)
(* Types                                                                   *)
(***************************************************************************)

Operation == {"start", "retry", "cancel", "move", "patch", "settle"}
Place == {"new", "run_read", "signal", "read", "load", "flush", "run_load", "run_flush",
          "launch", "agent", "commit", "finish", "done", "failed"}
Copy == [status : {None, "running"} \cup Settled, attempt : Nat]

Session == [op : Operation \cup {None}, pc : Place, id : Requests \cup {None},
            todo : Seq(TaskStatus),
            copy : TaskStatus \cup {None}, seen : TaskStatus \cup {None},
            runCopy : Copy, runSeen : Copy,
            set : TaskStatus \cup {None}, runSet : RunRow,
            entries : Seq((TaskStatus \cup {None}) \X TaskStatus)]

\* What the next statement of a session relies on.
Fits(s, x, rows) ==
  /\ x.pc \in {"read", "load", "flush"} /\ x.op # "patch" => x.todo # <<>>
  /\ x.pc = "run_read" /\ x.op = "retry" => x.todo # <<>>
  /\ x.pc \in {"load", "flush"} => x.copy \in TaskStatus
  /\ x.pc = "flush" => x.seen \in TaskStatus
  /\ x.pc \in {"run_read", "signal", "run_load", "run_flush", "launch", "agent", "finish"}
       => x.op \in {"start", "retry", "cancel", "settle"}
  /\ x.op \in {"start", "retry", "cancel", "settle"} /\ x.pc \notin Over \cup {"new"}
       => x.id \in Requests
  /\ x.pc = "run_flush" => rows[x.id] # NoRow
  /\ x.op = "retry" /\ x.pc \in {"read", "load", "flush", "run_load"} => rows[x.id] # NoRow
  /\ x.pc = "run_load" => x.runSet = NoRow
  /\ s \in Fronts =>
       /\ x.pc \notin {"agent", "finish"} /\ x.op # "settle"
       /\ x.pc \in {"run_load", "run_flush"} => x.op = "retry"
       /\ x.pc \in {"run_read", "read", "load", "flush"} => x.runSet = NoRow
  /\ s \in Backs =>
       /\ x.pc \notin {"run_read", "signal", "launch"}
       /\ x.pc \notin Over \cup {"new"} => x.op = "settle"
       /\ x.pc \in {"agent", "run_load", "run_flush"} => x.runCopy.attempt \in Nat \ {0}
       /\ x.pc = "agent" => x.runSet = NoRow
       /\ x.pc \in {"run_load", "run_flush"} => x.runCopy.status \in Settled /\ x.todo # <<>>

SessionsFit ==
  /\ ses \in [Sessions -> Session]
  /\ \A s \in Sessions : Fits(s, ses[s], run)

TypeInv == TypeOK /\ SessionsFit

LEMMA RowTypes ==
  /\ NoRow \in RunRow /\ NoRow \in Copy /\ RunRow \subseteq Copy
  /\ \A r \in RunRow \ {NoRow} : r.status \in {"running"} \cup Settled /\ r.attempt \in Nat \ {0}
  /\ \A st \in {"running"} \cup Settled, n \in Nat \ {0} :
       [status |-> st, attempt |-> n] \in RunRow \ {NoRow}
  BY DEF NoRow, RunRow, Copy, None, Settled

LEMMA BlankType ==
  ASSUME NEW op \in Operation \cup {None}, NEW id \in Requests \cup {None}, NEW pc \in Place
  PROVE  [Blank EXCEPT !.op = op, !.id = id, !.pc = pc] \in Session
<1>1. <<>> \in Seq(TaskStatus) /\ <<>> \in Seq((TaskStatus \cup {None}) \X TaskStatus)
  OBVIOUS
<1>. QED  BY <1>1, RowTypes DEF Blank, Session

LEMMA BlankInSession == Blank \in Session
<1>1. <<>> \in Seq(TaskStatus) /\ <<>> \in Seq((TaskStatus \cup {None}) \X TaskStatus)
  OBVIOUS
<1>. QED  BY <1>1, RowTypes DEF Blank, Session, Place

LEMMA TypeInvInit == Init => TypeInv
<1> SUFFICES ASSUME Init PROVE TypeInv
  OBVIOUS
<1>1. Blank \in Session
  BY BlankInSession
<1>2. SessionsFit
  BY <1>1, Names DEF Init, SessionsFit, Fits, Blank, Over, None
<1>3. TypeOK
  <2>1. Blank.set = None /\ Blank.runSet = NoRow
    BY DEF Blank
  <2>2. \A s \in Sessions : ses[s].set \in TaskStatus \cup {None} /\ ses[s].runSet \in RunRow
    BY <2>1, RowTypes DEF Init
  <2>3. task \in TaskStatus /\ orphan \in BOOLEAN /\ token \subseteq Backs
    BY DEF Init, TaskStatus
  <2>4. faults \in 0..MaxFaults
    BY EnvironmentIsGiven DEF Init
  <2>5. run \in [Requests -> RunRow] /\ active \in [Requests -> Backs \cup {Nobody}]
    BY RowTypes DEF Init
  <2>. QED  BY <2>2, <2>3, <2>4, <2>5 DEF TypeOK
<1>. QED  BY <1>2, <1>3 DEF TypeInv


\* One session takes a step, and the committed rows stay.
LEMMA OneSession ==
  ASSUME TypeInv, NEW s \in Sessions, NEW x \in Session, Fits(s, x, run),
         ses' = [ses EXCEPT ![s] = x], UNCHANGED <<task, run>>,
         active' \in [Requests -> Backs \cup {Nobody}], token' \subseteq Backs,
         faults' \in 0..MaxFaults, orphan' \in BOOLEAN
  PROVE  TypeInv'
<1>1. ses' \in [Sessions -> Session]
  BY DEF TypeInv, SessionsFit
<1>2. \A o \in Sessions : Fits(o, ses'[o], run')
  <2> TAKE o \in Sessions
  <2>1. ses'[o] = IF o = s THEN x ELSE ses[o]
    BY DEF TypeInv, SessionsFit
  <2>2. Fits(o, ses[o], run)
    BY DEF TypeInv, SessionsFit
  <2>. QED  BY <2>1, <2>2
<1>3. TypeOK'
  <2>1. \A o \in Sessions : ses'[o].set \in TaskStatus \cup {None} /\ ses'[o].runSet \in RunRow
    BY <1>1 DEF Session
  <2>. QED  BY <2>1 DEF TypeInv, TypeOK
<1>. QED  BY <1>1, <1>2, <1>3 DEF TypeInv, SessionsFit

\* The record of a session that is over, or has only its done callback left.
Closed(s, pc) == [Blank EXCEPT !.op = ses[s].op, !.id = ses[s].id, !.pc = pc]

LEMMA ClosedFits ==
  ASSUME TypeInv, NEW s \in Sessions, NEW pc \in {"done", "failed", "finish"},
         pc = "finish" => s \in Backs /\ ses[s].id \in Requests /\ ses[s].op = "settle"
  PROVE  Closed(s, pc) \in Session /\ \A rows : Fits(s, Closed(s, pc), rows)
<1>1. ses[s].op \in Operation \cup {None} /\ ses[s].id \in Requests \cup {None} /\ pc \in Place
  BY DEF TypeInv, SessionsFit, Session, Place
<1>2. Closed(s, pc) \in Session
  BY <1>1, BlankType DEF Closed
<1>3. Closed(s, pc).op = ses[s].op /\ Closed(s, pc).id = ses[s].id /\ Closed(s, pc).pc = pc
  BY DEF Blank, Closed
<1>4. ASSUME NEW rows PROVE Fits(s, Closed(s, pc), rows)
  <2>1. s \in Backs => s \notin Fronts
    BY Names
  <2>2. s \in Fronts => ses[s].op # "settle"
    BY DEF TypeInv, SessionsFit, Fits
  <2> HIDE DEF Closed
  <2>. QED  BY <1>3, <2>1, <2>2 DEF Fits, Over
<1>. QED  BY <1>2, <1>4

\* A session that ends, or that loses its copies and goes to its done callback.
LEMMA ClosingKeepsTypes ==
  ASSUME TypeInv, NEW s \in Sessions, NEW pc \in {"done", "failed", "finish"},
         pc = "finish" => s \in Backs /\ ses[s].id \in Requests /\ ses[s].op = "settle",
         Abort(s, pc), UNCHANGED <<task, run>>,
         active' \in [Requests -> Backs \cup {Nobody}], token' \subseteq Backs,
         faults' \in 0..MaxFaults, orphan' \in BOOLEAN
  PROVE  TypeInv'
<1>1. ses' = [ses EXCEPT ![s] = Closed(s, pc)]
  BY DEF Abort, Closed
<1>. QED  BY <1>1, ClosedFits, OneSession

LEMMA BeginKeepsTypes ==
  ASSUME TypeInv, NEW q \in Requests, NEW op \in Operation \ {"settle"}, NEW id \in Requests \cup {None},
         NEW todo \in Seq(TaskStatus), Begin(q, op, id, todo),
         op \notin {"cancel", "patch"} => todo # <<>>,
         op \in {"start", "retry", "cancel"} => id \in Requests
  PROVE  TypeInv'
<1> DEFINE place == IF op \in {"retry", "cancel"} THEN "run_read" ELSE "read"
           x == [Blank EXCEPT !.op = op, !.id = id, !.todo = todo, !.pc = place]
<1>1. Front(q) \in Sessions /\ Front(q) \in Fronts /\ Front(q) \notin Backs
  BY Names
<1>2. place \in Place
  BY DEF Place
<1>3. x \in Session
  <2>1. <<>> \in Seq((TaskStatus \cup {None}) \X TaskStatus)
    OBVIOUS
  <2>. QED  BY <1>2, <2>1, RowTypes DEF Blank, Session
<1>4. Fits(Front(q), x, run)
  BY <1>1 DEF Fits, Blank
<1>5. ses' = [ses EXCEPT ![Front(q)] = x] /\ UNCHANGED <<task, run, active, token, faults, orphan>>
  BY DEF Begin
<1>. QED  BY <1>1, <1>3, <1>4, <1>5, OneSession DEF TypeInv, TypeOK

\* What the leaves below need of the session that moves.
LEMMA Mover ==
  ASSUME TypeInv, NEW s \in Sessions
  PROVE  /\ ses[s] \in Session /\ Fits(s, ses[s], run)
         /\ task \in TaskStatus /\ TaskSeen(s) \in TaskStatus
         /\ active \in [Requests -> Backs \cup {Nobody}] /\ token \subseteq Backs
         /\ faults \in 0..MaxFaults /\ orphan \in BOOLEAN
         /\ run \in [Requests -> RunRow]
         /\ ses \in [Sessions -> Session]
<1>1. ses[s] \in Session /\ Fits(s, ses[s], run) /\ ses \in [Sessions -> Session]
  BY DEF TypeInv, SessionsFit
<1>2. TaskSeen(s) \in TaskStatus
  BY <1>1 DEF TypeInv, TypeOK, TaskSeen
<1>. QED  BY <1>1, <1>2 DEF TypeInv, TypeOK

\* What a statement writes into its session.
LEMMA Updates ==
  ASSUME NEW x \in Session, NEW pc \in Place
  PROVE  /\ [x EXCEPT !.pc = pc] \in Session
         /\ \A c \in TaskStatus : [x EXCEPT !.copy = c, !.pc = pc] \in Session
         /\ \A c \in TaskStatus : [x EXCEPT !.seen = c, !.pc = pc] \in Session
         /\ \A r \in Copy : [x EXCEPT !.runCopy = r, !.pc = pc] \in Session
         /\ \A r \in RunRow : [x EXCEPT !.runSeen = r, !.pc = pc] \in Session
         /\ \A r \in RunRow : [x EXCEPT !.runSet = r, !.pc = pc] \in Session
         /\ \A c \in TaskStatus : [x EXCEPT !.set = c, !.pc = pc] \in Session
  BY RowTypes DEF Session

LEMMA UpdateOfMove ==
  ASSUME NEW x \in Session, NEW pc \in Place, NEW c \in TaskStatus \cup {None},
         NEW es \in Seq((TaskStatus \cup {None}) \X TaskStatus), NEW left \in Seq(TaskStatus)
  PROVE  [x EXCEPT !.set = c, !.entries = es, !.todo = left, !.pc = pc] \in Session
  BY DEF Session

LEMMA UpdateOfOutcome ==
  ASSUME NEW x \in Session, NEW pc \in Place, NEW r \in Copy, NEW todo \in Seq(TaskStatus)
  PROVE  [x EXCEPT !.runCopy = r, !.todo = todo, !.pc = pc] \in Session
  BY DEF Session

LEMMA Places ==
  /\ "signal" \in Place /\ "read" \in Place /\ "load" \in Place /\ "flush" \in Place
  /\ "run_load" \in Place /\ "run_flush" \in Place /\ "launch" \in Place
  /\ "agent" \in Place /\ "commit" \in Place
  BY DEF Place

LEMMA ReadRunKeepsTypes ==
  ASSUME TypeInv, NEW s \in Sessions, ReadRun(s)
  PROVE  TypeInv'
<1>1. CASE Abort(s, "failed")
  BY <1>1, Mover, ClosingKeepsTypes DEF ReadRun
<1>2. CASE /\ ses[s].op = "retry"
           /\ ses' = [ses EXCEPT ![s].runCopy = RunSeen(s), ![s].pc = "read"]
  <2> DEFINE x == [ses[s] EXCEPT !.runCopy = RunSeen(s), !.pc = "read"]
  <2>1. RunSeen(s) \in Copy
    BY Mover, RowTypes DEF RunSeen, ReadRun, TypeInv, TypeOK, Fits, Over
  <2>2. ses' = [ses EXCEPT ![s] = x]
    BY <1>2, Mover DEF Session
  <2>3. x \in Session
    BY <2>1, Mover, Updates, Places
  <2>4. Fits(s, x, run)
    BY <1>2, Mover DEF Session, Fits, ReadRun, Over
  <2>. QED  BY <2>2, <2>3, <2>4, Mover, OneSession DEF ReadRun
<1>3. CASE ses[s].op = "cancel" /\ ses' = [ses EXCEPT ![s].pc = "signal"]
  <2> DEFINE x == [ses[s] EXCEPT !.pc = "signal"]
  <2>2. ses' = [ses EXCEPT ![s] = x]
    BY <1>3, Mover DEF Session
  <2>3. x \in Session
    BY Mover, Updates, Places
  <2>4. Fits(s, x, run)
    BY <1>3, Mover DEF Session, Fits, ReadRun, Over
  <2>. QED  BY <2>2, <2>3, <2>4, Mover, OneSession DEF ReadRun
<1>. QED  BY <1>1, <1>2, <1>3 DEF ReadRun

LEMMA SignalKeepsTypes ==
  ASSUME TypeInv, NEW s \in Sessions, Signal(s)
  PROVE  TypeInv'
<1>1. ses[s].id \in Requests
  BY Mover DEF Signal, Fits, Over
<1>2. token' \subseteq Backs
  BY <1>1, Mover DEF Signal
<1>3. PICK pc \in {"done", "failed"} : Abort(s, pc)
  BY DEF Signal
<1>. QED  BY <1>2, <1>3, Mover, ClosingKeepsTypes DEF Signal

LEMMA ReadTaskKeepsTypes ==
  ASSUME TypeInv, NEW s \in Sessions, ReadTask(s)
  PROVE  TypeInv'
<1>1. CASE Abort(s, IF s \in Backs THEN "finish" ELSE "failed")
  <2>1. s \in Backs => ses[s].id \in Requests /\ ses[s].op = "settle"
    BY Mover DEF ReadTask, Fits, Over
  <2>. QED  BY <1>1, <2>1, Mover, ClosingKeepsTypes DEF ReadTask
<1>2. CASE ses' = [ses EXCEPT ![s].copy = TaskSeen(s), ![s].pc = "load"]
  <2> DEFINE x == [ses[s] EXCEPT !.copy = TaskSeen(s), !.pc = "load"]
  <2>2. ses' = [ses EXCEPT ![s] = x]
    BY <1>2, Mover DEF Session
  <2>3. x \in Session
    BY Mover, Updates, Places
  <2>4. Fits(s, x, run)
    BY Mover DEF Session, Fits, ReadTask, Over
  <2>. QED  BY <2>2, <2>3, <2>4, Mover, OneSession DEF ReadTask
<1>. QED  BY <1>1, <1>2 DEF ReadTask

LEMMA LoadTaskKeepsTypes ==
  ASSUME TypeInv, NEW s \in Sessions, LoadTask(s)
  PROVE  TypeInv'
<1> DEFINE x == [ses[s] EXCEPT !.seen = TaskSeen(s), !.pc = "flush"]
<1>2. ses' = [ses EXCEPT ![s] = x]
  BY Mover DEF Session, LoadTask
<1>3. x \in Session
  BY Mover, Updates, Places
<1>4. Fits(s, x, run)
  BY Mover DEF Session, Fits, LoadTask, Over
<1>. QED  BY <1>2, <1>3, <1>4, Mover, OneSession DEF LoadTask

LEMMA FlushMoveKeepsTypes ==
  ASSUME TypeInv, NEW s \in Sessions, FlushMove(s)
  PROVE  TypeInv'
<1> DEFINE to == Head(ses[s].todo)
           left == Tail(ses[s].todo)
           set == IF to # ses[s].seen THEN to ELSE ses[s].set
           entries == Append(ses[s].entries, <<ses[s].copy, to>>)
           pc == IF left = <<>> THEN AfterMoves(ses[s].op) ELSE "read"
           x == [ses[s] EXCEPT !.set = set, !.entries = entries, !.todo = left, !.pc = pc]
<1>1. ses[s].pc = "flush" /\ ses[s].op # "patch" /\ UNCHANGED <<task, run, active, token, faults, orphan>>
  BY DEF FlushMove
<1>2. ses[s] \in Session /\ Fits(s, ses[s], run) /\ ses \in [Sessions -> Session]
  BY Mover
<1>3. /\ ses[s].todo \in Seq(TaskStatus) /\ ses[s].todo # <<>>
      /\ ses[s].copy \in TaskStatus /\ ses[s].set \in TaskStatus \cup {None}
      /\ ses[s].entries \in Seq((TaskStatus \cup {None}) \X TaskStatus)
  BY <1>1, <1>2 DEF Session, Fits
<1>4. to \in TaskStatus /\ left \in Seq(TaskStatus)
  BY <1>3
<1>5. set \in TaskStatus \cup {None} /\ entries \in Seq((TaskStatus \cup {None}) \X TaskStatus)
  BY <1>3, <1>4
<1>6. /\ pc \in Place
      /\ pc = "read" => left # <<>>
      /\ pc \in {"read", "launch", "run_load", "commit"}
      /\ pc = "launch" => ses[s].op = "start"
      /\ pc = "run_load" => ses[s].op = "retry"
  BY Places DEF AfterMoves
<1>7. ses' = [ses EXCEPT ![s] = x]
  BY <1>2 DEF FlushMove, Session
<1>. HIDE DEF to, left, set, entries, pc
<1>8. x \in Session
  BY <1>2, <1>4, <1>5, <1>6, UpdateOfMove
<1>9. /\ x.pc = pc /\ x.todo = left /\ x.op = ses[s].op /\ x.id = ses[s].id
      /\ x.runSet = ses[s].runSet
  BY <1>2 DEF Session
<1>. HIDE DEF x
<1>10. s \in Fronts => s \notin Backs
  BY Names
<1>11. s \in Fronts \/ s \in Backs
  BY Names
<1>12. Fits(s, x, run)
  BY <1>1, <1>2, <1>6, <1>9, <1>10, <1>11 DEF Fits, Over
<1>. QED  BY <1>1, <1>7, <1>8, <1>12, Mover, OneSession

LEMMA FlushPatchKeepsTypes ==
  ASSUME TypeInv, NEW s \in Sessions, FlushPatch(s)
  PROVE  TypeInv'
<1> DEFINE set == IF ses[s].copy # ses[s].seen THEN ses[s].copy ELSE task
           x == [ses[s] EXCEPT !.set = set, !.pc = "commit"]
<1>1. ses' = [ses EXCEPT ![s] = x]
  BY Mover DEF Session, FlushPatch
<1>2. set \in TaskStatus
  BY Mover DEF FlushPatch, Fits
<1>3. x \in Session
  BY <1>2, Mover, Updates, Places
<1>4. Fits(s, x, run)
  BY Mover DEF Session, Fits, FlushPatch, Over
<1>. QED  BY <1>1, <1>3, <1>4, Mover, OneSession DEF FlushPatch

LEMMA LoadRunKeepsTypes ==
  ASSUME TypeInv, NEW s \in Sessions, LoadRun(s)
  PROVE  TypeInv'
<1>1. ses[s].id \in Requests /\ (s \in Backs => ses[s].op = "settle")
  BY Mover DEF LoadRun, Fits, Over
<1>2. RunSeen(s) = run[ses[s].id] /\ RunSeen(s) \in RunRow
  BY <1>1, Mover DEF LoadRun, Fits, RunSeen
<1>3. CASE RunSeen(s) = NoRow /\ Abort(s, "finish")
  <2>1. s \in Backs
    BY <1>2, <1>3, Mover, Names DEF LoadRun, Fits
  <2>. QED  BY <1>1, <1>3, <2>1, Mover, ClosingKeepsTypes DEF LoadRun
<1>4. CASE RunSeen(s) # NoRow /\ ses' = [ses EXCEPT ![s].runSeen = RunSeen(s), ![s].pc = "run_flush"]
  <2> DEFINE x == [ses[s] EXCEPT !.runSeen = RunSeen(s), !.pc = "run_flush"]
  <2>1. ses' = [ses EXCEPT ![s] = x]
    BY <1>4, Mover DEF Session
  <2>2. x \in Session
    BY <1>2, Mover, Updates, Places
  <2>3. Fits(s, x, run)
    BY <1>2, <1>4, Mover DEF Session, Fits, LoadRun, Over
  <2>. QED  BY <2>1, <2>2, <2>3, Mover, OneSession DEF LoadRun
<1>. QED  BY <1>3, <1>4 DEF LoadRun

LEMMA FlushRunKeepsTypes ==
  ASSUME TypeInv, NEW s \in Sessions, FlushRun(s)
  PROVE  TypeInv'
<1> DEFINE new == IF s \in Backs THEN ses[s].runCopy
                  ELSE [status |-> "running", attempt |-> ses[s].runCopy.attempt + 1]
           seen == ses[s].runSeen
           row == run[ses[s].id]
           set == [status  |-> IF new.status # seen.status THEN new.status ELSE row.status,
                   attempt |-> IF new.attempt # seen.attempt THEN new.attempt ELSE row.attempt]
           pc == IF s \in Backs THEN "read" ELSE "launch"
           x == [ses[s] EXCEPT !.runSet = set, !.pc = pc]
<1>1. /\ ses[s] \in Session /\ Fits(s, ses[s], run) /\ ses[s].pc = "run_flush"
      /\ ses[s].runCopy \in Copy /\ ses[s].id \in Requests
  BY Mover DEF FlushRun, Fits, Over, Session
<1>2. new.status \in {"running"} \cup Settled /\ new.attempt \in Nat \ {0}
  <2>1. CASE s \in Backs
    BY <1>1, <2>1 DEF Fits
  <2>2. CASE s \notin Backs
    BY <1>1, <2>2 DEF Copy
  <2>. QED  BY <2>1, <2>2
<1>3. row.status \in {"running"} \cup Settled /\ row.attempt \in Nat \ {0}
  BY <1>1, Mover, RowTypes DEF Fits
<1>4. set \in RunRow
  <2>1. set.status \in {"running"} \cup Settled /\ set.attempt \in Nat \ {0}
    <3> HIDE DEF new, row
    <3>. QED  BY <1>2, <1>3
  <2> DEFINE st == set.status
             n == set.attempt
  <2>2. set = [status |-> st, attempt |-> n]
    OBVIOUS
  <2> HIDE DEF set, st, n
  <2>3. st \in {"running"} \cup Settled /\ n \in Nat \ {0}
    BY <2>1 DEF st, n
  <2>. QED  BY <2>2, <2>3, RowTypes
<1>5. pc \in Place
  BY Places
<1>6. ses' = [ses EXCEPT ![s] = x]
  BY Mover DEF Session, FlushRun
<1>7. s \in Backs => ses[s].todo # <<>> /\ ses[s].op = "settle"
  BY <1>1 DEF Fits, Over
<1>. HIDE DEF set
<1>8. x \in Session
  BY <1>1, <1>4, <1>5, Updates
<1>9. /\ x.pc = pc /\ x.op = ses[s].op /\ x.id = ses[s].id /\ x.todo = ses[s].todo
  BY <1>1 DEF Session
<1>. HIDE DEF x
<1>10. Fits(s, x, run)
  BY <1>1, <1>7, <1>9, Names DEF Fits, Over
<1>. QED  BY <1>6, <1>8, <1>10, Mover, OneSession DEF FlushRun

LEMMA LaunchKeepsTypes ==
  ASSUME TypeInv, NEW s \in Sessions, Launch(s)
  PROVE  TypeInv'
<1> DEFINE b == Back(s[1])
           row == IF ses[s].op = "start" THEN [status |-> "running", attempt |-> 1] ELSE ses[s].runSet
           attempt == IF ses[s].op = "start" THEN 1 ELSE ses[s].runCopy.attempt + 1
           copy == [status |-> None, attempt |-> attempt]
           x == [ses[s] EXCEPT !.runSet = row, !.pc = "commit"]
           y == [Blank EXCEPT !.op = "settle", !.pc = "agent", !.id = ses[s].id, !.runCopy = copy]
<1>1. /\ ses[s] \in Session /\ Fits(s, ses[s], run) /\ ses[s].pc = "launch"
      /\ ses[s].id \in Requests /\ ses[s].runCopy \in Copy /\ ses[s].runSet \in RunRow
  BY Mover DEF Launch, Fits, Over, Session
<1>2. s \in Fronts /\ s \notin Backs /\ b \in Backs /\ b \notin Fronts /\ b \in Sessions /\ s # b
  BY <1>1, Names DEF Fits
<1>3. row \in RunRow /\ attempt \in Nat \ {0}
  BY <1>1, RowTypes DEF Copy, Settled
<1>4. copy \in Copy
  BY <1>3 DEF Copy
<1>5. ses' = [ses EXCEPT ![s] = x, ![b] = y]
  BY Mover DEF Launch, Session
<1>6. active' = [active EXCEPT ![ses[s].id] = b] /\ UNCHANGED <<task, run, token, faults, orphan>>
  BY DEF Launch
<1>7. y \in Session
  <2>1. <<>> \in Seq(TaskStatus) /\ <<>> \in Seq((TaskStatus \cup {None}) \X TaskStatus)
    OBVIOUS
  <2>. QED  BY <1>1, <1>4, <2>1, RowTypes, Places DEF Blank, Session, Operation
<1>8. y.pc = "agent" /\ y.op = "settle" /\ y.id = ses[s].id /\ y.runSet = NoRow /\ y.runCopy.attempt = attempt
  BY DEF Blank
<1>. HIDE DEF row, copy, attempt, b
<1>9. x \in Session
  BY <1>1, <1>3, Updates, Places
<1>10. x.pc = "commit" /\ x.op = ses[s].op /\ x.id = ses[s].id
  BY <1>1 DEF Session
<1>. HIDE DEF x, y
<1>11. Fits(s, x, run) /\ Fits(b, y, run)
  BY <1>1, <1>2, <1>3, <1>8, <1>10 DEF Fits, Over
<1>12. ses' \in [Sessions -> Session] /\ \A o \in Sessions : ses'[o] = IF o = s THEN x ELSE IF o = b THEN y ELSE ses[o]
  BY <1>2, <1>5, <1>7, <1>9, Mover
<1>13. SessionsFit'
  BY <1>2, <1>6, <1>11, <1>12 DEF SessionsFit, TypeInv
<1>14. TypeOK'
  <2>1. \A o \in Sessions : ses'[o].set \in TaskStatus \cup {None} /\ ses'[o].runSet \in RunRow
    BY <1>12 DEF Session
  <2>2. active' \in [Requests -> Backs \cup {Nobody}]
    BY <1>2, <1>6, Mover
  <2>. QED  BY <1>6, <2>1, <2>2 DEF TypeInv, TypeOK
<1>. QED  BY <1>13, <1>14 DEF TypeInv

\* What a run may come to, and that none of it starts the task again.
LEMMA OutcomeTypes ==
  ASSUME NEW b, NEW outcome \in Outcomes(b)
  PROVE  /\ outcome[1] \in Settled /\ outcome[2] \in Seq(TaskStatus) /\ outcome[2] # <<>>
         /\ \A i \in 1..Len(outcome[2]) : outcome[2][i] # "running"
<1>1. outcome \in {<<"succeeded", <<"evaluating", "awaiting_approval">>>>,
                   <<"succeeded", <<"evaluating", "failed">>>>,
                   <<"failed", <<"failed">>>>, <<"cancelled", <<"cancelled">>>>}
  BY DEF Outcomes
<1>2. outcome[1] \in Settled
  BY <1>1 DEF Settled
<1>3. outcome[2] \in {<<"evaluating", "awaiting_approval">>, <<"evaluating", "failed">>,
                      <<"failed">>, <<"cancelled">>}
  BY <1>1
<1>4. ASSUME NEW last \in TaskStatus \ {"running"}
      PROVE  /\ <<last>> \in Seq(TaskStatus) /\ <<last>> # <<>>
             /\ \A i \in 1..Len(<<last>>) : <<last>>[i] # "running"
             /\ <<"evaluating", last>> \in Seq(TaskStatus) /\ <<"evaluating", last>> # <<>>
             /\ \A i \in 1..Len(<<"evaluating", last>>) : <<"evaluating", last>>[i] # "running"
  <2>1. <<last>> \in Seq(TaskStatus) /\ <<last>> # <<>> /\ Len(<<last>>) = 1
    OBVIOUS
  <2>2. <<"evaluating", last>> \in Seq(TaskStatus) /\ <<"evaluating", last>> # <<>> /\ Len(<<"evaluating", last>>) = 2
    BY DEF TaskStatus
  <2>3. 1..1 = {1} /\ 1..2 = {1, 2}
    OBVIOUS
  <2>. QED  BY <2>1, <2>2, <2>3
<1>5. {"failed", "cancelled", "awaiting_approval"} \subseteq TaskStatus \ {"running"}
  BY DEF TaskStatus
<1>. QED  BY <1>2, <1>3, <1>4, <1>5

LEMMA AgentReturnsKeepsTypes ==
  ASSUME TypeInv, NEW b \in Backs, AgentReturns(b)
  PROVE  TypeInv'
<1>1. b \in Sessions /\ b \notin Fronts
  BY Names
<1>2. /\ ses[b] \in Session /\ Fits(b, ses[b], run) /\ ses[b].pc = "agent"
      /\ ses[b].runCopy \in Copy /\ ses \in [Sessions -> Session]
  BY <1>1, Mover DEF AgentReturns, Session
<1>3. PICK outcome \in Outcomes(b) :
        ses' = [ses EXCEPT ![b].runCopy.status = outcome[1], ![b].todo = outcome[2], ![b].pc = "run_load"]
  BY DEF AgentReturns
<1>4. outcome[1] \in Settled /\ outcome[2] \in Seq(TaskStatus) /\ outcome[2] # <<>>
  BY OutcomeTypes
<1> DEFINE copy == [ses[b].runCopy EXCEPT !.status = outcome[1]]
           x == [ses[b] EXCEPT !.runCopy = copy, !.todo = outcome[2], !.pc = "run_load"]
<1>5. ses' = [ses EXCEPT ![b] = x]
  BY <1>2, <1>3 DEF Session
<1>6. copy \in Copy /\ copy.status = outcome[1] /\ copy.attempt = ses[b].runCopy.attempt
  BY <1>2, <1>4 DEF Copy
<1>. HIDE DEF copy
<1>7. x \in Session
  BY <1>2, <1>4, <1>6, UpdateOfOutcome, Places
<1>8. /\ x.pc = "run_load" /\ x.op = ses[b].op /\ x.id = ses[b].id /\ x.todo = outcome[2]
      /\ x.runCopy = copy /\ x.runSet = ses[b].runSet
  BY <1>2 DEF Session
<1>. HIDE DEF x
<1>9. Fits(b, x, run)
  BY <1>1, <1>2, <1>4, <1>6, <1>8 DEF Fits, Over
<1>. QED  BY <1>1, <1>5, <1>7, <1>9, Mover, OneSession DEF AgentReturns

\* Rows that are committed are rows, and none is ever taken back.
LEMMA CommitKeepsTypes ==
  ASSUME TypeInv, NEW s \in Sessions, Commit(s)
  PROVE  TypeInv'
<1> DEFINE pc == IF s \in Backs THEN "finish" ELSE "done"
           x == Closed(s, pc)
<1>1. s \in Backs => ses[s].id \in Requests /\ ses[s].op = "settle"
  BY Mover DEF Commit, Fits, Over
<1>2. x \in Session /\ \A rows : Fits(s, x, rows)
  BY <1>1, ClosedFits
<1>3. ses' = [ses EXCEPT ![s] = x] /\ UNCHANGED <<active, token, faults, orphan>>
  BY DEF Commit, Abort, Closed
<1>. HIDE DEF x
<1>4. ses' \in [Sessions -> Session] /\ \A o \in Sessions : ses'[o] = IF o = s THEN x ELSE ses[o]
  BY <1>2, <1>3, Mover
<1>5. task' \in TaskStatus
  BY Mover DEF Commit
<1>6. run' \in [Requests -> RunRow] /\ \A q \in Requests : run[q] # NoRow => run'[q] # NoRow
  BY Mover DEF Commit, Session
<1>7. ASSUME NEW o \in Sessions PROVE Fits(o, ses'[o], run')
  <2>1. CASE o = s
    BY <1>2, <1>4, <2>1
  <2>2. CASE o # s
    <3>1. ses'[o] = ses[o] /\ Fits(o, ses[o], run)
      BY <1>4, <2>2, Mover
    <3>. QED  BY <1>6, <3>1 DEF Fits, Over
  <2>. QED  BY <2>1, <2>2
<1>8. \A o \in Sessions : ses'[o].set \in TaskStatus \cup {None} /\ ses'[o].runSet \in RunRow
  BY <1>4 DEF Session
<1>. QED  BY <1>3, <1>4, <1>5, <1>6, <1>7, <1>8 DEF TypeInv, TypeOK, SessionsFit

LEMMA FinishKeepsTypes ==
  ASSUME TypeInv, NEW b \in Backs, Finish(b)
  PROVE  TypeInv'
<1>1. b \in Sessions
  BY Names
<1>2. active' \in [Requests -> Backs \cup {Nobody}]
  BY <1>1, Mover DEF Finish
<1>. QED  BY <1>1, <1>2, Mover, ClosingKeepsTypes DEF Finish

LEMMA RequestFailsKeepsTypes ==
  ASSUME TypeInv, NEW s \in Fronts, RequestFails(s)
  PROVE  TypeInv'
<1>1. s \in Sessions
  BY Names
<1>2. faults' \in 0..MaxFaults /\ orphan' \in BOOLEAN
  BY <1>1, Mover, EnvironmentIsGiven DEF RequestFails
<1>. QED  BY <1>1, <1>2, Mover, ClosingKeepsTypes DEF RequestFails

LEMMA CrashKeepsTypes == TypeInv /\ Crash => TypeInv'
<1> SUFFICES ASSUME TypeInv, Crash PROVE TypeInv'
  OBVIOUS
<1> DEFINE dead == [Blank EXCEPT !.pc = "failed"]
<1>1. dead \in Session /\ \A s \in Sessions : Fits(s, dead, run)
  <2>1. Blank \in Session
    BY BlankInSession
  <2>2. dead \in Session
    BY <2>1, Updates DEF Place
  <2>3. dead.op = None /\ dead.pc = "failed"
    BY DEF Blank
  <2>. HIDE DEF dead
  <2>. QED  BY <2>2, <2>3 DEF Fits, Over, None
<1>. HIDE DEF dead
<1>2. \A s \in Sessions : ses'[s] = dead \/ ses'[s] = ses[s]
  BY DEF Crash, dead
<1>3. ses' \in [Sessions -> Session]
  BY <1>1, <1>2, Mover DEF Crash, dead
<1>4. /\ faults' \in 0..MaxFaults /\ active' \in [Requests -> Backs \cup {Nobody}]
      /\ UNCHANGED <<task, run, token, orphan>>
  BY EnvironmentIsGiven DEF Crash, TypeInv, TypeOK
<1>5. \A s \in Sessions : ses'[s].set \in TaskStatus \cup {None} /\ ses'[s].runSet \in RunRow
  BY <1>3 DEF Session
<1>. QED  BY <1>1, <1>2, <1>3, <1>4, <1>5 DEF TypeInv, TypeOK, SessionsFit

\* Every step keeps the types.
LEMMA TypeInvNext == TypeInv /\ [Next]_vars => TypeInv'
<1> SUFFICES ASSUME TypeInv, [Next]_vars PROVE TypeInv'
  OBVIOUS
<1>1. /\ <<"running">> \in Seq(TaskStatus) /\ <<"running">> # <<>>
      /\ <<"ready", "running">> \in Seq(TaskStatus) /\ <<"ready", "running">> # <<>>
      /\ \A to \in TaskStatus : <<to>> \in Seq(TaskStatus) /\ <<to>> # <<>>
  BY DEF TaskStatus
<1>2. ASSUME NEW q \in Requests, NEW to \in TaskStatus, MoveTask(q, to) PROVE TypeInv'
  <2>1. <<to>> \in Seq(TaskStatus) /\ <<to>> # <<>>
    BY <1>1
  <2>. QED  BY <1>2, <2>1, BeginKeepsTypes DEF MoveTask, Operation
<1>3. ASSUME NEW q \in Requests, PatchTask(q) PROVE TypeInv'
  <2>1. <<>> \in Seq(TaskStatus)
    OBVIOUS
  <2>. QED  BY <1>3, <2>1, BeginKeepsTypes DEF PatchTask, Operation
<1>4. ASSUME NEW q \in Requests, PostRuns(q) PROVE TypeInv'
  BY <1>1, <1>4, BeginKeepsTypes DEF PostRuns, StartRun, Operation
<1>5. ASSUME NEW q \in Requests, PostRetry(q) PROVE TypeInv'
  BY <1>1, <1>5, BeginKeepsTypes DEF PostRetry, RetryRun, Operation
<1>6. ASSUME NEW q \in Requests, PostCancel(q) PROVE TypeInv'
  <2>1. <<>> \in Seq(TaskStatus)
    OBVIOUS
  <2>. QED  BY <1>6, <2>1, BeginKeepsTypes DEF PostCancel, CancelRun, Operation
<1>7. ASSUME NEW q \in Requests,
             PostAssign(q) \/ PatchTasks(q) \/ PostStatus(q) \/ PostApprove(q) \/ PostReject(q) \/ PostMerge(q)
      PROVE  TypeInv'
  BY <1>2, <1>3, <1>7 DEF PostAssign, AssignAgent, PatchTasks, PostStatus, PostApprove, Approve,
                          PostReject, Reject, PostMerge, Merge, TaskStatus
<1>8. ASSUME NEW s \in Sessions, Statement(s) PROVE TypeInv'
  BY <1>8, ReadRunKeepsTypes, SignalKeepsTypes, ReadTaskKeepsTypes, LoadTaskKeepsTypes,
     FlushMoveKeepsTypes, FlushPatchKeepsTypes, LoadRunKeepsTypes, FlushRunKeepsTypes,
     LaunchKeepsTypes, CommitKeepsTypes DEF Statement
<1>9. ASSUME NEW b \in Backs, AgentReturns(b) \/ Finish(b) PROVE TypeInv'
  BY <1>9, AgentReturnsKeepsTypes, FinishKeepsTypes
<1>10. ASSUME NEW s \in Fronts, RequestFails(s) PROVE TypeInv'
  BY <1>10, RequestFailsKeepsTypes
<1>11. CASE Crash
  BY <1>11, CrashKeepsTypes
<1>12. CASE UNCHANGED vars
  BY <1>12 DEF vars, TypeInv, TypeOK, SessionsFit
<1>. QED  BY <1>4, <1>5, <1>6, <1>7, <1>8, <1>9, <1>10, <1>11, <1>12 DEF Next

\* RunSessions never leaves its types: whatever overlaps, fails or crashes,
\* the rows of task, runs and history stay rows the schema allows, and no
\* statement of the code reads a copy, a status or a run it has not got.
THEOREM TypeCorrect == Spec => []TypeOK
<1>1. TypeInv => TypeOK
  BY DEF TypeInv
<1>. QED  BY <1>1, TypeInvInit, TypeInvNext, PTL DEF Spec

------------------------------------------------------------------------------
(***************************************************************************)
(* Task and runs agree                                                     *)
(*                                                                         *)
(* At most one request is open and at most one background task has its     *)
(* outcome to commit.  The latter belongs to the request that is about to  *)
(* commit the launch, and waits for it; or it works on the task and the    *)
(* run that are running.  A request that is going to change the task has   *)
(* found it not running, and so it stays.                                  *)
(***************************************************************************)

\* A background task that has its outcome still to commit.
Live(x) == x.pc \in {"agent", "run_load", "run_flush", "read", "load", "flush", "commit"}

\* A request that has launched its background task.
Launched(x) == x.pc = "commit" /\ x.op \in {"start", "retry"}

\* A request that will change the task if nothing fails.
Deciding(x) ==
  /\ x.pc \notin Over \cup {"new"}
  /\ \/ x.op \in {"move", "patch"}
     \/ x.op = "start" /\ x.pc # "read"
     \/ x.op = "retry" /\ x.pc # "run_read" /\ (x.pc = "read" => x.todo # <<"ready", "running">>)

NoRestart(todo) == \A i \in 1..Len(todo) : todo[i] # "running"

Moves(x) == x.pc \in {"read", "load", "flush"}

CancelFacts(x) == x.pc \in {"run_read", "signal"}
UserFacts(x) ==
  /\ Moves(x) \/ x.pc = "commit"
  /\ x.op = "move" => NoRestart(x.todo)
  /\ x.op = "patch" /\ x.pc \in {"load", "flush"} => x.copy # "running"
  /\ x.set # "running" /\ x.runSet = NoRow
StartFacts(x) ==
  /\ Moves(x) \/ x.pc \in {"launch", "commit"}
  /\ Moves(x) => x.todo = <<"running">> /\ x.set = None
  /\ x.pc = "flush" => x.seen # "running"
  /\ ~ Moves(x) => x.set = "running"
  /\ x.pc = "commit" => x.runSet.status = "running"
RetryFacts(x) ==
  /\ Moves(x) \/ x.pc \in {"run_read", "run_load", "run_flush", "launch", "commit"}
  /\ x.pc = "run_read" => x.todo = <<"ready", "running">> /\ x.set = None
  /\ Moves(x) => \/ x.todo = <<"ready", "running">> /\ x.set = None
                 \/ x.todo = <<"running">> /\ x.set # "running"
  /\ x.pc = "flush" => x.seen # "running"
  /\ x.pc \in {"run_load", "run_flush", "launch", "commit"} => x.set = "running"
  /\ x.pc = "run_flush" => x.runSeen.status # "running"
  /\ x.pc \in {"launch", "commit"} => x.runSet.status = "running"

\* What an open request holds.
FrontFacts(x) ==
  x.pc \notin Over \cup {"new"} =>
    /\ x.op \in {"start", "retry", "cancel", "move", "patch"}
    /\ x.op = "cancel" => CancelFacts(x)
    /\ x.op \in {"move", "patch"} => UserFacts(x)
    /\ x.op = "start" => StartFacts(x)
    /\ x.op = "retry" => RetryFacts(x)

\* What a live background task holds.
BackFacts(x) ==
  /\ NoRestart(x.todo) /\ x.set # "running"
  /\ x.pc \in {"read", "load", "flush", "commit"} => x.runSet.status \in Settled
  /\ x.pc = "flush" /\ x.set = None => x.seen = "running"
  /\ x.pc = "commit" => x.set # None
  /\ x.pc = "run_flush" => x.runSeen.status = "running"

OneFront == \A p, q \in Requests : Open(Front(p)) /\ Open(Front(q)) => p = q
FrontsHold == \A q \in Requests : FrontFacts(ses[Front(q)])
Decisions ==
  \A q \in Requests : Deciding(ses[Front(q)]) =>
    /\ task # "running"
    /\ \A p \in Requests : Live(ses[Back(p)]) => p = q /\ Launched(ses[Front(q)])
Works(x) == task = "running" /\ run[x.id].status = "running"
BacksHold ==
  \A p \in Requests : LET x == ses[Back(p)]
                          f == ses[Front(p)]
                      IN Live(x) =>
                           /\ BackFacts(x)
                           /\ \/ Launched(f) /\ x.pc \in {"agent", "run_load"} /\ x.id = f.id
                              \/ Works(x)
OneBack == \A p, q \in Requests : Live(ses[Back(p)]) /\ Live(ses[Back(q)]) => p = q
Mirror ==
  /\ task = "running" <=> \E q \in Requests : run[q].status = "running"
  /\ \A p, q \in Requests : run[p].status = "running" /\ run[q].status = "running" => p = q

MirrorInv == OneFront /\ FrontsHold /\ Decisions /\ BacksHold /\ OneBack /\ Mirror

LEMMA MirrorInit == Init => MirrorInv
<1> SUFFICES ASSUME Init PROVE MirrorInv
  OBVIOUS
<1>1. \A q \in Requests : ses[Front(q)] = Blank /\ ses[Back(q)] = Blank
  BY Names DEF Init
<1>2. Blank.pc = "new"
  BY DEF Blank
<1>3. OneFront /\ FrontsHold /\ Decisions /\ BacksHold /\ OneBack
  BY <1>1, <1>2 DEF OneFront, Open, FrontsHold, FrontFacts, Decisions, Deciding, BacksHold, OneBack, Live
<1>4. Mirror
  BY DEF Init, Mirror, NoRow, None
<1>. QED  BY <1>3, <1>4 DEF MirrorInv

\* Front and back of requests are told apart, and an update changes one.
LEMMA Apart ==
  ASSUME TypeInv, NEW s \in Sessions, NEW x, ses' = [ses EXCEPT ![s] = x]
  PROVE  \A o \in Sessions : ses'[o] = IF o = s THEN x ELSE ses[o]
  BY DEF TypeInv, SessionsFit

LEMMA Different ==
  \A p, q \in Requests : /\ Front(p) \in Sessions /\ Back(p) \in Sessions /\ Front(p) # Back(q)
                         /\ (Front(p) = Front(q) => p = q) /\ (Back(p) = Back(q) => p = q)
  BY Names

\* No background task is live while a request that has not launched one is
\* open, unless the task runs.
LEMMA Calm ==
  ASSUME MirrorInv, NEW q \in Requests, ~ Launched(ses[Front(q)]), task # "running",
         \A p \in Requests : Open(Front(p)) => p = q
  PROVE  \A p \in Requests : ~ Live(ses[Back(p)])
<1> SUFFICES ASSUME NEW p \in Requests, Live(ses[Back(p)]) PROVE FALSE
  OBVIOUS
<1>1. Launched(ses[Front(p)])
  BY DEF MirrorInv, BacksHold, Works
<1>2. Open(Front(p))
  BY <1>1 DEF Launched, Open, Over
<1>. QED  BY <1>1, <1>2

\* A request goes on, and neither has launched nor launches.
LEMMA FrontStep ==
  ASSUME TypeInv, MirrorInv, NEW q \in Requests, NEW x,
         ses' = [ses EXCEPT ![Front(q)] = x], UNCHANGED <<task, run>>,
         Open(Front(q)) \/ (\A p \in Requests : ~ Open(Front(p))),
         ~ Launched(ses[Front(q)]), ~ Launched(x),
         FrontFacts(x), Deciding(x) => task # "running"
  PROVE  MirrorInv'
<1>1. \A p \in Requests : ses'[Front(p)] = (IF p = q THEN x ELSE ses[Front(p)]) /\ ses'[Back(p)] = ses[Back(p)]
  <2>1. Front(q) \in Sessions
    BY Different
  <2>2. \A o \in Sessions : ses'[o] = IF o = Front(q) THEN x ELSE ses[o]
    BY <2>1, Apart
  <2>. QED  BY <2>2, Different
<1>2. \A p \in Requests : Open(Front(p)) => p = q
  BY DEF MirrorInv, OneFront
<1>3. OneFront'
  BY <1>1, <1>2 DEF OneFront, Open
<1>4. FrontsHold'
  BY <1>1 DEF MirrorInv, FrontsHold
<1>5. Decisions'
  <2> SUFFICES ASSUME NEW p \in Requests, Deciding(ses'[Front(p)])
               PROVE  /\ task # "running"
                      /\ \A o \in Requests : Live(ses'[Back(o)]) => o = p /\ Launched(ses'[Front(p)])
    BY DEF Decisions
  <2>1. CASE p = q
    BY <1>1, <1>2, <2>1, Calm
  <2>2. CASE p # q
    BY <1>1, <2>2 DEF MirrorInv, Decisions
  <2>. QED  BY <2>1, <2>2
<1>6. BacksHold'
  BY <1>1 DEF MirrorInv, BacksHold, Works
<1>7. OneBack' /\ Mirror'
  BY <1>1 DEF MirrorInv, OneBack, Mirror
<1>. QED  BY <1>3, <1>4, <1>5, <1>6, <1>7 DEF MirrorInv

\* A background task goes on, with its rows not committed.
LEMMA BackStep ==
  ASSUME TypeInv, MirrorInv, NEW q \in Requests, NEW x,
         ses' = [ses EXCEPT ![Back(q)] = x], UNCHANGED <<task, run>>,
         Live(x) => /\ Live(ses[Back(q)]) /\ BackFacts(x) /\ x.id = ses[Back(q)].id
                    /\ x.pc \in {"agent", "run_load"} \/ Works(ses[Back(q)])
  PROVE  MirrorInv'
<1>1. \A p \in Requests : ses'[Back(p)] = (IF p = q THEN x ELSE ses[Back(p)]) /\ ses'[Front(p)] = ses[Front(p)]
  <2>1. Back(q) \in Sessions
    BY Different
  <2>2. \A o \in Sessions : ses'[o] = IF o = Back(q) THEN x ELSE ses[o]
    BY <2>1, Apart
  <2>. QED  BY <2>2, Different
<1>2. OneFront' /\ FrontsHold' /\ Mirror'
  BY <1>1 DEF MirrorInv, OneFront, Open, FrontsHold, Mirror
<1>3. \A p \in Requests : Live(ses'[Back(p)]) => Live(ses[Back(p)])
  BY <1>1
<1>4. Decisions' /\ OneBack'
  BY <1>1, <1>3 DEF MirrorInv, Decisions, OneBack
<1>5. BacksHold'
  <2> SUFFICES ASSUME NEW p \in Requests, Live(ses'[Back(p)])
               PROVE  /\ BackFacts(ses'[Back(p)])
                      /\ \/ /\ Launched(ses'[Front(p)]) /\ ses'[Back(p)].pc \in {"agent", "run_load"}
                            /\ ses'[Back(p)].id = ses'[Front(p)].id
                         \/ task = "running" /\ run[ses'[Back(p)].id].status = "running"
    BY DEF BacksHold, Works
  <2>1. CASE p # q
    BY <1>1, <2>1 DEF MirrorInv, BacksHold, Works
  <2>2. CASE p = q
    BY <1>1, <2>2 DEF MirrorInv, BacksHold, Works
  <2>. QED  BY <2>1, <2>2
<1>. QED  BY <1>2, <1>4, <1>5 DEF MirrorInv

LEMMA BeginKeepsMirror ==
  ASSUME TypeInv, MirrorInv, NEW q \in Requests, NEW op \in {"start", "retry", "cancel", "move", "patch"},
         NEW id, NEW todo, Begin(q, op, id, todo), \A p \in Requests : ~ Open(Front(p)),
         op = "start" => todo = <<"running">>,
         op = "retry" => todo = <<"ready", "running">>,
         op = "move" => NoRestart(todo),
         op \in {"move", "patch"} => task # "running"
  PROVE  MirrorInv'
<1> DEFINE place == IF op \in {"retry", "cancel"} THEN "run_read" ELSE "read"
           x == [Blank EXCEPT !.op = op, !.id = id, !.todo = todo, !.pc = place]
<1>1. ses' = [ses EXCEPT ![Front(q)] = x] /\ UNCHANGED <<task, run>>
  BY DEF Begin
<1>2. /\ x.op = op /\ x.todo = todo /\ x.pc = place /\ x.set = None /\ x.runSet = NoRow
  BY DEF Blank
<1>. HIDE DEF x
<1>3. ~ Launched(x) /\ (Deciding(x) => task # "running")
  BY <1>2 DEF Launched, Deciding
<1>4. FrontFacts(x)
  BY <1>2 DEF FrontFacts, CancelFacts, UserFacts, StartFacts, RetryFacts, Moves, None
<1>5. ~ Launched(ses[Front(q)])
  BY DEF Launched, Open, Over
<1>. QED  BY <1>1, <1>3, <1>4, <1>5, FrontStep

\* What is known of the request, or the background task, that moves.
LEMMA MirrorMover ==
  ASSUME TypeInv, MirrorInv, NEW q \in Requests
  PROVE  /\ FrontFacts(ses[Front(q)])
         /\ Deciding(ses[Front(q)]) => task # "running"
         /\ Live(ses[Back(q)]) => /\ BackFacts(ses[Back(q)])
                                  /\ ses[Back(q)].pc \in {"agent", "run_load"} \/ Works(ses[Back(q)])
         /\ ses[Front(q)] \in Session /\ ses[Back(q)] \in Session
         /\ Fits(Front(q), ses[Front(q)], run) /\ Fits(Back(q), ses[Back(q)], run)
         /\ Front(q) \in Fronts /\ Front(q) \notin Backs /\ Back(q) \in Backs /\ Back(q) \notin Fronts
<1>1. Front(q) \in Sessions /\ Back(q) \in Sessions
  BY Different
<1>. QED  BY <1>1, Mover, Names DEF MirrorInv, FrontsHold, Decisions, BacksHold

\* A request, or a background task, that ends has nothing to settle any more.
LEMMA ClosingKeepsMirror ==
  ASSUME TypeInv, MirrorInv, NEW q \in Requests, NEW s \in {Front(q), Back(q)},
         NEW pc \in {"done", "failed", "finish"}, Abort(s, pc), UNCHANGED <<task, run>>,
         s = Front(q) => pc # "finish" /\ Open(s) /\ ~ Launched(ses[s])
  PROVE  MirrorInv'
<1> DEFINE x == Closed(s, pc)
<1>1. ses' = [ses EXCEPT ![s] = x]
  BY DEF Abort, Closed
<1>2. x.pc = pc
  BY DEF Closed, Blank
<1>. HIDE DEF x
<1>3. CASE s = Back(q)
  <2>1. ~ Live(x)
    BY <1>2 DEF Live
  <2>. QED  BY <1>1, <1>3, <2>1, BackStep
<1>4. CASE s = Front(q) /\ s # Back(q)
  <2>1. FrontFacts(x) /\ ~ Launched(x) /\ ~ Deciding(x)
    BY <1>2, <1>4 DEF FrontFacts, Launched, Deciding, Over
  <2>. QED  BY <1>1, <1>4, <2>1, FrontStep
<1>. QED  BY <1>3, <1>4

LEMMA ReadRunKeepsMirror ==
  ASSUME TypeInv, MirrorInv, NEW q \in Requests, ReadRun(Front(q))
  PROVE  MirrorInv'
<1> DEFINE s == Front(q)
<1>1. /\ ses[s].pc = "run_read" /\ ses[s] \in Session /\ FrontFacts(ses[s])
      /\ s \in Sessions /\ ses \in [Sessions -> Session]
  BY MirrorMover, Mover, Different DEF ReadRun
<1>2. Open(s) /\ ~ Launched(ses[s])
  BY <1>1 DEF Open, Over, Launched
<1>3. CASE Abort(s, "failed")
  BY <1>2, <1>3, ClosingKeepsMirror DEF ReadRun
<1>4. CASE ses[s].op = "retry" /\ ses' = [ses EXCEPT ![s].runCopy = RunSeen(s), ![s].pc = "read"]
  <2> DEFINE x == [ses[s] EXCEPT !.runCopy = RunSeen(s), !.pc = "read"]
  <2>1. ses' = [ses EXCEPT ![s] = x]
    BY <1>1, <1>4 DEF Session
  <2>2. x.pc = "read" /\ x.op = "retry" /\ x.todo = ses[s].todo /\ x.set = ses[s].set
    BY <1>1, <1>4 DEF Session
  <2>. HIDE DEF x
  <2>3. FrontFacts(x) /\ ~ Launched(x) /\ ~ Deciding(x)
    BY <1>1, <1>4, <2>2 DEF FrontFacts, RetryFacts, Moves, Launched, Deciding, Over
  <2>. QED  BY <1>2, <2>1, <2>3, FrontStep DEF ReadRun
<1>5. CASE ses[s].op = "cancel" /\ ses' = [ses EXCEPT ![s].pc = "signal"]
  <2> DEFINE x == [ses[s] EXCEPT !.pc = "signal"]
  <2>1. ses' = [ses EXCEPT ![s] = x]
    BY <1>1, <1>5 DEF Session
  <2>2. x.pc = "signal" /\ x.op = "cancel"
    BY <1>1, <1>5 DEF Session
  <2>. HIDE DEF x
  <2>3. FrontFacts(x) /\ ~ Launched(x) /\ ~ Deciding(x)
    BY <2>2 DEF FrontFacts, CancelFacts, Launched, Deciding
  <2>. QED  BY <1>2, <2>1, <2>3, FrontStep DEF ReadRun
<1>. QED  BY <1>3, <1>4, <1>5 DEF ReadRun

LEMMA SignalKeepsMirror ==
  ASSUME TypeInv, MirrorInv, NEW q \in Requests, Signal(Front(q))
  PROVE  MirrorInv'
<1>1. Open(Front(q)) /\ ~ Launched(ses[Front(q)])
  BY DEF Signal, Open, Over, Launched
<1>2. PICK pc \in {"done", "failed"} : Abort(Front(q), pc)
  BY DEF Signal
<1>. QED  BY <1>1, <1>2, ClosingKeepsMirror DEF Signal

\* From "ready", the only status a task is started from, and from those that
\* may become ready, the task is not running.
LEMMA Departures ==
  /\ \A st : IsLegalTaskTransition(st, "running") => st # "running"
  /\ \A st : IsLegalTaskTransition(st, "ready") => st # "running"
  BY DEF IsLegalTaskTransition, TaskTransitions

LEMMA Steps ==
  /\ <<"running">> \in Seq(TaskStatus) /\ Head(<<"running">>) = "running" /\ Tail(<<"running">>) = <<>>
  /\ <<"ready", "running">> \in Seq(TaskStatus) /\ Head(<<"ready", "running">>) = "ready"
  /\ Tail(<<"ready", "running">>) = <<"running">> /\ <<"running">> # <<"ready", "running">>
  BY DEF TaskStatus

LEMMA RequestReadsTask ==
  ASSUME TypeInv, MirrorInv, NEW q \in Requests, ReadTask(Front(q))
  PROVE  MirrorInv'
<1> DEFINE s == Front(q)
<1>1. /\ ses[s].pc = "read" /\ ses[s] \in Session /\ FrontFacts(ses[s])
      /\ Deciding(ses[s]) => task # "running"
      /\ s \in Sessions /\ ses \in [Sessions -> Session] /\ s \notin Backs
  BY MirrorMover, Mover, Different DEF ReadTask
<1>2. Open(s) /\ ~ Launched(ses[s])
  BY <1>1 DEF Open, Over, Launched
<1>3. CASE Abort(s, "failed")
  BY <1>2, <1>3, ClosingKeepsMirror DEF ReadTask
<1>4. CASE /\ ses[s].op # "patch" => IsLegalTaskTransition(TaskSeen(s), Head(ses[s].todo))
           /\ ses' = [ses EXCEPT ![s].copy = TaskSeen(s), ![s].pc = "load"]
  <2> DEFINE x == [ses[s] EXCEPT !.copy = TaskSeen(s), !.pc = "load"]
  <2>1. ses' = [ses EXCEPT ![s] = x]
    BY <1>1, <1>4 DEF Session
  <2>2. /\ x.pc = "load" /\ x.op = ses[s].op /\ x.todo = ses[s].todo /\ x.set = ses[s].set
        /\ x.runSet = ses[s].runSet /\ x.copy = TaskSeen(s)
    BY <1>1, <1>4 DEF Session
  <2>. HIDE DEF x
  <2>3. ses[s].op # "cancel"
    BY <1>1, <1>2 DEF FrontFacts, CancelFacts, Open
  <2>4. task # "running"
    <3>1. CASE Deciding(ses[s])
      BY <1>1, <3>1
    <3>2. CASE ~ Deciding(ses[s])
      <4>1. /\ ses[s].op \in {"start", "retry"} /\ ses[s].set = None
            /\ ses[s].todo \in {<<"running">>, <<"ready", "running">>}
        BY <1>1, <1>2, <2>3, <3>2 DEF Deciding, FrontFacts, StartFacts, RetryFacts, Moves, Open, Over
      <4>2. IsLegalTaskTransition(task, "running") \/ IsLegalTaskTransition(task, "ready")
        BY <1>4, <4>1, Steps DEF TaskSeen
      <4>. QED  BY <4>2, Departures
    <3>. QED  BY <3>1, <3>2
  <2>5. ses[s].op \in {"move", "patch"} => TaskSeen(s) # "running"
    BY <1>1, <1>2, <2>4 DEF FrontFacts, UserFacts, TaskSeen, Open
  <2>6. FrontFacts(x)
    BY <1>1, <1>2, <2>2, <2>3, <2>5 DEF FrontFacts, UserFacts, StartFacts, RetryFacts, Moves, Open
  <2>7. ~ Launched(x)
    BY <2>2 DEF Launched
  <2>. QED  BY <1>2, <2>1, <2>4, <2>6, <2>7, FrontStep DEF ReadTask
<1>. QED  BY <1>1, <1>3, <1>4 DEF ReadTask

LEMMA BackReadsTask ==
  ASSUME TypeInv, MirrorInv, NEW q \in Requests, ReadTask(Back(q))
  PROVE  MirrorInv'
<1> DEFINE s == Back(q)
<1>1. /\ ses[s].pc = "read" /\ ses[s] \in Session /\ BackFacts(ses[s]) /\ Works(ses[s])
      /\ s \in Sessions /\ ses \in [Sessions -> Session] /\ s \in Backs /\ Live(ses[s])
  BY MirrorMover, Mover, Different DEF ReadTask, Live
<1>2. s # Front(q)
  BY Different
<1>3. CASE Abort(s, "finish")
  BY <1>2, <1>3, ClosingKeepsMirror DEF ReadTask
<1>4. CASE ses' = [ses EXCEPT ![s].copy = TaskSeen(s), ![s].pc = "load"]
  <2> DEFINE x == [ses[s] EXCEPT !.copy = TaskSeen(s), !.pc = "load"]
  <2>1. ses' = [ses EXCEPT ![s] = x]
    BY <1>1, <1>4 DEF Session
  <2>2. x.pc = "load" /\ x.todo = ses[s].todo /\ x.set = ses[s].set /\ x.runSet = ses[s].runSet /\ x.id = ses[s].id
    BY <1>1 DEF Session
  <2>. HIDE DEF x
  <2>3. BackFacts(x)
    BY <1>1, <2>2 DEF BackFacts
  <2>. QED  BY <1>1, <2>1, <2>2, <2>3, BackStep DEF ReadTask
<1>. QED  BY <1>1, <1>3, <1>4 DEF ReadTask

LEMMA LoadTaskKeepsMirror ==
  ASSUME TypeInv, MirrorInv, NEW q \in Requests, NEW s \in {Front(q), Back(q)}, LoadTask(s)
  PROVE  MirrorInv'
<1> DEFINE x == [ses[s] EXCEPT !.seen = TaskSeen(s), !.pc = "flush"]
<1>1. ses[s].pc = "load" /\ ses[s] \in Session /\ s \in Sessions /\ ses \in [Sessions -> Session]
  BY MirrorMover, Mover, Different DEF LoadTask
<1>2. ses' = [ses EXCEPT ![s] = x] /\ UNCHANGED <<task, run>>
  BY <1>1 DEF Session, LoadTask
<1>3. /\ x.pc = "flush" /\ x.op = ses[s].op /\ x.todo = ses[s].todo /\ x.set = ses[s].set /\ x.copy = ses[s].copy
      /\ x.runSet = ses[s].runSet /\ x.id = ses[s].id /\ x.seen = TaskSeen(s)
  BY <1>1 DEF Session
<1>. HIDE DEF x
<1>4. CASE s = Front(q)
  <2>1. FrontFacts(ses[s]) /\ Open(s) /\ ~ Launched(ses[s])
    BY <1>1, <1>4, MirrorMover DEF Open, Over, Launched
  <2>2. ses[s].op # "cancel"
    BY <1>1, <2>1 DEF FrontFacts, CancelFacts, Open
  <2>3. Deciding(ses[s])
    BY <1>1, <2>1, <2>2 DEF Deciding, FrontFacts, Open
  <2>4. task # "running"
    BY <1>4, <2>3, MirrorMover
  <2>5. TaskSeen(s) # "running"
    BY <1>1, <2>1, <2>2, <2>4 DEF TaskSeen, FrontFacts, UserFacts, StartFacts, RetryFacts, Moves, Open, None
  <2>6. FrontFacts(x) /\ ~ Launched(x)
    BY <1>1, <1>3, <2>1, <2>2, <2>5
       DEF Launched, FrontFacts, UserFacts, StartFacts, RetryFacts, Moves, Open
  <2>. QED  BY <1>2, <1>4, <2>1, <2>4, <2>6, FrontStep
<1>5. CASE s = Back(q)
  <2>1. Live(ses[s]) /\ BackFacts(ses[s]) /\ Works(ses[s])
    BY <1>1, <1>5, MirrorMover DEF Live
  <2>2. BackFacts(x)
    BY <1>1, <1>3, <2>1 DEF BackFacts, TaskSeen, Works
  <2>. QED  BY <1>2, <1>3, <1>5, <2>1, <2>2, BackStep
<1>. QED  BY <1>4, <1>5

\* A move takes the first status that is left.
LEMMA RestOfMoves ==
  ASSUME NEW todo \in Seq(TaskStatus), todo # <<>>, NoRestart(todo)
  PROVE  Head(todo) # "running" /\ NoRestart(Tail(todo))
<1>1. Len(todo) \in Nat \ {0} /\ Head(todo) = todo[1]
  OBVIOUS
<1>2. Len(Tail(todo)) = Len(todo) - 1 /\ \A i \in 1..Len(Tail(todo)) : Tail(todo)[i] = todo[i + 1]
  OBVIOUS
<1>. QED  BY <1>1, <1>2 DEF NoRestart

LEMMA FlushMoveKeepsMirror ==
  ASSUME TypeInv, MirrorInv, NEW q \in Requests, NEW s \in {Front(q), Back(q)}, FlushMove(s)
  PROVE  MirrorInv'
<1> DEFINE to == Head(ses[s].todo)
           left == Tail(ses[s].todo)
           set == IF to # ses[s].seen THEN to ELSE ses[s].set
           entries == Append(ses[s].entries, <<ses[s].copy, to>>)
           pc == IF left = <<>> THEN AfterMoves(ses[s].op) ELSE "read"
           x == [ses[s] EXCEPT !.set = set, !.entries = entries, !.todo = left, !.pc = pc]
<1>1. /\ ses[s].pc = "flush" /\ ses[s].op # "patch" /\ ses[s] \in Session /\ s \in Sessions
      /\ ses \in [Sessions -> Session] /\ ses[s].todo \in Seq(TaskStatus) /\ Fits(s, ses[s], run)
  BY MirrorMover, Mover, Different DEF FlushMove, Session
<1>2. ses' = [ses EXCEPT ![s] = x] /\ UNCHANGED <<task, run>>
  BY <1>1 DEF Session, FlushMove
<1>3. /\ x.pc = pc /\ x.op = ses[s].op /\ x.todo = left /\ x.set = set
      /\ x.runSet = ses[s].runSet /\ x.id = ses[s].id
  BY <1>1 DEF Session
<1>4. ses[s].todo # <<>>
  BY <1>1 DEF Fits
<1>. HIDE DEF x, to, left, entries
<1>5. CASE s = Front(q)
  <2>1. FrontFacts(ses[s]) /\ Open(s) /\ ~ Launched(ses[s])
    BY <1>1, <1>5, MirrorMover DEF Open, Over, Launched
  <2>2. ses[s].op # "cancel"
    BY <1>1, <2>1 DEF FrontFacts, CancelFacts, Open
  <2>3. task # "running"
    <3>1. Deciding(ses[s])
      BY <1>1, <2>1, <2>2 DEF Deciding, FrontFacts, Open
    <3>. QED  BY <1>5, <3>1, MirrorMover
  <2>4. FrontFacts(x) /\ ~ Launched(x)
    <3>1. CASE ses[s].op = "move"
      <4>1. UserFacts(ses[s]) /\ NoRestart(ses[s].todo)
        BY <2>1, <3>1 DEF FrontFacts, UserFacts, Open
      <4>2. to # "running" /\ NoRestart(left)
        BY <1>1, <1>4, <4>1, RestOfMoves DEF to, left
      <4>3. pc \in {"read", "commit"}
        BY <3>1 DEF AfterMoves
      <4>. QED  BY <1>3, <3>1, <4>1, <4>2, <4>3 DEF FrontFacts, UserFacts, Moves, Launched
    <3>2. CASE ses[s].op = "start"
      <4>1. StartFacts(ses[s])
        BY <2>1, <3>2 DEF FrontFacts, Open
      <4>2. ses[s].todo = <<"running">> /\ ses[s].seen # "running"
        BY <1>1, <4>1 DEF StartFacts, Moves
      <4>3. to = "running" /\ left = <<>>
        BY <4>2, Steps DEF to, left
      <4>4. pc = "launch"
        BY <3>2, <4>3 DEF AfterMoves
      <4>. QED  BY <1>3, <3>2, <4>2, <4>3, <4>4 DEF FrontFacts, StartFacts, Moves, Launched
    <3>3. CASE ses[s].op = "retry"
      <4>1. RetryFacts(ses[s]) /\ ses[s].seen # "running"
        BY <1>1, <2>1, <3>3 DEF FrontFacts, RetryFacts, Open
      <4>2. CASE ses[s].todo = <<"ready", "running">> /\ ses[s].set = None
        <5>1. to = "ready" /\ left = <<"running">>
          BY <4>2, Steps DEF to, left
        <5>2. pc = "read" /\ set # "running"
          BY <4>2, <5>1, Steps DEF None
        <5>. QED  BY <1>3, <3>3, <5>1, <5>2 DEF FrontFacts, RetryFacts, Moves, Launched
      <4>3. CASE ses[s].todo = <<"running">>
        <5>1. to = "running" /\ left = <<>>
          BY <4>3, Steps DEF to, left
        <5>2. pc = "run_load" /\ set = "running"
          BY <3>3, <4>1, <5>1 DEF AfterMoves
        <5>. QED  BY <1>3, <3>3, <5>1, <5>2 DEF FrontFacts, RetryFacts, Moves, Launched
      <4>. QED  BY <1>1, <4>1, <4>2, <4>3 DEF RetryFacts, Moves
    <3>. QED  BY <1>1, <2>1, <2>2, <3>1, <3>2, <3>3 DEF FrontFacts, Open
  <2>. QED  BY <1>2, <1>5, <2>1, <2>3, <2>4, FrontStep
<1>6. CASE s = Back(q)
  <2>1. Live(ses[s]) /\ BackFacts(ses[s]) /\ Works(ses[s]) /\ ses[s].op = "settle"
    BY <1>1, <1>6, MirrorMover DEF Live, Fits, Over
  <2>2. to # "running" /\ NoRestart(left)
    BY <1>1, <1>4, <2>1, RestOfMoves DEF to, left, BackFacts
  <2>3. to # None
    <3>1. to \in TaskStatus
      BY <1>1, <1>4 DEF to
    <3>. QED  BY <3>1 DEF TaskStatus, None
  <2>4. pc \in {"read", "commit"}
    BY <2>1 DEF AfterMoves
  <2>5. set # "running" /\ set # None
    BY <1>1, <2>1, <2>2, <2>3 DEF BackFacts
  <2>6. BackFacts(x)
    BY <1>1, <1>3, <2>1, <2>2, <2>4, <2>5 DEF BackFacts
  <2>. QED  BY <1>2, <1>3, <1>6, <2>1, <2>6, BackStep
<1>. QED  BY <1>5, <1>6

LEMMA FlushPatchKeepsMirror ==
  ASSUME TypeInv, MirrorInv, NEW q \in Requests, FlushPatch(Front(q))
  PROVE  MirrorInv'
<1> DEFINE s == Front(q)
           set == IF ses[s].copy # ses[s].seen THEN ses[s].copy ELSE task
           x == [ses[s] EXCEPT !.set = set, !.pc = "commit"]
<1>1. /\ ses[s].pc = "flush" /\ ses[s].op = "patch" /\ ses[s] \in Session /\ s \in Sessions
      /\ ses \in [Sessions -> Session] /\ FrontFacts(ses[s]) /\ (Deciding(ses[s]) => task # "running")
  BY MirrorMover, Mover, Different DEF FlushPatch
<1>2. ses' = [ses EXCEPT ![s] = x] /\ UNCHANGED <<task, run>>
  BY <1>1 DEF Session, FlushPatch
<1>3. Open(s) /\ ~ Launched(ses[s]) /\ task # "running" /\ ses[s].copy # "running" /\ ses[s].runSet = NoRow
  BY <1>1 DEF Open, Over, Launched, Deciding, FrontFacts, UserFacts
<1>4. x.pc = "commit" /\ x.op = "patch" /\ x.runSet = NoRow /\ x.set # "running"
  BY <1>1, <1>3 DEF Session
<1>. HIDE DEF x
<1>5. FrontFacts(x) /\ ~ Launched(x)
  BY <1>4 DEF FrontFacts, UserFacts, Launched
<1>. QED  BY <1>2, <1>3, <1>5, FrontStep

LEMMA RequestLoadsRun ==
  ASSUME TypeInv, MirrorInv, NEW q \in Requests, LoadRun(Front(q))
  PROVE  MirrorInv'
<1> DEFINE s == Front(q)
           x == [ses[s] EXCEPT !.runSeen = RunSeen(s), !.pc = "run_flush"]
<1>1. /\ ses[s].pc = "run_load" /\ ses[s] \in Session /\ s \in Sessions /\ s \notin Backs /\ s \in Fronts
      /\ ses \in [Sessions -> Session] /\ FrontFacts(ses[s]) /\ (Deciding(ses[s]) => task # "running")
      /\ Fits(s, ses[s], run)
  BY MirrorMover, Mover, Different DEF LoadRun
<1>2. ses[s].op = "retry" /\ ses[s].id \in Requests /\ RunSeen(s) = run[ses[s].id] /\ RunSeen(s) # NoRow
  BY <1>1 DEF Fits, Over, RunSeen
<1>3. ses' = [ses EXCEPT ![s] = x] /\ UNCHANGED <<task, run>>
  BY <1>1, <1>2 DEF Session, LoadRun
<1>4. Open(s) /\ ~ Launched(ses[s]) /\ task # "running" /\ ses[s].set = "running"
  BY <1>1, <1>2 DEF Open, Over, Launched, Deciding, FrontFacts, RetryFacts
<1>5. RunSeen(s).status # "running"
  BY <1>2, <1>4 DEF MirrorInv, Mirror
<1>6. x.pc = "run_flush" /\ x.op = "retry" /\ x.set = "running" /\ x.runSeen.status # "running"
  BY <1>1, <1>2, <1>4, <1>5 DEF Session
<1>. HIDE DEF x
<1>7. FrontFacts(x) /\ ~ Launched(x)
  BY <1>6 DEF FrontFacts, RetryFacts, Moves, Launched
<1>. QED  BY <1>3, <1>4, <1>7, FrontStep

LEMMA BackLoadsRun ==
  ASSUME TypeInv, MirrorInv, Timely, NEW q \in Requests, LoadRun(Back(q))
  PROVE  MirrorInv'
<1> DEFINE s == Back(q)
           x == [ses[s] EXCEPT !.runSeen = RunSeen(s), !.pc = "run_flush"]
<1>1. /\ ses[s].pc = "run_load" /\ ses[s] \in Session /\ s \in Sessions /\ s \in Backs
      /\ ses \in [Sessions -> Session] /\ Fits(s, ses[s], run) /\ Live(ses[s])
  BY MirrorMover, Mover, Different DEF LoadRun, Live
<1>2. ses[Front(q)].pc \in Over
  BY <1>1, Names DEF LoadRun
<1>3. BackFacts(ses[s]) /\ Works(ses[s])
  BY <1>1, <1>2 DEF MirrorInv, BacksHold, Launched, Over
<1>4. ses[s].id \in Requests /\ RunSeen(s) = run[ses[s].id] /\ RunSeen(s).status = "running"
  BY <1>1, <1>3 DEF Fits, Over, RunSeen, Works
<1>5. RunSeen(s) # NoRow
  BY <1>4 DEF NoRow, None
<1>6. ses' = [ses EXCEPT ![s] = x] /\ UNCHANGED <<task, run>>
  BY <1>1, <1>5 DEF Session, LoadRun
<1>7. /\ x.pc = "run_flush" /\ x.todo = ses[s].todo /\ x.set = ses[s].set /\ x.id = ses[s].id
      /\ x.runSeen.status = "running"
  BY <1>1, <1>4 DEF Session
<1>. HIDE DEF x
<1>8. BackFacts(x)
  BY <1>3, <1>7 DEF BackFacts
<1>. QED  BY <1>1, <1>3, <1>6, <1>7, <1>8, BackStep

LEMMA FlushRunKeepsMirror ==
  ASSUME TypeInv, MirrorInv, NEW q \in Requests, NEW s \in {Front(q), Back(q)}, FlushRun(s)
  PROVE  MirrorInv'
<1> DEFINE new == IF s \in Backs THEN ses[s].runCopy
                  ELSE [status |-> "running", attempt |-> ses[s].runCopy.attempt + 1]
           seen == ses[s].runSeen
           row == run[ses[s].id]
           set == [status  |-> IF new.status # seen.status THEN new.status ELSE row.status,
                   attempt |-> IF new.attempt # seen.attempt THEN new.attempt ELSE row.attempt]
           pc == IF s \in Backs THEN "read" ELSE "launch"
           x == [ses[s] EXCEPT !.runSet = set, !.pc = pc]
<1>1. /\ ses[s].pc = "run_flush" /\ ses[s] \in Session /\ s \in Sessions
      /\ ses \in [Sessions -> Session] /\ Fits(s, ses[s], run)
  BY MirrorMover, Mover, Different DEF FlushRun
<1>2. ses' = [ses EXCEPT ![s] = x] /\ UNCHANGED <<task, run>>
  BY <1>1 DEF Session, FlushRun
<1>3. /\ x.pc = pc /\ x.op = ses[s].op /\ x.todo = ses[s].todo /\ x.set = ses[s].set
      /\ x.id = ses[s].id /\ x.runSet.status = set.status
  BY <1>1 DEF Session
<1>. HIDE DEF x
<1>4. CASE s = Front(q)
  <2>1. /\ FrontFacts(ses[s]) /\ Open(s) /\ ~ Launched(ses[s]) /\ s \in Fronts /\ s \notin Backs
        /\ (Deciding(ses[s]) => task # "running")
    BY <1>1, <1>4, MirrorMover DEF Open, Over, Launched
  <2>2. ses[s].op = "retry"
    BY <1>1, <2>1 DEF Fits
  <2>3. /\ Deciding(ses[s]) /\ seen.status # "running" /\ ses[s].set = "running"
    BY <1>1, <2>1, <2>2 DEF Deciding, FrontFacts, RetryFacts, Open, Over
  <2>4. set.status = "running" /\ pc = "launch"
    BY <2>1, <2>3
  <2>5. FrontFacts(x) /\ ~ Launched(x)
    BY <1>3, <2>2, <2>3, <2>4 DEF FrontFacts, RetryFacts, Moves, Launched
  <2>. QED  BY <1>2, <1>4, <2>1, <2>3, <2>5, FrontStep
<1>5. CASE s = Back(q)
  <2>1. /\ Live(ses[s]) /\ BackFacts(ses[s]) /\ Works(ses[s]) /\ s \in Backs /\ s \notin Fronts
    BY <1>1, <1>5, MirrorMover DEF Live
  <2>2. new.status \in Settled /\ seen.status = "running"
    BY <1>1, <2>1 DEF Fits, BackFacts
  <2>3. set.status \in Settled /\ pc = "read"
    BY <2>1, <2>2 DEF Settled
  <2>4. BackFacts(x)
    BY <1>3, <2>1, <2>3 DEF BackFacts
  <2>. QED  BY <1>2, <1>3, <1>5, <2>1, <2>4, BackStep
<1>. QED  BY <1>4, <1>5

\* A task that is launched waits for the request, and is the only one.
LEMMA LaunchKeepsMirror ==
  ASSUME TypeInv, MirrorInv, NEW q \in Requests, Launch(Front(q))
  PROVE  MirrorInv'
<1> DEFINE s == Front(q)
           b == Back(q)
           row == IF ses[s].op = "start" THEN [status |-> "running", attempt |-> 1] ELSE ses[s].runSet
           attempt == IF ses[s].op = "start" THEN 1 ELSE ses[s].runCopy.attempt + 1
           copy == [status |-> None, attempt |-> attempt]
           x == [ses[s] EXCEPT !.runSet = row, !.pc = "commit"]
           y == [Blank EXCEPT !.op = "settle", !.pc = "agent", !.id = ses[s].id, !.runCopy = copy]
<1>1. /\ ses[s].pc = "launch" /\ ses[s] \in Session /\ s \in Sessions /\ b \in Sessions
      /\ ses \in [Sessions -> Session] /\ FrontFacts(ses[s]) /\ (Deciding(ses[s]) => task # "running")
      /\ Back(s[1]) = b
  BY MirrorMover, Mover, Different, Names DEF Launch
<1>2. ses' = [ses EXCEPT ![s] = x, ![b] = y] /\ UNCHANGED <<task, run>>
  BY <1>1 DEF Launch, Session
<1>3. Open(s) /\ ~ Launched(ses[s])
  BY <1>1 DEF Open, Over, Launched
<1>4. ses[s].op \in {"start", "retry"} /\ Deciding(ses[s])
  BY <1>1, <1>3 DEF FrontFacts, CancelFacts, UserFacts, Moves, Deciding, Open
<1>5. task # "running" /\ \A p \in Requests : ~ Live(ses[Back(p)])
  BY <1>1, <1>3, <1>4 DEF MirrorInv, Decisions
<1>6. row.status = "running" /\ ses[s].set = "running"
  BY <1>1, <1>3, <1>4 DEF FrontFacts, StartFacts, RetryFacts, Moves, Open
<1>7. /\ x.pc = "commit" /\ x.op = ses[s].op /\ x.set = "running" /\ x.runSet.status = "running"
      /\ x.id = ses[s].id
  BY <1>1, <1>6 DEF Session
<1>8. y.pc = "agent" /\ y.id = ses[s].id /\ y.todo = <<>> /\ y.set = None
  BY DEF Blank
<1>. HIDE DEF x, y
<1>9. /\ \A p \in Requests : ses'[Front(p)] = IF p = q THEN x ELSE ses[Front(p)]
      /\ \A p \in Requests : ses'[Back(p)] = IF p = q THEN y ELSE ses[Back(p)]
  <2>1. \A o \in Sessions : ses'[o] = IF o = b THEN y ELSE IF o = s THEN x ELSE ses[o]
    BY <1>1, <1>2
  <2>2. \A p \in Requests : Front(p) \in Sessions /\ Front(p) # b /\ (Front(p) = s => p = q)
    BY Different
  <2>3. \A p \in Requests : Back(p) \in Sessions /\ Back(p) # s /\ (Back(p) = b => p = q)
    BY Different
  <2>. QED  BY <2>1, <2>2, <2>3
<1>10. FrontFacts(x) /\ Launched(x)
  BY <1>4, <1>7 DEF FrontFacts, StartFacts, RetryFacts, Moves, Launched
<1>11. BackFacts(y)
  <2>1. Len(<<>>) = 0 /\ 1..0 = {}
    OBVIOUS
  <2>. QED  BY <1>8, <2>1 DEF BackFacts, NoRestart, None
<1>12. \A p \in Requests : Open(Front(p)) => p = q
  BY <1>3 DEF MirrorInv, OneFront
<1>13. OneFront' /\ FrontsHold'
  BY <1>9, <1>10, <1>12 DEF MirrorInv, OneFront, FrontsHold, Open
<1>14. \A p \in Requests : Live(ses'[Back(p)]) => p = q
  BY <1>5, <1>9
<1>15. Decisions'
  <2> SUFFICES ASSUME NEW p \in Requests, Deciding(ses'[Front(p)])
               PROVE  /\ task # "running"
                      /\ \A o \in Requests : Live(ses'[Back(o)]) => o = p /\ Launched(ses'[Front(p)])
    BY <1>2 DEF Decisions
  <2>1. p = q
    BY <1>9, <1>12 DEF Deciding, Open
  <2>. QED  BY <1>5, <1>9, <1>10, <1>14, <2>1
<1>16. BacksHold'
  <2> SUFFICES ASSUME NEW p \in Requests, Live(ses'[Back(p)])
               PROVE  /\ BackFacts(ses'[Back(p)])
                      /\ Launched(ses'[Front(p)]) /\ ses'[Back(p)].pc \in {"agent", "run_load"}
                      /\ ses'[Back(p)].id = ses'[Front(p)].id
    BY DEF BacksHold
  <2>. QED  BY <1>7, <1>8, <1>9, <1>10, <1>11, <1>14
<1>17. OneBack' /\ Mirror'
  BY <1>2, <1>14 DEF OneBack, MirrorInv, Mirror
<1>. QED  BY <1>13, <1>15, <1>16, <1>17 DEF MirrorInv

LEMMA AgentReturnsKeepsMirror ==
  ASSUME TypeInv, MirrorInv, NEW q \in Requests, AgentReturns(Back(q))
  PROVE  MirrorInv'
<1> DEFINE b == Back(q)
<1>1. /\ ses[b].pc = "agent" /\ ses[b] \in Session /\ b \in Sessions /\ ses \in [Sessions -> Session]
      /\ ses[b].runCopy \in Copy
  BY MirrorMover, Different, Mover DEF AgentReturns, Session
<1>2. Live(ses[b]) /\ BackFacts(ses[b])
  BY <1>1, MirrorMover DEF Live
<1>3. PICK outcome \in Outcomes(b) :
        ses' = [ses EXCEPT ![b].runCopy.status = outcome[1], ![b].todo = outcome[2], ![b].pc = "run_load"]
  BY DEF AgentReturns
<1> DEFINE copy == [ses[b].runCopy EXCEPT !.status = outcome[1]]
           x == [ses[b] EXCEPT !.runCopy = copy, !.todo = outcome[2], !.pc = "run_load"]
<1>4. ses' = [ses EXCEPT ![b] = x]
  BY <1>1, <1>3 DEF Session
<1>5. x.pc = "run_load" /\ x.todo = outcome[2] /\ x.set = ses[b].set /\ x.id = ses[b].id
  BY <1>1 DEF Session
<1>. HIDE DEF x
<1>6. BackFacts(x)
  BY <1>2, <1>5, OutcomeTypes DEF BackFacts, NoRestart
<1>. QED  BY <1>2, <1>4, <1>5, <1>6, BackStep DEF AgentReturns

\* What a commit leaves of the sessions.
LEMMA AfterCommit ==
  ASSUME TypeInv, NEW q \in Requests, NEW s \in {Front(q), Back(q)}, Commit(s)
  PROVE  \E x : /\ x.pc = IF s = Front(q) THEN "done" ELSE "finish"
                /\ \A o \in Sessions : ses'[o] = IF o = s THEN x ELSE ses[o]
<1> DEFINE pc == IF s \in Backs THEN "finish" ELSE "done"
           x == Closed(s, pc)
<1>1. ses' = [ses EXCEPT ![s] = x]
  BY DEF Commit, Abort, Closed
<1>2. x.pc = pc
  BY DEF Closed, Blank
<1>. HIDE DEF x
<1>3. \A o \in Sessions : ses'[o] = IF o = s THEN x ELSE ses[o]
  BY <1>1, Apart, Different
<1>4. Front(q) \notin Backs /\ Back(q) \in Backs
  BY Names
<1>. QED  BY <1>2, <1>3, <1>4

\* A user's move, or a patch, does not touch a task that runs.
LEMMA UserCommits ==
  ASSUME TypeInv, MirrorInv, NEW q \in Requests, Commit(Front(q)), ~ Launched(ses[Front(q)])
  PROVE  MirrorInv'
<1> DEFINE s == Front(q)
<1>1. /\ ses[s].pc = "commit" /\ FrontFacts(ses[s]) /\ (Deciding(ses[s]) => task # "running")
      /\ s \in Sessions
  BY MirrorMover, Different DEF Commit
<1>2. Open(s)
  BY <1>1 DEF Open, Over
<1>3. ses[s].op \in {"move", "patch"}
  BY <1>1, <1>2 DEF Launched, FrontFacts, CancelFacts, Open
<1>4. ses[s].set # "running" /\ ses[s].runSet = NoRow /\ task # "running"
  BY <1>1, <1>2, <1>3 DEF FrontFacts, UserFacts, Deciding, Open
<1>5. task' # "running" /\ run' = run
  BY <1>4 DEF Commit, TaskSeen
<1>6. PICK x : /\ x.pc = "done"
               /\ \A o \in Sessions : ses'[o] = IF o = s THEN x ELSE ses[o]
  BY AfterCommit
<1>7. \A p \in Requests : ses'[Front(p)] = (IF p = q THEN x ELSE ses[Front(p)]) /\ ses'[Back(p)] = ses[Back(p)]
  BY <1>6, Different
<1>8. \A p \in Requests : Open(Front(p)) => p = q
  BY <1>2 DEF MirrorInv, OneFront
<1>9. \A p \in Requests : ~ Live(ses'[Back(p)])
  <2>1. \A p \in Requests : ~ Live(ses[Back(p)])
    BY <1>4, <1>8, Calm
  <2>. QED  BY <1>7, <2>1
<1>10. \A p \in Requests : ~ Open(Front(p))'
  <2> TAKE p \in Requests
  <2>1. CASE p = q
    BY <1>6, <1>7, <2>1 DEF Open, Over
  <2>2. CASE p # q
    BY <1>7, <1>8, <2>2 DEF Open
  <2>. QED  BY <2>1, <2>2
<1>11. OneFront' /\ FrontsHold' /\ Decisions' /\ BacksHold' /\ OneBack'
  BY <1>9, <1>10 DEF OneFront, FrontsHold, FrontFacts, Decisions, Deciding, BacksHold, OneBack, Open
<1>12. Mirror'
  BY <1>4, <1>5 DEF MirrorInv, Mirror
<1>. QED  BY <1>11, <1>12 DEF MirrorInv

\* The request commits what it launched: task and run start to run together.
LEMMA LaunchCommits ==
  ASSUME TypeInv, MirrorInv, NEW q \in Requests, Commit(Front(q)), Launched(ses[Front(q)])
  PROVE  MirrorInv'
<1> DEFINE s == Front(q)
           id == ses[s].id
<1>1. /\ ses[s].pc = "commit" /\ FrontFacts(ses[s]) /\ s \in Sessions /\ Deciding(ses[s])
      /\ Fits(s, ses[s], run) /\ run \in [Requests -> RunRow]
  BY MirrorMover, Different, Mover DEF Commit, Launched, Deciding, Over
<1>2. Open(s) /\ id \in Requests
  BY <1>1 DEF Open, Over, Fits, Launched
<1>3. ses[s].set = "running" /\ ses[s].runSet.status = "running"
  BY <1>1, <1>2 DEF Launched, FrontFacts, StartFacts, RetryFacts, Moves, Open
<1>4. task # "running" /\ \A p \in Requests : Live(ses[Back(p)]) => p = q
  BY <1>1 DEF MirrorInv, Decisions
<1>5. \A p \in Requests : run[p].status # "running"
  BY <1>4 DEF MirrorInv, Mirror
<1>6. ses[s].runSet # NoRow
  BY <1>3 DEF NoRow, None
<1>7. task' = "running" /\ \A p \in Requests : run'[p] = IF p = id THEN ses[s].runSet ELSE run[p]
  BY <1>1, <1>2, <1>3, <1>6 DEF Commit, TaskSeen, None
<1>8. PICK x : /\ x.pc = "done"
               /\ \A o \in Sessions : ses'[o] = IF o = s THEN x ELSE ses[o]
  BY AfterCommit
<1>9. \A p \in Requests : ses'[Front(p)] = (IF p = q THEN x ELSE ses[Front(p)]) /\ ses'[Back(p)] = ses[Back(p)]
  BY <1>8, Different
<1>10. \A p \in Requests : Open(Front(p)) => p = q
  BY <1>2 DEF MirrorInv, OneFront
<1>11. \A p \in Requests : ~ Open(Front(p))'
  BY <1>8, <1>9, <1>10 DEF Open, Over
<1>12. OneFront' /\ FrontsHold' /\ Decisions'
  BY <1>11 DEF OneFront, FrontsHold, FrontFacts, Decisions, Deciding, Open
<1>13. BacksHold'
  <2> SUFFICES ASSUME NEW p \in Requests, Live(ses'[Back(p)])
               PROVE  BackFacts(ses'[Back(p)]) /\ task' = "running" /\ run'[ses'[Back(p)].id].status = "running"
    BY DEF BacksHold, Works
  <2>1. p = q /\ ses'[Back(p)] = ses[Back(p)] /\ Live(ses[Back(p)])
    BY <1>4, <1>9
  <2>2. BackFacts(ses[Back(p)]) /\ ses[Back(p)].id = id
    BY <1>4, <2>1 DEF MirrorInv, BacksHold, Works
  <2>. QED  BY <1>2, <1>3, <1>7, <2>1, <2>2
<1>14. OneBack'
  BY <1>4, <1>9 DEF OneBack
<1>15. Mirror'
  BY <1>2, <1>3, <1>5, <1>7 DEF Mirror
<1>. QED  BY <1>12, <1>13, <1>14, <1>15 DEF MirrorInv

\* The background task commits the outcome: task and run stop together.
LEMMA BackCommits ==
  ASSUME TypeInv, MirrorInv, NEW q \in Requests, Commit(Back(q))
  PROVE  MirrorInv'
<1> DEFINE s == Back(q)
           id == ses[s].id
<1>1. /\ ses[s].pc = "commit" /\ s \in Sessions /\ Live(ses[s])
      /\ Fits(s, ses[s], run) /\ run \in [Requests -> RunRow] /\ s \in Backs
  BY MirrorMover, Different, Mover DEF Commit, Live
<1>2. BackFacts(ses[s]) /\ Works(ses[s])
  BY <1>1, MirrorMover
<1>3. id \in Requests
  BY <1>1 DEF Fits, Over
<1>4. ses[s].set # None /\ ses[s].set # "running" /\ ses[s].runSet.status \in Settled
  BY <1>1, <1>2 DEF BackFacts
<1>5. ses[s].runSet # NoRow /\ ses[s].runSet.status # "running"
  BY <1>4 DEF NoRow, None, Settled
<1>6. task' # "running" /\ \A p \in Requests : run'[p] = IF p = id THEN ses[s].runSet ELSE run[p]
  BY <1>1, <1>3, <1>4, <1>5 DEF Commit, TaskSeen
<1>7. \A p \in Requests : run'[p].status # "running"
  BY <1>2, <1>3, <1>5, <1>6 DEF MirrorInv, Mirror, Works
<1>8. PICK x : /\ x.pc = "finish"
               /\ \A o \in Sessions : ses'[o] = IF o = s THEN x ELSE ses[o]
  <2>1. s # Front(q)
    BY Different
  <2>. QED  BY <2>1, AfterCommit
<1>9. \A p \in Requests : ses'[Back(p)] = (IF p = q THEN x ELSE ses[Back(p)]) /\ ses'[Front(p)] = ses[Front(p)]
  BY <1>8, Different
<1>10. \A p \in Requests : ~ Live(ses'[Back(p)])
  BY <1>1, <1>8, <1>9 DEF MirrorInv, OneBack, Live
<1>11. \A p \in Requests : ~ Deciding(ses'[Front(p)])
  BY <1>2, <1>9 DEF MirrorInv, Decisions, Works
<1>12. OneFront' /\ FrontsHold'
  BY <1>9 DEF MirrorInv, OneFront, FrontsHold, Open
<1>13. Decisions' /\ BacksHold' /\ OneBack'
  BY <1>10, <1>11 DEF Decisions, BacksHold, OneBack
<1>14. Mirror'
  BY <1>6, <1>7 DEF Mirror
<1>. QED  BY <1>12, <1>13, <1>14 DEF MirrorInv

LEMMA CrashKeepsMirror ==
  ASSUME TypeInv, MirrorInv, Crash
  PROVE  MirrorInv'
<1>1. \A s \in Sessions : ses'[s].pc \in Over \cup {"new"}
  BY DEF Crash, Open, Blank, Over
<1>2. \A p \in Requests : ses'[Front(p)].pc \in Over \cup {"new"} /\ ses'[Back(p)].pc \in Over \cup {"new"}
  BY <1>1, Different
<1>3. OneFront' /\ FrontsHold' /\ Decisions' /\ BacksHold' /\ OneBack'
  BY <1>2 DEF OneFront, FrontsHold, FrontFacts, Decisions, Deciding, BacksHold, OneBack, Open, Live, Over
<1>4. Mirror'
  BY DEF Crash, MirrorInv, Mirror
<1>. QED  BY <1>3, <1>4 DEF MirrorInv

LEMMA StatementKeepsMirror ==
  ASSUME TypeInv, MirrorInv, Timely, NEW s \in Sessions, Statement(s)
  PROVE  MirrorInv'
<1>1. PICK q \in Requests : s \in {Front(q), Back(q)}
  BY DEF Sessions, Fronts, Backs
<1>2. CASE s = Front(q)
  <2>1. CASE ReadRun(s) \/ Signal(s) \/ ReadTask(s) \/ LoadTask(s) \/ FlushMove(s)
    BY <1>2, <2>1, ReadRunKeepsMirror, SignalKeepsMirror, RequestReadsTask, LoadTaskKeepsMirror,
       FlushMoveKeepsMirror
  <2>2. CASE FlushPatch(s) \/ LoadRun(s) \/ FlushRun(s) \/ Launch(s) \/ Commit(s)
    BY <1>2, <2>2, FlushPatchKeepsMirror, RequestLoadsRun, FlushRunKeepsMirror, LaunchKeepsMirror,
       UserCommits, LaunchCommits
  <2>. QED  BY <2>1, <2>2 DEF Statement
<1>3. CASE s = Back(q)
  <2>1. ~ ReadRun(s) /\ ~ Signal(s) /\ ~ Launch(s) /\ ~ FlushPatch(s)
    BY <1>3, MirrorMover DEF ReadRun, Signal, Launch, FlushPatch, Fits, Over
  <2>2. CASE ReadTask(s) \/ LoadTask(s) \/ FlushMove(s) \/ LoadRun(s) \/ FlushRun(s) \/ Commit(s)
    BY <1>3, <2>2, BackReadsTask, LoadTaskKeepsMirror, FlushMoveKeepsMirror, BackLoadsRun,
       FlushRunKeepsMirror, BackCommits
  <2>. QED  BY <2>1, <2>2 DEF Statement
<1>. QED  BY <1>1, <1>2, <1>3

LEMMA MirrorNext ==
  ASSUME HandsOff, ~ Overlap, Timely, TypeInv, ~ orphan => MirrorInv, [Next]_vars
  PROVE  ~ orphan' => MirrorInv'
<1> SUFFICES ASSUME ~ orphan' PROVE MirrorInv'
  OBVIOUS
<1>1. MirrorInv
  <2>1. orphan => orphan'
    BY DEF Next, PostRuns, StartRun, PostRetry, RetryRun, PostCancel, CancelRun, PostAssign, AssignAgent,
           PatchTasks, PatchTask, PostStatus, PostApprove, Approve, PostReject, Reject, PostMerge, Merge,
           MoveTask, Begin, Statement, ReadRun, Signal, ReadTask, LoadTask, FlushMove, FlushPatch, LoadRun,
           FlushRun, Launch, Commit, AgentReturns, Finish, RequestFails, Crash, vars
  <2>. QED  BY <2>1
<1>2. ASSUME NEW q \in Requests, Arrives(q) PROVE \A p \in Requests : ~ Open(Front(p))
  BY <1>2, Names DEF Arrives
<1>3. ASSUME NEW q \in Requests, NEW to \in TaskStatus, MoveTask(q, to), Arrives(q) PROVE MirrorInv'
  <2>1. Len(<<to>>) = 1 /\ <<to>>[1] = to
    OBVIOUS
  <2>2. NoRestart(<<to>>) /\ task # "running"
    BY <1>3, <2>1 DEF MoveTask, NoRestart
  <2>. QED  BY <1>1, <1>2, <1>3, <2>2, BeginKeepsMirror DEF MoveTask
<1>4. ASSUME NEW q \in Requests, PatchTask(q), Arrives(q) PROVE MirrorInv'
  BY <1>1, <1>2, <1>4, BeginKeepsMirror DEF PatchTask
<1>5. ASSUME NEW q \in Requests, PostRuns(q) PROVE MirrorInv'
  BY <1>1, <1>2, <1>5, BeginKeepsMirror DEF PostRuns, StartRun
<1>6. ASSUME NEW q \in Requests, PostRetry(q) PROVE MirrorInv'
  BY <1>1, <1>2, <1>6, BeginKeepsMirror DEF PostRetry, RetryRun
<1>7. ASSUME NEW q \in Requests, PostCancel(q) PROVE MirrorInv'
  BY <1>1, <1>2, <1>7, BeginKeepsMirror DEF PostCancel, CancelRun
<1>8. ASSUME NEW q \in Requests,
             PostAssign(q) \/ PatchTasks(q) \/ PostStatus(q) \/ PostApprove(q) \/ PostReject(q) \/ PostMerge(q)
      PROVE  MirrorInv'
  BY <1>3, <1>4, <1>8 DEF PostAssign, AssignAgent, PatchTasks, PostStatus, PostApprove, Approve,
                          PostReject, Reject, PostMerge, Merge, TaskStatus
<1>9. ASSUME NEW s \in Sessions, Statement(s) PROVE MirrorInv'
  BY <1>1, <1>9, StatementKeepsMirror
<1>10. ASSUME NEW b \in Backs, AgentReturns(b) PROVE MirrorInv'
  BY <1>1, <1>10, Names, AgentReturnsKeepsMirror
<1>11. ASSUME NEW b \in Backs, Finish(b) PROVE MirrorInv'
  <2>1. PICK q \in Requests : b = Back(q)
    BY DEF Backs
  <2>2. b # Front(q)
    BY <2>1, Different
  <2>. QED  BY <1>1, <1>11, <2>1, <2>2, ClosingKeepsMirror DEF Finish
<1>12. ASSUME NEW s \in Fronts, RequestFails(s) PROVE MirrorInv'
  <2>1. PICK q \in Requests : s = Front(q)
    BY DEF Fronts
  <2>2. ~ Launched(ses[s]) /\ Open(s)
    BY <1>12 DEF RequestFails, Launched
  <2>. QED  BY <1>1, <1>12, <2>1, <2>2, ClosingKeepsMirror DEF RequestFails
<1>13. CASE Crash
  BY <1>1, <1>13, CrashKeepsMirror
<1>14. CASE UNCHANGED vars
  BY <1>1, <1>14 DEF vars, MirrorInv, OneFront, Open, FrontsHold, Decisions, BacksHold, Works, OneBack, Mirror
<1>. QED  BY <1>5, <1>6, <1>7, <1>8, <1>9, <1>10, <1>11, <1>12, <1>13, <1>14 DEF Next

\* Task and run agree (RunMirrorsTask): if requests do not overlap, users
\* leave a running task alone and background tasks keep their time, the
\* committed task is running exactly when one committed run is, and never two,
\* through any number of starts, retries, cancellations, failures before the
\* launch and crashes.
THEOREM RunAndTaskAgree == HandsOff /\ ~ Overlap /\ Timely => (Spec => []RunMirrorsTask)
<1> SUFFICES ASSUME HandsOff, ~ Overlap, Timely PROVE Spec => []RunMirrorsTask
  OBVIOUS
<1> DEFINE I == TypeInv /\ (~ orphan => MirrorInv)
<1>1. Init => I
  BY TypeInvInit, MirrorInit
<1>2. I /\ [Next]_vars => I'
  BY TypeInvNext, MirrorNext
<1>3. I => RunMirrorsTask
  BY DEF MirrorInv, Mirror, RunMirrorsTask
<1>. HIDE DEF I
<1>. QED  BY <1>1, <1>2, <1>3, PTL DEF Spec

------------------------------------------------------------------------------
(***************************************************************************)
(* History and terminal statuses                                           *)
(*                                                                         *)
(* A session that has read the task to move it finds it unchanged when it  *)
(* writes, because every other session rests: it holds nothing of the task *)
(* as it was.                                                              *)
(***************************************************************************)

\* The status a session sees, for a record x of a session and the committed one.
Seen(x, st) == IF x.set # None THEN x.set ELSE st

\* The entries lead from the committed status to the one that is flushed.
Tells(entries, from, to) ==
  /\ entries[1][1] = from /\ entries[Len(entries)][2] = to
  /\ \A i \in 2..Len(entries) : entries[i][1] = entries[i - 1][2]

FirmMoves(x, st) ==
  /\ x.pc \in {"load", "flush"} => x.copy = Seen(x, st) /\ IsLegalTaskTransition(x.copy, Head(x.todo))
  /\ x.pc = "flush" => x.seen = Seen(x, st)
  /\ x.set = None <=> x.entries = <<>>
  /\ x.entries # <<>> => Tells(x.entries, st, x.set) /\ st \notin TerminalStatus

FirmPatch(x, st) ==
  /\ x.pc \in {"read", "load", "flush"} => x.set = None
  /\ x.pc \in {"load", "flush"} => x.copy = st
  /\ x.pc = "flush" => x.seen = st
  /\ x.pc = "commit" => x.set = st
  /\ x.entries = <<>>

Untouched(x) == x.set = None /\ x.entries = <<>>

Firm(s, x, st) ==
  /\ x.pc \in Over \cup {"new", "finish", "run_read", "signal", "agent"} => Untouched(x)
  /\ s \in Backs /\ x.pc = "run_load" => Untouched(x)
  /\ x.pc \notin Over \cup {"new"} /\ x.op # "patch" => FirmMoves(x, st)
  /\ x.pc \notin Over \cup {"new"} /\ x.op = "patch" => FirmPatch(x, st)

FirmInv == \A s \in Sessions : Firm(s, ses[s], task)

LEMMA FirmInit == Init => FirmInv
  BY DEF Init, FirmInv, Firm, Blank, Untouched, Over

\* A session at rest says nothing of the committed status.
Rests(s, x) ==
  \/ x.pc \in Over \cup {"new", "finish", "run_read", "signal", "agent"}
  \/ s \in Backs /\ x.pc = "run_load"
  \/ x.pc = "read" /\ x.set = None /\ x.op # "patch"

LEMMA RestIsFirm ==
  ASSUME NEW s, NEW x, NEW st, NEW new, Firm(s, x, st), Rests(s, x), s \in Backs => x.op # "patch"
  PROVE  Firm(s, x, new)
<1>1. CASE x.pc \in Over \cup {"new"}
  BY <1>1 DEF Firm
<1>2. CASE x.pc \notin Over \cup {"new"}
  <2>1. Untouched(x) \/ (x.op # "patch" /\ x.set = None)
    BY DEF Rests, Firm
  <2>2. CASE x.op # "patch"
    <3>1. x.entries = <<>> /\ x.set = None
      BY <1>2, <2>1, <2>2 DEF Firm, FirmMoves, Untouched
    <3>2. x.pc \notin {"load", "flush"}
      BY DEF Rests, Over
    <3>. QED  BY <1>2, <2>2, <3>1, <3>2 DEF Firm, FirmMoves
  <2>3. CASE x.op = "patch"
    <3>1. x.pc \notin {"load", "flush", "commit"}
      BY <2>3 DEF Rests, Over
    <3>. QED  BY <1>2, <2>3, <3>1 DEF Firm, FirmPatch
  <2>. QED  BY <2>2, <2>3
<1>. QED  BY <1>1, <1>2

\* While a session commits, all others rest.
LEMMA OthersRest ==
  ASSUME TypeInv, MirrorInv, NEW s \in Sessions, Commit(s), NEW o \in Sessions \ {s}
  PROVE  Rests(o, ses[o])
<1>1. PICK q \in Requests : s \in {Front(q), Back(q)}
  BY DEF Sessions, Fronts, Backs
<1>2. PICK p \in Requests : o \in {Front(p), Back(p)}
  BY DEF Sessions, Fronts, Backs
<1>3. ses[s].pc = "commit" /\ ses[o] \in Session /\ Fits(o, ses[o], run)
  BY Mover DEF Commit
<1>4. ASSUME o = Back(p), ~ Live(ses[o]) PROVE Rests(o, ses[o])
  <2>1. ses[o].pc \in Place /\ ses[o].pc \notin {"run_read", "signal", "launch"}
    BY <1>3, <1>4, MirrorMover DEF Session, Fits
  <2>. QED  BY <1>4, <2>1 DEF Live, Place, Rests, Over
<1>5. CASE s = Front(q)
  <2>1. Open(s) /\ FrontFacts(ses[s]) /\ (Deciding(ses[s]) => task # "running")
    BY <1>3, <1>5, MirrorMover DEF Open, Over
  <2>2. Deciding(ses[s])
    BY <1>3, <2>1 DEF FrontFacts, CancelFacts, Deciding, Open
  <2>3. CASE o = Front(p)
    <3>1. p # q
      BY <1>5, <2>3
    <3>2. ~ Open(o)
      BY <1>5, <2>1, <2>3, <3>1 DEF MirrorInv, OneFront
    <3>. QED  BY <3>2 DEF Open, Rests
  <2>4. CASE o = Back(p)
    <3>1. CASE Live(ses[o])
      <4>1. ses[o].pc \in {"agent", "run_load"}
        BY <2>1, <2>2, <2>4, <3>1 DEF MirrorInv, BacksHold, Works
      <4>. QED  BY <2>4, <4>1, MirrorMover DEF Rests
    <3>. QED  BY <1>4, <2>4, <3>1
  <2>. QED  BY <1>2, <2>3, <2>4
<1>6. CASE s = Back(q)
  <2>1. Live(ses[s]) /\ Works(ses[s])
    BY <1>3, <1>6, MirrorMover DEF Live
  <2>2. CASE o = Front(p)
    <3>1. FrontFacts(ses[o]) /\ ~ Deciding(ses[o])
      BY <2>1, <2>2, MirrorMover DEF Works
    <3>2. CASE Open(o)
      BY <3>1, <3>2 DEF FrontFacts, CancelFacts, UserFacts, StartFacts, RetryFacts, Moves, Deciding, Open, Rests
    <3>3. CASE ~ Open(o)
      BY <3>3 DEF Open, Rests
    <3>. QED  BY <3>2, <3>3
  <2>3. CASE o = Back(p)
    <3>1. ~ Live(ses[o])
      BY <1>6, <2>1, <2>3 DEF MirrorInv, OneBack
    <3>. QED  BY <1>4, <2>3, <3>1
  <2>. QED  BY <1>2, <2>2, <2>3
<1>. QED  BY <1>1, <1>5, <1>6

\* One session goes on, and the committed status stays.
LEMMA FirmStep ==
  ASSUME TypeInv, FirmInv, NEW s \in Sessions, NEW x, ses' = [ses EXCEPT ![s] = x], UNCHANGED task,
         Firm(s, x, task)
  PROVE  FirmInv'
<1>1. \A o \in Sessions : ses'[o] = IF o = s THEN x ELSE ses[o]
  BY Apart
<1>. QED  BY <1>1 DEF FirmInv

LEMMA ClosedIsFirm ==
  ASSUME NEW s \in Sessions, NEW pc \in {"done", "failed", "finish"}, NEW st, pc = "finish" => ses[s].op # "patch"
  PROVE  Firm(s, Closed(s, pc), st)
<1> DEFINE x == Closed(s, pc)
<1>1. x.pc = pc /\ x.set = None /\ x.entries = <<>> /\ x.op = ses[s].op
  BY DEF Closed, Blank
<1>. HIDE DEF x
<1>2. Firm(s, x, st)
  BY <1>1 DEF Firm, FirmMoves, Untouched, Over
<1>. QED  BY <1>2 DEF x

LEMMA ClosingKeepsFirm ==
  ASSUME TypeInv, FirmInv, NEW s \in Sessions, NEW pc \in {"done", "failed", "finish"},
         Abort(s, pc), UNCHANGED task, pc = "finish" => s \in Backs /\ ses[s].pc \notin Over \cup {"new"}
  PROVE  FirmInv'
<1>1. ses' = [ses EXCEPT ![s] = Closed(s, pc)]
  BY DEF Abort, Closed
<1>2. pc = "finish" => ses[s].op # "patch"
  BY Mover DEF Fits
<1>. QED  BY <1>1, <1>2, ClosedIsFirm, FirmStep

LEMMA BeginKeepsFirm ==
  ASSUME TypeInv, FirmInv, NEW q \in Requests, NEW op, NEW id, NEW todo, Begin(q, op, id, todo)
  PROVE  FirmInv'
<1> DEFINE place == IF op \in {"retry", "cancel"} THEN "run_read" ELSE "read"
           x == [Blank EXCEPT !.op = op, !.id = id, !.todo = todo, !.pc = place]
<1>1. ses' = [ses EXCEPT ![Front(q)] = x] /\ UNCHANGED task
  BY DEF Begin
<1>2. x.op = op /\ x.pc = place /\ x.set = None /\ x.entries = <<>>
  BY DEF Blank
<1>. HIDE DEF x
<1>3. Firm(Front(q), x, task)
  BY <1>2 DEF Firm, FirmMoves, FirmPatch, Untouched, Over
<1>. QED  BY <1>1, <1>3, Different, FirmStep

\* A step that leaves what a session has flushed, and the copies of the task.
LEMMA FirmElsewhere ==
  ASSUME NEW s, NEW x, NEW y, NEW st, Firm(s, x, st), x.pc \notin Over \cup {"new"},
         y.pc \in {"read", "signal", "run_load", "run_flush", "launch"} \/ (y.pc = "commit" /\ y.op # "patch"),
         y.op = x.op, y.set = x.set, y.entries = x.entries,
         x.op = "patch" => y.pc = "read" /\ x.set = None,
         y.pc = "signal" \/ (s \in Backs /\ y.pc = "run_load") => Untouched(x)
  PROVE  Firm(s, y, st)
<1>1. y.pc \notin Over \cup {"new", "load", "flush"}
  BY DEF Over
<1>. QED  BY <1>1 DEF Firm, FirmMoves, FirmPatch, Untouched, Over

LEMMA ReadRunKeepsFirm ==
  ASSUME TypeInv, FirmInv, NEW s \in Sessions, ReadRun(s)
  PROVE  FirmInv'
<1>1. ses[s].pc = "run_read" /\ ses[s] \in Session /\ Firm(s, ses[s], task) /\ ses \in [Sessions -> Session]
  BY Mover DEF ReadRun, FirmInv
<1>2. CASE Abort(s, "failed")
  BY <1>2, ClosingKeepsFirm DEF ReadRun
<1>3. CASE ses[s].op = "retry" /\ ses' = [ses EXCEPT ![s].runCopy = RunSeen(s), ![s].pc = "read"]
  <2> DEFINE x == [ses[s] EXCEPT !.runCopy = RunSeen(s), !.pc = "read"]
  <2>1. ses' = [ses EXCEPT ![s] = x]
    BY <1>1, <1>3 DEF Session
  <2>2. x.pc = "read" /\ x.op = "retry" /\ x.set = ses[s].set /\ x.entries = ses[s].entries
    BY <1>1, <1>3 DEF Session
  <2>. HIDE DEF x
  <2>3. Firm(s, x, task)
    BY <1>1, <1>3, <2>2, FirmElsewhere DEF Over
  <2>. QED  BY <2>1, <2>3, FirmStep DEF ReadRun
<1>4. CASE ses[s].op = "cancel" /\ ses' = [ses EXCEPT ![s].pc = "signal"]
  <2> DEFINE x == [ses[s] EXCEPT !.pc = "signal"]
  <2>1. ses' = [ses EXCEPT ![s] = x]
    BY <1>1, <1>4 DEF Session
  <2>2. x.pc = "signal" /\ x.op = "cancel" /\ x.set = ses[s].set /\ x.entries = ses[s].entries
    BY <1>1, <1>4 DEF Session
  <2>. HIDE DEF x
  <2>3. Firm(s, x, task)
    BY <1>1, <1>4, <2>2, FirmElsewhere DEF Over, Firm
  <2>. QED  BY <2>1, <2>3, FirmStep DEF ReadRun
<1>. QED  BY <1>2, <1>3, <1>4 DEF ReadRun

LEMMA ReadTaskKeepsFirm ==
  ASSUME TypeInv, FirmInv, NEW s \in Sessions, ReadTask(s)
  PROVE  FirmInv'
<1>1. ses[s].pc = "read" /\ ses[s] \in Session /\ Firm(s, ses[s], task) /\ ses \in [Sessions -> Session]
  BY Mover DEF ReadTask, FirmInv
<1>2. CASE Abort(s, IF s \in Backs THEN "finish" ELSE "failed")
  BY <1>1, <1>2, ClosingKeepsFirm DEF ReadTask, Over
<1>3. CASE /\ ses[s].op # "patch" => IsLegalTaskTransition(TaskSeen(s), Head(ses[s].todo))
           /\ ses' = [ses EXCEPT ![s].copy = TaskSeen(s), ![s].pc = "load"]
  <2> DEFINE x == [ses[s] EXCEPT !.copy = TaskSeen(s), !.pc = "load"]
  <2>1. ses' = [ses EXCEPT ![s] = x]
    BY <1>1, <1>3 DEF Session
  <2>2. /\ x.pc = "load" /\ x.op = ses[s].op /\ x.todo = ses[s].todo /\ x.set = ses[s].set
        /\ x.entries = ses[s].entries /\ x.copy = TaskSeen(s)
    BY <1>1, <1>3 DEF Session
  <2>3. TaskSeen(s) = Seen(x, task)
    BY <2>2 DEF TaskSeen, Seen
  <2>. HIDE DEF x
  <2>4. ASSUME ses[s].op # "patch" PROVE Firm(s, x, task)
    <3>1. FirmMoves(ses[s], task)
      BY <1>1, <2>4 DEF Firm, Over
    <3>2. FirmMoves(x, task)
      BY <1>3, <2>2, <2>3, <2>4, <3>1 DEF FirmMoves
    <3>. QED  BY <2>2, <2>4, <3>2 DEF Firm, Over
  <2>5. ASSUME ses[s].op = "patch" PROVE Firm(s, x, task)
    <3>1. ses[s].set = None /\ ses[s].entries = <<>>
      BY <1>1, <2>5 DEF Firm, FirmPatch, Over
    <3>2. FirmPatch(x, task)
      BY <2>2, <2>3, <3>1 DEF FirmPatch, Seen
    <3>. QED  BY <2>2, <2>5, <3>2 DEF Firm, Over
  <2>. QED  BY <2>1, <2>4, <2>5, FirmStep DEF ReadTask
<1>. QED  BY <1>2, <1>3 DEF ReadTask

LEMMA LoadTaskKeepsFirm ==
  ASSUME TypeInv, FirmInv, NEW s \in Sessions, LoadTask(s)
  PROVE  FirmInv'
<1> DEFINE x == [ses[s] EXCEPT !.seen = TaskSeen(s), !.pc = "flush"]
<1>1. ses[s].pc = "load" /\ ses[s] \in Session /\ Firm(s, ses[s], task) /\ ses \in [Sessions -> Session]
  BY Mover DEF LoadTask, FirmInv
<1>2. ses' = [ses EXCEPT ![s] = x] /\ UNCHANGED task
  BY <1>1 DEF Session, LoadTask
<1>3. /\ x.pc = "flush" /\ x.op = ses[s].op /\ x.todo = ses[s].todo /\ x.set = ses[s].set
      /\ x.entries = ses[s].entries /\ x.copy = ses[s].copy /\ x.seen = TaskSeen(s)
  BY <1>1 DEF Session
<1>4. TaskSeen(s) = Seen(x, task) /\ Seen(x, task) = Seen(ses[s], task)
  BY <1>3 DEF TaskSeen, Seen
<1>. HIDE DEF x
<1>5. CASE ses[s].op # "patch"
  <2>1. FirmMoves(ses[s], task)
    BY <1>1, <1>5 DEF Firm, Over
  <2>2. FirmMoves(x, task)
    BY <1>1, <1>3, <1>4, <2>1 DEF FirmMoves
  <2>3. Firm(s, x, task)
    BY <1>3, <1>5, <2>2 DEF Firm, Over
  <2>. QED  BY <1>2, <2>3, FirmStep
<1>6. CASE ses[s].op = "patch"
  <2>1. FirmPatch(ses[s], task)
    BY <1>1, <1>6 DEF Firm, Over
  <2>2. FirmPatch(x, task)
    BY <1>1, <1>3, <1>4, <2>1 DEF FirmPatch, Seen
  <2>3. Firm(s, x, task)
    BY <1>3, <1>6, <2>2 DEF Firm, Over
  <2>. QED  BY <1>2, <2>3, FirmStep
<1>. QED  BY <1>5, <1>6

\* A legal move goes somewhere else, and leaves no terminal status.
LEMMA LegalMoves ==
  \A from, to : IsLegalTaskTransition(from, to) => from # to /\ from \notin TerminalStatus
  BY DEF IsLegalTaskTransition, TaskTransitions, TerminalStatus

\* The entry that is appended leads on from where the last one led.
LEMMA TellsMore ==
  ASSUME NEW E, NEW entries \in Seq(E \X E), NEW from, NEW to \in E, NEW new \in E,
         entries # <<>> => Tells(entries, from, to), entries = <<>> => to = from
  PROVE  /\ Append(entries, <<to, new>>) # <<>>
         /\ Tells(Append(entries, <<to, new>>), from, new)
<1> DEFINE more == Append(entries, <<to, new>>)
           n == Len(entries)
<1>1. n \in Nat /\ (entries = <<>> <=> n = 0)
  OBVIOUS
<1>2. Len(more) = n + 1 /\ more[n + 1] = <<to, new>> /\ \A i \in 1..n : more[i] = entries[i]
  OBVIOUS
<1>3. more # <<>>
  BY <1>1, <1>2
<1>. HIDE DEF more
<1>4. more[1][1] = from
  <2>1. CASE n = 0
    BY <1>1, <1>2, <2>1
  <2>2. CASE n # 0
    BY <1>1, <1>2, <2>2 DEF Tells
  <2>. QED  BY <2>1, <2>2
<1>5. more[Len(more)][2] = new
  BY <1>2
<1>6. ASSUME NEW i \in 2..Len(more) PROVE more[i][1] = more[i - 1][2]
  <2>1. CASE i = n + 1
    <3>1. n # 0 /\ i - 1 = n /\ n \in 1..n
      BY <1>1, <1>2, <2>1
    <3>2. more[i - 1] = entries[n]
      BY <1>2, <3>1
    <3>3. entries[n][2] = to
      BY <1>1, <3>1 DEF Tells
    <3>4. more[i] = <<to, new>>
      BY <1>2, <2>1
    <3>. QED  BY <3>2, <3>3, <3>4
  <2>2. CASE i # n + 1
    <3>1. i \in 2..n /\ i \in 1..n /\ i - 1 \in 1..n
      <4>. HIDE DEF n
      <4>. QED  BY <1>1, <1>2, <2>2
    <3>2. more[i] = entries[i] /\ more[i - 1] = entries[i - 1]
      BY <1>2, <3>1
    <3>3. entries # <<>>
      BY <1>1, <3>1
    <3>. QED  BY <3>1, <3>2, <3>3 DEF Tells
  <2>. QED  BY <2>1, <2>2
<1>7. Tells(more, from, new)
  BY <1>4, <1>5, <1>6 DEF Tells
<1>. QED  BY <1>3, <1>7 DEF more

LEMMA FlushMoveKeepsFirm ==
  ASSUME TypeInv, FirmInv, NEW s \in Sessions, FlushMove(s)
  PROVE  FirmInv'
<1> DEFINE to == Head(ses[s].todo)
           left == Tail(ses[s].todo)
           set == IF to # ses[s].seen THEN to ELSE ses[s].set
           entries == Append(ses[s].entries, <<ses[s].copy, to>>)
           pc == IF left = <<>> THEN AfterMoves(ses[s].op) ELSE "read"
           x == [ses[s] EXCEPT !.set = set, !.entries = entries, !.todo = left, !.pc = pc]
           E == TaskStatus \cup {None}
<1>1. /\ ses[s].pc = "flush" /\ ses[s].op # "patch" /\ ses[s] \in Session
      /\ ses \in [Sessions -> Session] /\ Fits(s, ses[s], run) /\ Firm(s, ses[s], task)
  BY Mover DEF FlushMove, FirmInv
<1>2. ses' = [ses EXCEPT ![s] = x] /\ UNCHANGED task
  BY <1>1 DEF Session, FlushMove
<1>3. x.pc = pc /\ x.op = ses[s].op /\ x.set = set /\ x.entries = entries
  BY <1>1 DEF Session
<1>4. /\ ses[s].todo \in Seq(TaskStatus) /\ ses[s].todo # <<>> /\ ses[s].copy \in TaskStatus
      /\ ses[s].entries \in Seq(E \X TaskStatus) /\ ses[s].set \in E /\ task \in TaskStatus
  BY <1>1, Mover DEF Fits, Session
<1>5. to \in TaskStatus /\ to # None
  <2>1. to \in TaskStatus
    BY <1>4
  <2>. QED  BY <2>1 DEF TaskStatus, None
<1>. HIDE DEF x, to, left
<1>6. FirmMoves(ses[s], task)
  BY <1>1 DEF Firm, Over
<1>7. /\ ses[s].copy = Seen(ses[s], task) /\ ses[s].seen = ses[s].copy
      /\ IsLegalTaskTransition(ses[s].copy, to)
  BY <1>1, <1>6 DEF FirmMoves, to
<1>8. set = to /\ ses[s].copy \notin TerminalStatus
  BY <1>7, LegalMoves
<1>9. task \notin TerminalStatus
  <2>1. CASE ses[s].entries = <<>>
    BY <1>6, <1>7, <1>8, <2>1 DEF FirmMoves, Seen
  <2>2. CASE ses[s].entries # <<>>
    BY <1>6, <2>2 DEF FirmMoves
  <2>. QED  BY <2>1, <2>2
<1>10. entries # <<>> /\ Tells(entries, task, to)
  <2>1. ses[s].entries # <<>> => Tells(ses[s].entries, task, ses[s].copy)
    BY <1>6, <1>7 DEF FirmMoves, Seen
  <2>2. ses[s].entries = <<>> => ses[s].copy = task
    BY <1>6, <1>7 DEF FirmMoves, Seen
  <2>3. ses[s].entries \in Seq(E \X E)
    <3>1. E \X TaskStatus \subseteq E \X E
      OBVIOUS
    <3>. QED  BY <1>4, <3>1
  <2>4. ses[s].copy \in E /\ to \in E
    BY <1>4, <1>5
  <2>. HIDE DEF E
  <2>. QED  BY <2>1, <2>2, <2>3, <2>4, TellsMore
<1>11. pc \in {"read", "launch", "run_load", "commit"} /\ (pc = "run_load" => ses[s].op = "retry")
  BY DEF AfterMoves
<1>12. s \in Backs => ses[s].op # "retry"
  BY <1>1, Names DEF Fits, Over
<1>. HIDE DEF entries, pc, set
<1>13. FirmMoves(x, task)
  BY <1>3, <1>5, <1>8, <1>9, <1>10, <1>11 DEF FirmMoves
<1>14. Firm(s, x, task)
  BY <1>1, <1>3, <1>11, <1>12, <1>13 DEF Firm, Over
<1>. QED  BY <1>2, <1>14, FirmStep

LEMMA FlushPatchKeepsFirm ==
  ASSUME TypeInv, FirmInv, NEW s \in Sessions, FlushPatch(s)
  PROVE  FirmInv'
<1> DEFINE set == IF ses[s].copy # ses[s].seen THEN ses[s].copy ELSE task
           x == [ses[s] EXCEPT !.set = set, !.pc = "commit"]
<1>1. /\ ses[s].pc = "flush" /\ ses[s].op = "patch" /\ ses[s] \in Session
      /\ ses \in [Sessions -> Session] /\ Firm(s, ses[s], task)
  BY Mover DEF FlushPatch, FirmInv
<1>2. ses' = [ses EXCEPT ![s] = x] /\ UNCHANGED task
  BY <1>1 DEF Session, FlushPatch
<1>3. FirmPatch(ses[s], task)
  BY <1>1 DEF Firm, Over
<1>4. set = task
  BY <1>1, <1>3 DEF FirmPatch
<1>5. x.pc = "commit" /\ x.op = "patch" /\ x.set = task /\ x.entries = <<>>
  BY <1>1, <1>3, <1>4 DEF Session, FirmPatch
<1>. HIDE DEF x
<1>6. Firm(s, x, task)
  BY <1>5 DEF Firm, FirmPatch, Over
<1>. QED  BY <1>2, <1>6, FirmStep

LEMMA LoadRunKeepsFirm ==
  ASSUME TypeInv, FirmInv, NEW s \in Sessions, LoadRun(s)
  PROVE  FirmInv'
<1>1. /\ ses[s].pc = "run_load" /\ ses[s] \in Session /\ Firm(s, ses[s], task)
      /\ ses \in [Sessions -> Session] /\ Fits(s, ses[s], run) /\ s \in Fronts \cup Backs
  BY Mover DEF LoadRun, FirmInv, Sessions
<1>2. ses[s].op # "patch"
  BY <1>1 DEF Fits
<1>3. CASE RunSeen(s) = NoRow /\ Abort(s, "finish")
  <2>1. s \in Backs
    BY <1>1, <1>3 DEF Fits, Over, RunSeen
  <2>. QED  BY <1>1, <1>3, <2>1, ClosingKeepsFirm DEF LoadRun, Over
<1>4. CASE ses' = [ses EXCEPT ![s].runSeen = RunSeen(s), ![s].pc = "run_flush"]
  <2> DEFINE x == [ses[s] EXCEPT !.runSeen = RunSeen(s), !.pc = "run_flush"]
  <2>1. ses' = [ses EXCEPT ![s] = x]
    BY <1>1, <1>4 DEF Session
  <2>2. x.pc = "run_flush" /\ x.op = ses[s].op /\ x.set = ses[s].set /\ x.entries = ses[s].entries
    BY <1>1 DEF Session
  <2>. HIDE DEF x
  <2>3. Firm(s, x, task)
    BY <1>1, <1>2, <2>2, FirmElsewhere DEF Over
  <2>. QED  BY <2>1, <2>3, FirmStep DEF LoadRun
<1>. QED  BY <1>3, <1>4 DEF LoadRun

LEMMA FlushRunKeepsFirm ==
  ASSUME TypeInv, FirmInv, NEW s \in Sessions, FlushRun(s)
  PROVE  FirmInv'
<1>1. /\ ses[s].pc = "run_flush" /\ ses[s] \in Session /\ Firm(s, ses[s], task)
      /\ ses \in [Sessions -> Session] /\ Fits(s, ses[s], run)
  BY Mover DEF FlushRun, FirmInv
<1>2. ses[s].op # "patch"
  BY <1>1 DEF Fits
<1>3. PICK set : ses' = [ses EXCEPT ![s] = [ses[s] EXCEPT !.runSet = set, !.pc = IF s \in Backs THEN "read" ELSE "launch"]]
  <2> DEFINE new == IF s \in Backs THEN ses[s].runCopy
                    ELSE [status |-> "running", attempt |-> ses[s].runCopy.attempt + 1]
             seen == ses[s].runSeen
             row == run[ses[s].id]
             set == [status  |-> IF new.status # seen.status THEN new.status ELSE row.status,
                     attempt |-> IF new.attempt # seen.attempt THEN new.attempt ELSE row.attempt]
  <2>1. ses' = [ses EXCEPT ![s] = [ses[s] EXCEPT !.runSet = set, !.pc = IF s \in Backs THEN "read" ELSE "launch"]]
    BY <1>1 DEF FlushRun, Session
  <2>. HIDE DEF set
  <2>. QED  BY <2>1
<1> DEFINE x == [ses[s] EXCEPT !.runSet = set, !.pc = IF s \in Backs THEN "read" ELSE "launch"]
<1>4. x.pc \in {"read", "launch"} /\ x.op = ses[s].op /\ x.set = ses[s].set /\ x.entries = ses[s].entries
  BY <1>1 DEF Session
<1>5. ses' = [ses EXCEPT ![s] = x] /\ UNCHANGED task
  BY <1>3 DEF FlushRun
<1>. HIDE DEF x
<1>6. Firm(s, x, task)
  BY <1>1, <1>2, <1>4, FirmElsewhere DEF Over
<1>. QED  BY <1>5, <1>6, FirmStep

LEMMA LaunchKeepsFirm ==
  ASSUME TypeInv, FirmInv, NEW s \in Sessions, Launch(s)
  PROVE  FirmInv'
<1> DEFINE b == Back(s[1])
<1>1. /\ ses[s].pc = "launch" /\ ses[s] \in Session /\ Firm(s, ses[s], task)
      /\ ses \in [Sessions -> Session] /\ Fits(s, ses[s], run)
  BY Mover DEF Launch, FirmInv
<1>2. s \in Fronts /\ b \in Sessions /\ s # b
  BY <1>1, Names DEF Fits
<1>3. PICK row, copy :
        ses' = [ses EXCEPT ![s] = [ses[s] EXCEPT !.runSet = row, !.pc = "commit"],
                           ![b] = [Blank EXCEPT !.op = "settle", !.pc = "agent", !.id = ses[s].id, !.runCopy = copy]]
  BY <1>1 DEF Launch, Session
<1> DEFINE x == [ses[s] EXCEPT !.runSet = row, !.pc = "commit"]
           y == [Blank EXCEPT !.op = "settle", !.pc = "agent", !.id = ses[s].id, !.runCopy = copy]
<1>4. \A o \in Sessions : ses'[o] = IF o = b THEN y ELSE IF o = s THEN x ELSE ses[o]
  BY <1>1, <1>2, <1>3
<1>5. x.pc = "commit" /\ x.op = ses[s].op /\ x.set = ses[s].set /\ x.entries = ses[s].entries
  BY <1>1 DEF Session
<1>6. y.pc = "agent" /\ y.op = "settle" /\ y.set = None /\ y.entries = <<>>
  BY DEF Blank
<1>. HIDE DEF x, y
<1>7. Firm(b, y, task)
  BY <1>6 DEF Firm, FirmMoves, Untouched, Over
<1>8. ses[s].op # "patch"
  BY <1>1 DEF Fits
<1>9. Firm(s, x, task)
  BY <1>1, <1>5, <1>8, FirmElsewhere DEF Over
<1>10. UNCHANGED task
  BY DEF Launch
<1>. QED  BY <1>4, <1>7, <1>9, <1>10 DEF FirmInv

LEMMA AgentReturnsKeepsFirm ==
  ASSUME TypeInv, FirmInv, NEW b \in Backs, AgentReturns(b)
  PROVE  FirmInv'
<1>1. b \in Sessions
  BY Names
<1>2. /\ ses[b].pc = "agent" /\ ses[b] \in Session /\ Firm(b, ses[b], task)
      /\ ses \in [Sessions -> Session] /\ Fits(b, ses[b], run) /\ ses[b].runCopy \in Copy
  BY <1>1, Mover DEF AgentReturns, FirmInv, Session
<1>3. PICK copy, todo : ses' = [ses EXCEPT ![b] = [ses[b] EXCEPT !.runCopy = copy, !.todo = todo, !.pc = "run_load"]]
  <2>1. PICK outcome \in Outcomes(b) :
          ses' = [ses EXCEPT ![b].runCopy.status = outcome[1], ![b].todo = outcome[2], ![b].pc = "run_load"]
    BY DEF AgentReturns
  <2>2. ses' = [ses EXCEPT ![b] = [ses[b] EXCEPT !.runCopy = [ses[b].runCopy EXCEPT !.status = outcome[1]],
                                                 !.todo = outcome[2], !.pc = "run_load"]]
    BY <1>2, <2>1 DEF Session
  <2>. QED  BY <2>2
<1> DEFINE x == [ses[b] EXCEPT !.runCopy = copy, !.todo = todo, !.pc = "run_load"]
<1>4. x.pc = "run_load" /\ x.op = ses[b].op /\ x.set = ses[b].set /\ x.entries = ses[b].entries
  BY <1>2 DEF Session
<1>5. ses' = [ses EXCEPT ![b] = x] /\ UNCHANGED task
  BY <1>3 DEF AgentReturns
<1>. HIDE DEF x
<1>6. Untouched(ses[b]) /\ ses[b].op # "patch"
  BY <1>2 DEF Firm, Fits
<1>7. Firm(b, x, task)
  BY <1>2, <1>4, <1>6, FirmElsewhere DEF Over
<1>. QED  BY <1>1, <1>5, <1>7, FirmStep

LEMMA CommitKeepsFirm ==
  ASSUME TypeInv, MirrorInv, FirmInv, NEW s \in Sessions, Commit(s)
  PROVE  FirmInv'
<1> DEFINE pc == IF s \in Backs THEN "finish" ELSE "done"
           x == Closed(s, pc)
<1>1. ses' = [ses EXCEPT ![s] = x]
  BY DEF Commit, Abort, Closed
<1>2. s \in Backs => ses[s].op # "patch"
  BY Mover DEF Commit, Fits, Over
<1>3. \A st : Firm(s, x, st)
  BY <1>2, ClosedIsFirm
<1>. HIDE DEF x
<1>4. ASSUME NEW o \in Sessions PROVE Firm(o, ses'[o], task')
  <2>1. CASE o = s
    BY <1>1, <1>3, <2>1, Apart
  <2>2. CASE o # s
    <3>1. ses'[o] = ses[o] /\ Firm(o, ses[o], task) /\ Rests(o, ses[o])
      BY <1>1, <2>2, Apart, OthersRest DEF FirmInv
    <3>2. CASE ses[o].pc \in Over \cup {"new"}
      BY <3>1, <3>2 DEF Firm
    <3>3. CASE ses[o].pc \notin Over \cup {"new"}
      <4>1. o \in Backs => ses[o].op # "patch"
        BY <3>3, Mover DEF Fits
      <4>. QED  BY <3>1, <4>1, RestIsFirm
    <3>. QED  BY <3>2, <3>3
  <2>. QED  BY <2>1, <2>2
<1>. QED  BY <1>4 DEF FirmInv

LEMMA CrashKeepsFirm ==
  ASSUME TypeInv, FirmInv, Crash
  PROVE  FirmInv'
<1> DEFINE dead == [Blank EXCEPT !.pc = "failed"]
<1>1. dead.pc = "failed" /\ dead.set = None /\ dead.entries = <<>>
  BY DEF Blank
<1>2. \A s \in Sessions : ses'[s] = dead \/ ses'[s] = ses[s]
  BY DEF Crash
<1>. HIDE DEF dead
<1>3. \A s : Firm(s, dead, task)
  BY <1>1 DEF Firm, Untouched, Over
<1>4. UNCHANGED task
  BY DEF Crash
<1>. QED  BY <1>2, <1>3, <1>4 DEF FirmInv

LEMMA FirmNext ==
  ASSUME TypeInv, MirrorInv, FirmInv, [Next]_vars
  PROVE  FirmInv'
<1>1. ASSUME NEW q \in Requests,
             \/ PostRuns(q) \/ PostRetry(q) \/ PostCancel(q) \/ PostAssign(q) \/ PatchTasks(q)
             \/ PostStatus(q) \/ PostApprove(q) \/ PostReject(q) \/ PostMerge(q)
      PROVE  FirmInv'
  <2>1. PICK op, id, todo : Begin(q, op, id, todo)
    BY <1>1 DEF PostRuns, StartRun, PostRetry, RetryRun, PostCancel, CancelRun, PostAssign, AssignAgent,
           PatchTasks, PatchTask, PostStatus, PostApprove, Approve, PostReject, Reject, PostMerge, Merge, MoveTask
  <2>. QED  BY <2>1, BeginKeepsFirm
<1>2. ASSUME NEW s \in Sessions, Signal(s) PROVE FirmInv'
  <2>1. PICK pc \in {"done", "failed"} : Abort(s, pc)
    BY <1>2 DEF Signal
  <2>. QED  BY <1>2, <2>1, ClosingKeepsFirm DEF Signal
<1>3. ASSUME NEW s \in Sessions, Statement(s) PROVE FirmInv'
  BY <1>2, <1>3, ReadRunKeepsFirm, ReadTaskKeepsFirm, LoadTaskKeepsFirm, FlushMoveKeepsFirm,
     FlushPatchKeepsFirm, LoadRunKeepsFirm, FlushRunKeepsFirm, LaunchKeepsFirm, CommitKeepsFirm DEF Statement
<1>4. ASSUME NEW b \in Backs, AgentReturns(b) \/ Finish(b) PROVE FirmInv'
  <2>1. b \in Sessions
    BY Names
  <2>. QED  BY <1>4, <2>1, AgentReturnsKeepsFirm, ClosingKeepsFirm DEF Finish
<1>5. ASSUME NEW s \in Fronts, RequestFails(s) PROVE FirmInv'
  BY <1>5, Names, ClosingKeepsFirm DEF RequestFails
<1>6. CASE Crash
  BY <1>6, CrashKeepsFirm
<1>7. CASE UNCHANGED vars
  BY <1>7 DEF vars, FirmInv
<1>. QED  BY <1>1, <1>3, <1>4, <1>5, <1>6, <1>7 DEF Next

\* What a step does to the committed status, and to a session that ends with a commit.
MovesByCommit ==
  \/ /\ UNCHANGED task
     /\ \A s \in Sessions : ses[s].pc = "commit" => ses'[s].pc \notin {"done", "finish"}
  \/ \E s \in Sessions :
       /\ Commit(s)
       /\ \A o \in Sessions \ {s} : ses'[o] = ses[o]

LEMMA OnlyCommits ==
  ASSUME TypeInv, [Next]_vars
  PROVE  MovesByCommit
<1>1. ASSUME NEW s \in Sessions, ses[s].pc # "commit", UNCHANGED task,
             \A o \in Sessions \ {s} : ses'[o] = ses[o]
      PROVE  MovesByCommit
  BY <1>1 DEF MovesByCommit
<1>2. ses \in [Sessions -> Session]
  BY DEF TypeInv, SessionsFit
<1>3. ASSUME NEW s \in Sessions, Commit(s) PROVE MovesByCommit
  <2>1. \A o \in Sessions \ {s} : ses'[o] = ses[o]
    BY <1>2, <1>3 DEF Commit, Abort
  <2>. QED  BY <1>3, <2>1 DEF MovesByCommit
<1>4. ASSUME NEW q \in Requests, Arrives(q), NEW op, NEW id, NEW todo, Begin(q, op, id, todo) PROVE MovesByCommit
  <2>1. \A o \in Sessions \ {Front(q)} : ses'[o] = ses[o]
    BY <1>2, <1>4 DEF Begin
  <2>. QED  BY <1>1, <1>4, <2>1, Different DEF Arrives, Begin
<1>5. ASSUME NEW s \in Sessions, ReadRun(s) \/ Signal(s) \/ ReadTask(s) \/ LoadTask(s) PROVE MovesByCommit
  <2>1. \A o \in Sessions \ {s} : ses'[o] = ses[o]
    BY <1>2, <1>5 DEF ReadRun, Signal, ReadTask, LoadTask, Abort
  <2>. QED  BY <1>1, <1>5, <2>1 DEF ReadRun, Signal, ReadTask, LoadTask
<1>6. ASSUME NEW s \in Sessions, FlushMove(s) \/ FlushPatch(s) PROVE MovesByCommit
  <2>1. \A o \in Sessions \ {s} : ses'[o] = ses[o]
    BY <1>2, <1>6 DEF FlushMove, FlushPatch
  <2>. QED  BY <1>1, <1>6, <2>1 DEF FlushMove, FlushPatch
<1>7. ASSUME NEW s \in Sessions, LoadRun(s) \/ FlushRun(s) PROVE MovesByCommit
  <2>1. \A o \in Sessions \ {s} : ses'[o] = ses[o]
    BY <1>2, <1>7 DEF LoadRun, FlushRun, Abort
  <2>. QED  BY <1>1, <1>7, <2>1 DEF LoadRun, FlushRun
<1>8. ASSUME NEW s \in Sessions, Launch(s) PROVE MovesByCommit
  <2>1. \A o \in Sessions \ {s, Back(s[1])} : ses'[o] = ses[o]
    BY <1>2, <1>8 DEF Launch
  <2>2. s \in Fronts /\ Back(s[1]) \in Sessions
    BY <1>8, Mover, Names DEF Launch, Fits
  <2>3. ses[s].pc = "launch" /\ ses'[Back(s[1])].pc = "agent"
    BY <1>2, <1>8, <2>2 DEF Launch, Blank
  <2>. QED  BY <1>8, <2>1, <2>3 DEF Launch, MovesByCommit
<1>9. ASSUME NEW b \in Backs, AgentReturns(b) \/ Finish(b) PROVE MovesByCommit
  <2>1. b \in Sessions
    BY Names
  <2>2. \A o \in Sessions \ {b} : ses'[o] = ses[o]
    BY <1>2, <1>9, <2>1 DEF AgentReturns, Finish, Abort
  <2>. QED  BY <1>1, <1>9, <2>1, <2>2 DEF AgentReturns, Finish
<1>10. ASSUME NEW s \in Fronts, RequestFails(s) PROVE MovesByCommit
  <2>1. s \in Sessions
    BY Names
  <2>2. (\A o \in Sessions \ {s} : ses'[o] = ses[o]) /\ ses'[s].pc = "failed"
    BY <1>2, <1>10, <2>1 DEF RequestFails, Abort, Blank
  <2>. QED  BY <1>10, <2>2 DEF RequestFails, MovesByCommit
<1>11. CASE Crash
  <2>1. \A s \in Sessions : ses[s].pc = "commit" => ses'[s].pc = "failed"
    BY <1>11 DEF Crash, Open, Over, Blank
  <2>. QED  BY <1>11, <2>1 DEF Crash, MovesByCommit
<1>12. CASE UNCHANGED vars
  <2>1. ses' = ses /\ task' = task
    BY <1>12 DEF vars
  <2>. QED  BY <2>1 DEF MovesByCommit
<1>13. ASSUME NEW q \in Requests,
              \/ PostRuns(q) \/ PostRetry(q) \/ PostCancel(q) \/ PostAssign(q) \/ PatchTasks(q)
              \/ PostStatus(q) \/ PostApprove(q) \/ PostReject(q) \/ PostMerge(q)
       PROVE  MovesByCommit
  <2>1. Arrives(q) /\ \E op, id, todo : Begin(q, op, id, todo)
    BY <1>13 DEF PostRuns, StartRun, PostRetry, RetryRun, PostCancel, CancelRun, PostAssign, AssignAgent,
           PatchTasks, PatchTask, PostStatus, PostApprove, Approve, PostReject, Reject, PostMerge, Merge, MoveTask
  <2>. QED  BY <1>4, <2>1
<1>14. ASSUME NEW s \in Sessions, Statement(s) PROVE MovesByCommit
  BY <1>3, <1>5, <1>6, <1>7, <1>8, <1>14 DEF Statement
<1>15. CASE Next
  BY <1>9, <1>10, <1>11, <1>13, <1>14, <1>15 DEF Next
<1>. QED  BY <1>12, <1>15

\* The environment in which the three theorems below hold.
Sound == TypeInv /\ (~ orphan => MirrorInv /\ FirmInv)

LEMMA OrphansStay == [Next]_vars => (orphan => orphan')
  BY DEF Next, PostRuns, StartRun, PostRetry, RetryRun, PostCancel, CancelRun, PostAssign, AssignAgent,
         PatchTasks, PatchTask, PostStatus, PostApprove, Approve, PostReject, Reject, PostMerge, Merge,
         MoveTask, Begin, Statement, ReadRun, Signal, ReadTask, LoadTask, FlushMove, FlushPatch, LoadRun,
         FlushRun, Launch, Commit, AgentReturns, Finish, RequestFails, Crash, vars

LEMMA SoundKept ==
  ASSUME HandsOff, ~ Overlap, Timely
  PROVE  Spec => []Sound
<1>1. Init => Sound
  BY TypeInvInit, MirrorInit, FirmInit DEF Sound
<1>2. Sound /\ [Next]_vars => Sound'
  BY TypeInvNext, MirrorNext, FirmNext, OrphansStay DEF Sound
<1>. QED  BY <1>1, <1>2, PTL DEF Spec

\* Terminal statuses stay (TerminalStays): in that environment a committed
\* merged or cancelled is final, for any number of requests and launches.
THEOREM TerminalIsFinal == HandsOff /\ ~ Overlap /\ Timely => (Spec => TerminalStays)
<1> SUFFICES ASSUME HandsOff, ~ Overlap, Timely PROVE Spec => TerminalStays
  OBVIOUS
<1>1. Sound /\ [Next]_vars => [~ orphan /\ task \in TerminalStatus => UNCHANGED task]_vars
  <2> SUFFICES ASSUME Sound, [Next]_vars, ~ orphan, task \in TerminalStatus PROVE UNCHANGED task
    OBVIOUS
  <2>1. TypeInv /\ MirrorInv /\ FirmInv
    BY DEF Sound
  <2>2. ASSUME NEW s \in Sessions, Commit(s) PROVE UNCHANGED task
    <3>1. ses[s].pc = "commit" /\ Firm(s, ses[s], task) /\ task' = TaskSeen(s)
      BY <2>1, <2>2 DEF Commit, FirmInv
    <3>2. CASE ses[s].op = "patch"
      BY <3>1, <3>2 DEF Firm, FirmPatch, TaskSeen, Over
    <3>3. CASE ses[s].op # "patch"
      <4>1. ses[s].set = None
        BY <3>1, <3>3 DEF Firm, FirmMoves, Over
      <4>. QED  BY <3>1, <4>1 DEF TaskSeen
    <3>. QED  BY <3>2, <3>3
  <2>. QED  BY <2>1, <2>2, OnlyCommits DEF MovesByCommit
<1>. QED  BY <1>1, SoundKept, PTL DEF Spec, TerminalStays

\* History tells the truth (HistoryTellsTheTruth): in that environment the
\* entries a session commits lead, without a gap, from the status the task
\* had at that moment to the one it has from then on.
THEOREM HistoryIsTrue == HandsOff /\ ~ Overlap /\ Timely => (Spec => HistoryTellsTheTruth)
<1> SUFFICES ASSUME HandsOff, ~ Overlap, Timely PROVE Spec => HistoryTellsTheTruth
  OBVIOUS
<1> DEFINE A == ~ orphan => \A s \in Sessions :
       ses[s].pc = "commit" /\ ses'[s].pc \in {"done", "finish"} /\ ses[s].entries # <<>> =>
         LET entries == ses[s].entries IN
         /\ entries[1][1] = task
         /\ entries[Len(entries)][2] = task'
         /\ \A i \in 2..Len(entries) : entries[i][1] = entries[i - 1][2]
<1>1. Sound /\ [Next]_vars => [A]_vars
  <2> SUFFICES ASSUME Sound, [Next]_vars, ~ orphan, NEW s \in Sessions,
                      ses[s].pc = "commit", ses'[s].pc \in {"done", "finish"}, ses[s].entries # <<>>
               PROVE  Tells(ses[s].entries, task, task')
    BY DEF Tells
  <2>1. TypeInv /\ MirrorInv /\ FirmInv
    BY DEF Sound
  <2>2. PICK o \in Sessions : Commit(o) /\ \A r \in Sessions \ {o} : ses'[r] = ses[r]
    BY <2>1, OnlyCommits DEF MovesByCommit
  <2>3. Commit(s)
    BY <2>2
  <2>4. ses[s].op # "patch" /\ FirmMoves(ses[s], task)
    BY <2>1 DEF FirmInv, Firm, FirmPatch, Over
  <2>5. Tells(ses[s].entries, task, ses[s].set) /\ ses[s].set # None
    BY <2>4 DEF FirmMoves
  <2>. QED  BY <2>3, <2>5 DEF Commit, TaskSeen
<1>. QED  BY <1>1, SoundKept, PTL DEF Spec, HistoryTellsTheTruth

------------------------------------------------------------------------------
(***************************************************************************)
(* The registry                                                            *)
(*                                                                         *)
(* As long as nothing fails, every run that shows as running has a live    *)
(* background task, and that one is tracked under the run's id: no done    *)
(* callback that is still to come would take it out.                       *)
(***************************************************************************)

\* The number of the attempt that a retry has in mind.
RetryCounts(x, rows) ==
  x.op = "retry" =>
    /\ x.pc = "run_flush" => x.runSeen.attempt = rows[x.id].attempt
    /\ x.pc = "launch" => x.runSet.attempt = x.runCopy.attempt + 1

\* The moves that a background task has still to make are legal ones.
OutcomeLeft(x) ==
  /\ x.pc = "agent" => x.set = None
  /\ x.pc \in {"run_load", "run_flush", "read", "load", "flush"} =>
       \/ x.set = None /\ x.todo \in {<<"evaluating", "awaiting_approval">>, <<"evaluating", "failed">>,
                                      <<"failed">>, <<"cancelled">>}
       \/ x.set = "evaluating" /\ x.todo \in {<<"awaiting_approval">>, <<"failed">>}

Counted == \A q \in Requests : RetryCounts(ses[Front(q)], run)
Tracked ==
  \A p \in Requests : LET x == ses[Back(p)]
                          f == ses[Front(p)]
                      IN Live(x) =>
    /\ active[x.id] = Back(p)
    /\ x.runCopy.attempt = IF Launched(f) THEN f.runSet.attempt ELSE run[x.id].attempt
    /\ OutcomeLeft(x)
    /\ \A o \in Requests : ses[Back(o)].pc = "finish" => ses[Back(o)].id # x.id
LaunchedLive ==
  \A q \in Requests : Launched(ses[Front(q)]) => Live(ses[Back(q)]) /\ ses[Back(q)].id = ses[Front(q)].id
Attended ==
  \A q \in Requests : run[q].status = "running" =>
    \E p \in Requests : Live(ses[Back(p)]) /\ ses[Back(p)].id = q
TrackInv == ~ orphan /\ Counted /\ Tracked /\ LaunchedLive /\ Attended

LEMMA TrackInit == Init => TrackInv
<1> SUFFICES ASSUME Init PROVE TrackInv
  OBVIOUS
<1>1. \A q \in Requests : ses[Front(q)] = Blank /\ ses[Back(q)] = Blank
  BY Names DEF Init
<1>2. Blank.pc = "new"
  BY DEF Blank
<1>3. Counted /\ Tracked /\ LaunchedLive
  BY <1>1, <1>2 DEF Counted, RetryCounts, Tracked, LaunchedLive, Launched, Live
<1>4. Attended /\ ~ orphan
  BY DEF Init, Attended, NoRow, None
<1>. QED  BY <1>3, <1>4 DEF TrackInv

\* A request goes on, and neither has launched nor launches.
LEMMA TrackedFront ==
  ASSUME TypeInv, TrackInv, NEW q \in Requests, NEW x,
         \A o \in Sessions : ses'[o] = IF o = Front(q) THEN x ELSE ses[o],
         UNCHANGED <<run, active, orphan>>,
         ~ Launched(ses[Front(q)]), ~ Launched(x), RetryCounts(x, run)
  PROVE  TrackInv'
<1>1. \A p \in Requests : ses'[Front(p)] = (IF p = q THEN x ELSE ses[Front(p)]) /\ ses'[Back(p)] = ses[Back(p)]
  BY Different
<1>2. Counted'
  BY <1>1 DEF TrackInv, Counted
<1>3. Tracked'
  <2> SUFFICES ASSUME NEW p \in Requests, Live(ses'[Back(p)])
               PROVE  /\ active[ses[Back(p)].id] = Back(p)
                      /\ ses[Back(p)].runCopy.attempt =
                           IF Launched(ses'[Front(p)]) THEN ses'[Front(p)].runSet.attempt
                           ELSE run[ses[Back(p)].id].attempt
                      /\ OutcomeLeft(ses[Back(p)])
                      /\ \A o \in Requests : ses[Back(o)].pc = "finish" => ses[Back(o)].id # ses[Back(p)].id
    BY <1>1 DEF Tracked
  <2>. QED  BY <1>1 DEF TrackInv, Tracked
<1>4. LaunchedLive' /\ Attended'
  BY <1>1 DEF TrackInv, LaunchedLive, Attended
<1>. QED  BY <1>2, <1>3, <1>4 DEF TrackInv

\* A background task goes on, with its rows not committed.
LEMMA TrackedBack ==
  ASSUME TypeInv, TrackInv, NEW q \in Requests, NEW x,
         \A o \in Sessions : ses'[o] = IF o = Back(q) THEN x ELSE ses[o],
         UNCHANGED <<run, active, orphan>>,
         Live(ses[Back(q)]), Live(x), x.id = ses[Back(q)].id,
         x.runCopy.attempt = ses[Back(q)].runCopy.attempt, OutcomeLeft(x)
  PROVE  TrackInv'
<1>1. \A p \in Requests : ses'[Back(p)] = (IF p = q THEN x ELSE ses[Back(p)]) /\ ses'[Front(p)] = ses[Front(p)]
  BY Different
<1>2. \A p \in Requests : /\ Live(ses'[Back(p)]) <=> Live(ses[Back(p)])
                          /\ ses'[Back(p)].id = ses[Back(p)].id
                          /\ ses'[Back(p)].runCopy.attempt = ses[Back(p)].runCopy.attempt
  BY <1>1
<1>3. \A p \in Requests : ses'[Back(p)].pc = "finish" => ses[Back(p)].pc = "finish"
  BY <1>1 DEF Live
<1>4. Counted' /\ LaunchedLive' /\ Attended'
  BY <1>1, <1>2 DEF TrackInv, Counted, LaunchedLive, Attended
<1>5. Tracked'
  <2> SUFFICES ASSUME NEW p \in Requests, Live(ses'[Back(p)])
               PROVE  /\ active[ses[Back(p)].id] = Back(p)
                      /\ ses[Back(p)].runCopy.attempt =
                           IF Launched(ses[Front(p)]) THEN ses[Front(p)].runSet.attempt
                           ELSE run[ses[Back(p)].id].attempt
                      /\ OutcomeLeft(ses'[Back(p)])
                      /\ \A o \in Requests : ses'[Back(o)].pc = "finish" => ses[Back(o)].id # ses[Back(p)].id
    BY <1>1, <1>2 DEF Tracked
  <2>1. Live(ses[Back(p)])
    BY <1>2
  <2>. QED  BY <1>1, <1>3, <2>1 DEF TrackInv, Tracked
<1>. QED  BY <1>4, <1>5 DEF TrackInv

LEMMA BeginKeepsTrack ==
  ASSUME TypeInv, TrackInv, NEW q \in Requests, NEW op, NEW id, NEW todo, Arrives(q), Begin(q, op, id, todo)
  PROVE  TrackInv'
<1> DEFINE place == IF op \in {"retry", "cancel"} THEN "run_read" ELSE "read"
           x == [Blank EXCEPT !.op = op, !.id = id, !.todo = todo, !.pc = place]
<1>1. ses' = [ses EXCEPT ![Front(q)] = x] /\ UNCHANGED <<run, active, orphan>>
  BY DEF Begin
<1>2. x.pc \in {"run_read", "read"}
  BY DEF Blank
<1>. HIDE DEF x
<1>3. \A o \in Sessions : ses'[o] = IF o = Front(q) THEN x ELSE ses[o]
  BY <1>1, Apart, Different
<1>4. ~ Launched(x) /\ RetryCounts(x, run) /\ ~ Launched(ses[Front(q)])
  BY <1>2 DEF Launched, RetryCounts, Arrives
<1>. QED  BY <1>1, <1>3, <1>4, TrackedFront

\* A request that is refused, or through, without having launched.
LEMMA ClosingKeepsTrack ==
  ASSUME TypeInv, TrackInv, NEW q \in Requests, NEW pc \in {"done", "failed"}, Abort(Front(q), pc),
         UNCHANGED <<run, active, orphan>>, ~ Launched(ses[Front(q)])
  PROVE  TrackInv'
<1> DEFINE x == Closed(Front(q), pc)
<1>1. ses' = [ses EXCEPT ![Front(q)] = x]
  BY DEF Abort, Closed
<1>2. x.pc = pc
  BY DEF Closed, Blank
<1>. HIDE DEF x
<1>3. \A o \in Sessions : ses'[o] = IF o = Front(q) THEN x ELSE ses[o]
  BY <1>1, Apart, Different
<1>4. ~ Launched(x) /\ RetryCounts(x, run)
  BY <1>2 DEF Launched, RetryCounts
<1>. QED  BY <1>3, <1>4, TrackedFront

LEMMA ReadRunKeepsTrack ==
  ASSUME TypeInv, TrackInv, NEW q \in Requests, ReadRun(Front(q)) \/ Signal(Front(q))
  PROVE  TrackInv'
<1> DEFINE s == Front(q)
<1>1. ses[s].pc \in {"run_read", "signal"} /\ ses[s] \in Session /\ s \in Sessions /\ ses \in [Sessions -> Session]
  BY Mover, Different DEF ReadRun, Signal
<1>2. ~ Launched(ses[s]) /\ UNCHANGED <<run, active, orphan>>
  BY <1>1 DEF Launched, ReadRun, Signal
<1>3. CASE \E pc \in {"done", "failed"} : Abort(s, pc)
  BY <1>2, <1>3, ClosingKeepsTrack
<1>4. CASE ses' = [ses EXCEPT ![s].runCopy = RunSeen(s), ![s].pc = "read"]
  <2> DEFINE x == [ses[s] EXCEPT !.runCopy = RunSeen(s), !.pc = "read"]
  <2>1. ses' = [ses EXCEPT ![s] = x] /\ x.pc = "read"
    BY <1>1, <1>4 DEF Session
  <2>. HIDE DEF x
  <2>2. \A o \in Sessions : ses'[o] = IF o = s THEN x ELSE ses[o]
    BY <1>1, <2>1, Apart
  <2>. QED  BY <1>2, <2>1, <2>2, TrackedFront DEF Launched, RetryCounts
<1>5. CASE ses' = [ses EXCEPT ![s].pc = "signal"]
  <2> DEFINE x == [ses[s] EXCEPT !.pc = "signal"]
  <2>1. ses' = [ses EXCEPT ![s] = x] /\ x.pc = "signal"
    BY <1>1, <1>5 DEF Session
  <2>. HIDE DEF x
  <2>2. \A o \in Sessions : ses'[o] = IF o = s THEN x ELSE ses[o]
    BY <1>1, <2>1, Apart
  <2>. QED  BY <1>2, <2>1, <2>2, TrackedFront DEF Launched, RetryCounts
<1>. QED  BY <1>3, <1>4, <1>5 DEF ReadRun, Signal

\* What a background task finds when it comes to write: the task and its run
\* are running, and its moves are legal.
LEMMA LegalSettling ==
  /\ IsLegalTaskTransition("running", "evaluating") /\ IsLegalTaskTransition("running", "failed")
  /\ IsLegalTaskTransition("running", "cancelled")
  /\ IsLegalTaskTransition("evaluating", "awaiting_approval") /\ IsLegalTaskTransition("evaluating", "failed")
  BY DEF IsLegalTaskTransition, TaskTransitions

LEMMA SettlingSteps ==
  /\ Head(<<"evaluating", "awaiting_approval">>) = "evaluating" /\ Head(<<"evaluating", "failed">>) = "evaluating"
  /\ Tail(<<"evaluating", "awaiting_approval">>) = <<"awaiting_approval">>
  /\ Tail(<<"evaluating", "failed">>) = <<"failed">>
  /\ \A st : Head(<<st>>) = st /\ Tail(<<st>>) = <<>>
  OBVIOUS

LEMMA ReadTaskKeepsTrack ==
  ASSUME TypeInv, MirrorInv, TrackInv, NEW q \in Requests, NEW s \in {Front(q), Back(q)}, ReadTask(s)
  PROVE  TrackInv'
<1> DEFINE x == [ses[s] EXCEPT !.copy = TaskSeen(s), !.pc = "load"]
<1>1. /\ ses[s].pc = "read" /\ ses[s] \in Session /\ s \in Sessions /\ ses \in [Sessions -> Session]
      /\ UNCHANGED <<run, active, orphan>>
  BY Mover, Different DEF ReadTask
<1>2. /\ x.pc = "load" /\ x.id = ses[s].id /\ x.runCopy = ses[s].runCopy
      /\ x.set = ses[s].set /\ x.todo = ses[s].todo
  BY <1>1 DEF Session
<1>3. ASSUME ses' = [ses EXCEPT ![s].copy = TaskSeen(s), ![s].pc = "load"]
      PROVE  \A o \in Sessions : ses'[o] = IF o = s THEN x ELSE ses[o]
  <2>1. ses' = [ses EXCEPT ![s] = x]
    BY <1>1, <1>3 DEF Session
  <2>. QED  BY <1>1, <2>1, Apart
<1>. HIDE DEF x
<1>4. CASE s = Front(q)
  <2>1. ~ Launched(ses[s]) /\ ~ Launched(x) /\ RetryCounts(x, run) /\ s \notin Backs
    BY <1>1, <1>2, <1>4, Names DEF Launched, RetryCounts
  <2>. QED  BY <1>1, <1>3, <1>4, <2>1, TrackedFront, ClosingKeepsTrack DEF ReadTask
<1>5. CASE s = Back(q)
  <2>1. Live(ses[s]) /\ Works(ses[s]) /\ ses[s].op = "settle"
    BY <1>1, <1>5, MirrorMover DEF Live, Fits, Over
  <2>2. OutcomeLeft(ses[s])
    BY <1>5, <2>1 DEF TrackInv, Tracked
  <2>3. IsLegalTaskTransition(TaskSeen(s), Head(ses[s].todo))
    <3>1. CASE ses[s].set = None
      <4>1. TaskSeen(s) = "running"
        BY <2>1, <3>1 DEF TaskSeen, Works
      <4>2. Head(ses[s].todo) \in {"evaluating", "failed", "cancelled"}
        BY <1>1, <2>2, <3>1, SettlingSteps DEF OutcomeLeft, None
      <4>. QED  BY <4>1, <4>2, LegalSettling
    <3>2. CASE ses[s].set # None
      <4>1. TaskSeen(s) = "evaluating" /\ Head(ses[s].todo) \in {"awaiting_approval", "failed"}
        BY <1>1, <2>2, <3>2, SettlingSteps DEF OutcomeLeft, TaskSeen
      <4>. QED  BY <4>1, LegalSettling
    <3>. QED  BY <3>1, <3>2
  <2>4. OutcomeLeft(x) /\ Live(x)
    BY <1>1, <1>2, <2>2 DEF OutcomeLeft, Live
  <2>5. ses' = [ses EXCEPT ![s].copy = TaskSeen(s), ![s].pc = "load"]
    BY <2>1, <2>3 DEF ReadTask
  <2>. QED  BY <1>1, <1>2, <1>3, <1>5, <2>1, <2>4, <2>5, TrackedBack
<1>. QED  BY <1>4, <1>5

LEMMA LoadTaskKeepsTrack ==
  ASSUME TypeInv, TrackInv, NEW q \in Requests, NEW s \in {Front(q), Back(q)}, LoadTask(s)
  PROVE  TrackInv'
<1> DEFINE x == [ses[s] EXCEPT !.seen = TaskSeen(s), !.pc = "flush"]
<1>1. /\ ses[s].pc = "load" /\ ses[s] \in Session /\ s \in Sessions /\ ses \in [Sessions -> Session]
      /\ UNCHANGED <<run, active, orphan>>
  BY Mover, Different DEF LoadTask
<1>2. ses' = [ses EXCEPT ![s] = x]
  BY <1>1 DEF Session, LoadTask
<1>3. /\ x.pc = "flush" /\ x.id = ses[s].id /\ x.runCopy = ses[s].runCopy
      /\ x.set = ses[s].set /\ x.todo = ses[s].todo
  BY <1>1 DEF Session
<1>. HIDE DEF x
<1>4. \A o \in Sessions : ses'[o] = IF o = s THEN x ELSE ses[o]
  BY <1>1, <1>2, Apart
<1>5. CASE s = Front(q)
  BY <1>1, <1>3, <1>4, <1>5, TrackedFront DEF Launched, RetryCounts
<1>6. CASE s = Back(q)
  <2>1. Live(ses[s]) /\ Live(x)
    BY <1>1, <1>3 DEF Live
  <2>2. OutcomeLeft(x)
    BY <1>1, <1>3, <1>6, <2>1 DEF TrackInv, Tracked, OutcomeLeft
  <2>. QED  BY <1>1, <1>3, <1>4, <1>6, <2>1, <2>2, TrackedBack
<1>. QED  BY <1>5, <1>6

LEMMA FlushMoveKeepsTrack ==
  ASSUME TypeInv, MirrorInv, TrackInv, NEW q \in Requests, NEW s \in {Front(q), Back(q)},
         FlushMove(s) \/ FlushPatch(s)
  PROVE  TrackInv'
<1>1. /\ ses[s].pc = "flush" /\ ses[s] \in Session /\ s \in Sessions /\ ses \in [Sessions -> Session]
      /\ UNCHANGED <<run, active, orphan>> /\ Fits(s, ses[s], run)
  BY Mover, Different DEF FlushMove, FlushPatch
<1>2. CASE FlushPatch(s)
  <2> DEFINE set == IF ses[s].copy # ses[s].seen THEN ses[s].copy ELSE task
             x == [ses[s] EXCEPT !.set = set, !.pc = "commit"]
  <2>1. ses' = [ses EXCEPT ![s] = x] /\ x.op = "patch"
    BY <1>1, <1>2 DEF Session, FlushPatch
  <2>. HIDE DEF x
  <2>2. \A o \in Sessions : ses'[o] = IF o = s THEN x ELSE ses[o]
    BY <1>1, <2>1, Apart
  <2>3. s = Front(q)
    BY <1>1, <1>2, Names DEF FlushPatch, Fits, Over
  <2>. QED  BY <1>1, <2>1, <2>2, <2>3, TrackedFront DEF Launched, RetryCounts
<1>3. CASE FlushMove(s)
  <2> DEFINE to == Head(ses[s].todo)
             left == Tail(ses[s].todo)
             set == IF to # ses[s].seen THEN to ELSE ses[s].set
             entries == Append(ses[s].entries, <<ses[s].copy, to>>)
             pc == IF left = <<>> THEN AfterMoves(ses[s].op) ELSE "read"
             x == [ses[s] EXCEPT !.set = set, !.entries = entries, !.todo = left, !.pc = pc]
  <2>1. ses' = [ses EXCEPT ![s] = x]
    BY <1>1, <1>3 DEF Session, FlushMove
  <2>2. /\ x.pc = pc /\ x.op = ses[s].op /\ x.todo = left /\ x.set = set
        /\ x.runCopy = ses[s].runCopy /\ x.id = ses[s].id
    BY <1>1 DEF Session
  <2>. HIDE DEF x, to, left
  <2>3. \A o \in Sessions : ses'[o] = IF o = s THEN x ELSE ses[o]
    BY <1>1, <2>1, Apart
  <2>4. CASE s = Front(q)
    <3>1. ~ Launched(ses[s]) /\ ~ Launched(x) /\ RetryCounts(x, run)
      BY <1>1, <2>2 DEF Launched, RetryCounts, AfterMoves
    <3>. QED  BY <1>1, <2>3, <2>4, <3>1, TrackedFront
  <2>5. CASE s = Back(q)
    <3>1. Live(ses[s]) /\ BackFacts(ses[s]) /\ ses[s].op = "settle"
      BY <1>1, <2>5, MirrorMover DEF Live, Fits, Over
    <3>2. OutcomeLeft(ses[s])
      BY <2>5, <3>1 DEF TrackInv, Tracked
    <3>3. pc \in {"read", "commit"} /\ (pc = "commit" <=> left = <<>>)
      BY <3>1 DEF AfterMoves
    <3>4. left # <<>> => set = "evaluating" /\ left \in {<<"awaiting_approval">>, <<"failed">>}
      <4>1. CASE ses[s].set = None
        <5>1. ses[s].seen = "running"
          BY <1>1, <3>1, <4>1 DEF BackFacts
        <5>2. ses[s].todo \in {<<"evaluating", "awaiting_approval">>, <<"evaluating", "failed">>}
              \/ left = <<>>
          BY <1>1, <3>2, <4>1, SettlingSteps DEF OutcomeLeft, None, left
        <5>3. CASE ses[s].todo \in {<<"evaluating", "awaiting_approval">>, <<"evaluating", "failed">>}
          <6>1. to = "evaluating" /\ left \in {<<"awaiting_approval">>, <<"failed">>}
            BY <5>3, SettlingSteps DEF to, left
          <6>. QED  BY <5>1, <6>1
        <5>. QED  BY <5>2, <5>3
      <4>2. CASE ses[s].set # None
        BY <1>1, <3>2, <4>2, SettlingSteps DEF OutcomeLeft, left
      <4>. QED  BY <4>1, <4>2
    <3>5. OutcomeLeft(x) /\ Live(x)
      BY <2>2, <3>3, <3>4 DEF OutcomeLeft, Live
    <3>. QED  BY <1>1, <2>2, <2>3, <2>5, <3>1, <3>5, TrackedBack
  <2>. QED  BY <2>4, <2>5
<1>. QED  BY <1>2, <1>3

LEMMA LoadRunKeepsTrack ==
  ASSUME TypeInv, MirrorInv, TrackInv, Timely, NEW q \in Requests, NEW s \in {Front(q), Back(q)}, LoadRun(s)
  PROVE  TrackInv'
<1> DEFINE x == [ses[s] EXCEPT !.runSeen = RunSeen(s), !.pc = "run_flush"]
<1>1. /\ ses[s].pc = "run_load" /\ ses[s] \in Session /\ s \in Sessions /\ ses \in [Sessions -> Session]
      /\ UNCHANGED <<run, active, orphan>> /\ Fits(s, ses[s], run)
  BY Mover, Different DEF LoadRun
<1>2. RunSeen(s) = run[ses[s].id]
  BY <1>1 DEF Fits, RunSeen
<1>3. RunSeen(s) # NoRow
  <2>1. CASE s = Front(q)
    BY <1>1, <1>2, <2>1, Names DEF Fits
  <2>2. CASE s = Back(q)
    <3>1. ses[Front(q)].pc \in Over
      BY <2>2, Names DEF LoadRun
    <3>2. Works(ses[s])
      BY <1>1, <2>2, <3>1 DEF MirrorInv, BacksHold, Launched, Over, Live
    <3>. QED  BY <1>2, <3>2 DEF Works, NoRow, None
  <2>. QED  BY <2>1, <2>2
<1>4. ses' = [ses EXCEPT ![s] = x]
  BY <1>1, <1>3 DEF Session, LoadRun
<1>5. /\ x.pc = "run_flush" /\ x.id = ses[s].id /\ x.runCopy = ses[s].runCopy
      /\ x.set = ses[s].set /\ x.todo = ses[s].todo /\ x.runSeen = run[ses[s].id]
  BY <1>1, <1>2 DEF Session
<1>. HIDE DEF x
<1>6. \A o \in Sessions : ses'[o] = IF o = s THEN x ELSE ses[o]
  BY <1>1, <1>4, Apart
<1>7. CASE s = Front(q)
  BY <1>1, <1>5, <1>6, <1>7, TrackedFront DEF Launched, RetryCounts
<1>8. CASE s = Back(q)
  <2>1. Live(ses[s]) /\ Live(x)
    BY <1>1, <1>5 DEF Live
  <2>2. OutcomeLeft(x)
    BY <1>1, <1>5, <1>8, <2>1 DEF TrackInv, Tracked, OutcomeLeft
  <2>. QED  BY <1>1, <1>5, <1>6, <1>8, <2>1, <2>2, TrackedBack
<1>. QED  BY <1>7, <1>8

LEMMA FlushRunKeepsTrack ==
  ASSUME TypeInv, TrackInv, NEW q \in Requests, NEW s \in {Front(q), Back(q)}, FlushRun(s)
  PROVE  TrackInv'
<1> DEFINE new == IF s \in Backs THEN ses[s].runCopy
                  ELSE [status |-> "running", attempt |-> ses[s].runCopy.attempt + 1]
           seen == ses[s].runSeen
           row == run[ses[s].id]
           set == [status  |-> IF new.status # seen.status THEN new.status ELSE row.status,
                   attempt |-> IF new.attempt # seen.attempt THEN new.attempt ELSE row.attempt]
           pc == IF s \in Backs THEN "read" ELSE "launch"
           x == [ses[s] EXCEPT !.runSet = set, !.pc = pc]
<1>1. /\ ses[s].pc = "run_flush" /\ ses[s] \in Session /\ s \in Sessions /\ ses \in [Sessions -> Session]
      /\ UNCHANGED <<run, active, orphan>>
  BY Mover, Different DEF FlushRun
<1>2. ses' = [ses EXCEPT ![s] = x]
  BY <1>1 DEF Session, FlushRun
<1>3. /\ x.pc = pc /\ x.id = ses[s].id /\ x.runCopy = ses[s].runCopy /\ x.op = ses[s].op
      /\ x.set = ses[s].set /\ x.todo = ses[s].todo /\ x.runSet.attempt = set.attempt
  BY <1>1 DEF Session
<1>. HIDE DEF x
<1>4. \A o \in Sessions : ses'[o] = IF o = s THEN x ELSE ses[o]
  BY <1>1, <1>2, Apart
<1>5. CASE s = Front(q)
  <2>1. s \notin Backs
    BY <1>5, Names
  <2>2. pc = "launch" /\ new.attempt = ses[s].runCopy.attempt + 1
    BY <2>1
  <2>3. ses[s].op = "retry" => seen.attempt = row.attempt
    BY <1>1, <1>5 DEF TrackInv, Counted, RetryCounts
  <2>4. ses[s].op = "retry" => set.attempt = ses[s].runCopy.attempt + 1
    BY <2>2, <2>3
  <2>5. RetryCounts(x, run) /\ ~ Launched(x) /\ ~ Launched(ses[s])
    BY <1>1, <1>3, <2>2, <2>4 DEF RetryCounts, Launched
  <2>. QED  BY <1>1, <1>4, <1>5, <2>5, TrackedFront
<1>6. CASE s = Back(q)
  <2>1. pc = "read"
    BY <1>6, Names
  <2>2. Live(ses[s]) /\ Live(x)
    BY <1>1, <1>3, <2>1 DEF Live
  <2>3. OutcomeLeft(x)
    BY <1>1, <1>3, <1>6, <2>1, <2>2 DEF TrackInv, Tracked, OutcomeLeft
  <2>. QED  BY <1>1, <1>3, <1>4, <1>6, <2>2, <2>3, TrackedBack
<1>. QED  BY <1>5, <1>6

\* The registry is given the new background task, and no done callback of an
\* earlier one of this run is still to come.
LEMMA LaunchKeepsTrack ==
  ASSUME TypeInv, MirrorInv, TrackInv, Timely, NEW q \in Requests, Launch(Front(q))
  PROVE  TrackInv'
<1> DEFINE s == Front(q)
           b == Back(q)
           row == IF ses[s].op = "start" THEN [status |-> "running", attempt |-> 1] ELSE ses[s].runSet
           attempt == IF ses[s].op = "start" THEN 1 ELSE ses[s].runCopy.attempt + 1
           copy == [status |-> None, attempt |-> attempt]
           x == [ses[s] EXCEPT !.runSet = row, !.pc = "commit"]
           y == [Blank EXCEPT !.op = "settle", !.pc = "agent", !.id = ses[s].id, !.runCopy = copy]
<1>1. /\ ses[s].pc = "launch" /\ ses[s] \in Session /\ s \in Sessions /\ b \in Sessions
      /\ ses \in [Sessions -> Session] /\ FrontFacts(ses[s]) /\ (Deciding(ses[s]) => task # "running")
      /\ Back(s[1]) = b /\ Fits(s, ses[s], run) /\ active \in [Requests -> Backs \cup {Nobody}]
  BY MirrorMover, Mover, Different, Names DEF Launch
<1>2. /\ ses' = [ses EXCEPT ![s] = x, ![b] = y] /\ UNCHANGED <<run, orphan>>
      /\ active' = [active EXCEPT ![ses[s].id] = b]
      /\ \A c \in Backs : ~ (ses[c].pc = "finish" /\ ses[c].id = ses[s].id)
  BY <1>1 DEF Launch, Session
<1>3. Open(s)
  BY <1>1 DEF Open, Over
<1>4. ses[s].op \in {"start", "retry"} /\ Deciding(ses[s]) /\ ses[s].id \in Requests
  BY <1>1, <1>3 DEF FrontFacts, CancelFacts, UserFacts, Moves, Deciding, Open, Fits, Over
<1>5. /\ task # "running" /\ (\A p \in Requests : ~ Live(ses[Back(p)]))
      /\ \A p \in Requests : run[p].status # "running"
  BY <1>1, <1>4 DEF MirrorInv, Decisions, Launched, Mirror
<1>6. row.attempt = attempt
  <2>1. CASE ses[s].op = "start"
    BY <2>1
  <2>2. CASE ses[s].op = "retry"
    BY <1>1, <2>2 DEF TrackInv, Counted, RetryCounts
  <2>. QED  BY <1>4, <2>1, <2>2
<1>7. x.pc = "commit" /\ x.op = ses[s].op /\ x.runSet.attempt = row.attempt /\ x.id = ses[s].id
  BY <1>1 DEF Session
<1>8. y.pc = "agent" /\ y.id = ses[s].id /\ y.set = None /\ y.runCopy.attempt = attempt
  BY DEF Blank
<1>. HIDE DEF x, y, row, attempt
<1>9. /\ \A p \in Requests : ses'[Front(p)] = IF p = q THEN x ELSE ses[Front(p)]
      /\ \A p \in Requests : ses'[Back(p)] = IF p = q THEN y ELSE ses[Back(p)]
  <2>1. \A o \in Sessions : ses'[o] = IF o = b THEN y ELSE IF o = s THEN x ELSE ses[o]
    BY <1>1, <1>2
  <2>2. \A p \in Requests : Front(p) \in Sessions /\ Front(p) # b /\ (Front(p) = s => p = q)
    BY Different
  <2>3. \A p \in Requests : Back(p) \in Sessions /\ Back(p) # s /\ (Back(p) = b => p = q)
    BY Different
  <2>. QED  BY <2>1, <2>2, <2>3
<1>10. Launched(x) /\ Live(y) /\ OutcomeLeft(y)
  BY <1>4, <1>7, <1>8 DEF Launched, Live, OutcomeLeft
<1>11. \A p \in Requests : Open(Front(p)) => p = q
  BY <1>3 DEF MirrorInv, OneFront
<1>12. Counted'
  BY <1>2, <1>7, <1>9 DEF TrackInv, Counted, RetryCounts
<1>13. Tracked'
  <2> SUFFICES ASSUME NEW p \in Requests, Live(ses'[Back(p)])
               PROVE  /\ active'[ses'[Back(p)].id] = Back(p)
                      /\ ses'[Back(p)].runCopy.attempt =
                           IF Launched(ses'[Front(p)]) THEN ses'[Front(p)].runSet.attempt
                           ELSE run'[ses'[Back(p)].id].attempt
                      /\ OutcomeLeft(ses'[Back(p)])
                      /\ \A o \in Requests : ses'[Back(o)].pc = "finish" => ses'[Back(o)].id # ses'[Back(p)].id
    BY DEF Tracked
  <2>1. p = q
    BY <1>5, <1>9
  <2>2. ses'[Back(p)] = y /\ ses'[Front(p)] = x
    BY <1>9, <2>1
  <2>3. active'[y.id] = Back(p)
    BY <1>1, <1>2, <1>4, <1>8, <2>1
  <2>4. ASSUME NEW o \in Requests, ses'[Back(o)].pc = "finish" PROVE ses'[Back(o)].id # y.id
    <3>1. o # q /\ ses'[Back(o)] = ses[Back(o)]
      BY <1>8, <1>9, <2>4
    <3>2. Back(o) \in Backs
      BY Names
    <3>3. ses[Back(o)].id # ses[s].id
      BY <1>2, <2>4, <3>1, <3>2
    <3>. QED  BY <1>8, <3>1, <3>3
  <2>. QED  BY <1>6, <1>7, <1>8, <1>10, <2>2, <2>3, <2>4
<1>14. LaunchedLive'
  <2> SUFFICES ASSUME NEW p \in Requests, Launched(ses'[Front(p)])
               PROVE  Live(ses'[Back(p)]) /\ ses'[Back(p)].id = ses'[Front(p)].id
    BY DEF LaunchedLive
  <2>1. p = q
    BY <1>9, <1>11 DEF Launched, Open, Over
  <2>. QED  BY <1>7, <1>8, <1>9, <1>10, <2>1
<1>15. Attended'
  BY <1>2, <1>5 DEF Attended
<1>. QED  BY <1>2, <1>12, <1>13, <1>14, <1>15 DEF TrackInv

LEMMA AgentReturnsKeepsTrack ==
  ASSUME TypeInv, TrackInv, NEW q \in Requests, AgentReturns(Back(q))
  PROVE  TrackInv'
<1> DEFINE b == Back(q)
<1>1. /\ ses[b].pc = "agent" /\ ses[b] \in Session /\ b \in Sessions /\ ses \in [Sessions -> Session]
      /\ ses[b].runCopy \in Copy /\ UNCHANGED <<run, active, orphan>>
  BY Different, Mover DEF AgentReturns, Session
<1>2. PICK outcome \in Outcomes(b) :
        ses' = [ses EXCEPT ![b].runCopy.status = outcome[1], ![b].todo = outcome[2], ![b].pc = "run_load"]
  BY DEF AgentReturns
<1> DEFINE copy == [ses[b].runCopy EXCEPT !.status = outcome[1]]
           x == [ses[b] EXCEPT !.runCopy = copy, !.todo = outcome[2], !.pc = "run_load"]
<1>3. ses' = [ses EXCEPT ![b] = x]
  BY <1>1, <1>2 DEF Session
<1>4. /\ x.pc = "run_load" /\ x.todo = outcome[2] /\ x.set = ses[b].set /\ x.id = ses[b].id
      /\ x.runCopy.attempt = ses[b].runCopy.attempt
  BY <1>1 DEF Session, Copy
<1>. HIDE DEF x
<1>5. \A o \in Sessions : ses'[o] = IF o = b THEN x ELSE ses[o]
  BY <1>1, <1>3, Apart
<1>6. outcome[2] \in {<<"evaluating", "awaiting_approval">>, <<"evaluating", "failed">>,
                      <<"failed">>, <<"cancelled">>}
  BY DEF Outcomes
<1>7. Live(ses[b]) /\ Live(x)
  BY <1>1, <1>4 DEF Live
<1>8. ses[b].set = None
  BY <1>1, <1>7 DEF TrackInv, Tracked, OutcomeLeft
<1>9. OutcomeLeft(x)
  BY <1>4, <1>6, <1>8 DEF OutcomeLeft
<1>. QED  BY <1>1, <1>4, <1>5, <1>7, <1>9, TrackedBack

\* The done callback takes out its own entry, or none that is live.
LEMMA FinishKeepsTrack ==
  ASSUME TypeInv, TrackInv, NEW q \in Requests, Finish(Back(q))
  PROVE  TrackInv'
<1> DEFINE b == Back(q)
           x == Closed(b, "done")
<1>1. /\ ses[b].pc = "finish" /\ b \in Sessions /\ UNCHANGED <<run, orphan>>
      /\ active' = [active EXCEPT ![ses[b].id] = Nobody] /\ active \in [Requests -> Backs \cup {Nobody}]
      /\ ses' = [ses EXCEPT ![b] = x]
  BY Different, Mover DEF Finish, Abort, Closed
<1>2. x.pc = "done"
  BY DEF Closed, Blank
<1>. HIDE DEF x
<1>3. \A p \in Requests : ses'[Back(p)] = (IF p = q THEN x ELSE ses[Back(p)]) /\ ses'[Front(p)] = ses[Front(p)]
  <2>1. \A o \in Sessions : ses'[o] = IF o = b THEN x ELSE ses[o]
    BY <1>1, Apart
  <2>. QED  BY <2>1, Different
<1>4. \A p \in Requests : Live(ses[Back(p)]) => p # q /\ ses[Back(p)].id # ses[b].id
  BY <1>1 DEF TrackInv, Tracked, Live
<1>5. \A p \in Requests : Live(ses'[Back(p)]) <=> Live(ses[Back(p)])
  BY <1>1, <1>2, <1>3 DEF Live
<1>6. \A p \in Requests : Live(ses[Back(p)]) => /\ ses'[Back(p)] = ses[Back(p)]
                                                /\ active'[ses[Back(p)].id] = active[ses[Back(p)].id]
  BY <1>1, <1>3, <1>4
<1>7. Counted' /\ LaunchedLive' /\ Attended'
  BY <1>1, <1>3, <1>5, <1>6 DEF TrackInv, Counted, LaunchedLive, Attended
<1>8. Tracked'
  <2> SUFFICES ASSUME NEW p \in Requests, Live(ses'[Back(p)])
               PROVE  /\ active'[ses'[Back(p)].id] = Back(p)
                      /\ ses'[Back(p)].runCopy.attempt =
                           IF Launched(ses'[Front(p)]) THEN ses'[Front(p)].runSet.attempt
                           ELSE run'[ses'[Back(p)].id].attempt
                      /\ OutcomeLeft(ses'[Back(p)])
                      /\ \A o \in Requests : ses'[Back(o)].pc = "finish" => ses'[Back(o)].id # ses'[Back(p)].id
    BY DEF Tracked
  <2>1. Live(ses[Back(p)]) /\ ses'[Back(p)] = ses[Back(p)] /\ ses'[Front(p)] = ses[Front(p)]
    BY <1>3, <1>5, <1>6
  <2>2. \A o \in Requests : ses'[Back(o)].pc = "finish" => ses'[Back(o)] = ses[Back(o)]
    BY <1>2, <1>3
  <2>. QED  BY <1>1, <1>6, <2>1, <2>2 DEF TrackInv, Tracked
<1>. QED  BY <1>1, <1>7, <1>8 DEF TrackInv

LEMMA RequestCommitsTracked ==
  ASSUME TypeInv, MirrorInv, TrackInv, NEW q \in Requests, Commit(Front(q))
  PROVE  TrackInv'
<1> DEFINE s == Front(q)
           id == ses[s].id
<1>1. /\ ses[s].pc = "commit" /\ FrontFacts(ses[s]) /\ s \in Sessions /\ s \notin Backs
      /\ Fits(s, ses[s], run) /\ run \in [Requests -> RunRow] /\ UNCHANGED <<active, orphan>>
  BY MirrorMover, Different, Mover DEF Commit
<1>2. Open(s)
  BY <1>1 DEF Open, Over
<1>3. Abort(s, "done")
  BY <1>1 DEF Commit
<1>4. CASE ~ Launched(ses[s])
  <2>1. ses[s].op \in {"move", "patch"}
    BY <1>1, <1>2, <1>4 DEF Launched, FrontFacts, CancelFacts, Open
  <2>2. run' = run
    BY <1>1, <1>2, <2>1 DEF FrontFacts, UserFacts, Open, Commit
  <2>. QED  BY <1>1, <1>3, <1>4, <2>2, ClosingKeepsTrack
<1>5. CASE Launched(ses[s])
  <2>1. id \in Requests /\ Deciding(ses[s]) /\ ses[s].runSet.status = "running"
    BY <1>1, <1>2, <1>5 DEF Fits, Launched, Deciding, Over, FrontFacts, StartFacts, RetryFacts, Moves, Open
  <2>2. /\ \A p \in Requests : Live(ses[Back(p)]) => p = q
        /\ \A p \in Requests : run[p].status # "running"
    BY <2>1 DEF MirrorInv, Decisions, Mirror
  <2>3. ses[s].runSet # NoRow
    BY <2>1 DEF NoRow, None
  <2>4. \A p \in Requests : run'[p] = IF p = id THEN ses[s].runSet ELSE run[p]
    BY <1>1, <2>1, <2>3 DEF Commit
  <2>5. PICK x : /\ x.pc = "done"
                 /\ \A o \in Sessions : ses'[o] = IF o = s THEN x ELSE ses[o]
    BY AfterCommit
  <2>6. \A p \in Requests : ses'[Front(p)] = (IF p = q THEN x ELSE ses[Front(p)]) /\ ses'[Back(p)] = ses[Back(p)]
    BY <2>5, Different
  <2>7. \A p \in Requests : ~ Open(Front(p))'
    BY <1>2, <2>5, <2>6 DEF MirrorInv, OneFront, Open, Over
  <2>8. Counted' /\ LaunchedLive'
    BY <2>7 DEF Counted, RetryCounts, LaunchedLive, Launched, Open, Over
  <2>9. Live(ses[Back(q)]) /\ ses[Back(q)].id = id
    BY <1>5 DEF TrackInv, LaunchedLive
  <2>10. Attended'
    BY <2>2, <2>4, <2>6, <2>9 DEF Attended
  <2>11. Tracked'
    <3> SUFFICES ASSUME NEW p \in Requests, Live(ses'[Back(p)])
                 PROVE  /\ active[ses[Back(p)].id] = Back(p)
                        /\ ses[Back(p)].runCopy.attempt = run'[ses[Back(p)].id].attempt
                        /\ OutcomeLeft(ses[Back(p)])
                        /\ \A o \in Requests : ses[Back(o)].pc = "finish" => ses[Back(o)].id # ses[Back(p)].id
      BY <1>1, <2>6, <2>7 DEF Tracked, Launched, Open, Over
    <3>1. p = q /\ Live(ses[Back(q)])
      BY <2>2, <2>6
    <3>2. ses[Back(q)].runCopy.attempt = ses[s].runSet.attempt
      BY <1>5, <3>1 DEF TrackInv, Tracked
    <3>3. run'[ses[Back(q)].id].attempt = ses[s].runSet.attempt
      BY <2>1, <2>4, <2>9
    <3>. QED  BY <3>1, <3>2, <3>3 DEF TrackInv, Tracked
  <2>. QED  BY <1>1, <2>8, <2>10, <2>11 DEF TrackInv
<1>. QED  BY <1>4, <1>5

\* The outcome is committed: nothing runs any more, and nothing is live.
LEMMA BackCommitsTracked ==
  ASSUME TypeInv, MirrorInv, TrackInv, NEW q \in Requests, Commit(Back(q))
  PROVE  TrackInv'
<1> DEFINE s == Back(q)
           id == ses[s].id
<1>1. /\ ses[s].pc = "commit" /\ s \in Sessions /\ Live(ses[s]) /\ UNCHANGED <<active, orphan>>
      /\ Fits(s, ses[s], run) /\ run \in [Requests -> RunRow] /\ s \in Backs
  BY MirrorMover, Different, Mover DEF Commit, Live
<1>2. BackFacts(ses[s]) /\ Works(ses[s]) /\ id \in Requests
  BY <1>1, MirrorMover DEF Fits, Over
<1>3. ses[s].runSet # NoRow /\ ses[s].runSet.status # "running"
  BY <1>1, <1>2 DEF BackFacts, NoRow, None, Settled
<1>4. \A p \in Requests : run'[p] = IF p = id THEN ses[s].runSet ELSE run[p]
  BY <1>1, <1>2, <1>3 DEF Commit
<1>5. \A p \in Requests : run'[p].status # "running"
  BY <1>2, <1>3, <1>4 DEF MirrorInv, Mirror, Works
<1>6. PICK x : /\ x.pc = "finish"
               /\ \A o \in Sessions : ses'[o] = IF o = s THEN x ELSE ses[o]
  <2>1. s # Front(q)
    BY Different
  <2>. QED  BY <2>1, AfterCommit
<1>7. \A p \in Requests : ses'[Back(p)] = (IF p = q THEN x ELSE ses[Back(p)]) /\ ses'[Front(p)] = ses[Front(p)]
  BY <1>6, Different
<1>8. \A p \in Requests : ~ Live(ses'[Back(p)])
  BY <1>1, <1>6, <1>7 DEF MirrorInv, OneBack, Live
<1>9. \A p \in Requests : ~ Deciding(ses'[Front(p)])
  BY <1>2, <1>7 DEF MirrorInv, Decisions, Works
<1>10. Tracked' /\ Attended'
  BY <1>5, <1>8 DEF Tracked, Attended
<1>11. Counted' /\ LaunchedLive'
  BY <1>9 DEF Counted, RetryCounts, LaunchedLive, Launched, Deciding, Over
<1>. QED  BY <1>1, <1>10, <1>11 DEF TrackInv

LEMMA StatementKeepsTrack ==
  ASSUME TypeInv, MirrorInv, TrackInv, Timely, NEW s \in Sessions, Statement(s)
  PROVE  TrackInv'
<1>1. PICK q \in Requests : s \in {Front(q), Back(q)}
  BY DEF Sessions, Fronts, Backs
<1>2. CASE ReadTask(s) \/ LoadTask(s) \/ FlushMove(s) \/ FlushPatch(s) \/ LoadRun(s) \/ FlushRun(s)
  BY <1>1, <1>2, ReadTaskKeepsTrack, LoadTaskKeepsTrack, FlushMoveKeepsTrack, LoadRunKeepsTrack,
     FlushRunKeepsTrack
<1>3. CASE ReadRun(s) \/ Signal(s) \/ Launch(s) \/ Commit(s)
  <2>1. CASE s = Front(q)
    BY <1>3, <2>1, ReadRunKeepsTrack, LaunchKeepsTrack, RequestCommitsTracked
  <2>2. CASE s = Back(q)
    <3>1. ~ ReadRun(s) /\ ~ Signal(s) /\ ~ Launch(s)
      BY <2>2, MirrorMover DEF ReadRun, Signal, Launch, Fits, Over
    <3>. QED  BY <1>3, <2>2, <3>1, BackCommitsTracked
  <2>. QED  BY <1>1, <2>1, <2>2
<1>. QED  BY <1>2, <1>3 DEF Statement

LEMMA FaultsStay == TypeInv /\ [Next]_vars => (faults' = 0 => faults = 0)
<1> SUFFICES ASSUME TypeInv, [Next]_vars, faults # 0 PROVE faults' # 0
  OBVIOUS
<1>1. faults \in Nat \ {0}
  BY EnvironmentIsGiven DEF TypeInv, TypeOK
<1>2. faults' \in {faults, faults + 1}
  BY DEF Next, PostRuns, StartRun, PostRetry, RetryRun, PostCancel, CancelRun, PostAssign, AssignAgent,
         PatchTasks, PatchTask, PostStatus, PostApprove, Approve, PostReject, Reject, PostMerge, Merge,
         MoveTask, Begin, Statement, ReadRun, Signal, ReadTask, LoadTask, FlushMove, FlushPatch, LoadRun,
         FlushRun, Launch, Commit, AgentReturns, Finish, RequestFails, Crash, vars
<1>. QED  BY <1>1, <1>2

LEMMA TrackNext ==
  ASSUME Timely, TypeInv, ~ orphan => MirrorInv, faults = 0 => TrackInv, [Next]_vars
  PROVE  faults' = 0 => TrackInv'
<1> SUFFICES ASSUME faults' = 0 PROVE TrackInv'
  OBVIOUS
<1>1. faults = 0 /\ TrackInv /\ MirrorInv
  BY FaultsStay DEF TrackInv
<1>2. ASSUME NEW q \in Requests, Arrives(q), \E op, id, todo : Begin(q, op, id, todo) PROVE TrackInv'
  BY <1>1, <1>2, BeginKeepsTrack
<1>3. ASSUME NEW q \in Requests,
             \/ PostRuns(q) \/ PostRetry(q) \/ PostCancel(q) \/ PostAssign(q) \/ PatchTasks(q)
             \/ PostStatus(q) \/ PostApprove(q) \/ PostReject(q) \/ PostMerge(q)
      PROVE  TrackInv'
  <2>1. Arrives(q) /\ \E op, id, todo : Begin(q, op, id, todo)
    BY <1>3 DEF PostRuns, StartRun, PostRetry, RetryRun, PostCancel, CancelRun, PostAssign, AssignAgent,
           PatchTasks, PatchTask, PostStatus, PostApprove, Approve, PostReject, Reject, PostMerge, Merge, MoveTask
  <2>. QED  BY <1>2, <2>1
<1>4. ASSUME NEW s \in Sessions, Statement(s) PROVE TrackInv'
  BY <1>1, <1>4, StatementKeepsTrack
<1>5. ASSUME NEW b \in Backs, AgentReturns(b) \/ Finish(b) PROVE TrackInv'
  BY <1>1, <1>5, Names, AgentReturnsKeepsTrack, FinishKeepsTrack
<1>6. ~ Crash /\ \A s \in Fronts : ~ RequestFails(s)
  BY <1>1 DEF Crash, RequestFails
<1>7. CASE UNCHANGED vars
  BY <1>1, <1>7 DEF vars, TrackInv, Counted, Tracked, LaunchedLive, Attended
<1>. QED  BY <1>3, <1>4, <1>5, <1>6, <1>7 DEF Next

\* A running run is tracked (LiveRunIsTracked): in that environment, as long
\* as no request fails and the process does not die, the registry holds a live
\* background task for every run that shows as running, and of the attempt
\* the row shows: a cancellation finds its agent.
THEOREM RunningIsTracked == HandsOff /\ ~ Overlap /\ Timely => (Spec => []LiveRunIsTracked)
<1> SUFFICES ASSUME HandsOff, ~ Overlap, Timely PROVE Spec => []LiveRunIsTracked
  OBVIOUS
<1> DEFINE I == TypeInv /\ (~ orphan => MirrorInv) /\ (faults = 0 => TrackInv)
<1>1. Init => I
  BY TypeInvInit, MirrorInit, TrackInit
<1>2. I /\ [Next]_vars => I'
  BY TypeInvNext, MirrorNext, TrackNext
<1>3. I => LiveRunIsTracked
  <2> SUFFICES ASSUME I, faults = 0, NEW q \in Requests, run[q].status = "running"
               PROVE  /\ active[q] # Nobody
                      /\ LET b == ses[active[q]] IN
                         /\ b.id = q /\ b.op = "settle" /\ b.pc \notin Over \cup {"new", "finish"}
                         /\ b.runCopy.attempt = run[q].attempt
    BY DEF LiveRunIsTracked
  <2>1. TypeInv /\ TrackInv /\ MirrorInv
    BY DEF TrackInv
  <2>2. PICK p \in Requests : Live(ses[Back(p)]) /\ ses[Back(p)].id = q
    BY <2>1 DEF TrackInv, Attended
  <2>3. active[q] = Back(p) /\ Back(p) # Nobody
    BY <2>1, <2>2 DEF TrackInv, Tracked, Back, Nobody
  <2>4. ~ Launched(ses[Front(p)])
    BY <2>1 DEF MirrorInv, Mirror, Decisions, Deciding, Launched, Over
  <2>5. ses[Back(p)].runCopy.attempt = run[q].attempt
    BY <2>1, <2>2, <2>4 DEF TrackInv, Tracked
  <2>6. ses[Back(p)].op = "settle" /\ ses[Back(p)].pc \notin Over \cup {"new", "finish"}
    BY <2>1, <2>2, MirrorMover DEF Live, Fits, Over
  <2>. QED  BY <2>2, <2>3, <2>5, <2>6
<1>. HIDE DEF I
<1>. QED  BY <1>1, <1>2, <1>3, PTL DEF Spec

==============================================================================
