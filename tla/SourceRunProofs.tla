--------------------------- MODULE SourceRunProofs ---------------------------
(***************************************************************************)
(* Proofs about SourceRun, for any number of runs, years, scenes and lost  *)
(* processes, chunked or not.  Everything but the refinement holds whether *)
(* or not runs overlap.                                                    *)
(***************************************************************************)
EXTENDS SourceRun, TLAPS

TaskStatuses == {"queued", "processing", "complete", "failed"}
Rows == [Groups -> Outcomes \cup {Nothing}]
Shown == [Groups -> Scenes \cup {Nothing}]

(* The log never holds `ok', a year with items has no verdict yet, nothing *)
(* is known of a year still to be searched, and nothing is put aside       *)
(* before the session.                                                     *)
LogOK(w) ==
  /\ \A g \in Groups : w.staged[g] # "ok"
  /\ ~Chunked => w.year = 1
  /\ w.pc \in {"lost", "ready", "search"} =>
       \A g \in Groups : g >= w.year => g \notin w.found /\ w.staged[g] = Nothing
  /\ w.pc \in {"lost", "ready", "search", "select"} =>
       \A g \in w.found : w.staged[g] = Nothing
  /\ w.pc \in {"lost", "ready", "search", "select", "open"} => w.uncogged = {}

(* A selected group has no verdict in the log; a scene is condemned only   *)
(* in a group that is put aside or suppressed.                             *)
SelectionOK(w) ==
  w.pc \in {"open", "publish", "fill", "finish"} =>
    \A g \in Groups :
      /\ w.chosen[g] # Nothing => w.staged[g] = Nothing
      /\ w.named[g] # {} => g \in w.uncogged \/ w.staged[g] = "suppressed"
      /\ g \in w.uncogged => w.chosen[g] = Nothing /\ w.staged[g] = Nothing

(* What the ledger rows and the task row hold at each point of the run.    *)
LedgerOK(w, rows, status) ==
  /\ w.pc \in {"ready", "search", "select", "flush", "open", "publish"}
       => rows = Blank
  /\ w.pc = "fill" => \/ rows = Recorded(w)
                      \/ rows = Blank /\ Picked(w) = {}
  /\ w.pc = "finish" => \A g \in Groups : rows[g] # Nothing
  /\ status = "complete" => /\ w.pc \in {"done", "lost"}
                            /\ \A g \in Groups : rows[g] # Nothing

RunOK(w, rows, status) ==
  LogOK(w) /\ SelectionOK(w) /\ LedgerOK(w, rows, status)
Accounting ==
  TypeOK /\ \A r \in Runs : RunOK(work[r], ledger[r], task[r])

-----------------------------------------------------------------------------
(* A step of run r that leaves its rows in order keeps the accounting.     *)
LEMMA Written ==
  ASSUME Accounting, NEW r \in Runs,
         NEW w \in WorkType, NEW rows \in Rows, NEW status \in TaskStatuses,
         work' = [work EXCEPT ![r] = w],
         ledger' = [ledger EXCEPT ![r] = rows],
         task' = [task EXCEPT ![r] = status],
         served' \in Shown, losses' \in 0 .. MaxLosses,
         RunOK(w, rows, status)
  PROVE  Accounting'
<1>1. TypeOK'
  BY DEF Accounting, TypeOK, TaskStatuses, Rows, Shown
<1>2. ASSUME NEW q \in Runs PROVE RunOK(work'[q], ledger'[q], task'[q])
  BY <1>2 DEF Accounting, TypeOK
<1>3. QED
  BY <1>1, <1>2 DEF Accounting

(* The record of run r in a state in order.                                *)
LEMMA Current ==
  ASSUME Accounting, NEW r \in Runs
  PROVE  /\ work[r] \in WorkType /\ ledger[r] \in Rows
         /\ task[r] \in TaskStatuses
         /\ RunOK(work[r], ledger[r], task[r])
         /\ task = [task EXCEPT ![r] = task[r]]
         /\ ledger = [ledger EXCEPT ![r] = ledger[r]]
         /\ served \in Shown /\ losses \in 0 .. MaxLosses
  BY DEF Accounting, TypeOK, TaskStatuses, Rows, Shown

(* A step that writes no table.                                            *)
LEMMA Private ==
  ASSUME Accounting, NEW r \in Runs, NEW w \in WorkType,
         work' = [work EXCEPT ![r] = w],
         UNCHANGED <<task, ledger, served, losses>>,
         RunOK(w, ledger[r], task[r])
  PROVE  Accounting'
  BY Current, Written

-----------------------------------------------------------------------------
(* What the moves of the coroutine do to its record.                       *)

(* The starting point of a coroutine is in order.                          *)
LEMMA FreshOK ==
  ASSUME NEW pc \in {"ready", "done", "lost"}
  PROVE  /\ FreshWork(pc) \in WorkType
         /\ FreshWork(pc).pc = pc
         /\ LogOK(FreshWork(pc)) /\ SelectionOK(FreshWork(pc))
  BY SourceAssumption, SMTT(30)
     DEF FreshWork, WorkType, Blank, Groups, LogOK, SelectionOK, Outcomes, Pcs

(* A move of the program counter that makes no claim of its own.           *)
Jump(from, to) ==
  \/ to \in {"flush", "failing"}
  \/ from = "ready" /\ to = "search"
  \/ from = "search" /\ to = "select"
  \/ from = "lost" /\ to = "ready"

LEMMA JumpOK ==
  ASSUME NEW w \in WorkType, LogOK(w), NEW pc, Jump(w.pc, pc)
  PROVE  LET v == [w EXCEPT !.pc = pc]
         IN  v \in WorkType /\ v.pc = pc /\ LogOK(v) /\ SelectionOK(v)
  BY DEF WorkType, LogOK, SelectionOK, Jump, Pcs

LEMMA StagedYear ==
  ASSUME NEW w \in WorkType, LogOK(w), w.pc = "search", Chunked,
         w.year <= Years, NEW outcome \in {"failed", "absent", "indeterminate"}
  PROVE  LET v == [w EXCEPT !.year = w.year + 1, !.staged[w.year] = outcome]
         IN  v \in WorkType /\ v.pc = "search" /\ LogOK(v) /\ SelectionOK(v)
<1> DEFINE v == [w EXCEPT !.year = w.year + 1, !.staged[w.year] = outcome]
<1>1. w.year \in Nat /\ w.year \in Groups /\ w.year + 1 \in 1 .. Years + 1
  BY SourceAssumption DEF WorkType, Groups
<1>2. v \in WorkType
  BY <1>1 DEF WorkType, Outcomes
<1>3. /\ v.pc = "search" /\ v.year = w.year + 1 /\ v.found = w.found
      /\ v.uncogged = w.uncogged
      /\ \A g \in Groups : v.staged[g] = IF g = w.year THEN outcome
                                         ELSE w.staged[g]
  BY <1>1 DEF WorkType
<1>4. w.year \notin w.found /\ w.found \subseteq Groups /\ w.uncogged = {}
  BY <1>1 DEF LogOK, WorkType
<1>5. \A g \in Groups : g \in Nat
  BY DEF Groups
<1>6. \A g \in Groups : g >= v.year => g >= w.year /\ g # w.year
  BY <1>1, <1>3, <1>5
<1>7. LogOK(v)
  BY <1>3, <1>4, <1>6 DEF LogOK
<1>8. QED
  BY <1>2, <1>3, <1>7 DEF SelectionOK

LEMMA FoundYear ==
  ASSUME NEW w \in WorkType, LogOK(w), w.pc = "search", Chunked,
         w.year <= Years
  PROVE  LET v == [w EXCEPT !.year = w.year + 1,
                            !.found = w.found \cup {w.year}]
         IN  v \in WorkType /\ v.pc = "search" /\ LogOK(v) /\ SelectionOK(v)
<1> DEFINE v == [w EXCEPT !.year = w.year + 1,
                          !.found = w.found \cup {w.year}]
<1>1. w.year \in Nat /\ w.year \in Groups /\ w.year + 1 \in 1 .. Years + 1
  BY SourceAssumption DEF WorkType, Groups
<1>2. v \in WorkType
  BY <1>1 DEF WorkType
<1>3. /\ v.pc = "search" /\ v.year = w.year + 1
      /\ v.found = w.found \cup {w.year}
      /\ v.uncogged = w.uncogged /\ v.staged = w.staged
  BY <1>1 DEF WorkType
<1>4. w.staged[w.year] = Nothing /\ w.uncogged = {}
  BY <1>1 DEF LogOK, WorkType
<1>5. \A g \in Groups : g \in Nat
  BY DEF Groups
<1>6. \A g \in Groups : g >= v.year => g >= w.year /\ g # w.year
  BY <1>1, <1>3, <1>5
<1>7. LogOK(v)
  BY <1>3, <1>4, <1>6 DEF LogOK
<1>8. QED
  BY <1>2, <1>3, <1>7 DEF SelectionOK

WithFound(w, found, truncated) ==
  [w EXCEPT !.pc = "select", !.found = found, !.truncated = truncated]

LEMMA FoundWhole ==
  ASSUME NEW w \in WorkType, LogOK(w), w.pc = "search", ~Chunked,
         NEW found \in SUBSET Groups, NEW truncated \in BOOLEAN
  PROVE  LET v == WithFound(w, found, truncated)
         IN  v \in WorkType /\ v.pc = "select" /\ LogOK(v) /\ SelectionOK(v)
<1> DEFINE v == WithFound(w, found, truncated)
<1>1. v \in WorkType
  BY DEF WithFound, WorkType, Pcs
<1>2. /\ v.pc = "select" /\ v.year = w.year /\ v.found = found
      /\ v.uncogged = w.uncogged /\ v.staged = w.staged
  BY DEF WithFound, WorkType
<1>3. \A g \in Groups : w.staged[g] = Nothing
  <2>1. w.year = 1 /\ \A g \in Groups : g >= 1
    BY DEF LogOK, Groups
  <2>2. QED
    BY <2>1 DEF LogOK
<1>4. LogOK(v)
  BY <1>2, <1>3 DEF LogOK
<1>5. QED
  BY <1>1, <1>2, <1>4 DEF SelectionOK

LEMMA LostWhole ==
  ASSUME NEW w \in WorkType, LogOK(w)
  PROVE  LET v == [w EXCEPT !.pc = "flush",
                            !.staged = [g \in Groups |-> "failed"]]
         IN  v \in WorkType /\ v.pc = "flush" /\ LogOK(v) /\ SelectionOK(v)
  BY DEF WorkType, LogOK, SelectionOK, Pcs, Outcomes

(* What classification may stage.                                          *)
LEMMA ClassifiedOK ==
  ASSUME NEW w \in WorkType, LogOK(w), NEW S, NEW g \in Groups
  PROVE  /\ Classified(w, S, g) \in (Outcomes \cup {Nothing}) \ {"ok"}
         /\ g \in S => Classified(w, S, g) = w.staged[g]
  BY SourceAssumption DEF WorkType, LogOK, Classified, Outcomes

WithSelection(w, staged, chosen, named) ==
  [w EXCEPT !.pc = "open", !.staged = staged, !.chosen = chosen,
            !.named = named]

LEMMA Selected ==
  ASSUME NEW w \in WorkType, LogOK(w), w.pc = "select",
         NEW staged \in Rows, NEW chosen \in Shown,
         NEW named \in [Groups -> SUBSET Scenes],
         \A g \in Groups : /\ staged[g] # "ok"
                           /\ chosen[g] # Nothing => staged[g] = Nothing
                           /\ named[g] # {} => staged[g] = "suppressed"
  PROVE  LET v == WithSelection(w, staged, chosen, named)
         IN  v \in WorkType /\ v.pc = "open" /\ LogOK(v) /\ SelectionOK(v)
<1> DEFINE v == WithSelection(w, staged, chosen, named)
<1>1. w.uncogged = {}
  BY DEF LogOK
<1>2. v \in WorkType
  BY DEF WithSelection, WorkType, Pcs, Rows, Shown
<1>3. /\ v.pc = "open" /\ v.year = w.year /\ v.uncogged = {}
      /\ v.staged = staged /\ v.chosen = chosen /\ v.named = named
  BY <1>1 DEF WithSelection, WorkType
<1> HIDE DEF v
<1>4. LogOK(v)
  <2>1. ~Chunked => v.year = 1
    BY <1>3 DEF LogOK
  <2>2. QED
    BY <1>3, <2>1 DEF LogOK
<1>5. SelectionOK(v)
  BY <1>3 DEF SelectionOK
<1> USE DEF v
<1>6. QED
  BY <1>2, <1>3, <1>4, <1>5

LEMMA Opened ==
  ASSUME NEW w \in WorkType, LogOK(w), SelectionOK(w), w.pc = "open",
         NEW uncogged \in SUBSET Picked(w), NEW seen \in Shown,
         NEW chosen, NEW named,
         named = [g \in Groups |->
            IF g \in uncogged THEN {w.chosen[g]} ELSE w.named[g]],
         chosen = [g \in Groups |->
            IF g \in uncogged THEN Nothing ELSE w.chosen[g]]
  PROVE  LET v == [w EXCEPT !.pc = "publish", !.uncogged = uncogged,
                            !.named = named, !.chosen = chosen, !.seen = seen]
         IN  v \in WorkType /\ v.pc = "publish" /\ LogOK(v) /\ SelectionOK(v)
<1> DEFINE v == [w EXCEPT !.pc = "publish", !.uncogged = uncogged,
                          !.named = named, !.chosen = chosen, !.seen = seen]
<1>1. /\ uncogged \in SUBSET Groups
      /\ \A g \in uncogged : w.chosen[g] # Nothing /\ w.chosen[g] \in Scenes
  BY DEF Picked, WorkType
<1>2. chosen \in Shown /\ named \in [Groups -> SUBSET Scenes]
  BY <1>1 DEF WorkType, Shown
<1>3. v \in WorkType
  BY <1>1, <1>2 DEF WorkType, Pcs, Shown
<1>4. /\ v.pc = "publish" /\ v.year = w.year /\ v.uncogged = uncogged
      /\ v.staged = w.staged /\ v.chosen = chosen /\ v.named = named
  BY DEF WorkType
<1>5. LogOK(v)
  BY <1>4 DEF LogOK
<1>6. ASSUME NEW g \in Groups
      PROVE  /\ w.chosen[g] # Nothing => w.staged[g] = Nothing
             /\ w.named[g] # {} => w.staged[g] = "suppressed"
  BY DEF SelectionOK, LogOK
<1>7. SelectionOK(v)
  BY <1>1, <1>4, <1>6 DEF SelectionOK
<1>8. QED
  BY <1>3, <1>4, <1>5, <1>7

(* Past the session only the program counter moves.                        *)
LEMMA Published ==
  ASSUME NEW w \in WorkType, LogOK(w), SelectionOK(w),
         w.pc = "publish", NEW pc \in {"fill"}
  PROVE  LET v == [w EXCEPT !.pc = pc]
         IN  /\ v \in WorkType /\ v.pc = pc /\ LogOK(v) /\ SelectionOK(v)
             /\ Recorded(v) = Recorded(w) /\ Picked(v) = Picked(w)
             /\ Recorded(w) \in Rows
  BY DEF WorkType, LogOK, SelectionOK, Pcs, Recorded, Picked, Rows, Outcomes

LEMMA Filled ==
  ASSUME NEW w \in WorkType, LogOK(w), SelectionOK(w), w.pc = "fill"
  PROVE  LET v == [w EXCEPT !.pc = "finish"]
         IN  v \in WorkType /\ v.pc = "finish" /\ LogOK(v) /\ SelectionOK(v)
  BY DEF WorkType, LogOK, SelectionOK, Pcs

-----------------------------------------------------------------------------
(* Accounting is inductive.                                                *)

LEMMA AccountingInit == Init => Accounting
<1>1. SUFFICES ASSUME Init PROVE Accounting
  OBVIOUS
<1>2. TypeOK
  BY <1>1, FreshOK, SourceAssumption DEF Init, TypeOK, Blank
<1>3. ASSUME NEW r \in Runs PROVE RunOK(work[r], ledger[r], task[r])
  BY <1>1, FreshOK DEF Init, RunOK, LedgerOK
<1>4. QED
  BY <1>2, <1>3 DEF Accounting

(* A jump that writes no table, and one that ends the coroutine.           *)
LEMMA JumpStep ==
  ASSUME Accounting, NEW r \in Runs, NEW pc, Jump(work[r].pc, pc),
         GoTo(r, pc), UNCHANGED <<ledger, served, losses>>,
         NEW status \in TaskStatuses, SetTask(r, status), status # "complete",
         pc # "failing" => ledger[r] = Blank
  PROVE  Accounting'
<1> DEFINE v == [work[r] EXCEPT !.pc = pc]
<1>1. v \in WorkType /\ v.pc = pc /\ LogOK(v) /\ SelectionOK(v)
  BY Current, JumpOK DEF RunOK
<1>2. pc \in {"flush", "failing", "search", "select", "ready"}
  BY DEF Jump
<1>3. RunOK(v, ledger[r], status)
  BY <1>1, <1>2 DEF RunOK, LedgerOK
<1>4. work' = [work EXCEPT ![r] = v]
  BY DEF GoTo
<1>5. QED
  BY <1>1, <1>3, <1>4, Current, Written DEF SetTask

LEMMA EndStep ==
  ASSUME Accounting, NEW r \in Runs, NEW pc \in {"done", "lost"},
         work' = [work EXCEPT ![r] = FreshWork(pc)],
         NEW status \in TaskStatuses, SetTask(r, status),
         status = "complete" => \A g \in Groups : ledger[r][g] # Nothing,
         UNCHANGED <<ledger, served>>, losses' \in 0 .. MaxLosses
  PROVE  Accounting'
<1>1. RunOK(FreshWork(pc), ledger[r], status)
  BY FreshOK DEF RunOK, LedgerOK
<1>2. QED
  BY <1>1, FreshOK, Current, Written DEF SetTask

(* The task row is untouched.                                              *)
LEMMA SameTask ==
  ASSUME Accounting, NEW r \in Runs, UNCHANGED task
  PROVE  SetTask(r, task[r])
  BY Current DEF SetTask

(* A run on its way has a row that does not read complete.                 *)
LEMMA OpenTask ==
  ASSUME Accounting, NEW r \in Runs, work[r].pc \notin {"done", "lost"}
  PROVE  task[r] # "complete"
  BY Current DEF RunOK, LedgerOK

LEMMA SearchStep ==
  ASSUME Accounting, NEW r \in Runs,
         SearchYear(r) \/ SearchedYears(r) \/ SearchWhole(r)
  PROVE  Accounting'
<1>1. /\ work[r] \in WorkType /\ LogOK(work[r]) /\ work[r].pc = "search"
      /\ ledger[r] = Blank /\ task[r] # "complete"
  BY Current, OpenTask
     DEF RunOK, LedgerOK, SearchYear, SearchedYears, SearchWhole, At
<1>2. ASSUME NEW w \in WorkType, work' = [work EXCEPT ![r] = w],
             w.pc \in {"search", "select", "flush"}, LogOK(w), SelectionOK(w),
             UNCHANGED <<task, ledger, served, losses>>
      PROVE  Accounting'
  BY <1>1, <1>2, Private DEF RunOK, LedgerOK
<1>3. CASE SearchYear(r)
  <2>1. Chunked /\ work[r].year <= Years
    BY <1>3 DEF SearchYear, YearsLeft
  <2>2. ASSUME NEW outcome \in {"failed", "absent", "indeterminate"},
               work' = [work EXCEPT ![r].year = work[r].year + 1,
                                    ![r].staged[work[r].year] = outcome]
        PROVE  Accounting'
    <3> DEFINE v == [work[r] EXCEPT !.year = work[r].year + 1,
                                    !.staged[work[r].year] = outcome]
    <3>1. v \in WorkType /\ v.pc = "search" /\ LogOK(v) /\ SelectionOK(v)
      BY <1>1, <2>1, StagedYear
    <3>2. work' = [work EXCEPT ![r] = v]
      BY <2>2
    <3>3. UNCHANGED <<task, ledger, served, losses>>
      BY <1>3 DEF SearchYear
    <3> HIDE DEF v
    <3>4. QED
      BY <1>2, <3>1, <3>2, <3>3
  <2>3. ASSUME work' = [work EXCEPT ![r].year = work[r].year + 1,
                          ![r].found = work[r].found \cup {work[r].year}]
        PROVE  Accounting'
    <3> DEFINE v == [work[r] EXCEPT !.year = work[r].year + 1,
                               !.found = work[r].found \cup {work[r].year}]
    <3>1. v \in WorkType /\ v.pc = "search" /\ LogOK(v) /\ SelectionOK(v)
      BY <1>1, <2>1, FoundYear
    <3>2. work' = [work EXCEPT ![r] = v]
      BY <2>3
    <3>3. UNCHANGED <<task, ledger, served, losses>>
      BY <1>3 DEF SearchYear
    <3> HIDE DEF v
    <3>4. QED
      BY <1>2, <3>1, <3>2, <3>3
  <2>4. QED
    BY <1>3, <2>2, <2>3 DEF SearchYear
<1>4. CASE SearchedYears(r)
  <2>1. PICK pc \in {"flush", "select"} : GoTo(r, pc)
    BY <1>4 DEF SearchedYears
  <2>2. Jump(work[r].pc, pc)
    BY <1>1, <2>1 DEF Jump
  <2>3. QED
    BY <1>1, <1>4, <2>1, <2>2, SameTask, Current, JumpStep DEF SearchedYears
<1>5. CASE SearchWhole(r)
  <2>1. ASSUME work' = [work EXCEPT ![r].pc = "flush",
                          ![r].staged = [g \in Groups |-> "failed"]]
        PROVE  Accounting'
    <3> DEFINE v == [work[r] EXCEPT !.pc = "flush",
                                    !.staged = [g \in Groups |-> "failed"]]
    <3>1. v \in WorkType /\ v.pc = "flush" /\ LogOK(v) /\ SelectionOK(v)
      BY <1>1, LostWhole
    <3>2. work' = [work EXCEPT ![r] = v]
      BY <2>1
    <3>3. UNCHANGED <<task, ledger, served, losses>>
      BY <1>5 DEF SearchWhole
    <3> HIDE DEF v
    <3>4. QED
      BY <1>2, <3>1, <3>2, <3>3
  <2>2. ASSUME NEW found \in SUBSET Groups, NEW truncated \in BOOLEAN,
               work' = [work EXCEPT ![r].pc = "select", ![r].found = found,
                                    ![r].truncated = truncated]
        PROVE  Accounting'
    <3> DEFINE v == WithFound(work[r], found, truncated)
    <3>0. ~Chunked
      BY <1>5 DEF SearchWhole
    <3>1. v \in WorkType /\ v.pc = "select" /\ LogOK(v) /\ SelectionOK(v)
      BY <1>1, <3>0, FoundWhole
    <3>2. work' = [work EXCEPT ![r] = v]
      BY <2>2 DEF WithFound
    <3>3. UNCHANGED <<task, ledger, served, losses>>
      BY <1>5 DEF SearchWhole
    <3> HIDE DEF v
    <3>4. QED
      BY <1>2, <3>1, <3>2, <3>3
  <2>3. QED
    BY <1>5, <2>1, <2>2 DEF SearchWhole
<1>6. QED
  BY <1>3, <1>4, <1>5

LEMMA SelectStep ==
  ASSUME Accounting, NEW r \in Runs, Select(r)
  PROVE  Accounting'
<1>1. /\ work[r] \in WorkType /\ LogOK(work[r]) /\ work[r].pc = "select"
      /\ ledger[r] = Blank /\ task[r] # "complete"
  BY Current, OpenTask DEF RunOK, LedgerOK, Select, At
<1>2. PICK surviving \in SUBSET work[r].found :
      \E dropped \in SUBSET surviving : Select(r)!2!(surviving)!(dropped)
  BY DEF Select
<1>3. PICK dropped \in SUBSET surviving : Select(r)!2!(surviving)!(dropped)
  BY <1>2
<1>4. PICK pick \in [surviving -> Scenes],
           tiles \in [dropped -> (SUBSET Scenes) \ {{}}] :
        Select(r)!2!(surviving)!(dropped)!(pick, tiles)
  BY <1>3
<1> DEFINE staged == [g \in Groups |->
             IF g \notin dropped THEN Classified(work[r], surviving, g)
             ELSE IF Chunked THEN "failed" ELSE "suppressed"]
           chosen == [g \in Groups |->
             IF g \in surviving \ dropped THEN pick[g] ELSE Nothing]
           named == [g \in Groups |->
             IF g \in dropped /\ ~Chunked THEN tiles[g] ELSE {}]
           v == WithSelection(work[r], staged, chosen, named)
<1>5. v \in WorkType /\ v.pc = "open" /\ LogOK(v) /\ SelectionOK(v)
  <2>1. surviving \subseteq Groups
    BY <1>1 DEF WorkType
  <2>2. staged \in Rows /\ \A g \in Groups : staged[g] # "ok"
    BY <1>1, <2>1, ClassifiedOK DEF Rows, Outcomes
  <2>3. chosen \in Shown /\ named \in [Groups -> SUBSET Scenes]
    BY <2>1 DEF Shown
  <2>4. ASSUME NEW g \in Groups
        PROVE  /\ chosen[g] # Nothing => staged[g] = Nothing
               /\ named[g] # {} => staged[g] = "suppressed"
    <3>1. g \in surviving \ dropped => staged[g] = Nothing
      BY <1>1, ClassifiedOK DEF LogOK
    <3>2. QED
      BY <3>1
  <2> HIDE DEF staged, chosen, named
  <2>5. QED
    BY <1>1, <2>2, <2>3, <2>4, Selected
<1>6. work' = [work EXCEPT ![r] = v]
  BY <1>4 DEF WithSelection
<1>7. UNCHANGED <<task, ledger, served, losses>>
  BY DEF Select
<1> HIDE DEF v
<1>8. RunOK(v, ledger[r], task[r])
  BY <1>1, <1>5 DEF RunOK, LedgerOK
<1>9. QED
  BY <1>5, <1>6, <1>7, <1>8, Private

LEMMA OpenStep ==
  ASSUME Accounting, NEW r \in Runs, OpenSession(r)
  PROVE  Accounting'
<1>1. /\ work[r] \in WorkType /\ LogOK(work[r]) /\ SelectionOK(work[r])
      /\ work[r].pc = "open" /\ ledger[r] = Blank /\ task[r] # "complete"
  BY Current, OpenTask DEF RunOK, LedgerOK, OpenSession, At
<1>2. PICK uncogged \in SUBSET Picked(work[r]) :
        OpenSession(r)!2!(uncogged)
  BY DEF OpenSession
<1> DEFINE named == [g \in Groups |->
             IF g \in uncogged THEN {work[r].chosen[g]} ELSE work[r].named[g]]
           chosen == [g \in Groups |->
             IF g \in uncogged THEN Nothing ELSE work[r].chosen[g]]
           v == [work[r] EXCEPT !.pc = "publish", !.uncogged = uncogged,
                      !.named = named, !.chosen = chosen, !.seen = served]
<1>3. v \in WorkType /\ v.pc = "publish" /\ LogOK(v) /\ SelectionOK(v)
  BY <1>1, Current, Opened
<1>4. work' = [work EXCEPT ![r] = v]
  BY <1>2
<1>5. UNCHANGED <<task, ledger, served, losses>>
  BY DEF OpenSession
<1> HIDE DEF v
<1>6. RunOK(v, ledger[r], task[r])
  BY <1>1, <1>3 DEF RunOK, LedgerOK
<1>7. QED
  BY <1>3, <1>4, <1>5, <1>6, Private

LEMMA PublishStep ==
  ASSUME Accounting, NEW r \in Runs, Reconcile(r) \/ ReconcileNothing(r)
  PROVE  Accounting'
<1>1. /\ work[r] \in WorkType /\ LogOK(work[r]) /\ SelectionOK(work[r])
      /\ work[r].pc = "publish" /\ ledger[r] = Blank /\ task[r] # "complete"
  BY Current, OpenTask DEF RunOK, LedgerOK, Reconcile, ReconcileNothing, At
<1> DEFINE v == [work[r] EXCEPT !.pc = "fill"]
<1>2. /\ v \in WorkType /\ v.pc = "fill" /\ LogOK(v) /\ SelectionOK(v)
      /\ Recorded(v) = Recorded(work[r]) /\ Picked(v) = Picked(work[r])
      /\ Recorded(work[r]) \in Rows
  BY <1>1, Published
<1>3. work' = [work EXCEPT ![r] = v]
  BY DEF Reconcile, ReconcileNothing, GoTo
<1> HIDE DEF v
<1>4. CASE Reconcile(r)
  <2>1. RunOK(v, Recorded(work[r]), task[r])
    BY <1>1, <1>2 DEF RunOK, LedgerOK
  <2>2. /\ ledger' = [ledger EXCEPT ![r] = Recorded(work[r])]
        /\ task' = [task EXCEPT ![r] = task[r]] /\ losses' \in 0 .. MaxLosses
    BY <1>4, Current DEF Reconcile
  <2>3. served' \in Shown
    <3>1. served' = Reconciled(work[r]) /\ served \in Shown
      BY <1>4, Current DEF Reconcile
    <3>2. \A g \in Groups : Upserted(work[r], g) \in Scenes \cup {Nothing}
      BY <1>1, <3>1 DEF Upserted, WorkType, Shown
    <3>3. \A g \in Groups : Deleted(work[r], g) \in Scenes \cup {Nothing}
      BY <3>1 DEF Deleted, Shown
    <3>4. QED
      BY <3>1, <3>2, <3>3 DEF Reconciled, Shown
  <2>4. QED
    BY <1>2, <1>3, <2>1, <2>2, <2>3, Current, Written
<1>5. CASE ReconcileNothing(r)
  <2>1. Picked(work[r]) = {}
    BY <1>5 DEF ReconcileNothing, NothingToWrite
  <2>2. RunOK(v, ledger[r], task[r])
    BY <1>1, <1>2, <2>1 DEF RunOK, LedgerOK
  <2>3. QED
    BY <1>2, <1>3, <1>5, <2>2, Private DEF ReconcileNothing
<1>6. QED
  BY <1>4, <1>5

LEMMA FillStep ==
  ASSUME Accounting, NEW r \in Runs, FillGaps(r)
  PROVE  Accounting'
<1>1. /\ work[r] \in WorkType /\ LogOK(work[r]) /\ SelectionOK(work[r])
      /\ work[r].pc = "fill" /\ task[r] # "complete"
  BY Current, OpenTask DEF RunOK, FillGaps, At
<1> DEFINE v == [work[r] EXCEPT !.pc = "finish"]
<1>2. v \in WorkType /\ v.pc = "finish" /\ LogOK(v) /\ SelectionOK(v)
  BY <1>1, Filled
<1>3. work' = [work EXCEPT ![r] = v]
  BY DEF FillGaps, GoTo
<1> HIDE DEF v
<1>4. FilledGaps(r) \in Rows /\ \A g \in Groups : FilledGaps(r)[g] # Nothing
  BY <1>1, SourceAssumption DEF FilledGaps, Rows, WorkType, Outcomes
<1>5. RunOK(v, FilledGaps(r), task[r])
  BY <1>1, <1>2, <1>4 DEF RunOK, LedgerOK
<1>6. /\ ledger' = [ledger EXCEPT ![r] = FilledGaps(r)]
      /\ task' = [task EXCEPT ![r] = task[r]]
      /\ served' \in Shown /\ losses' \in 0 .. MaxLosses
  BY Current DEF FillGaps
<1>7. QED
  BY <1>2, <1>3, <1>4, <1>5, <1>6, Current, Written

LEMMA FlushStep ==
  ASSUME Accounting, NEW r \in Runs, FlushLedger(r)
  PROVE  Accounting'
<1>1. work[r] \in WorkType /\ LogOK(work[r]) /\ task[r] # "complete"
  BY Current, OpenTask DEF RunOK, FlushLedger, At
<1> DEFINE v == [work[r] EXCEPT !.pc = "failing"]
<1>2. v \in WorkType /\ v.pc = "failing" /\ LogOK(v) /\ SelectionOK(v)
  BY <1>1, JumpOK DEF Jump
<1>3. work' = [work EXCEPT ![r] = v]
  BY DEF FlushLedger, GoTo
<1> HIDE DEF v
<1>4. work[r].staged \in Rows /\ RunOK(v, work[r].staged, task[r])
  BY <1>1, <1>2 DEF RunOK, LedgerOK, WorkType, Rows
<1>5. /\ ledger' = [ledger EXCEPT ![r] = work[r].staged]
      /\ task' = [task EXCEPT ![r] = task[r]]
      /\ served' \in Shown /\ losses' \in 0 .. MaxLosses
  BY Current DEF FlushLedger
<1>6. QED
  BY <1>2, <1>3, <1>4, <1>5, Current, Written

LEMMA RedeliverStep ==
  ASSUME Accounting, NEW r \in Runs, Redeliver(r)
  PROVE  Accounting'
<1>1. work[r] \in WorkType /\ LogOK(work[r]) /\ work[r].pc = "lost"
  BY Current DEF RunOK, Redeliver, At
<1> DEFINE v == [work[r] EXCEPT !.pc = "ready"]
<1>2. v \in WorkType /\ v.pc = "ready" /\ LogOK(v) /\ SelectionOK(v)
  BY <1>1, JumpOK DEF Jump
<1>3. work' = [work EXCEPT ![r] = v]
  BY DEF Redeliver, GoTo
<1> HIDE DEF v
<1>4. /\ Blank \in Rows /\ "queued" \in TaskStatuses
      /\ RunOK(v, Blank, "queued")
  BY <1>2 DEF RunOK, LedgerOK, Rows, Blank, TaskStatuses
<1>5. /\ ledger' = [ledger EXCEPT ![r] = Blank]
      /\ task' = [task EXCEPT ![r] = "queued"]
      /\ served' \in Shown /\ losses' \in 0 .. MaxLosses
  BY Current DEF Redeliver, SetTask, ClearedYears
<1>6. QED
  BY <1>2, <1>3, <1>4, <1>5, Written

LEMMA AccountingStep == Accounting /\ [Next]_vars => Accounting'
<1>1. SUFFICES ASSUME Accounting, [Next]_vars PROVE Accounting'
  OBVIOUS
<1>2. CASE UNCHANGED vars
  BY <1>1, <1>2
     DEF vars, Accounting, TypeOK, RunOK, LedgerOK
<1>3. ASSUME NEW r \in Runs, Run(r) \/ LoseProcess(r) PROVE Accounting'
  <2>1. CASE StartSource(r)
    <3>1. /\ Jump(work[r].pc, "search") /\ ledger[r] = Blank
          /\ "processing" \in TaskStatuses
      BY <1>1, <2>1, Current
         DEF StartSource, At, Jump, RunOK, LedgerOK, TaskStatuses
    <3>2. QED
      BY <1>1, <2>1, <3>1, JumpStep DEF StartSource
  <2>2. CASE StartRaises(r) \/ MarkFailedRaises(r)
    <3>1. task[r] # "complete" /\ UNCHANGED <<task, ledger, served, losses>>
      BY <1>1, <2>2, OpenTask DEF StartRaises, MarkFailedRaises, At
    <3>2. SetTask(r, task[r]) /\ task[r] \in TaskStatuses
      BY <1>1, <3>1, SameTask, Current
    <3>3. work' = [work EXCEPT ![r] = FreshWork("done")]
      BY <2>2 DEF StartRaises, MarkFailedRaises
    <3>4. losses' \in 0 .. MaxLosses
      BY <1>1, <3>1, Current
    <3>5. QED
      BY <1>1, <3>1, <3>2, <3>3, <3>4, EndStep
  <2>3. CASE SearchYear(r) \/ SearchedYears(r) \/ SearchWhole(r)
    BY <1>1, <2>3, SearchStep
  <2>4. CASE FlushLedger(r)
    BY <1>1, <2>4, FlushStep
  <2>5. CASE Select(r)
    BY <1>1, <2>5, SelectStep
  <2>6. CASE OpenSession(r)
    BY <1>1, <2>6, OpenStep
  <2>7. CASE Reconcile(r) \/ ReconcileNothing(r)
    BY <1>1, <2>7, PublishStep
  <2>8. CASE ReconcileConflicts(r) \/ Raise(r)
    <3>1. /\ task[r] # "complete" /\ GoTo(r, "failing")
          /\ UNCHANGED <<task, ledger, served, losses>>
      BY <1>1, <2>8, OpenTask
         DEF ReconcileConflicts, Raise, Executing, Waiting, At
    <3>2. SetTask(r, task[r]) /\ task[r] \in TaskStatuses
      BY <1>1, <3>1, SameTask, Current
    <3>3. Jump(work[r].pc, "failing")
      BY DEF Jump
    <3>4. QED
      BY <1>1, <3>1, <3>2, <3>3, JumpStep
  <2>9. CASE FillGaps(r)
    BY <1>1, <2>9, FillStep
  <2>10. CASE Complete(r)
    <3>1. \A g \in Groups : ledger[r][g] # Nothing
      BY <1>1, <2>10, Current DEF Complete, At, RunOK, LedgerOK
    <3>2. losses' \in 0 .. MaxLosses /\ "complete" \in TaskStatuses
      BY <1>1, <2>10, Current DEF Complete, TaskStatuses
    <3>3. QED
      BY <1>1, <2>10, <3>1, <3>2, EndStep DEF Complete
  <2>11. CASE MarkFailed(r)
    <3>1. losses' \in 0 .. MaxLosses /\ "failed" \in TaskStatuses
      BY <1>1, <2>11, Current DEF MarkFailed, TaskStatuses
    <3>2. QED
      BY <1>1, <2>11, <3>1, EndStep DEF MarkFailed
  <2>12. CASE Redeliver(r)
    BY <1>1, <2>12, RedeliverStep
  <2>13. CASE LoseProcess(r)
    <3>1. losses' \in 0 .. MaxLosses
      BY <1>1, <2>13, SourceAssumption, Current DEF LoseProcess
    <3>2. SetTask(r, task[r]) /\ task[r] \in TaskStatuses
      BY <1>1, <2>13, SameTask, Current DEF LoseProcess
    <3>3. task[r] = "complete" => \A g \in Groups : ledger[r][g] # Nothing
      BY <1>1, Current DEF RunOK, LedgerOK
    <3>4. QED
      BY <1>1, <2>13, <3>1, <3>2, <3>3, EndStep DEF LoseProcess
  <2>14. QED
    BY <1>3, <2>1, <2>2, <2>3, <2>4, <2>5, <2>6, <2>7, <2>8, <2>9, <2>10,
       <2>11, <2>12, <2>13 DEF Run
<1>4. QED
  BY <1>1, <1>2, <1>3 DEF Next

LEMMA AccountingHolds == Spec => []Accounting
  BY AccountingInit, AccountingStep, PTL DEF Spec

-----------------------------------------------------------------------------
(* Every reachable state is well typed.                                    *)
THEOREM SourceTyped == Spec => []TypeOK
<1>1. Accounting => TypeOK
  BY DEF Accounting
<1>2. QED
  BY <1>1, AccountingHolds, PTL

(* A source task that reads complete has a verdict for every group it      *)
(* attempted, for any number of groups, losses and overlapping runs.       *)
THEOREM CompleteHasVerdicts == Spec => []CompleteIsAccounted
<1>1. Accounting => CompleteIsAccounted
  BY Current DEF CompleteIsAccounted, RunOK, LedgerOK
<1>2. QED
  BY <1>1, AccountingHolds, PTL

(* No verdict of an attempt that died is read as one of its successor.     *)
THEOREM VerdictsAreFresh == Spec => []NoStaleVerdicts
<1>1. Accounting => NoStaleVerdicts
  BY Current DEF NoStaleVerdicts, RunOK, LedgerOK
<1>2. QED
  BY <1>1, AccountingHolds, PTL

-----------------------------------------------------------------------------
(* What one transaction may do to the served scenes.                       *)

(* Only Reconcile writes parcel_scenes.                                    *)
LEMMA OneWriter ==
  ASSUME [Next]_vars, served' # served
  PROVE  \E r \in Runs : Reconcile(r)
  BY DEF Next, Run, vars, StartSource, StartRaises, SearchYear, SearchedYears,
         SearchWhole, FlushLedger, Select, OpenSession, Reconcile,
         ReconcileNothing, ReconcileConflicts, FillGaps, Complete, Raise,
         MarkFailed, MarkFailedRaises, Redeliver, LoseProcess

(* A condemned group is recorded as suppressed by the run that condemns it.*)
LEMMA CondemnedIsSuppressed ==
  ASSUME NEW w \in WorkType, SelectionOK(w), w.pc = "publish",
         NEW g \in Condemned(w)
  PROVE  g \in Groups /\ Recorded(w)[g] = "suppressed"
<1>1. g \in Groups /\ g \notin Picked(w) /\ w.named[g] # {}
  BY DEF Condemned
<1>2. g \in w.uncogged \/ w.staged[g] = "suppressed"
  BY <1>1 DEF SelectionOK
<1>3. QED
  BY <1>1, <1>2 DEF Recorded

(* A served scene vanishes only by the hand of a run that named that very  *)
(* scene and records its group as suppressed, whether or not runs overlap. *)
THEOREM ScenesVanishByName == Spec => OnlyCondemnedVanish
<1>1. ASSUME Accounting, [Next]_vars, NEW g \in Groups,
             served[g] # Nothing, served'[g] = Nothing
      PROVE  \E r \in Runs : /\ served[g] \in work[r].named[g]
                             /\ ledger'[r][g] = "suppressed"
  <2>1. PICK r \in Runs : Reconcile(r)
    BY <1>1, OneWriter
  <2>2. /\ work[r] \in WorkType /\ SelectionOK(work[r])
        /\ work[r].pc = "publish"
    BY <1>1, <2>1, Current DEF RunOK, Reconcile, At
  <2>3. served'[g] = Reconciled(work[r])[g]
    BY <2>1 DEF Reconcile
  <2>4. g \notin Picked(work[r])
    <3>1. SUFFICES ASSUME g \in Picked(work[r]) PROVE FALSE
      OBVIOUS
    <3>2. served'[g] = Upserted(work[r], g) /\ work[r].chosen[g] # Nothing
      BY <2>3, <3>1 DEF Reconciled, Picked
    <3>3. QED
      BY <1>1, <3>2 DEF Upserted
  <2>5. /\ g \in Condemned(work[r])
        /\ served[g] = work[r].seen[g]
    BY <1>1, <2>3, <2>4 DEF Reconciled, Deleted
  <2>6. ledger'[r] = Recorded(work[r])
    BY <1>1, <2>1 DEF Reconcile, Accounting, TypeOK
  <2>7. QED
    BY <2>2, <2>5, <2>6, CondemnedIsSuppressed DEF Condemned
<1>2. Accounting /\ [Next]_vars =>
        [\A g \in Groups : served[g] # Nothing /\ served'[g] = Nothing =>
           \E r \in Runs : /\ served[g] \in work[r].named[g]
                           /\ ledger'[r][g] = "suppressed"]_vars
  BY <1>1
<1>3. QED
  BY <1>2, AccountingHolds, PTL DEF Spec, OnlyCondemnedVanish

-----------------------------------------------------------------------------
(***************************************************************************)
(* Refinement.  While runs do not overlap, what a run read is what it      *)
(* writes over, and every transaction is a step of ServedTimeline.         *)
(***************************************************************************)

Alone ==
  /\ \A q, r \in Runs : Executing(q) /\ Executing(r) => q = r
  /\ \A r \in Runs : At(r, "publish") => work[r].seen = served

LEMMA AloneInit == Init => Alone
  BY DEF Init, Alone, Executing, Waiting, At, FreshWork

(* How a step of run r moves it among waiting and executing.               *)
LEMMA Moves ==
  ASSUME Accounting, NEW r \in Runs, Run(r) \/ LoseProcess(r)
  PROVE  /\ \A q \in Runs \ {r} : work'[q] = work[q]
         /\ Executing(r)' => Executing(r) \/ StartSource(r)
         /\ At(r, "publish")' => OpenSession(r)
<1>1. work \in [Runs -> WorkType]
  BY DEF Accounting, TypeOK
<1>2. ASSUME NEW w, work' = [work EXCEPT ![r] = w]
      PROVE  work'[r] = w /\ \A q \in Runs \ {r} : work'[q] = work[q]
  BY <1>1, <1>2
<1>3. ASSUME NEW pc, GoTo(r, pc)
      PROVE  /\ work'[r].pc = pc
             /\ \A q \in Runs \ {r} : work'[q] = work[q]
  BY <1>1, <1>3 DEF GoTo, WorkType
<1>4. CASE \/ StartRaises(r) \/ Complete(r) \/ MarkFailed(r)
           \/ MarkFailedRaises(r) \/ LoseProcess(r)
  BY <1>2, <1>4
     DEF StartRaises, Complete, MarkFailed, MarkFailedRaises, LoseProcess,
         FreshWork, Executing, Waiting, At
<1>5. CASE StartSource(r)
  BY <1>3, <1>5 DEF StartSource, At
<1>6. CASE SearchedYears(r) \/ FlushLedger(r)
  BY <1>3, <1>6 DEF SearchedYears, FlushLedger, At, Executing, Waiting
<1>7. CASE \/ Reconcile(r) \/ ReconcileNothing(r) \/ ReconcileConflicts(r)
           \/ FillGaps(r) \/ Raise(r)
  BY <1>3, <1>7
     DEF Reconcile, ReconcileNothing, ReconcileConflicts, FillGaps, Raise, At,
         Executing, Waiting
<1>8. CASE Redeliver(r)
  BY <1>3, <1>8 DEF Redeliver, At, Executing, Waiting
<1>9. CASE SearchYear(r)
  <2>1. Executing(r) /\ work[r].pc = "search" /\ work[r] \in WorkType
    BY <1>1, <1>9 DEF SearchYear, At, Executing, Waiting
  <2>2. PICK w : work' = [work EXCEPT ![r] = w] /\ w.pc = "search"
    <3>1. ASSUME NEW outcome,
                 work' = [work EXCEPT ![r].year = work[r].year + 1,
                                      ![r].staged[work[r].year] = outcome]
          PROVE  \E w : work' = [work EXCEPT ![r] = w] /\ w.pc = "search"
      <4> WITNESS [work[r] EXCEPT !.year = work[r].year + 1,
                                  !.staged[work[r].year] = outcome]
      <4>1. QED
        BY <2>1, <3>1 DEF WorkType
    <3>2. ASSUME work' = [work EXCEPT ![r].year = work[r].year + 1,
                            ![r].found = work[r].found \cup {work[r].year}]
          PROVE  \E w : work' = [work EXCEPT ![r] = w] /\ w.pc = "search"
      <4> WITNESS [work[r] EXCEPT !.year = work[r].year + 1,
                     !.found = work[r].found \cup {work[r].year}]
      <4>1. QED
        BY <2>1, <3>2 DEF WorkType
    <3>3. QED
      BY <1>9, <3>1, <3>2 DEF SearchYear
  <2>3. QED
    BY <1>2, <2>1, <2>2 DEF At
<1>10. CASE SearchWhole(r)
  <2>1. Executing(r) /\ work[r] \in WorkType
    BY <1>1, <1>10 DEF SearchWhole, At, Executing, Waiting
  <2>2. PICK w : work' = [work EXCEPT ![r] = w] /\ w.pc \in {"flush", "select"}
    <3>1. ASSUME work' = [work EXCEPT ![r].pc = "flush",
                            ![r].staged = [g \in Groups |-> "failed"]]
          PROVE  \E w : /\ work' = [work EXCEPT ![r] = w]
                        /\ w.pc \in {"flush", "select"}
      <4> WITNESS [work[r] EXCEPT !.pc = "flush",
                     !.staged = [g \in Groups |-> "failed"]]
      <4>1. QED
        BY <2>1, <3>1 DEF WorkType
    <3>2. ASSUME NEW found, NEW truncated,
                 work' = [work EXCEPT ![r].pc = "select", ![r].found = found,
                                      ![r].truncated = truncated]
          PROVE  \E w : /\ work' = [work EXCEPT ![r] = w]
                        /\ w.pc \in {"flush", "select"}
      <4> WITNESS [work[r] EXCEPT !.pc = "select", !.found = found,
                                  !.truncated = truncated]
      <4>1. QED
        BY <2>1, <3>2 DEF WorkType
    <3>3. QED
      BY <1>10, <3>1, <3>2 DEF SearchWhole
  <2>3. QED
    BY <1>2, <2>1, <2>2 DEF At
<1>11. CASE Select(r)
  <2>1. Executing(r) /\ work[r] \in WorkType
    BY <1>1, <1>11 DEF Select, At, Executing, Waiting
  <2>2. PICK w : work' = [work EXCEPT ![r] = w] /\ w.pc = "open"
    <3>1. ASSUME NEW staged, NEW chosen, NEW named,
                 work' = [work EXCEPT ![r].pc = "open",
                            ![r].staged = staged, ![r].chosen = chosen,
                            ![r].named = named]
          PROVE  \E w : work' = [work EXCEPT ![r] = w] /\ w.pc = "open"
      <4> WITNESS [work[r] EXCEPT !.pc = "open", !.staged = staged,
                                  !.chosen = chosen, !.named = named]
      <4>1. QED
        BY <2>1, <3>1 DEF WorkType
    <3>2. QED
      BY <1>11, <3>1 DEF Select
  <2>3. QED
    BY <1>2, <2>1, <2>2 DEF At
<1>12. CASE OpenSession(r)
  <2>1. Executing(r)
    BY <1>12 DEF OpenSession, At, Executing, Waiting
  <2>2. \A q \in Runs \ {r} : work'[q] = work[q]
    BY <1>1, <1>12 DEF OpenSession
  <2>3. QED
    BY <1>12, <2>1, <2>2
<1>13. QED
  BY <1>4, <1>5, <1>6, <1>7, <1>8, <1>9, <1>10, <1>11, <1>12 DEF Run

LEMMA AloneStep ==
  ASSUME ~Overlap, Accounting, Alone, [Next]_vars
  PROVE  Alone'
<1>1. CASE UNCHANGED vars
  BY <1>1 DEF vars, Alone, Executing, At
<1>2. ASSUME NEW r \in Runs, Run(r) \/ LoseProcess(r)
      PROVE  Alone'
  <2>1. /\ \A q \in Runs \ {r} : work'[q] = work[q]
        /\ Executing(r)' => Executing(r) \/ StartSource(r)
        /\ At(r, "publish")' => OpenSession(r)
    BY <1>2, Moves
  <2>2. ASSUME NEW p \in Runs, NEW q \in Runs, Executing(p)', Executing(q)'
        PROVE  p = q
    <3>1. CASE StartSource(r)
      BY <2>1, <2>2, <3>1 DEF StartSource, Executing
    <3>2. CASE ~StartSource(r)
      BY <2>1, <2>2, <3>2 DEF Alone, Executing
    <3>3. QED
      BY <3>1, <3>2
  <2>3. ASSUME NEW q \in Runs, At(q, "publish")'
        PROVE  work'[q].seen = served'
    <3>1. CASE q = r
      <4>1. OpenSession(r) /\ work \in [Runs -> WorkType]
        BY <2>1, <2>3, <3>1 DEF Accounting, TypeOK
      <4>2. work[r] \in WorkType /\ served' = served
        BY <4>1 DEF OpenSession
      <4>3. PICK uncogged \in SUBSET Picked(work[r]) :
              OpenSession(r)!2!(uncogged)
        BY <4>1 DEF OpenSession
      <4>4. work'[r].seen = served
        <5> DEFINE v == [work[r] EXCEPT
              !.pc = "publish", !.uncogged = uncogged,
              !.named = [g \in Groups |->
                IF g \in uncogged THEN {work[r].chosen[g]} ELSE @[g]],
              !.chosen = [g \in Groups |->
                IF g \in uncogged THEN Nothing ELSE @[g]],
              !.seen = served]
        <5>1. work' = [work EXCEPT ![r] = v]
          BY <4>3
        <5>2. v.seen = served
          BY <4>2 DEF WorkType
        <5> HIDE DEF v
        <5>3. QED
          BY <4>1, <5>1, <5>2
      <4>5. QED
        BY <3>1, <4>2, <4>4
    <3>2. CASE q # r
      <4>1. work'[q] = work[q] /\ At(q, "publish") /\ work[q].seen = served
        BY <2>1, <2>3, <3>2 DEF Alone, At
      <4>2. ASSUME NEW s \in Runs, Reconcile(s) PROVE FALSE
        <5>1. Executing(s) /\ Executing(q)
          BY <4>1, <4>2 DEF Reconcile, At, Executing, Waiting
        <5>2. s = q
          BY <5>1 DEF Alone
        <5>3. At(s, "publish")' => OpenSession(s)
          BY <4>2, Moves DEF Run
        <5>4. QED
          BY <2>3, <4>2, <5>2, <5>3 DEF At, Reconcile, OpenSession
      <4>3. served' = served
        BY <4>2, OneWriter
      <4>4. QED
        BY <4>1, <4>3
    <3>3. QED
      BY <3>1, <3>2
  <2>4. QED
    BY <2>2, <2>3 DEF Alone
<1>3. QED
  BY <1>1, <1>2 DEF Next

(* The two modules speak of the same ledgers.                              *)
LEMMA SameRows ==
  /\ Promise!Verdicts = Rows /\ Promise!Blank = Blank
  BY DEF Promise!Verdicts, Promise!Outcomes, Promise!Blank, Rows, Outcomes,
         Blank

LEMMA ReconcilePublishes ==
  ASSUME Accounting, Alone, NEW r \in Runs, Reconcile(r)
  PROVE  Promise!Publish(r)
<1>1. /\ work[r] \in WorkType /\ LogOK(work[r]) /\ SelectionOK(work[r])
      /\ work[r].pc = "publish" /\ work[r].seen = served
      /\ served \in Shown
  BY Current DEF RunOK, Reconcile, At, Alone
<1>2. Recorded(work[r]) \in Rows
  BY <1>1, Published
<1>3. /\ served' = Reconciled(work[r])
      /\ ledger' = [ledger EXCEPT ![r] = Recorded(work[r])]
  BY DEF Reconcile
<1>4. ASSUME NEW g \in Groups
      PROVE  /\ Recorded(work[r])[g] = "ok" => served'[g] \in Scenes
             /\ Recorded(work[r])[g] = "suppressed" =>
                  served'[g] \in {served[g], Nothing}
             /\ Recorded(work[r])[g] \notin {"ok", "suppressed"} =>
                  served'[g] = served[g]
  <2>1. CASE g \in Picked(work[r])
    <3>1. work[r].chosen[g] \in Scenes /\ Recorded(work[r])[g] = "ok"
      BY <1>1, <2>1 DEF Picked, WorkType, Recorded
    <3>2. served'[g] = work[r].chosen[g]
      BY <1>1, <1>3, <2>1 DEF Reconciled, Upserted
    <3>3. QED
      BY <3>1, <3>2
  <2>2. CASE g \notin Picked(work[r]) /\ g \in Condemned(work[r])
    <3>1. Recorded(work[r])[g] = "suppressed"
      BY <1>1, <2>2, CondemnedIsSuppressed
    <3>2. served'[g] \in {served[g], Nothing}
      BY <1>3, <2>2 DEF Reconciled, Deleted
    <3>3. QED
      BY <3>1, <3>2
  <2>3. CASE g \notin Picked(work[r]) /\ g \notin Condemned(work[r])
    <3>1. served'[g] = served[g]
      BY <1>3, <2>3 DEF Reconciled
    <3>2. Recorded(work[r])[g] # "ok"
      BY <1>1, <2>3 DEF Recorded, LogOK
    <3>3. QED
      BY <3>1, <3>2
  <2>4. QED
    BY <2>1, <2>2, <2>3
<1>5. \A g \in Groups : Promise!Justified(g, Recorded(work[r])[g])
  BY <1>4 DEF Promise!Justified
<1>6. served' \in Shown
  BY AccountingStep, Current DEF Accounting, TypeOK, Shown, Next, Run
<1>7. QED
  BY <1>2, <1>3, <1>5, <1>6, SameRows DEF Promise!Publish, Shown

LEMMA OtherStepsRestate ==
  ASSUME Accounting, [Next]_vars, \A r \in Runs : ~Reconcile(r)
  PROVE  \/ UNCHANGED <<served, ledger>>
         \/ \E r \in Runs : Promise!Restate(r) \/ Promise!Forget(r)
<1>1. served' = served
  BY OneWriter
<1>2. ASSUME NEW r \in Runs, FlushLedger(r)
      PROVE  Promise!Restate(r)
  <2>1. /\ work[r].staged \in Rows /\ ledger[r] = Blank
        /\ \A g \in Groups : work[r].staged[g] # "ok"
    BY <1>2, Current DEF FlushLedger, At, RunOK, LedgerOK, LogOK, WorkType, Rows
  <2>2. \A g \in Groups : ledger[r][g] # "ok"
    BY <2>1, SourceAssumption DEF Blank, Outcomes
  <2>3. QED
    BY <1>1, <1>2, <2>1, <2>2, SameRows DEF FlushLedger, Promise!Restate
<1>3. ASSUME NEW r \in Runs, FillGaps(r)
      PROVE  Promise!Restate(r)
  <2>1. /\ work[r] \in WorkType /\ LogOK(work[r]) /\ SelectionOK(work[r])
        /\ work[r].pc = "fill"
        /\ \/ ledger[r] = Recorded(work[r])
           \/ ledger[r] = Blank /\ Picked(work[r]) = {}
    BY <1>3, Current DEF FillGaps, At, RunOK, LedgerOK
  <2>2. FilledGaps(r) \in Rows
    BY <2>1 DEF FilledGaps, Rows, WorkType, Outcomes
  <2>3. \A g \in Groups : FilledGaps(r)[g] = "ok" <=> g \in Picked(work[r])
    BY <2>1 DEF FilledGaps, LogOK
  <2>4. \A g \in Groups : ledger[r][g] = "ok" <=> g \in Picked(work[r])
    BY <2>1, SourceAssumption DEF Recorded, LogOK, Blank, Outcomes
  <2>5. QED
    BY <1>1, <1>3, <2>2, <2>3, <2>4, SameRows DEF FillGaps, Promise!Restate
<1>4. ASSUME NEW r \in Runs, Redeliver(r)
      PROVE  Promise!Forget(r)
  BY <1>1, <1>4, SameRows DEF Redeliver, ClearedYears, Promise!Forget
<1>5. ASSUME \A r \in Runs : ~FlushLedger(r) /\ ~FillGaps(r) /\ ~Redeliver(r)
      PROVE  ledger' = ledger
  BY <1>5
     DEF Next, Run, vars, StartSource, StartRaises, SearchYear, SearchedYears,
         SearchWhole, Select, OpenSession, ReconcileNothing,
         ReconcileConflicts, Complete, Raise, MarkFailed, MarkFailedRaises,
         LoseProcess
<1>6. QED
  BY <1>1, <1>2, <1>3, <1>4, <1>5

(* While runs do not overlap, the source run implements ServedTimeline:    *)
(* scenes and verdicts change together, through any failure, crash and     *)
(* redelivery.                                                             *)
THEOREM RunKeepsPromise ==
  ASSUME ~Overlap
  PROVE  Spec => KeepsPromise
<1>1. Init => Promise!Init
  BY SameRows DEF Init, Promise!Init
<1>2. Accounting /\ Alone /\ [Next]_vars =>
        [Promise!Next]_<<served, ledger>>
  BY ReconcilePublishes, OtherStepsRestate DEF Promise!Next
<1>3. Accounting /\ Alone /\ [Next]_vars => Alone'
  BY AloneStep
<1>4. QED
  BY <1>1, <1>2, <1>3, AloneInit, AccountingInit, AccountingStep, PTL
     DEF Spec, KeepsPromise, Promise!Spec

=============================================================================
