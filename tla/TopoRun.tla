------------------------------- MODULE TopoRun -------------------------------
(***************************************************************************)
(* The topographic-map task: one untimed query, capped, of which the best  *)
(* sheet of each decade is served.  The query's own outcome goes under the *)
(* whole-source key, and only when it is bad: the decades have rows when   *)
(* the response held them.                                                 *)
(***************************************************************************)
EXTENDS Naturals, Sequences, FiniteSets

CONSTANTS
  Catalogues, (* what the service may hold: sets of sheets                *)
  MaxItems,   (* max_items: the cap of a response                         *)
  MaxTopoRuns (* bound: deliveries                                        *)

(* A sheet: publication year (0 if unreadable), extent rank, whether it    *)
(* has a GeoTIFF, and its source id (0 if missing).                        *)
Unrecorded == "unrecorded"
NotServed == 0
WHOLE == 0  (* the key "*"; no decade is 0 *)
DecadeOf(sheet) == sheet.year \div 10

(* The year is read from the publication date as four digits, the rank of  *)
(* an extent is an index, and an id that is missing is 0.                  *)
ASSUME CatalogueAssumption ==
  \A sheets \in Catalogues : \A s \in sheets :
    /\ s \in [id : Nat, year : Nat, extent : Nat, geotiff : BOOLEAN]
    /\ s.year # 0 => s.year >= 10
ASSUME TopoBound == MaxItems \in Nat /\ MaxTopoRuns \in Nat \ {0}

VARIABLES
  catalogue,  (* what the service holds now                               *)
  topoTask,   (* status of the task row of the latest request             *)
  topoLedger, (* its committed rows: key -> outcome                       *)
  served,     (* served[d]: source id of the served sheet of decade d     *)
  fetch,      (* the coroutine: the answer it works on                    *)
  answered,   (* history: the answer of the run that committed last       *)
  topoRuns

topoVars == <<catalogue, topoTask, topoLedger, served, fetch, answered, topoRuns>>

Sheets == UNION Catalogues
Decades == {DecadeOf(s) : s \in Sheets} \ {0}
Keys == Decades \cup {WHOLE}
NoSheets == [sheets |-> {}, truncated |-> FALSE]
TopoIdle == [pc |-> "idle", answer |-> NoSheets]
Unsearched == [k \in Keys |-> Unrecorded]

TopoTypeOK ==
  /\ catalogue \in Catalogues
  /\ topoTask \in {"queued", "processing", "complete", "failed"}
  /\ topoLedger \in [Keys -> {"ok", "failed", "absent", "indeterminate",
                          "suppressed", Unrecorded}]
  /\ served \in [Decades -> {NotServed} \cup {s.id : s \in Sheets}]
  /\ fetch.pc \in {"idle", "start", "search", "save", "finish", "failing", "lost"}
  /\ fetch.answer.sheets \subseteq Sheets
  /\ topoRuns \in 1 .. MaxTopoRuns

TopoInit ==
  /\ catalogue \in Catalogues
  /\ topoTask = "queued"
  /\ topoLedger = Unsearched
  /\ served = [d \in Decades |-> NotServed]
  /\ fetch = [TopoIdle EXCEPT !.pc = "start"]
  /\ answered = NoSheets
  /\ topoRuns = 1

Move(pc) == fetch' = [fetch EXCEPT !.pc = pc]

StartTopo ==
  /\ fetch.pc = "start"
  /\ topoTask' = "processing"
  /\ Move("search")
  /\ UNCHANGED <<catalogue, topoLedger, served, answered, topoRuns>>

(* A status, a transport failure or a body that is not JSON is flushed     *)
(* before it is raised.                                                    *)
SearchFails ==
  /\ fetch.pc = "search"
  /\ topoLedger' = [topoLedger EXCEPT ![WHOLE] = "failed"]
  /\ Move("failing")
  /\ UNCHANGED <<catalogue, topoTask, served, answered, topoRuns>>

(* Mutant: the cap is judged after the filter.                             *)
TruncatedLate(items) == Cardinality({s \in items : s.geotiff}) >= MaxItems
Truncated(items) == Cardinality(items) >= MaxItems

(* The order of a response is unspecified: any MaxItems of the catalogue.  *)
SearchAnswers ==
  /\ fetch.pc = "search"
  /\ \E items \in SUBSET catalogue :
       /\ items = catalogue \/ Cardinality(items) = MaxItems
       /\ Cardinality(items) <= MaxItems
       /\ fetch' = [pc |-> "save",
                   answer |-> [sheets |-> {s \in items : s.geotiff},
                               truncated |-> Truncated(items)]]
  /\ UNCHANGED <<catalogue, topoTask, topoLedger, served, answered, topoRuns>>

-----------------------------------------------------------------------------
(* Mutant: a newer sheet wins over an older one of the same extent.        *)
Newer(s, t) == s.extent < t.extent \/ (s.extent = t.extent /\ s.year > t.year)
Better(s, t) == s.extent < t.extent \/ (s.extent = t.extent /\ s.year < t.year)

(* A sheet of each decade; among equals, the first of the response.        *)
Dated(sheets) == {s \in sheets : s.year # 0}
Best(sheets, d) ==
  {s \in Dated(sheets) : DecadeOf(s) = d /\
     \A t \in Dated(sheets) : DecadeOf(t) = d => ~Better(t, s)}
Selections(sheets) ==
  {picks \in SUBSET Dated(sheets) :
     \A d \in Decades :
       Cardinality(picks \cap Best(sheets, d))
         = (IF Best(sheets, d) = {} THEN 0 ELSE 1)
       /\ {s \in picks : DecadeOf(s) = d} \subseteq Best(sheets, d)}

(* Mutant: an empty page is the absence of maps, also when it was cut.     *)
AbsentFirst(answer) ==
  IF answer.sheets = {} THEN "absent"
  ELSE IF answer.truncated THEN "indeterminate" ELSE Unrecorded
WholeOutcome(answer) ==
  IF answer.truncated THEN "indeterminate"
  ELSE IF answer.sheets = {} THEN "absent" ELSE Unrecorded

(* Mutant: every selected decade is ok, the one without an id too.         *)
AlwaysOk(s) == "ok"
(* A sheet without an id would overwrite every other one: it is dropped.   *)
SheetOutcome(s) == IF s.id = 0 THEN "suppressed" ELSE "ok"

Rows(answer, picks) ==
  [k \in Keys |->
     IF k = WHOLE THEN
       IF WholeOutcome(answer) = Unrecorded THEN topoLedger[k] ELSE WholeOutcome(answer)
     ELSE IF \E s \in picks : DecadeOf(s) = k
          THEN SheetOutcome(CHOOSE s \in picks : DecadeOf(s) = k)
          ELSE topoLedger[k]]

(* reconcile_source_snapshots by decade: what the run kept replaces what   *)
(* its decade served; nothing is deleted.                                  *)
Reconciled(picks) ==
  [d \in Decades |->
     IF \E s \in picks : DecadeOf(s) = d /\ s.id # 0
     THEN (CHOOSE s \in picks : DecadeOf(s) = d).id
     ELSE served[d]]

(* Rows and sheets commit together.                                        *)
Save ==
  /\ fetch.pc = "save"
  /\ \E picks \in Selections(fetch.answer.sheets) :
       /\ topoLedger' = Rows(fetch.answer, picks)
       /\ served' = Reconciled(picks)
  /\ answered' = fetch.answer
  /\ Move("finish")
  /\ UNCHANGED <<catalogue, topoTask, topoRuns>>

FinishTopo ==
  /\ fetch.pc = "finish"
  /\ topoTask' = "complete"
  /\ fetch' = TopoIdle
  /\ UNCHANGED <<catalogue, topoLedger, served, answered, topoRuns>>

TopoRaises ==
  /\ fetch.pc \in {"save", "finish"}
  /\ Move("failing")
  /\ UNCHANGED <<catalogue, topoTask, topoLedger, served, answered, topoRuns>>

TopoMarkFailed ==
  /\ fetch.pc = "failing"
  /\ topoTask' = "failed"
  /\ fetch' = TopoIdle
  /\ UNCHANGED <<catalogue, topoLedger, served, answered, topoRuns>>

LoseTopoRun ==
  /\ fetch.pc \notin {"idle", "lost", "start"}
  /\ fetch' = [TopoIdle EXCEPT !.pc = "lost"]
  /\ UNCHANGED <<catalogue, topoTask, topoLedger, served, answered, topoRuns>>

(* Redelivery, or the task of another request: the rows start blank.       *)
Again ==
  /\ fetch.pc \in {"lost", "idle"}
  /\ topoRuns < MaxTopoRuns /\ topoRuns' = topoRuns + 1
  /\ catalogue' \in (IF fetch.pc = "lost" THEN {catalogue} ELSE Catalogues)
  /\ topoTask' = "queued"
  /\ topoLedger' = Unsearched
  /\ fetch' = [TopoIdle EXCEPT !.pc = "start"]
  /\ UNCHANGED <<served, answered>>

TopoNext ==
  \/ StartTopo \/ SearchFails \/ SearchAnswers \/ Save \/ FinishTopo
  \/ TopoRaises \/ TopoMarkFailed \/ LoseTopoRun \/ Again

TopoSpec == TopoInit /\ [][TopoNext]_topoVars

-----------------------------------------------------------------------------
(* A decade recorded ok serves a sheet of its own, and of what the run was *)
(* answered no sheet of that decade is finer, nor as fine and older.       *)
OkDecadeShowsItsBest ==
  \A d \in Decades : topoLedger[d] = "ok" =>
    \E s \in answered.sheets :
      /\ s.id # 0 /\ s.id = served[d] /\ DecadeOf(s) = d
      /\ \A t \in answered.sheets : t.year # 0 /\ DecadeOf(t) = d =>
           s.extent < t.extent \/ (s.extent = t.extent /\ s.year <= t.year)

(* A gap is never silent: when a complete run has no row for a decade of   *)
(* which the service held a sheet with a GeoTIFF, the whole source is      *)
(* recorded indeterminate.                                                 *)
GapsAreIndeterminate ==
  (topoTask = "complete" /\ fetch.pc = "idle") =>
    \A s \in catalogue :
      s.geotiff /\ s.year # 0 /\ topoLedger[DecadeOf(s)] = Unrecorded =>
        topoLedger[WHOLE] = "indeterminate"

(* "No maps" is the service's answer: it is recorded only when the service *)
(* had nothing with a GeoTIFF.                                             *)
AbsentMeansNone ==
  (topoLedger[WHOLE] = "absent" /\ fetch.pc # "lost") =>
     \A s \in catalogue : ~s.geotiff

(* Topographic maps (timeline.py, _search_and_persist_topo): an ok decade  *)
(* serves its best sheet, a gap is never silent, and "no maps" is the      *)
(* service's answer.                                                       *)
TopoVerdictsAreHonest ==
  OkDecadeShowsItsBest /\ GapsAreIndeterminate /\ AbsentMeansNone

=============================================================================
