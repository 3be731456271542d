------------------------------ MODULE CensusRun ------------------------------
(***************************************************************************)
(* The census task of a parcel: for every decennial year, then for every   *)
(* ACS year, resolve the tract the parcel lay in under that year's         *)
(* geography, ask the Census API about it, and either commit the snapshot  *)
(* together with its `ok' row or stage why there is none.  What is staged  *)
(* is flushed when the loop ends, also when it ends by raising.  The       *)
(* process may be lost between two steps and the message redelivered.      *)
(*                                                                         *)
(* The world is constant: which tract holds the parcel in which geography, *)
(* and what the API publishes.  Every call to it may fail.                 *)
(***************************************************************************)
EXTENDS Naturals, Sequences, FiniteSets

CONSTANTS
  Decennial,    (* DECENNIAL_YEARS, in order                              *)
  ACS5,         (* ACS5_YEARS, in order                                   *)
  Vintage,      (* _GEOGRAPHY_VINTAGES: year -> vintage, or NoVintage     *)
  NoVintage,
  Stored,       (* the tract on the parcel's row                          *)
  TractIn,      (* vintage -> the tract the geocoder knows, or NoTract    *)
  NoTract,
  Trimmed,      (* years addressing a suffixless tract by four characters *)
  Suffixless,   (* tracts whose suffix is empty                           *)
  Published,    (* year -> tracts the API has data for                    *)
  MaxLosses     (* bound: processes lost                                  *)

Schedule == Decennial \o ACS5
Years == {Schedule[i] : i \in DOMAIN Schedule}

(* One ledger row per (task, year): the two lists may not share a year.    *)
ASSUME ScheduleAssumption ==
  /\ Schedule \in Seq(Years)
  /\ Cardinality(Years) = Len(Schedule) /\ Len(Schedule) > 0
ASSUME CensusBound == MaxLosses \in Nat

Nothing == "nothing"
NoRow == [label |-> NoTract, numbers |-> NoTract]

VARIABLES
  task,    (* status of the census task row                              *)
  ledger,  (* ledger[y]: committed outcome                               *)
  rows,    (* rows[y]: census_snapshots row: its tract label, and the    *)
           (* tract its numbers are of                                   *)
  work,    (* the coroutine                                              *)
  losses

vars == <<task, ledger, rows, work, losses>>

Blank == [y \in Years |-> Nothing]
Vintages == {Vintage[y] : y \in Years} \ {NoVintage}

FreshWork(pc) ==
  [pc |-> pc, at |-> 1, tract |-> NoTract, staged |-> Blank, failed |-> 0,
   resolved |-> [v \in Vintages |-> NoTract]]

Tracts == {Stored, NoTract} \cup {TractIn[v] : v \in Vintages}
Outcomes == {"ok", "failed", "absent"}
Pcs == {"ready", "resolve", "fetch", "flush", "raised", "finish", "failing",
        "done", "lost"}

TypeOK ==
  /\ task \in {"queued", "processing", "complete", "failed", "skipped"}
  /\ ledger \in [Years -> Outcomes \cup {Nothing}]
  /\ rows \in [Years -> [label : Tracts, numbers : Tracts]]
  /\ work \in [pc : Pcs, at : 1 .. Len(Schedule) + 1, tract : Tracts,
               staged : [Years -> Outcomes \cup {Nothing}],
               failed : 0 .. Len(Schedule), resolved : [Vintages -> Tracts]]
  /\ losses \in 0 .. MaxLosses

(* A row may stand from a run that knew only the stored tract.             *)
Init ==
  /\ task = "queued"
  /\ ledger = Blank
  /\ rows \in [Years -> {NoRow, [label |-> Stored, numbers |-> Stored]}]
  /\ work = FreshWork("ready")
  /\ losses = 0

At(pc) == work.pc = pc
Year == Schedule[work.at]

(* parse_tract_fips refuses a malformed tract before anything is asked.    *)
Skip ==
  /\ At("ready")
  /\ task' = "skipped"
  /\ work' = FreshWork("done")
  /\ UNCHANGED <<ledger, rows, losses>>

(* Without an API key the client cannot be built: nothing is recorded.     *)
Start ==
  /\ At("ready")
  /\ task' = "processing"
  /\ \E pc \in {"resolve", "failing"} : work' = FreshWork(pc)
  /\ UNCHANGED <<ledger, rows, losses>>

-----------------------------------------------------------------------------
(* The next year of the loop, or its end.                                  *)
Following(w) ==
  [w EXCEPT !.at = @ + 1, !.tract = NoTract,
            !.pc = IF w.at = Len(Schedule) THEN "flush" ELSE "resolve"]
Stage(w, outcome) == [w EXCEPT !.staged[Year] = outcome]
(* Mutant: a geocoder failure is counted by the year and by the run.       *)
StageFailureTwice(w) == [Stage(w, "failed") EXCEPT !.failed = @ + 2]
StageFailure(w) == [Stage(w, "failed") EXCEPT !.failed = @ + 1]

(* A vintage without a tract there falls back to the stored one.           *)
Resolved(v) == IF TractIn[v] = NoTract THEN Stored ELSE TractIn[v]

(* tract_for: no vintage needs no lookup, a resolved one is remembered.    *)
NeedsLookup(y) == Vintage[y] # NoVintage /\ work.resolved[Vintage[y]] = NoTract

UseKnownTract ==
  /\ At("resolve") /\ ~NeedsLookup(Year)
  /\ work' = [work EXCEPT !.pc = "fetch", !.tract =
                IF Vintage[Year] = NoVintage THEN Stored
                ELSE work.resolved[Vintage[Year]]]
  /\ UNCHANGED <<task, ledger, rows, losses>>

LookUpTract ==
  /\ At("resolve") /\ NeedsLookup(Year)
  /\ LET tract == Resolved(Vintage[Year])
     IN  work' = [work EXCEPT !.pc = "fetch", !.tract = tract,
                              !.resolved[Vintage[Year]] = tract]
  /\ UNCHANGED <<task, ledger, rows, losses>>

(* Mutant: a geocoder outage falls back to the stored tract.               *)
AfterOutageStored == [work EXCEPT !.pc = "fetch", !.tract = Stored]
AfterOutage == Following(StageFailure(work))

(* The geocoder is down: the year fails, nothing is asked about it.        *)
LookUpFails ==
  /\ At("resolve") /\ NeedsLookup(Year)
  /\ work' = AfterOutage
  /\ UNCHANGED <<task, ledger, rows, losses>>

-----------------------------------------------------------------------------
(* How a tract is named to the dataset of a year, and how the dataset      *)
(* names it: a number of characters.                                       *)
(* Mutant: every dataset is asked by six characters.                       *)
SixCharacters(y, t) == 6
TractForDataset(y, t) == IF y \in Trimmed /\ t \in Suffixless THEN 4 ELSE 6
AddressedBy(y, t) == IF y \in Trimmed /\ t \in Suffixless THEN 4 ELSE 6

Answers(y, t) == t \in Published[y] /\ TractForDataset(y, t) = AddressedBy(y, t)

(* The conflict target is (parcel, dataset, year): a refreshed row is      *)
(* relabelled with the tract its numbers are of.                           *)
(* Mutant: the conflict refreshes the numbers and keeps the label.         *)
KeptLabel(y, t) ==
  [label |-> IF rows[y] = NoRow THEN t ELSE rows[y].label, numbers |-> t]
Upserted(y, t) == [label |-> t, numbers |-> t]

(* Data: the `ok' row and the snapshot commit together.                    *)
FetchData ==
  /\ At("fetch")
  /\ Answers(Year, work.tract)
  /\ rows' = [rows EXCEPT ![Year] = Upserted(Year, work.tract)]
  /\ ledger' = [ledger EXCEPT ![Year] = "ok"]
  /\ work' = Following(work)
  /\ UNCHANGED <<task, losses>>

(* A 204, or every variable dropped as unknown to the vintage.             *)
FetchNothing ==
  /\ At("fetch")
  /\ ~Answers(Year, work.tract)
  /\ work' = Following(Stage(work, "absent"))
  /\ UNCHANGED <<task, ledger, rows, losses>>

(* Mutant: an endpoint that errors reads as a tract without data.          *)
AfterErrorAbsent == Stage(work, "absent")
AfterError == StageFailure(work)

(* A status, a transport error after the retries, or a body that is not    *)
(* JSON.                                                                   *)
FetchFails ==
  /\ At("fetch")
  /\ work' = Following(AfterError)
  /\ UNCHANGED <<task, ledger, rows, losses>>

(* The API refuses the key: the year is staged and the loop given up.      *)
KeyRefused ==
  /\ At("fetch")
  /\ work' = [StageFailure(work) EXCEPT !.pc = "raised"]
  /\ UNCHANGED <<task, ledger, rows, losses>>

-----------------------------------------------------------------------------
Flushed ==
  [y \in Years |-> IF work.staged[y] = Nothing THEN ledger[y] ELSE work.staged[y]]

(* Mutant: a run that failed for every year still completes.               *)
NeverAnOutage == FALSE
Outage == work.failed = Len(Schedule)

Flush ==
  /\ At("flush") \/ At("raised")
  /\ ledger' = Flushed
  /\ work' = [work EXCEPT !.pc =
                IF At("raised") \/ Outage THEN "failing" ELSE "finish"]
  /\ UNCHANGED <<task, rows, losses>>

Complete ==
  /\ At("finish")
  /\ task' = "complete"
  /\ work' = FreshWork("done")
  /\ UNCHANGED <<ledger, rows, losses>>

(* Any other exception: the flush in `finally' still runs if the loop had  *)
(* begun, and may raise itself.                                            *)
Raise ==
  /\ work.pc \in {"resolve", "fetch", "flush", "raised", "finish"}
  /\ \E pc \in {"failing"} \cup (IF work.pc \in {"resolve", "fetch"}
                                 THEN {"raised"} ELSE {}) :
       work' = [work EXCEPT !.pc = pc]
  /\ UNCHANGED <<task, ledger, rows, losses>>

MarkFailed ==
  /\ At("failing")
  /\ task' = "failed"
  /\ work' = FreshWork("done")
  /\ UNCHANGED <<ledger, rows, losses>>

LoseProcess ==
  /\ work.pc \notin {"ready", "lost"}
  /\ losses < MaxLosses
  /\ losses' = losses + 1
  /\ work' = FreshWork("lost")
  /\ UNCHANGED <<task, ledger, rows>>

(* create_request_tasks of the redelivered message.                        *)
Redeliver ==
  /\ At("lost")
  /\ task' = "queued"
  /\ ledger' = Blank
  /\ work' = FreshWork("ready")
  /\ UNCHANGED <<rows, losses>>

Next ==
  \/ Skip \/ Start
  \/ UseKnownTract \/ LookUpTract \/ LookUpFails
  \/ FetchData \/ FetchNothing \/ FetchFails \/ KeyRefused
  \/ Flush \/ Complete \/ Raise \/ MarkFailed \/ LoseProcess \/ Redeliver

Spec == Init /\ [][Next]_vars

-----------------------------------------------------------------------------
(* The tract the parcel lies in under the geography of a year, as far as   *)
(* the geocoder's vintages reach.                                          *)
TrueTract(y) == IF Vintage[y] = NoVintage THEN Stored ELSE Resolved(Vintage[y])

(* A year recorded ok has a snapshot, its numbers are those of the tract   *)
(* the parcel lay in that year, and its label names that tract: through    *)
(* geocoder outages, crashes between years, second attempts, and rows left *)
(* by runs that knew only the stored tract.                                *)
OkIsTheRightTract ==
  \A y \in Years : ledger[y] = "ok" =>
    rows[y] = [label |-> TrueTract(y), numbers |-> TrueTract(y)]

(* No row ever carries one tract's label over another tract's numbers.     *)
LabelsMatchNumbers == \A y \in Years : rows[y].label = rows[y].numbers

(* Absent is the API's answer about the right tract: never an outage, and  *)
(* never a question in the wrong encoding.                                 *)
AbsentIsHonest ==
  \A y \in Years : ledger[y] = "absent" => TrueTract(y) \notin Published[y]

(* Census (timeline.py, _fetch_census): an ok year has the right tract's   *)
(* numbers, every row its own label, and absent is the API's answer.       *)
CensusVerdictsAreHonest == OkIsTheRightTract /\ LabelsMatchNumbers /\ AbsentIsHonest

(* A complete task has a verdict for every year, and is not an outage: not *)
(* every year of it failed (_fetch_census, the guard before "complete").   *)
CensusCompleteIsAccounted ==
  task = "complete" =>
    /\ \A y \in Years : ledger[y] # Nothing
    /\ \E y \in Years : ledger[y] # "failed"

=============================================================================
