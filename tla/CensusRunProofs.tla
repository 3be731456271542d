--------------------------- MODULE CensusRunProofs ---------------------------
(***************************************************************************)
(* Proofs about CensusRun, for any schedule, any assignment of tracts to   *)
(* geographies, whatever the API publishes and any number of lost          *)
(* processes.                                                              *)
(***************************************************************************)
EXTENDS CensusRun, FiniteSetTheorems, TLAPS

Slots == 1 .. Len(Schedule)
WorkType ==
  [pc : Pcs, at : 1 .. Len(Schedule) + 1, tract : Tracts,
   staged : [Years -> Outcomes \cup {Nothing}],
   failed : 0 .. Len(Schedule), resolved : [Vintages -> Tracts]]
Marks == [Years -> Outcomes \cup {Nothing}]

(* What is remembered of a vintage is what the geocoder says of it.        *)
MemoOK(w) == \A v \in Vintages : w.resolved[v] \in {NoTract, Resolved(v)}

(* `ok' is never staged, and absent only of the tract the parcel lies in.  *)
StagedOK(w) ==
  \A y \in Years :
    /\ w.staged[y] # "ok"
    /\ w.staged[y] = "absent" => TrueTract(y) \notin Published[y]

(* A year behind the loop is staged or committed ok, a year ahead of it is *)
(* untouched, and the count of failures reaches the years passed only when *)
(* all of them failed.                                                     *)
WalkOK(w, marks) ==
  w.pc \in {"resolve", "fetch", "flush"} =>
    /\ w.pc = "flush" <=> w.at = Len(Schedule) + 1
    /\ w.failed < w.at
    /\ \A i \in Slots :
         IF i < w.at THEN w.staged[Schedule[i]] = Nothing => marks[Schedule[i]] = "ok"
         ELSE w.staged[Schedule[i]] = Nothing
    /\ (\A i \in Slots : i < w.at => w.staged[Schedule[i]] = "failed") => w.failed = w.at - 1
    /\ w.pc = "fetch" => w.tract = TrueTract(Schedule[w.at])

Accounted(marks) ==
  (\A y \in Years : marks[y] # Nothing) /\ (\E y \in Years : marks[y] # "failed")

WorkOK(w, marks) ==
  MemoOK(w) /\ StagedOK(w) /\ WalkOK(w, marks) /\ (w.pc = "finish" => Accounted(marks))

Census ==
  /\ TypeOK /\ WorkOK(work, ledger) /\ CensusVerdictsAreHonest
  /\ task = "complete" => work.pc \in {"done", "lost"} /\ Accounted(ledger)

-----------------------------------------------------------------------------
(* The schedule names every year once.                                     *)
LEMMA EveryYearOnce ==
  /\ Len(Schedule) \in Nat \ {0} /\ DOMAIN Schedule = Slots
  /\ \A i \in Slots : Schedule[i] \in Years
  /\ \A y \in Years : \E i \in Slots : Schedule[i] = y
  /\ \A i, j \in Slots : Schedule[i] = Schedule[j] => i = j
<1>1. Len(Schedule) \in Nat \ {0} /\ DOMAIN Schedule = Slots
  BY ScheduleAssumption DEF Slots
<1>2. /\ \A i \in Slots : Schedule[i] \in Years
      /\ \A y \in Years : \E i \in Slots : Schedule[i] = y
  BY <1>1 DEF Years
<1>3. Schedule \in Surjection(Slots, Years)
  <2>1. Schedule \in [Slots -> Years]
    BY <1>1, <1>2, ScheduleAssumption DEF Slots
  <2>2. QED
    BY <1>2, <2>1 DEF Surjection
<1>4. IsFiniteSet(Slots) /\ Cardinality(Slots) = Len(Schedule)
  BY <1>1, FS_Interval DEF Slots
<1>5. Schedule \in Injection(Slots, Years)
  BY <1>3, <1>4, ScheduleAssumption, FS_SurjSameCardinalityImpliesInj
<1>6. QED
  BY <1>1, <1>2, <1>5 DEF Injection, IsInjective

(* A vintage's tract is a tract, and so is the one a year is asked by.     *)
LEMMA TractTypes ==
  /\ Stored \in Tracts /\ NoTract \in Tracts
  /\ \A v \in Vintages : Resolved(v) \in Tracts
  /\ \A y \in Years : Vintage[y] # NoVintage => Vintage[y] \in Vintages
BY DEF Tracts, Resolved, Vintages

LEMMA FreshOK ==
  ASSUME NEW pc \in {"ready", "resolve", "failing", "done", "lost"}, NEW marks
  PROVE  /\ FreshWork(pc) \in WorkType /\ FreshWork(pc).pc = pc
         /\ WorkOK(FreshWork(pc), marks)
<1>1. FreshWork(pc) \in WorkType
  BY EveryYearOnce, TractTypes DEF FreshWork, WorkType, Blank, Pcs
<1>2. MemoOK(FreshWork(pc)) /\ StagedOK(FreshWork(pc)) /\ FreshWork(pc).pc = pc
  BY DEF FreshWork, MemoOK, StagedOK, Blank, Nothing
<1>3. WalkOK(FreshWork(pc), marks)
  BY EveryYearOnce DEF FreshWork, WalkOK, Blank, Nothing, Slots
<1>4. QED
  BY <1>1, <1>2, <1>3 DEF WorkOK

(* v is w moved on to the next year, with an outcome of this one or none.  *)
Moved(w, v, outcome) ==
  /\ v.at = w.at + 1 /\ v.pc = IF w.at = Len(Schedule) THEN "flush" ELSE "resolve"
  /\ v.resolved = w.resolved
  /\ v.staged = [w.staged EXCEPT ![Schedule[w.at]] = outcome]
  /\ v.failed = IF outcome = "failed" THEN w.failed + 1 ELSE w.failed

(* What the rows of the ledger must be for that move.                      *)
RightMarks(w, marks, after, outcome) ==
  /\ \A y \in Years : y # Schedule[w.at] => after[y] = marks[y]
  /\ outcome = Nothing => after[Schedule[w.at]] = "ok"
  /\ outcome = "absent" => TrueTract(Schedule[w.at]) \notin Published[Schedule[w.at]]

(* The loop moves on from a year that is staged, with or without a failure *)
(* counted, or that was committed ok.                                      *)
LEMMA FollowingOK ==
  ASSUME NEW w \in WorkType, NEW marks \in Marks, NEW after \in Marks,
         WorkOK(w, marks), w.pc \in {"resolve", "fetch"}, NEW v \in WorkType,
         NEW outcome \in {Nothing, "failed", "absent"},
         Moved(w, v, outcome), RightMarks(w, marks, after, outcome)
  PROVE  WorkOK(v, after)
<1>1. /\ w.at \in Slots /\ w.at # Len(Schedule) + 1 /\ w.at \in Nat
      /\ Schedule[w.at] \in Years
  BY EveryYearOnce DEF WorkOK, WalkOK, WorkType, Slots
<1>2. /\ v.staged[Schedule[w.at]] = outcome
      /\ \A y \in Years : y # Schedule[w.at] => v.staged[y] = w.staged[y]
      /\ \A i \in Slots : i # w.at =>
           /\ v.staged[Schedule[i]] = w.staged[Schedule[i]]
           /\ after[Schedule[i]] = marks[Schedule[i]]
  BY <1>1, EveryYearOnce DEF WorkType, Moved, RightMarks
<1>3. MemoOK(v)
  BY DEF WorkOK, MemoOK, Moved
<1>4. StagedOK(v)
  BY <1>1, <1>2 DEF WorkOK, StagedOK, Nothing, RightMarks
<1>5. WalkOK(v, after)
  <2>1. w.failed < w.at /\ w.failed \in Nat /\ v.failed < v.at
    BY <1>1 DEF WorkOK, WalkOK, WorkType, Moved
  <2>2. ASSUME NEW i \in Slots
        PROVE  IF i < v.at THEN v.staged[Schedule[i]] = Nothing => after[Schedule[i]] = "ok"
               ELSE v.staged[Schedule[i]] = Nothing
    <3>1. i \in Nat /\ (i < v.at <=> i < w.at \/ i = w.at)
      BY <1>1 DEF Slots, Moved
    <3>2. CASE i = w.at
      BY <1>2, <3>1, <3>2 DEF RightMarks
    <3>3. CASE i # w.at
      BY <1>2, <3>1, <3>3 DEF WorkOK, WalkOK
    <3>4. QED
      BY <3>2, <3>3
  <2>3. ASSUME \A i \in Slots : i < v.at => v.staged[Schedule[i]] = "failed"
        PROVE  v.failed = v.at - 1
    <3>1. outcome = "failed"
      BY <1>1, <1>2, <2>3 DEF Moved
    <3>2. ASSUME NEW i \in Slots, i < w.at
          PROVE  w.staged[Schedule[i]] = "failed"
      <4>1. i < v.at /\ i # w.at
        BY <1>1, <3>2 DEF Slots, Moved
      <4>2. QED
        BY <1>2, <2>3, <4>1
    <3>3. w.failed = w.at - 1
      BY <3>2 DEF WorkOK, WalkOK
    <3>4. QED
      BY <1>1, <3>1, <3>3 DEF Moved
  <2>4. (v.pc = "flush" <=> v.at = Len(Schedule) + 1) /\ v.pc # "fetch"
    BY <1>1, EveryYearOnce DEF Moved
  <2>5. QED
    BY <2>1, <2>2, <2>3, <2>4 DEF WalkOK
<1>6. QED
  BY <1>3, <1>4, <1>5 DEF WorkOK, Moved

(* The year at hand, and room for another failure.                         *)
LEMMA InTheLoop ==
  ASSUME work \in WorkType, WorkOK(work, ledger), work.pc \in {"resolve", "fetch"}
  PROVE  /\ work.at \in Slots /\ work.at # Len(Schedule) + 1 /\ work.at \in Nat
         /\ work.at + 1 \in 1 .. Len(Schedule) + 1
         /\ Year = Schedule[work.at] /\ Year \in Years
         /\ work.failed + 1 \in 0 .. Len(Schedule)
BY EveryYearOnce DEF WorkOK, WalkOK, WorkType, Slots, Year

(* Staging an outcome of the year at hand and moving on.                   *)
LEMMA StagedMoves ==
  ASSUME Census, work.pc \in {"resolve", "fetch"},
         NEW outcome \in {"failed", "absent"}, NEW v,
         v = Following(IF outcome = "failed" THEN StageFailure(work)
                       ELSE Stage(work, outcome)),
         outcome = "absent" => TrueTract(Year) \notin Published[Year]
  PROVE  v \in WorkType /\ WorkOK(v, ledger)
<1>1. /\ work \in WorkType /\ ledger \in Marks /\ WorkOK(work, ledger)
      /\ Year = Schedule[work.at]
  BY DEF Census, TypeOK, WorkType, Marks, Year
<1>2. /\ work.at \in Slots /\ work.at + 1 \in 1 .. Len(Schedule) + 1
      /\ Year \in Years /\ work.failed + 1 \in 0 .. Len(Schedule)
  BY <1>1, InTheLoop
<1>3. v \in WorkType
  <2>1. CASE outcome = "failed"
    <3>1. StageFailure(work) \in WorkType /\ StageFailure(work).at = work.at
      BY <1>1, <1>2 DEF StageFailure, Stage, WorkType, Outcomes
    <3>2. QED
      BY <1>2, <2>1, <3>1, TractTypes DEF Following, WorkType, Pcs
  <2>2. CASE outcome = "absent"
    <3>1. Stage(work, "absent") \in WorkType /\ Stage(work, "absent").at = work.at
      BY <1>1, <1>2 DEF Stage, WorkType, Outcomes
    <3>2. QED
      BY <1>2, <2>2, <3>1, TractTypes DEF Following, WorkType, Pcs
  <2>3. QED
    BY <2>1, <2>2
<1>4. Moved(work, v, outcome)
  BY <1>1 DEF Following, StageFailure, Stage, WorkType, Moved
<1>5. RightMarks(work, ledger, ledger, outcome)
  BY <1>1 DEF RightMarks, Nothing
<1>6. QED
  BY <1>1, <1>3, <1>4, <1>5, FollowingOK

-----------------------------------------------------------------------------
(* Census is inductive: one lemma per action that reads or writes a year.  *)

LEMMA CensusInit == Init => Census
<1>1. SUFFICES ASSUME Init PROVE Census
  OBVIOUS
<1>2. TypeOK
  BY SMTT(30), <1>1, FreshOK, TractTypes, CensusBound
     DEF Init, TypeOK, WorkType, Blank, NoRow
<1>3. WorkOK(work, ledger)
  BY <1>1, FreshOK DEF Init
<1>4. CensusVerdictsAreHonest
  BY <1>1 DEF Init, CensusVerdictsAreHonest, OkIsTheRightTract, LabelsMatchNumbers,
              AbsentIsHonest, Blank, Nothing, NoRow
<1>5. QED
  BY <1>1, <1>2, <1>3, <1>4 DEF Init, Census

(* A step that leaves the tables alone.                                    *)
LEMMA TablesStay ==
  ASSUME Census, UNCHANGED <<ledger, rows>>, NEW v \in WorkType, work' = v,
         WorkOK(v, ledger), losses' \in 0 .. MaxLosses,
         task' \in {"queued", "processing", "complete", "failed", "skipped"},
         task' = "complete" => v.pc \in {"done", "lost"} /\ Accounted(ledger)
  PROVE  Census'
<1>1. TypeOK'
  BY DEF Census, TypeOK, WorkType
<1>2. CensusVerdictsAreHonest'
  BY DEF Census, CensusVerdictsAreHonest, OkIsTheRightTract, LabelsMatchNumbers,
         AbsentIsHonest
<1>3. QED
  BY <1>1, <1>2 DEF Census

LEMMA UseKnownTractStep == Census /\ UseKnownTract => Census'
<1>1. SUFFICES ASSUME Census, UseKnownTract PROVE Census'
  OBVIOUS
<1> DEFINE tract == IF Vintage[Year] = NoVintage THEN Stored
                    ELSE work.resolved[Vintage[Year]]
           v == [work EXCEPT !.pc = "fetch", !.tract = tract]
<1>2. /\ work \in WorkType /\ WorkOK(work, ledger) /\ work.pc = "resolve"
      /\ task # "complete"
  BY <1>1 DEF Census, TypeOK, WorkType, UseKnownTract, At
<1>3. work.at \in Slots /\ work.at # Len(Schedule) + 1 /\ Year \in Years
  BY <1>2, InTheLoop
<1>4. tract = TrueTract(Year) /\ tract \in Tracts
  BY <1>1, <1>2, <1>3, TractTypes
     DEF UseKnownTract, NeedsLookup, WorkOK, MemoOK, TrueTract, WorkType
<1>5. v \in WorkType
  BY <1>2, <1>4 DEF WorkType, Pcs
<1>6. WorkOK(v, ledger)
  <2>1. /\ v.pc = "fetch" /\ v.tract = tract /\ v.at = work.at
        /\ v.failed = work.failed /\ v.staged = work.staged
        /\ v.resolved = work.resolved
    BY <1>2 DEF WorkType
  <2>2. QED
    BY <1>2, <1>3, <1>4, <2>1 DEF WorkOK, MemoOK, StagedOK, WalkOK, Year
<1>7. QED
  BY <1>1, <1>2, <1>5, <1>6, TablesStay DEF UseKnownTract, Census, TypeOK

LEMMA LookUpTractStep == Census /\ LookUpTract => Census'
<1>1. SUFFICES ASSUME Census, LookUpTract PROVE Census'
  OBVIOUS
<1> DEFINE tract == Resolved(Vintage[Year])
           v == [work EXCEPT !.pc = "fetch", !.tract = tract,
                             !.resolved[Vintage[Year]] = tract]
<1>2. /\ work \in WorkType /\ WorkOK(work, ledger) /\ work.pc = "resolve"
      /\ task # "complete"
  BY <1>1 DEF Census, TypeOK, WorkType, LookUpTract, At
<1>3. work.at \in Slots /\ work.at # Len(Schedule) + 1 /\ Year \in Years
  BY <1>2, InTheLoop
<1>4. /\ tract = TrueTract(Year) /\ tract \in Tracts /\ Vintage[Year] \in Vintages
      /\ work' = v
  BY <1>1, <1>3, TractTypes DEF LookUpTract, NeedsLookup, TrueTract
<1>5. v \in WorkType
  BY <1>2, <1>4 DEF WorkType, Pcs
<1>6. WorkOK(v, ledger)
  <2>1. /\ v.pc = "fetch" /\ v.tract = tract /\ v.at = work.at
        /\ v.failed = work.failed /\ v.staged = work.staged
        /\ v.resolved = [work.resolved EXCEPT ![Vintage[Year]] = tract]
    BY <1>2 DEF WorkType
  <2>2. MemoOK(v)
    BY <1>2, <1>4, <2>1 DEF WorkOK, MemoOK, WorkType
  <2>3. QED
    BY <1>2, <1>3, <1>4, <2>1, <2>2 DEF WorkOK, StagedOK, WalkOK, Year
<1>7. QED
  BY <1>1, <1>2, <1>4, <1>5, <1>6, TablesStay DEF LookUpTract, Census, TypeOK

(* A year that fails, for whichever reason, is staged and counted.         *)
LEMMA FailureStep == Census /\ (LookUpFails \/ FetchFails) => Census'
<1>1. SUFFICES ASSUME Census, LookUpFails \/ FetchFails PROVE Census'
  OBVIOUS
<1> DEFINE v == Following(StageFailure(work))
<1>2. /\ work.pc \in {"resolve", "fetch"} /\ work' = v
      /\ UNCHANGED <<task, ledger, rows, losses>>
  BY <1>1 DEF LookUpFails, FetchFails, AfterOutage, AfterError, At
<1>3. v \in WorkType /\ WorkOK(v, ledger)
  BY <1>1, <1>2, StagedMoves
<1>4. QED
  BY <1>1, <1>2, <1>3, TablesStay DEF Census, TypeOK

LEMMA FetchNothingStep == Census /\ FetchNothing => Census'
<1>1. SUFFICES ASSUME Census, FetchNothing PROVE Census'
  OBVIOUS
<1> DEFINE v == Following(Stage(work, "absent"))
<1>2. /\ work.pc = "fetch" /\ work' = v
      /\ UNCHANGED <<task, ledger, rows, losses>>
  BY <1>1 DEF FetchNothing, At
<1>3. TrueTract(Year) \notin Published[Year]
  BY <1>1, <1>2
     DEF FetchNothing, Answers, TractForDataset, AddressedBy, Census, WorkOK, WalkOK, Year
<1>4. v \in WorkType /\ WorkOK(v, ledger)
  BY <1>1, <1>2, <1>3, StagedMoves
<1>5. QED
  BY <1>1, <1>2, <1>4, TablesStay DEF Census, TypeOK

LEMMA FetchDataStep == Census /\ FetchData => Census'
<1>1. SUFFICES ASSUME Census, FetchData PROVE Census'
  OBVIOUS
<1> DEFINE v == Following(work)
<1>2. /\ work \in WorkType /\ ledger \in Marks /\ WorkOK(work, ledger)
      /\ work.pc = "fetch" /\ work' = v /\ Year = Schedule[work.at]
      /\ task' = task /\ task # "complete" /\ losses' = losses
      /\ rows' = [rows EXCEPT ![Year] = [label |-> work.tract, numbers |-> work.tract]]
      /\ ledger' = [ledger EXCEPT ![Year] = "ok"]
  BY <1>1 DEF Census, TypeOK, WorkType, Marks, FetchData, At, Year, Upserted
<1>3. /\ work.at \in Slots /\ Year \in Years
      /\ work.at + 1 \in 1 .. Len(Schedule) + 1
      /\ work.tract = TrueTract(Year) /\ work.tract \in Tracts
      /\ work.staged[Year] = Nothing
  <2>1. work.at \in Nat
    BY <1>2, InTheLoop
  <2>2. QED
    BY <1>2, <2>1, InTheLoop DEF WorkOK, WalkOK, WorkType
<1>4. v \in WorkType
  BY <1>2, <1>3, TractTypes DEF Following, WorkType, Pcs
<1>5. ledger' \in Marks
  BY <1>2 DEF Marks, Outcomes
<1>6. WorkOK(v, ledger')
  <2>1. Moved(work, v, Nothing)
    BY <1>2, <1>3 DEF Following, WorkType, Moved, Nothing
  <2>2. RightMarks(work, ledger, ledger', Nothing)
    BY <1>2, <1>3 DEF Marks, RightMarks, Nothing
  <2>3. QED
    BY <1>2, <1>4, <1>5, <2>1, <2>2, FollowingOK
<1>7. TypeOK'
  BY <1>1, <1>2, <1>3, <1>4, <1>5 DEF Census, TypeOK, WorkType, Marks
<1>8. CensusVerdictsAreHonest'
  <2>1. \A y \in Years :
          /\ ledger'[y] = IF y = Year THEN "ok" ELSE ledger[y]
          /\ rows'[y] = IF y = Year THEN [label |-> TrueTract(Year), numbers |-> TrueTract(Year)]
                        ELSE rows[y]
    BY <1>1, <1>2, <1>3 DEF Census, TypeOK
  <2>2. QED
    BY <1>1, <2>1
       DEF Census, CensusVerdictsAreHonest, OkIsTheRightTract, LabelsMatchNumbers,
           AbsentIsHonest
<1>9. QED
  BY <1>2, <1>6, <1>7, <1>8 DEF Census, WorkOK

(* Moves of the program counter that claim nothing of the loop.            *)
LEMMA GivenUp ==
  ASSUME NEW w \in WorkType, NEW marks, WorkOK(w, marks),
         NEW v \in WorkType, v.pc \in {"raised", "failing"},
         v.resolved = w.resolved, StagedOK(v)
  PROVE  WorkOK(v, marks)
BY DEF WorkOK, MemoOK, WalkOK

LEMMA KeyRefusedStep == Census /\ KeyRefused => Census'
<1>1. SUFFICES ASSUME Census, KeyRefused PROVE Census'
  OBVIOUS
<1> DEFINE v == [StageFailure(work) EXCEPT !.pc = "raised"]
<1>2. /\ work \in WorkType /\ WorkOK(work, ledger) /\ work.pc = "fetch"
      /\ task # "complete" /\ Year = Schedule[work.at]
  BY <1>1 DEF Census, TypeOK, WorkType, KeyRefused, At, Year
<1>3. Year \in Years /\ work.failed + 1 \in 0 .. Len(Schedule)
  BY <1>2, InTheLoop
<1>4. v \in WorkType
  BY <1>2, <1>3 DEF StageFailure, Stage, WorkType, Outcomes, Pcs
<1>5. /\ v.pc = "raised" /\ v.resolved = work.resolved
      /\ v.staged = [work.staged EXCEPT ![Year] = "failed"]
  BY <1>2 DEF StageFailure, Stage, WorkType
<1>6. StagedOK(v)
  BY <1>2, <1>3, <1>5 DEF WorkOK, StagedOK, WorkType
<1>7. QED
  BY <1>1, <1>2, <1>4, <1>5, <1>6, GivenUp, TablesStay DEF KeyRefused, Census, TypeOK

LEMMA RaiseStep == Census /\ Raise => Census'
<1>1. SUFFICES ASSUME Census, Raise PROVE Census'
  OBVIOUS
<1>2. PICK pc \in {"raised", "failing"} : work' = [work EXCEPT !.pc = pc]
  BY <1>1 DEF Raise
<1> DEFINE v == [work EXCEPT !.pc = pc]
<1>3. /\ work \in WorkType /\ WorkOK(work, ledger) /\ task # "complete"
      /\ UNCHANGED <<task, ledger, rows, losses>>
  BY <1>1 DEF Census, TypeOK, WorkType, Raise
<1>4. v \in WorkType /\ v.pc = pc /\ v.resolved = work.resolved /\ v.staged = work.staged
  BY <1>3 DEF WorkType, Pcs
<1>5. StagedOK(v)
  BY <1>3, <1>4 DEF WorkOK, StagedOK
<1>6. QED
  BY <1>1, <1>2, <1>3, <1>4, <1>5, GivenUp, TablesStay DEF Census, TypeOK

(* A loop that went through and did not fail throughout leaves a verdict   *)
(* for every year, and not every one of them failed.                       *)
LEMMA FlushAccounts ==
  ASSUME Census, At("flush"), ~Outage
  PROVE  Accounted(Flushed)
<1>1. /\ work \in WorkType /\ ledger \in Marks /\ WorkOK(work, ledger)
      /\ work.at = Len(Schedule) + 1 /\ work.failed # Len(Schedule)
  BY EveryYearOnce DEF Census, TypeOK, WorkType, Marks, At, Outage, WorkOK, WalkOK
<1>2. \A i \in Slots : i < work.at
  BY <1>1, EveryYearOnce DEF Slots
<1>3. \A y \in Years : work.staged[y] = Nothing => ledger[y] = "ok"
  BY <1>1, <1>2, EveryYearOnce DEF At, WorkOK, WalkOK
<1>4. PICK i \in Slots : work.staged[Schedule[i]] # "failed"
  BY <1>1, <1>2, EveryYearOnce DEF At, WorkOK, WalkOK
<1>5. \A y \in Years : Flushed[y] = IF work.staged[y] = Nothing THEN ledger[y]
                                    ELSE work.staged[y]
  BY DEF Flushed
<1>6. QED
  BY <1>3, <1>4, <1>5, EveryYearOnce DEF Accounted, Nothing

LEMMA FlushStep == Census /\ Flush => Census'
<1>1. SUFFICES ASSUME Census, Flush PROVE Census'
  OBVIOUS
<1> DEFINE v == [work EXCEPT !.pc = IF At("raised") \/ Outage THEN "failing" ELSE "finish"]
<1>2. /\ work \in WorkType /\ ledger \in Marks /\ WorkOK(work, ledger)
      /\ task # "complete" /\ work' = v /\ ledger' = Flushed
      /\ UNCHANGED <<task, rows, losses>>
  BY <1>1 DEF Census, TypeOK, WorkType, Marks, Flush, At
<1>3. /\ v \in WorkType /\ v.pc = IF At("raised") \/ Outage THEN "failing" ELSE "finish"
      /\ v.resolved = work.resolved /\ v.staged = work.staged
  BY <1>2 DEF WorkType, Pcs
<1>4. WorkOK(v, Flushed)
  <2>1. v.pc = "finish" => Accounted(Flushed)
    BY <1>1, <1>3, FlushAccounts DEF Flush, At
  <2>2. MemoOK(v) /\ StagedOK(v)
    BY <1>2, <1>3 DEF WorkOK, MemoOK, StagedOK
  <2>3. WalkOK(v, Flushed)
    BY <1>3 DEF WalkOK
  <2>4. QED
    BY <2>1, <2>2, <2>3 DEF WorkOK
<1>5. \A y \in Years :
        /\ Flushed[y] = IF work.staged[y] = Nothing THEN ledger[y] ELSE work.staged[y]
        /\ work.staged[y] # "ok"
        /\ work.staged[y] = "absent" => TrueTract(y) \notin Published[y]
  BY <1>2 DEF Flushed, WorkOK, StagedOK
<1>6. TypeOK'
  BY <1>1, <1>2, <1>3 DEF Census, TypeOK, WorkType, Marks, Flushed
<1>7. CensusVerdictsAreHonest'
  BY <1>1, <1>2, <1>5
     DEF Census, CensusVerdictsAreHonest, OkIsTheRightTract, LabelsMatchNumbers,
         AbsentIsHonest
<1>8. QED
  BY <1>2, <1>4, <1>6, <1>7 DEF Census

(* The steps that begin and end a run start from an empty record.          *)
LEMMA RestartStep ==
  Census /\ (Skip \/ Start \/ Complete \/ MarkFailed \/ LoseProcess) => Census'
<1>1. SUFFICES ASSUME Census, Skip \/ Start \/ Complete \/ MarkFailed \/ LoseProcess
               PROVE  Census'
  OBVIOUS
<1>2. PICK pc \in {"resolve", "failing", "done", "lost"} : work' = FreshWork(pc)
  BY <1>1 DEF Skip, Start, Complete, MarkFailed, LoseProcess
<1>3. FreshWork(pc) \in WorkType /\ FreshWork(pc).pc = pc /\ WorkOK(FreshWork(pc), ledger)
  BY FreshOK
<1>4. /\ UNCHANGED <<ledger, rows>> /\ losses' \in 0 .. MaxLosses
      /\ task' \in {"queued", "processing", "complete", "failed", "skipped"}
  BY <1>1, CensusBound
     DEF Skip, Start, Complete, MarkFailed, LoseProcess, Census, TypeOK
<1>5. task' = "complete" => pc \in {"done", "lost"} /\ Accounted(ledger)
  <2>1. CASE Skip \/ Start \/ MarkFailed
    BY <2>1 DEF Skip, Start, MarkFailed
  <2>2. CASE Complete
    <3>1. work'.pc = "done"
      BY <2>2, FreshOK DEF Complete
    <3>2. Accounted(ledger)
      BY <1>1, <2>2 DEF Complete, At, Census, WorkOK
    <3>3. QED
      BY <1>2, <1>3, <3>1, <3>2
  <2>3. CASE LoseProcess
    <3>1. work'.pc = "lost" /\ task' = task
      BY <2>3, FreshOK DEF LoseProcess
    <3>2. QED
      BY <1>1, <1>2, <1>3, <3>1 DEF Census
  <2>4. QED
    BY <1>1, <2>1, <2>2, <2>3
<1>6. QED
  BY <1>1, <1>2, <1>3, <1>4, <1>5, TablesStay

LEMMA RedeliverStep == Census /\ Redeliver => Census'
<1>1. SUFFICES ASSUME Census, Redeliver PROVE Census'
  OBVIOUS
<1>2. TypeOK'
  BY <1>1, FreshOK DEF Redeliver, Census, TypeOK, WorkType, Blank
<1>3. WorkOK(work, ledger)'
  <2>1. work' = FreshWork("ready") /\ WorkOK(FreshWork("ready"), ledger')
    BY <1>1, FreshOK DEF Redeliver
  <2>2. QED
    BY <2>1
<1>4. CensusVerdictsAreHonest'
  BY <1>1 DEF Redeliver, Census, CensusVerdictsAreHonest, OkIsTheRightTract,
              LabelsMatchNumbers, AbsentIsHonest, Blank, Nothing
<1>5. QED
  BY <1>1, <1>2, <1>3, <1>4 DEF Redeliver, Census

LEMMA CensusStep == Census /\ [Next]_vars => Census'
<1>1. SUFFICES ASSUME Census, [Next]_vars PROVE Census'
  OBVIOUS
<1>2. CASE UNCHANGED vars
  <2>1. UNCHANGED <<task, ledger, rows, work, losses>>
    BY <1>2 DEF vars
  <2>2. QED
    BY <1>1, <2>1, TablesStay DEF Census, TypeOK, WorkType
<1>3. QED
  BY <1>1, <1>2, UseKnownTractStep, LookUpTractStep, FailureStep, FetchNothingStep,
     FetchDataStep, KeyRefusedStep, RaiseStep, FlushStep, RestartStep, RedeliverStep
     DEF Next

LEMMA CensusAlways == Spec => []Census
BY CensusInit, CensusStep, PTL DEF Spec

-----------------------------------------------------------------------------
(* Every value stays in its set: the count of failed years among them.     *)
THEOREM CensusTypes == Spec => []TypeOK
<1>1. Census => TypeOK
  BY DEF Census
<1>2. QED
  BY <1>1, CensusAlways, PTL

(* An ok year shows the numbers of the tract the parcel lay in, no row     *)
(* mixes two tracts, and absent is what the API said of the right tract:   *)
(* however the geocoder and the API fail and wherever the process is lost. *)
THEOREM VerdictsAreHonest == Spec => []CensusVerdictsAreHonest
<1>1. Census => CensusVerdictsAreHonest
  BY DEF Census
<1>2. QED
  BY <1>1, CensusAlways, PTL

(* A task that is complete has a verdict for every year of its schedule,   *)
(* and was not an outage.                                                  *)
THEOREM CompleteIsNoOutage == Spec => []CensusCompleteIsAccounted
<1>1. Census => CensusCompleteIsAccounted
  BY DEF Census, Accounted, CensusCompleteIsAccounted
<1>2. QED
  BY <1>1, CensusAlways, PTL

=============================================================================
