-------------------------- MODULE SourceTaskProofs --------------------------
(***************************************************************************)
(* Proofs about the tasks beside the imagery sources: a retried upstream   *)
(* call ends in time and raises what failed last; the verdicts of the      *)
(* topographic-map task are honest; a complete property history is whole,  *)
(* sound, and asked for again when it may be thin; scenes and mosaics that *)
(* are served show the parcel, and no year that could is given up.  Each   *)
(* for every value of its constants, and so in the instance MCSourceTasks. *)
(***************************************************************************)
EXTENDS MCSourceTasks, CensusRunProofs, WellFoundedInduction

-----------------------------------------------------------------------------
(* Upstream calls.                                                         *)

(* A call that may ask again has budget and attempts left; what it         *)
(* remembers of the failures is what failed last.                          *)
RetryInv ==
  /\ RetryTypeOK
  /\ result = "pending" => /\ attempt < policy.attempts
                           /\ policy.budget # NoBudget => spent <= policy.budget
  /\ result = "backoff" => attempt < policy.attempts
  /\ result \in {"backoff", "exhausted"} =>
       /\ lastHeard \in policy.retried
       /\ lastTransport = IF lastHeard \in Transport THEN lastHeard ELSE NoAnswer
       /\ lastStatus = IF lastHeard \in Statuses THEN lastHeard ELSE NoAnswer
  /\ GivesUpInTime

LEMMA LongestQueueIs ==
  LongestQueue \in SlotWaits /\ \A p \in SlotWaits : p <= LongestQueue
<1> DEFINE Longest(q) == q \in SlotWaits /\ \A p \in SlotWaits : p <= q
<1>1. \E q : Longest(q)
  BY PolicyAssumption
<1>2. QED
  BY <1>1 DEF LongestQueue

LEMMA PolicyTyped ==
  ASSUME RetryTypeOK
  PROVE  /\ policy.attempts \in Nat \ {0} /\ policy.budget \in Nat
         /\ policy.timeout \in Nat /\ policy.cap \in Nat
         /\ policy.slots \in BOOLEAN /\ policy.spreadFirst \in BOOLEAN
         /\ policy.retried \subseteq PossibleAnswers
<1>1. policy \in [attempts : Nat \ {0}, budget : Nat, timeout : Nat,
                  slots : BOOLEAN, retried : SUBSET PossibleAnswers,
                  honours : BOOLEAN, cap : Nat, spreadFirst : BOOLEAN]
  BY PolicyAssumption DEF RetryTypeOK
<1>2. QED
  BY <1>1

LEMMA RetryInitHolds == RetryInit => RetryInv
<1> SUFFICES ASSUME RetryInit
             PROVE  RetryInv
  OBVIOUS
<1>1. policy \in [attempts : Nat \ {0}, budget : Nat, timeout : Nat,
                  slots : BOOLEAN, retried : SUBSET PossibleAnswers,
                  honours : BOOLEAN, cap : Nat, spreadFirst : BOOLEAN]
  BY PolicyAssumption DEF RetryInit
<1>2. policy.attempts \in Nat /\ policy.attempts > 0 /\ policy.budget \in Nat
      /\ policy.timeout \in Nat
  BY <1>1
<1>3. RetryTypeOK
  BY <1>2, PolicyAssumption DEF RetryInit, RetryTypeOK
<1>4. LongestQueue \in Nat
  BY LongestQueueIs, PolicyAssumption
<1>5. GivesUpInTime
  BY <1>2, <1>4 DEF RetryInit, GivesUpInTime
<1>6. QED
  BY <1>2, <1>3, <1>5 DEF RetryInit, RetryInv

LEMMA AttemptKeeps ==
  ASSUME RetryInv, Attempt
  PROVE  RetryInv'
<1>1. /\ RetryTypeOK /\ result = "pending" /\ attempt < policy.attempts
      /\ policy.budget # NoBudget => spent <= policy.budget
      /\ policy' = policy /\ delay' = delay /\ attempt' = attempt + 1
  BY DEF RetryInv, Attempt
<1>2. PICK answer \in PossibleAnswers, header \in RetryAfters,
           queue \in QueueCosts :
      \E cost \in AttemptCosts(answer) :
        /\ spent' = spent + queue + cost
        /\ lastHeard' = answer
        /\ asked' = header
        /\ lastStatus' = IF answer \in Statuses THEN answer ELSE NoAnswer
        /\ lastTransport' = TransportNow(answer)
        /\ result' = IF answer \notin policy.retried THEN Settled(answer)
                     ELSE IF attempt' = policy.attempts THEN "exhausted"
                     ELSE "backoff"
  BY DEF Attempt
<1>3. PICK cost \in AttemptCosts(answer) : spent' = spent + queue + cost
  BY <1>2
<1>4. /\ policy.attempts \in Nat \ {0} /\ policy.budget \in Nat
      /\ policy.timeout \in Nat /\ policy.slots \in BOOLEAN
  BY <1>1, PolicyTyped
<1>5. cost \in Nat /\ cost <= policy.timeout
  BY <1>4 DEF AttemptCosts
<1>6. /\ queue \in Nat /\ LongestQueue \in Nat
      /\ queue <= IF policy.slots THEN LongestQueue ELSE 0
  BY LongestQueueIs, PolicyAssumption DEF QueueCosts
<1>7. spent \in Nat /\ attempt \in Nat
  BY <1>1, <1>4 DEF RetryTypeOK
<1>8. spent' \in Nat /\ attempt' \in 0 .. policy.attempts
  BY <1>1, <1>3, <1>4, <1>5, <1>6, <1>7
<1>9. Settled(answer) \in {"response", "terminal"}
  BY DEF Settled
<1>10. result' \in {"response", "terminal", "exhausted", "backoff"}
  BY <1>2, <1>9
<1>11. RetryTypeOK'
  <2>1. lastStatus' \in Statuses \cup {NoAnswer}
        /\ lastTransport' \in Transport \cup {NoAnswer}
        /\ lastHeard' \in PossibleAnswers \cup {NoAnswer}
    BY <1>2 DEF TransportNow
  <2>2. result' \in {"pending", "backoff"} \cup Ended
    BY <1>10 DEF Ended
  <2>3. QED
    BY <1>1, <1>2, <1>8, <2>1, <2>2 DEF RetryTypeOK
<1>12. GivesUpInTime'
  <2> SUFFICES ASSUME policy.budget # NoBudget
               PROVE  spent' <= policy.budget + policy.timeout
                                + (IF policy.slots THEN LongestQueue ELSE 0)
    BY <1>1 DEF GivesUpInTime
  <2>1. spent <= policy.budget
    BY <1>1
  <2>2. QED
    BY <1>3, <1>4, <1>5, <1>6, <1>7, <2>1
<1>13. result' = "backoff" => attempt' < policy'.attempts
  BY <1>1, <1>2, <1>4, <1>8, <1>9
<1>14. result' \in {"backoff", "exhausted"} => lastHeard' \in policy'.retried
  BY <1>1, <1>2, <1>9
<1>15. QED
  BY <1>2, <1>10, <1>11, <1>12, <1>13, <1>14 DEF RetryInv, TransportNow

LEMMA BackOffKeeps ==
  ASSUME RetryInv, BackOff
  PROVE  RetryInv'
<1>1. /\ RetryTypeOK /\ result = "backoff" /\ attempt < policy.attempts
      /\ result' = "pending" /\ delay' = 2 * delay
      /\ UNCHANGED <<policy, attempt, asked, lastStatus, lastTransport,
                     lastHeard>>
  BY DEF RetryInv, BackOff
<1>2. /\ policy.budget \in Nat /\ policy.cap \in Nat /\ policy.timeout \in Nat
      /\ policy.slots \in BOOLEAN
  BY <1>1, PolicyTyped
<1>3. spent \in Nat /\ delay \in Nat /\ asked \in Nat
  BY <1>1, PolicyAssumption DEF RetryTypeOK
<1>4. Wait \in Nat
  BY <1>2, <1>3 DEF Wait, Least
<1>5. PICK spread \in Spreads :
        Fits(Judged(spread)) /\ spent' = spent + SleepsFor(spread)
  BY DEF BackOff
<1>6. spread \in Nat /\ Judged(spread) \in Nat
  BY <1>4 DEF Spreads, Judged
<1>7. spent <= policy.budget
  BY <1>2, <1>3, <1>5, <1>6 DEF Fits
<1>8. SleepsFor(spread) \in Nat /\ spent + SleepsFor(spread) <= policy.budget
  BY <1>2, <1>3, <1>6, <1>7 DEF SleepsFor, Least
<1>9. spent' \in Nat /\ spent' <= policy.budget
  BY <1>3, <1>5, <1>8
<1>10. RetryTypeOK'
  BY <1>1, <1>3, <1>9 DEF RetryTypeOK, Ended
<1>11. LongestQueue \in Nat
  BY LongestQueueIs, PolicyAssumption
<1>12. GivesUpInTime'
  BY <1>1, <1>2, <1>9, <1>11 DEF GivesUpInTime
<1>13. QED
  BY <1>1, <1>9, <1>10, <1>12 DEF RetryInv

LEMMA RetryStep == RetryInv /\ [RetryNext]_retryVars => RetryInv'
<1> SUFFICES ASSUME RetryInv, [RetryNext]_retryVars
             PROVE  RetryInv'
  OBVIOUS
<1>1. CASE Attempt
  BY <1>1, AttemptKeeps
<1>2. CASE BackOff
  BY <1>2, BackOffKeeps
<1>3. CASE GiveUp
  BY <1>3 DEF GiveUp, RetryInv, RetryTypeOK, GivesUpInTime, Ended
<1>4. CASE UNCHANGED retryVars
  BY <1>4 DEF retryVars, RetryInv, RetryTypeOK, GivesUpInTime
<1>5. QED
  BY <1>1, <1>2, <1>3, <1>4 DEF RetryNext

(* Whatever the service answers, and for any numbers of a client, a call   *)
(* is over one attempt after its budget, and what it raises is what failed *)
(* last.                                                                   *)
THEOREM CallsEndWell == RetrySpec => []UpstreamEndsWell
<1>1. RetryInv => UpstreamEndsWell
  <2> SUFFICES ASSUME RetryInv, result = "exhausted"
               PROVE  Raised = lastHeard /\ lastHeard \in policy.retried
    BY DEF RetryInv, UpstreamEndsWell, RaisesWhatFailedLast
  <2>1. lastHeard \in policy.retried /\ lastHeard \in PossibleAnswers
    BY PolicyTyped DEF RetryInv
  <2>2. \A a \in Transport : a # NoAnswer
    BY DEF Transport, NoAnswer
  <2>3. QED
    BY <2>1, <2>2 DEF RetryInv, Raised, PossibleAnswers
<1>2. QED
  BY <1>1, RetryInitHolds, RetryStep, PTL DEF RetrySpec

-----------------------------------------------------------------------------
(* Topographic maps.                                                       *)

TopoAnswer == [sheets : SUBSET Sheets, truncated : BOOLEAN]
TopoPcs == {"idle", "start", "search", "save", "finish", "failing", "lost"}

(* What the service answered: its sheets with a GeoTIFF, all of them       *)
(* unless it cut the answer off.                                           *)
AnswersFor(answer) ==
  /\ \A s \in answer.sheets : s \in catalogue /\ s.geotiff
  /\ ~answer.truncated =>
       \A s \in catalogue : s.geotiff => s \in answer.sheets

(* No gap of the committed rows is silent.                                 *)
GapsShow ==
  \A s \in catalogue :
    s.geotiff /\ s.year # 0 /\ topoLedger[DecadeOf(s)] = Unrecorded =>
      topoLedger[WHOLE] = "indeterminate"

(* Until it saves, a run has no rows; what it saves speaks of the answer   *)
(* it was given, and of the catalogue the answer was taken from.           *)
TopoInv ==
  /\ TopoTypeOK
  /\ fetch \in [pc : TopoPcs, answer : TopoAnswer]
  /\ fetch.pc \in {"start", "search", "save"} => topoLedger = Unsearched
  /\ fetch.pc = "save" => AnswersFor(fetch.answer)
  /\ fetch.pc = "finish" \/ (fetch.pc = "idle" /\ topoTask = "complete") =>
       GapsShow
  /\ OkDecadeShowsItsBest
  /\ AbsentMeansNone

(* A nonempty set of numbers has a least one.                              *)
LEMMA LeastOf ==
  ASSUME NEW S, S \subseteq Nat, S # {}
  PROVE  \E m \in S : \A n \in S : m <= n
<1>1. PICK m \in S : \A n \in S : ~(<<n, m>> \in OpToRel(<, Nat))
  BY WFMin, NatLessThanWellFounded
<1>2. ASSUME NEW n \in S
      PROVE  m <= n
  <2>1. n \in Nat /\ m \in Nat
    OBVIOUS
  <2>2. ~(n < m)
    <3>1. n < m => <<n, m>> \in OpToRel(<, Nat)
      BY <2>1 DEF OpToRel
    <3>2. QED
      BY <1>1, <3>1
  <2>3. QED
    BY <2>1, <2>2
<1>3. QED
  BY <1>2

LEMMA SheetTyped ==
  ASSUME NEW s \in Sheets
  PROVE  /\ s.id \in Nat /\ s.year \in Nat /\ s.extent \in Nat
         /\ DecadeOf(s) \in Nat
         /\ s.year # 0 => DecadeOf(s) \in Decades
         /\ DecadeOf(s) # 0 => DecadeOf(s) \in Decades
<1>1. /\ s \in [id : Nat, year : Nat, extent : Nat, geotiff : BOOLEAN]
      /\ s.year # 0 => s.year >= 10
  BY CatalogueAssumption DEF Sheets
<1>2. s.id \in Nat /\ s.year \in Nat /\ s.extent \in Nat
  BY <1>1
<1>3. DecadeOf(s) \in Nat /\ (s.year # 0 => DecadeOf(s) # 0)
  BY <1>1, <1>2 DEF DecadeOf
<1>4. QED
  BY <1>2, <1>3 DEF Decades

(* A decade with a dated sheet has a best one.                             *)
LEMMA BestExists ==
  ASSUME NEW sheets, sheets \subseteq Sheets, NEW s0 \in Dated(sheets)
  PROVE  Best(sheets, DecadeOf(s0)) # {}
<1> DEFINE d == DecadeOf(s0)
           D == {s \in Dated(sheets) : DecadeOf(s) = d}
           E == {s.extent : s \in D}
<1>1. s0 \in D /\ \A s \in D : s \in Sheets
  BY DEF Dated
<1>2. \A s \in D : s.extent \in Nat /\ s.year \in Nat
  BY <1>1, SheetTyped
<1>3. E \subseteq Nat /\ E # {}
  BY <1>1, <1>2
<1>4. PICK e \in E : \A n \in E : e <= n
  BY <1>3, LeastOf
<1> DEFINE Y == {s.year : s \in {t \in D : t.extent = e}}
<1>5. Y \subseteq Nat /\ Y # {}
  BY <1>2, <1>4
<1>6. PICK y \in Y : \A n \in Y : y <= n
  BY <1>5, LeastOf
<1>7. PICK s \in D : s.extent = e /\ s.year = y
  BY <1>6
<1>8. ASSUME NEW t \in D
      PROVE  ~Better(t, s)
  <2>1. t.extent \in Nat /\ e \in Nat /\ e <= t.extent
    BY <1>2, <1>3, <1>4
  <2>2. t.extent = e => t.year \in Nat /\ y \in Nat /\ y <= t.year
    BY <1>2, <1>5, <1>6
  <2>3. QED
    BY <1>7, <2>1, <2>2 DEF Better
<1>9. s \in Best(sheets, d)
  BY <1>7, <1>8 DEF Best
<1>10. QED
  BY <1>9

(* Whatever one keeps of the best sheets of the decades, a decade with a   *)
(* dated sheet keeps one, and only a best one.                             *)
LEMMA PicksAreBest ==
  ASSUME NEW sheets, sheets \subseteq Sheets, NEW sel \in Selections(sheets)
  PROVE  /\ sel \subseteq Dated(sheets)
         /\ \A s \in sel : DecadeOf(s) \in Decades =>
                              s \in Best(sheets, DecadeOf(s))
         /\ \A s \in Dated(sheets) : \E p \in sel : DecadeOf(p) = DecadeOf(s)
<1>1. sel \subseteq Dated(sheets)
  BY DEF Selections
<1>2. \A d \in Decades :
        /\ Cardinality(sel \cap Best(sheets, d))
             = (IF Best(sheets, d) = {} THEN 0 ELSE 1)
        /\ {s \in sel : DecadeOf(s) = d} \subseteq Best(sheets, d)
  BY DEF Selections
<1>3. ASSUME NEW s \in Dated(sheets)
      PROVE  \E p \in sel : DecadeOf(p) = DecadeOf(s)
  <2>1. s \in Sheets /\ s.year # 0
    BY DEF Dated
  <2>2. DecadeOf(s) \in Decades
    BY <2>1, SheetTyped
  <2>3. Cardinality(sel \cap Best(sheets, DecadeOf(s))) = 1
    BY <1>2, <2>2, BestExists
  <2>4. sel \cap Best(sheets, DecadeOf(s)) # {}
    BY <2>3, FS_EmptySet
  <2>5. QED
    BY <2>4 DEF Best
<1>4. QED
  BY <1>1, <1>2, <1>3

LEMMA TopoInitHolds == TopoInit => TopoInv
<1> SUFFICES ASSUME TopoInit
             PROVE  TopoInv
  OBVIOUS
<1>1. fetch = [pc |-> "start", answer |-> NoSheets]
  BY DEF TopoInit, TopoIdle
<1>2. fetch \in [pc : TopoPcs, answer : TopoAnswer] /\ fetch.pc = "start"
      /\ fetch.answer.sheets = {}
  BY <1>1 DEF TopoPcs, TopoAnswer, NoSheets
<1>3. WHOLE \in Keys /\ \A d \in Decades : d \in Keys
  BY DEF Keys
<1>4. /\ topoLedger[WHOLE] = Unrecorded
      /\ \A d \in Decades : topoLedger[d] = Unrecorded
  BY <1>3 DEF TopoInit, Unsearched
<1>5. TopoTypeOK
  BY <1>2, TopoBound DEF TopoInit, Unsearched, TopoTypeOK
<1>6. OkDecadeShowsItsBest /\ AbsentMeansNone
  BY <1>4 DEF OkDecadeShowsItsBest, AbsentMeansNone, Unrecorded
<1>7. QED
  BY <1>2, <1>5, <1>6 DEF TopoInit, TopoInv

(* The steps of a run that move its program counter and may set the task.  *)
LEMMA TopoMoves ==
  ASSUME TopoInv,
         UNCHANGED <<catalogue, topoLedger, served, answered, topoRuns>>,
         fetch' \in [pc : TopoPcs, answer : TopoAnswer],
         topoTask' \in {"queued", "processing", "complete", "failed"},
         fetch'.pc \in {"start", "search"} => fetch.pc \in {"start", "search"},
         fetch'.pc # "save",
         fetch'.pc = "finish" \/ (fetch'.pc = "idle" /\ topoTask' = "complete") =>
           GapsShow,
         fetch'.pc # "lost" => fetch.pc # "lost"
  PROVE  TopoInv'
<1>1. TopoTypeOK'
  BY DEF TopoInv, TopoTypeOK, TopoAnswer, TopoPcs
<1>2. OkDecadeShowsItsBest' /\ AbsentMeansNone'
  BY DEF TopoInv, OkDecadeShowsItsBest, AbsentMeansNone
<1>3. GapsShow' = GapsShow
  BY DEF GapsShow
<1>4. Unsearched' = Unsearched
  BY DEF Unsearched
<1>5. QED
  BY <1>1, <1>2, <1>3, <1>4 DEF TopoInv

LEMMA TopoIdleTyped ==
  /\ TopoIdle \in [pc : TopoPcs, answer : TopoAnswer] /\ TopoIdle.pc = "idle"
  /\ TopoIdle.answer = NoSheets
  BY DEF TopoIdle, TopoPcs, TopoAnswer, NoSheets

LEMMA TopoMovesKeep ==
  ASSUME TopoInv,
         \/ StartTopo \/ FinishTopo \/ TopoRaises \/ TopoMarkFailed
         \/ LoseTopoRun
  PROVE  TopoInv'
<1> USE DEF TopoPcs
<1>1. /\ fetch \in [pc : TopoPcs, answer : TopoAnswer]
      /\ topoTask \in {"queued", "processing", "complete", "failed"}
  BY DEF TopoInv, TopoTypeOK
<1>2. CASE StartTopo
  BY <1>1, <1>2, TopoMoves DEF StartTopo, Move
<1>3. CASE FinishTopo
  BY <1>1, <1>3, TopoIdleTyped, TopoMoves DEF FinishTopo, TopoInv
<1>4. CASE TopoRaises
  BY <1>1, <1>4, TopoMoves DEF TopoRaises, Move
<1>5. CASE TopoMarkFailed
  BY <1>1, <1>5, TopoIdleTyped, TopoMoves DEF TopoMarkFailed
<1>6. CASE LoseTopoRun
  <2>1. fetch' \in [pc : TopoPcs, answer : TopoAnswer] /\ fetch'.pc = "lost"
    BY <1>6, TopoIdleTyped DEF LoseTopoRun
  <2>2. QED
    BY <1>1, <1>6, <2>1, TopoMoves DEF LoseTopoRun
<1>7. QED
  BY <1>2, <1>3, <1>4, <1>5, <1>6

(* A failed search records nothing but itself.                             *)
LEMMA SearchFailsKeeps ==
  ASSUME TopoInv, SearchFails
  PROVE  TopoInv'
<1>1. /\ fetch.pc = "search" /\ topoLedger = Unsearched
      /\ topoLedger' = [topoLedger EXCEPT ![WHOLE] = "failed"]
      /\ UNCHANGED <<catalogue, topoTask, served, answered, topoRuns>>
  BY DEF TopoInv, SearchFails
<1>2. fetch' \in [pc : TopoPcs, answer : TopoAnswer] /\ fetch'.pc = "failing"
  BY DEF TopoInv, TopoPcs, SearchFails, Move
<1>3. /\ topoLedger' \in [Keys -> {"ok", "failed", "absent", "indeterminate",
                                  "suppressed", Unrecorded}]
      /\ topoLedger'[WHOLE] = "failed"
      /\ \A d \in Decades : topoLedger'[d] = Unrecorded
  BY <1>1 DEF TopoInv, TopoTypeOK, Unsearched, Keys, Decades, WHOLE
<1>4. TopoTypeOK'
  BY <1>1, <1>2, <1>3 DEF TopoInv, TopoTypeOK, TopoAnswer
<1>5. OkDecadeShowsItsBest' /\ AbsentMeansNone'
  BY <1>3 DEF OkDecadeShowsItsBest, AbsentMeansNone, Unrecorded
<1>6. QED
  BY <1>2, <1>4, <1>5 DEF TopoInv

(* An answer shorter than the catalogue is as long as the cap.             *)
LEMMA SearchAnswersKeeps ==
  ASSUME TopoInv, SearchAnswers
  PROVE  TopoInv'
<1>1. PICK items \in SUBSET catalogue :
        /\ items = catalogue \/ Cardinality(items) = MaxItems
        /\ fetch' = [pc |-> "save",
                     answer |-> [sheets |-> {s \in items : s.geotiff},
                                 truncated |-> Truncated(items)]]
  BY DEF SearchAnswers
<1>2. /\ fetch.pc = "search" /\ topoLedger = Unsearched
      /\ UNCHANGED <<catalogue, topoTask, topoLedger, served, answered,
                     topoRuns>>
  BY DEF TopoInv, SearchAnswers
<1>3. /\ fetch'.pc = "save"
      /\ fetch'.answer.sheets = {s \in items : s.geotiff}
      /\ fetch'.answer.truncated = Truncated(items)
  BY <1>1
<1>4. catalogue \subseteq Sheets
  BY DEF TopoInv, TopoTypeOK, Sheets
<1>5. fetch' \in [pc : TopoPcs, answer : TopoAnswer]
  <2>1. Truncated(items) \in BOOLEAN /\ {s \in items : s.geotiff} \subseteq Sheets
    BY <1>4 DEF Truncated
  <2>2. QED
    BY <1>1, <2>1 DEF TopoPcs, TopoAnswer
<1>6. AnswersFor(fetch.answer)'
  <2>1. ~Truncated(items) => items = catalogue
    BY <1>1, TopoBound DEF Truncated
  <2>2. QED
    BY <1>2, <1>3, <2>1 DEF AnswersFor
<1>7. TopoTypeOK'
  BY <1>2, <1>3, <1>4 DEF TopoInv, TopoTypeOK
<1>8. OkDecadeShowsItsBest' /\ AbsentMeansNone'
  BY <1>2 DEF TopoInv, OkDecadeShowsItsBest, AbsentMeansNone
<1>9. Unsearched' = Unsearched
  BY DEF Unsearched
<1>10. QED
  BY <1>2, <1>3, <1>5, <1>6, <1>7, <1>8, <1>9 DEF TopoInv

(* Every run starts from no rows.                                          *)
LEMMA AgainKeeps ==
  ASSUME TopoInv, Again
  PROVE  TopoInv'
<1>1. fetch' = [pc |-> "start", answer |-> NoSheets]
  BY DEF Again, TopoIdle
<1>2. fetch' \in [pc : TopoPcs, answer : TopoAnswer] /\ fetch'.pc = "start"
      /\ fetch'.answer.sheets = {}
  BY <1>1 DEF TopoPcs, TopoAnswer, NoSheets
<1>3. /\ topoLedger' = Unsearched /\ topoTask' = "queued"
      /\ catalogue' \in Catalogues /\ topoRuns' \in 1 .. MaxTopoRuns
      /\ served' = served
  BY TopoBound DEF Again, TopoInv, TopoTypeOK
<1>4. WHOLE \in Keys /\ \A d \in Decades : d \in Keys
  BY DEF Keys
<1>5. /\ topoLedger'[WHOLE] = Unrecorded
      /\ \A d \in Decades : topoLedger'[d] = Unrecorded
  BY <1>3, <1>4 DEF Unsearched
<1>6. TopoTypeOK'
  BY <1>2, <1>3 DEF TopoInv, TopoTypeOK, Unsearched
<1>7. OkDecadeShowsItsBest' /\ AbsentMeansNone'
  BY <1>5 DEF OkDecadeShowsItsBest, AbsentMeansNone, Unrecorded
<1>8. Unsearched' = Unsearched
  BY DEF Unsearched
<1>9. QED
  BY <1>2, <1>3, <1>6, <1>7, <1>8 DEF TopoInv

(* What a run saves speaks of its answer.                                  *)
LEMMA SaveKeeps ==
  ASSUME TopoInv, Save
  PROVE  TopoInv'
<1> DEFINE answer == fetch.answer
<1>1. PICK sel \in Selections(answer.sheets) :
        topoLedger' = Rows(answer, sel) /\ served' = Reconciled(sel)
  BY DEF Save
<1>2. /\ fetch.pc = "save" /\ topoLedger = Unsearched /\ AnswersFor(answer)
      /\ answer \in TopoAnswer /\ answer.sheets \subseteq Sheets
      /\ answered' = answer /\ UNCHANGED <<catalogue, topoTask, topoRuns>>
      /\ TopoTypeOK
  BY DEF TopoInv, Save, TopoAnswer
<1>3. fetch' \in [pc : TopoPcs, answer : TopoAnswer] /\ fetch'.pc = "finish"
      /\ fetch'.answer = answer
  BY DEF TopoInv, TopoPcs, Save, Move
<1>4. /\ sel \subseteq Dated(answer.sheets)
      /\ \A s \in sel : DecadeOf(s) \in Decades =>
                           s \in Best(answer.sheets, DecadeOf(s))
      /\ \A s \in Dated(answer.sheets) :
           \E p \in sel : DecadeOf(p) = DecadeOf(s)
  BY <1>2, PicksAreBest
<1>5. sel \subseteq answer.sheets /\ sel \subseteq Sheets
  BY <1>2, <1>4 DEF Dated
<1>6. WHOLE \in Keys /\ WHOLE \notin Decades /\ \A d \in Decades : d \in Keys
  BY DEF Keys, Decades, WHOLE
<1>7. \A k \in Keys : topoLedger[k] = Unrecorded
  BY <1>2 DEF Unsearched
<1>8. topoLedger'[WHOLE] = WholeOutcome(answer)
  BY <1>1, <1>6, <1>7 DEF Rows
<1>9. ASSUME NEW d \in Decades, NEW q \in sel, DecadeOf(q) = d
      PROVE  \E s \in sel :
               /\ DecadeOf(s) = d
               /\ topoLedger'[d] = SheetOutcome(s)
               /\ s.id # 0 => served'[d] = s.id
  <2>1. PICK s \in sel :
          /\ DecadeOf(s) = d
          /\ s = CHOOSE x \in sel : DecadeOf(x) = d
    BY <1>9
  <2>2. topoLedger'[d] = SheetOutcome(s)
    BY <1>1, <1>6, <2>1 DEF Rows
  <2>3. s.id # 0 => served'[d] = s.id
    BY <1>1, <2>1 DEF Reconciled
  <2>4. QED
    BY <2>1, <2>2, <2>3
<1>10. \A d \in Decades :
         (\A q \in sel : DecadeOf(q) # d) => topoLedger'[d] = Unrecorded
  BY <1>1, <1>6, <1>7 DEF Rows
<1>11. \A s : SheetOutcome(s) \in {"suppressed", "ok"}
               /\ (SheetOutcome(s) = "ok" => s.id # 0)
  BY DEF SheetOutcome
<1>12. TopoTypeOK'
  <2>1. topoLedger' \in [Keys -> {"ok", "failed", "absent", "indeterminate",
                                 "suppressed", Unrecorded}]
    <3>1. WholeOutcome(answer) \in {"indeterminate", "absent", Unrecorded}
      BY DEF WholeOutcome
    <3>2. \A k \in Keys : k # WHOLE => k \in Decades
      BY DEF Keys
    <3>3. \A k \in Keys :
            topoLedger'[k] \in {"ok", "failed", "absent", "indeterminate",
                               "suppressed", Unrecorded}
      BY <1>8, <1>9, <1>10, <1>11, <3>1, <3>2
    <3>4. topoLedger' = [k \in Keys |-> topoLedger'[k]]
      BY <1>1 DEF Rows
    <3>5. QED
      BY <3>3, <3>4
  <2>2. served' \in [Decades -> {NotServed} \cup {s.id : s \in Sheets}]
    <3>1. ASSUME NEW d \in Decades
          PROVE  served'[d] \in {NotServed} \cup {s.id : s \in Sheets}
      <4>1. CASE \E s \in sel : DecadeOf(s) = d /\ s.id # 0
        <5>1. (CHOOSE s \in sel : DecadeOf(s) = d) \in sel
          BY <4>1
        <5>2. served'[d] = (CHOOSE s \in sel : DecadeOf(s) = d).id
          BY <1>1, <4>1 DEF Reconciled
        <5>3. QED
          BY <1>5, <5>1, <5>2
      <4>2. CASE ~\E s \in sel : DecadeOf(s) = d /\ s.id # 0
        <5>1. served'[d] = served[d]
          BY <1>1, <4>2 DEF Reconciled
        <5>2. QED
          BY <1>2, <5>1 DEF TopoTypeOK
      <4>3. QED
        BY <4>1, <4>2
    <3>2. served' = [d \in Decades |-> served'[d]]
      BY <1>1 DEF Reconciled
    <3>3. QED
      BY <3>1, <3>2
  <2>3. QED
    BY <1>2, <1>3, <2>1, <2>2 DEF TopoTypeOK
<1>13. OkDecadeShowsItsBest'
  <2> SUFFICES ASSUME NEW d \in Decades, topoLedger'[d] = "ok"
               PROVE  \E s \in answer.sheets :
                        /\ s.id # 0 /\ s.id = served'[d] /\ DecadeOf(s) = d
                        /\ \A t \in answer.sheets :
                             t.year # 0 /\ DecadeOf(t) = d =>
                               \/ s.extent < t.extent
                               \/ s.extent = t.extent /\ s.year <= t.year
    BY <1>2 DEF OkDecadeShowsItsBest
  <2>1. PICK q \in sel : DecadeOf(q) = d
    BY <1>10 DEF Unrecorded
  <2>2. PICK s \in sel : /\ DecadeOf(s) = d
                         /\ topoLedger'[d] = SheetOutcome(s)
                         /\ s.id # 0 => served'[d] = s.id
    BY <1>9, <2>1
  <2>3. s.id # 0 /\ served'[d] = s.id
    BY <1>11, <2>2
  <2>4. s \in Best(answer.sheets, d)
    BY <1>4, <2>2
  <2>5. ASSUME NEW t \in answer.sheets, t.year # 0, DecadeOf(t) = d
        PROVE  \/ s.extent < t.extent
               \/ s.extent = t.extent /\ s.year <= t.year
    <3>1. ~Better(t, s)
      BY <2>4, <2>5 DEF Best, Dated
    <3>2. /\ s.extent \in Nat /\ s.year \in Nat
          /\ t.extent \in Nat /\ t.year \in Nat
      BY <1>2, <1>5, SheetTyped
    <3>3. QED
      BY <3>1, <3>2 DEF Better
  <2>6. QED
    BY <1>5, <2>2, <2>3, <2>5
<1>14. AbsentMeansNone'
  <2> SUFFICES ASSUME WholeOutcome(answer) = "absent", NEW s \in catalogue
               PROVE  ~s.geotiff
    BY <1>2, <1>8 DEF AbsentMeansNone
  <2>1. ~answer.truncated /\ answer.sheets = {}
    BY DEF WholeOutcome, Unrecorded
  <2>2. QED
    BY <1>2, <2>1 DEF AnswersFor
<1>15. GapsShow'
  <2> SUFFICES ASSUME NEW s \in catalogue, s.geotiff, s.year # 0,
                      topoLedger'[DecadeOf(s)] = Unrecorded
               PROVE  topoLedger'[WHOLE] = "indeterminate"
    BY <1>2 DEF GapsShow
  <2>1. CASE answer.truncated
    BY <1>8, <2>1 DEF WholeOutcome
  <2>2. CASE ~answer.truncated
    <3>1. s \in Dated(answer.sheets) /\ s \in Sheets
      BY <1>2, <2>2 DEF AnswersFor, Dated
    <3>2. DecadeOf(s) \in Decades
      BY <3>1, SheetTyped
    <3>3. PICK q \in sel : DecadeOf(q) = DecadeOf(s)
      BY <1>4, <3>1
    <3>4. topoLedger'[DecadeOf(s)] \in {"suppressed", "ok"}
      BY <1>9, <1>11, <3>2, <3>3
    <3>5. QED
      BY <3>4 DEF Unrecorded
  <2>3. QED
    BY <1>2, <2>1, <2>2
<1>16. QED
  BY <1>3, <1>12, <1>13, <1>14, <1>15 DEF TopoInv

LEMMA TopoStep == TopoInv /\ [TopoNext]_topoVars => TopoInv'
<1> SUFFICES ASSUME TopoInv, [TopoNext]_topoVars
             PROVE  TopoInv'
  OBVIOUS
<1>1. CASE UNCHANGED topoVars
  BY <1>1 DEF topoVars, TopoInv, TopoTypeOK, GapsShow, OkDecadeShowsItsBest,
     AbsentMeansNone, AnswersFor, Unsearched
<1>2. QED
  BY <1>1, TopoMovesKeep, SearchFailsKeeps, SearchAnswersKeeps, SaveKeeps,
     AgainKeeps DEF TopoNext

(* An ok decade serves the finest, then oldest sheet of what the run was   *)
(* answered; a decade without a row for which the service held a sheet     *)
(* leaves the source indeterminate; "absent" is the service's answer.      *)
THEOREM MapVerdictsAreHonest == TopoSpec => []TopoVerdictsAreHonest
<1>1. TopoInv => TopoVerdictsAreHonest
  BY DEF TopoInv, TopoVerdictsAreHonest, GapsAreIndeterminate, GapsShow
<1>2. QED
  BY <1>1, TopoInitHolds, TopoStep, PTL DEF TopoSpec

-----------------------------------------------------------------------------
(* Property records.                                                       *)

(* What an attempt has done: before it reports, every row it was answered  *)
(* about this address is on file or still to be stored, and no failed      *)
(* query means that every query was answered.                              *)
OnFile(e) == \E old \in events : old.source = e.source /\ old.id = e.id
Listed(e) == \E listing \in Portals : \E r \in listing : e.situs = r.situs
Sound(e) == Listed(e) /\ AboutThisAddress(e)
StoreAccounts ==
  /\ lookup.failed = 0 => lookup.whole
  /\ lookup.failed \in Nat
  /\ \A e \in Kept(lookup.rows) : e \in lookup.todo \/ OnFile(e)
  /\ \A e \in lookup.todo : Sound(e)
PropertyInv ==
  /\ place \in Places /\ portal \in Portals
  /\ row = [status |-> row.status, coverage |-> row.coverage, run |-> row.run,
            failed |-> row.failed, items |-> row.items]
  /\ lookup = [pc |-> lookup.pc, todo |-> lookup.todo, rows |-> lookup.rows,
               failed |-> lookup.failed, whole |-> lookup.whole]
  /\ lookup.pc \in {"gather", "store"} => HasAdapter
  /\ lookup.pc = "store" => StoreAccounts
  /\ lookup.pc = "idle" => \/ row.status \in {"partial", "failed", "skipped"}
                           \/ row.status = "complete" /\ row.failed = 0
  /\ HasAdapter /\ Covers(place.county, place.city) => row.coverage # "not_covered"
  /\ PropertyCompleteIsWhole
  /\ \A e \in events : Sound(e)

(* The queries of a county are eight at most.                              *)
Few(S, n) == IsFiniteSet(S) /\ Cardinality(S) <= n

LEMMA OneMore ==
  ASSUME NEW S, NEW n \in Nat, Few(S, n), NEW x
  PROVE  Few(S \cup {x}, n + 1)
<1>1. IsFiniteSet(S) /\ Cardinality(S) \in Nat
  BY FS_CardinalityType DEF Few
<1>2. IsFiniteSet(S \cup {x}) /\ Cardinality(S \cup {x}) <= Cardinality(S) + 1
  BY <1>1, FS_AddElement
<1>3. Cardinality(S \cup {x}) \in Nat
  BY <1>2, FS_CardinalityType
<1>4. QED
  BY <1>1, <1>2, <1>3 DEF Few

LEMMA QueriesAreFew == \A county \in Counties : Few(Queries[county], 8)
<1>1. Few({}, 0)
  BY FS_EmptySet DEF Few
<1>2. \A S : \A n \in 0 .. 8 : Few(S, n) => Few(S, 8)
  BY FS_CardinalityType DEF Few
<1>3. \A a : Few({a}, 1)
  <2> SUFFICES ASSUME NEW a
               PROVE  Few({a}, 1)
    OBVIOUS
  <2>1. Few({} \cup {a}, 0 + 1)
    BY <1>1, OneMore
  <2>2. {} \cup {a} = {a} /\ 0 + 1 = 1
    OBVIOUS
  <2>3. QED
    BY <2>1, <2>2
<1>4. \A a, b : Few({a, b}, 2)
  <2> SUFFICES ASSUME NEW a, NEW b
               PROVE  Few({a, b}, 2)
    OBVIOUS
  <2>1. Few({a} \cup {b}, 1 + 1)
    BY <1>3, OneMore
  <2>2. {a} \cup {b} = {a, b} /\ 1 + 1 = 2
    OBVIOUS
  <2>3. QED
    BY <2>1, <2>2
<1>5. \A S, n, a, b, c : n \in Nat /\ Few(S, n) => Few(((S \cup {a}) \cup {b}) \cup {c}, n + 3)
  <2> SUFFICES ASSUME NEW S, NEW n \in Nat, NEW a, NEW b, NEW c, Few(S, n)
               PROVE  Few(((S \cup {a}) \cup {b}) \cup {c}, n + 3)
    OBVIOUS
  <2>0. n + 1 \in Nat /\ (n + 1) + 1 \in Nat
    OBVIOUS
  <2>1. Few(S \cup {a}, n + 1)
    BY OneMore
  <2>2. Few((S \cup {a}) \cup {b}, (n + 1) + 1)
    BY <2>0, <2>1, OneMore
  <2>3. Few(((S \cup {a}) \cup {b}) \cup {c}, ((n + 1) + 1) + 1)
    BY <2>0, <2>2, OneMore
  <2>4. ((n + 1) + 1) + 1 = n + 3
    OBVIOUS
  <2>5. QED
    BY <2>3, <2>4
<1>6. \A a, b, c : Few({a, b, c}, 3)
  <2> SUFFICES ASSUME NEW a, NEW b, NEW c
               PROVE  Few({a, b, c}, 3)
    OBVIOUS
  <2>1. Few((({} \cup {a}) \cup {b}) \cup {c}, 0 + 3)
    BY <1>1, <1>5
  <2>2. (({} \cup {a}) \cup {b}) \cup {c} = {a, b, c} /\ 0 + 3 = 3
    OBVIOUS
  <2>3. QED
    BY <2>1, <2>2
<1>7. Few({"itspe", "2026", "2025", "2024", "2023", "2022", "2021", "2020"}, 8)
  <2>1. Few({"itspe", "2026"}, 2)
    BY <1>4
  <2>2. Few((({"itspe", "2026"} \cup {"2025"}) \cup {"2024"}) \cup {"2023"}, 2 + 3)
    BY <1>5, <2>1
  <2>3. (({"itspe", "2026"} \cup {"2025"}) \cup {"2024"}) \cup {"2023"}
          = {"itspe", "2026", "2025", "2024", "2023"} /\ 2 + 3 = 5
    OBVIOUS
  <2>4. Few({"itspe", "2026", "2025", "2024", "2023"}, 5)
    BY <2>2, <2>3
  <2>5. Few((({"itspe", "2026", "2025", "2024", "2023"} \cup {"2022"}) \cup {"2021"})
              \cup {"2020"}, 5 + 3)
    BY <1>5, <2>4
  <2>6. (({"itspe", "2026", "2025", "2024", "2023"} \cup {"2022"}) \cup {"2021"})
              \cup {"2020"}
          = {"itspe", "2026", "2025", "2024", "2023", "2022", "2021", "2020"}
        /\ 5 + 3 = 8
    OBVIOUS
  <2>7. QED
    BY <2>5, <2>6
<1>8. Counties = {"denver", "adams", "dc", "santa_clara", "new_york"}
  BY DEF Counties, Queries
<1>9. /\ Few(Queries["denver"], 2) /\ Few(Queries["adams"], 1) /\ Few(Queries["dc"], 8)
      /\ Few(Queries["santa_clara"], 3) /\ Few(Queries["new_york"], 3)
  BY <1>3, <1>4, <1>6, <1>7 DEF Queries
<1>10. QED
  BY <1>2, <1>8, <1>9

LEMMA QueriesAreFinite == \A county \in Counties : IsFiniteSet(Queries[county])
  BY QueriesAreFew DEF Few

(* A street has finitely many words.                                       *)
LEMMA StreetsAreFinite ==
  \A address \in Seq(STRING) : IsFiniteSet(StreetWords(address))
<1> SUFFICES ASSUME NEW address \in Seq(STRING)
             PROVE  IsFiniteSet(StreetWords(address))
  OBVIOUS
<1> DEFINE f == [i \in 2 .. Len(address) |-> NormalizeAddress(address)[i]]
<1>1. IsFiniteSet(2 .. Len(address))
  BY FS_Interval
<1>2. f \in Surjection(2 .. Len(address), StreetWords(address))
  <2>1. f \in [2 .. Len(address) -> StreetWords(address)]
    BY DEF StreetWords
  <2>2. \A w \in StreetWords(address) : \E i \in 2 .. Len(address) : f[i] = w
    BY DEF StreetWords
  <2>3. QED
    BY <2>1, <2>2 DEF Surjection
<1>3. QED
  BY <1>1, <1>2, FS_Surjection

(* Parsing keeps the address of a row.                                     *)
LEMMA ParsingKeepsAddress ==
  \A county, query, r, terms : \A e \in Parsed(county, query, r, terms) :
    e.situs = r.situs
<1> SUFFICES ASSUME NEW county, NEW query, NEW r, NEW terms,
                    NEW e \in Parsed(county, query, r, terms)
             PROVE  e.situs = r.situs
  OBVIOUS
<1>1. \A kind, source, id : Event(kind, source, id, r).situs = r.situs
  BY DEF Event
<1>2. \E kind, source, id : e = Event(kind, source, id, r)
  <2>1. \/ e \in DenverPermit(r) \/ e \in AdamsPermit(r) \/ e \in DCSale(r)
        \/ e \in DCPermit(r) \/ e \in SanJosePermit(r, terms)
        \/ e \in NewYorkSale(r) \/ e \in NewYorkPermit(r)
    BY Zenon DEF Parsed
  <2>2. QED
    BY <2>1 DEF DenverPermit, AdamsPermit, DCSale, DCPermit, SanJosePermit,
       NewYorkSale, NewYorkPermit, Permit
<1>3. QED
  BY <1>1, <1>2

(* A reply that is not the rows a client takes is seen to be none.         *)
LEMMA BadRepliesAreSeen ==
  \A county \in Counties : \A bad \in Replies \ {RowsReply(county)} :
    ~Answered(county, bad)
<1> SUFFICES ASSUME NEW county \in Counties, NEW bad \in Replies \ {RowsReply(county)},
                    Answered(county, bad)
             PROVE  FALSE
  OBVIOUS
<1>1. bad = [status |-> bad.status, body |-> bad.body]
  BY DEF Replies
<1>2. bad.status = 200 /\ bad.body = IF county = "new_york" THEN "list" ELSE "object"
  <2>1. Counties = {"denver", "adams", "dc", "santa_clara", "new_york"}
    BY DEF Counties, Queries
  <2>2. QED
    BY <2>1 DEF Answered, CKANAnswered, SocrataAnswered, ArcGISAnswered
<1>3. QED
  BY <1>1, <1>2 DEF RowsReply

LEMMA PropertyInitHolds == PropertyInit => PropertyInv
<1> SUFFICES ASSUME PropertyInit
             PROVE  PropertyInv
  OBVIOUS
<1>1. place \in Places /\ portal \in Portals /\ events = {}
  BY DEF PropertyInit
<1>2. row = [status |-> "queued", coverage |-> "null", run |-> 0, failed |-> 0,
             items |-> 0]
  BY DEF PropertyInit, NewRow, NoCoverage
<1>3. lookup = [pc |-> "start", todo |-> {}, rows |-> {}, failed |-> 0, whole |-> TRUE]
  BY DEF PropertyInit, Idle
<1>4. PropertyCompleteIsWhole
  BY <1>1, <1>2 DEF PropertyCompleteIsWhole
<1>5. QED
  BY <1>1, <1>2, <1>3, <1>4 DEF PropertyInv

(* What is kept of the rows and the address of the parcel depend on the    *)
(* parcel alone.                                                           *)
LEMMA KeptStays ==
  ASSUME place' = place
  PROVE  /\ \A e : AboutThisAddress(e)' = AboutThisAddress(e)
         /\ \A rs : Kept(rs)' = Kept(rs)
         /\ HasAdapter' = HasAdapter /\ Asked' = Asked
<1>1. \A e : AboutThisAddress(e)' = AboutThisAddress(e)
  BY DEF AboutThisAddress
<1>2. HasAdapter' = HasAdapter /\ Asked' = Asked
  BY DEF HasAdapter, Asked
<1>3. Terms' = Terms
  BY DEF Terms
<1>4. \A rs : EventsOf(rs)' = EventsOf(rs)
  BY <1>3 DEF EventsOf
<1>5. \A rs : Kept(rs)' = Kept(rs)
  BY <1>1, <1>4 DEF Kept
<1>6. QED
  BY <1>1, <1>2, <1>5

(* A step that stores nothing keeps what is on file.                       *)
LEMMA FileStays ==
  ASSUME PropertyInv, place' = place, events' = events
  PROVE  /\ \A e \in events' : Sound(e)'
         /\ heard' = heard /\ row'.status = row.status /\ row'.failed = row.failed
              /\ row'.run = row.run => PropertyCompleteIsWhole'
<1>1. \A e \in events' : Sound(e)'
  BY KeptStays DEF Sound, PropertyInv
<1>2. ASSUME heard' = heard, row'.status = row.status, row'.failed = row.failed,
             row'.run = row.run
      PROVE  PropertyCompleteIsWhole'
  BY <1>2, KeptStays DEF PropertyCompleteIsWhole, PropertyInv
<1>3. QED
  BY <1>1, <1>2

LEMMA PortalChangesKeeps ==
  ASSUME PropertyInv, PortalChanges
  PROVE  PropertyInv'
<1>1. /\ portal' \in Portals /\ lookup.pc # "store"
      /\ UNCHANGED <<place, row, events, lookup, heard>>
  BY DEF PortalChanges
<1>2. /\ PropertyCompleteIsWhole'
      /\ \A e \in events' : Sound(e)'
  BY <1>1, FileStays
<1>3. HasAdapter' = HasAdapter
  BY <1>1, KeptStays
<1>4. QED
  BY <1>1, <1>2, <1>3 DEF PropertyInv

(* The steps that only move on, and those that end an attempt or start the *)
(* next one.                                                               *)
PropertyMoves ==
  SkipUncovered \/ Begin \/ PropertyRaises \/ PropertyMarkFailed
    \/ LosePropertyRun \/ RedeliverProperty \/ Visit

LEMMA PropertyMovesKeep ==
  ASSUME PropertyInv, PropertyMoves
  PROVE  PropertyInv'
<1>1. UNCHANGED <<place, portal, events, heard>>
  BY DEF PropertyMoves, SkipUncovered, Begin, PropertyRaises, PropertyMarkFailed,
     LosePropertyRun, RedeliverProperty, Visit
<1>2. \A e \in events' : Sound(e)'
  BY <1>1, FileStays
<1>3. HasAdapter' = HasAdapter
  BY <1>1, KeptStays
<1>4. PropertyCompleteIsWhole'
  <2>1. \/ row'.status # "complete"
        \/ row'.status = row.status /\ row'.failed = row.failed /\ row'.run = row.run
    <3>1. CASE PropertyRaises \/ LosePropertyRun
      BY <3>1 DEF PropertyRaises, LosePropertyRun
    <3>2. CASE SkipUncovered
      BY <3>2 DEF SkipUncovered, Report
    <3>3. CASE Visit
      BY <3>3 DEF Visit, NewRow
    <3>4. CASE Begin \/ PropertyMarkFailed \/ RedeliverProperty
      BY <3>4 DEF PropertyInv, Begin, PropertyMarkFailed, RedeliverProperty
    <3>5. QED
      BY <3>1, <3>2, <3>3, <3>4 DEF PropertyMoves
  <2>2. CASE row'.status # "complete"
    BY <2>2 DEF PropertyCompleteIsWhole
  <2>3. QED
    BY <1>1, <2>1, <2>2, FileStays
<1>5. /\ row' = [status |-> row'.status, coverage |-> row'.coverage,
                 run |-> row'.run, failed |-> row'.failed, items |-> row'.items]
      /\ HasAdapter /\ Covers(place.county, place.city) =>
           row'.coverage # "not_covered"
  <2>1. CASE SkipUncovered
    BY <2>1 DEF SkipUncovered, Report
  <2>2. CASE Begin
    BY <2>2 DEF Begin, PropertyInv
  <2>3. CASE PropertyRaises
    BY <2>3 DEF PropertyRaises, PropertyInv
  <2>4. CASE PropertyMarkFailed
    BY <2>4 DEF PropertyMarkFailed, PropertyInv
  <2>5. CASE LosePropertyRun
    BY <2>5 DEF LosePropertyRun, PropertyInv
  <2>6. CASE RedeliverProperty
    BY <2>6 DEF RedeliverProperty, PropertyInv
  <2>7. CASE Visit
    BY <2>7 DEF Visit, NewRow, NoCoverage
  <2>8. QED
    BY <2>1, <2>2, <2>3, <2>4, <2>5, <2>6, <2>7 DEF PropertyMoves
<1>6. /\ lookup' = [pc |-> lookup'.pc, todo |-> lookup'.todo, rows |-> lookup'.rows,
                    failed |-> lookup'.failed, whole |-> lookup'.whole]
      /\ lookup'.pc # "store"
      /\ lookup'.pc = "gather" => HasAdapter
      /\ lookup'.pc = "idle" => row'.status \in {"failed", "skipped"}
  <2>1. CASE SkipUncovered
    BY <2>1 DEF SkipUncovered, Report, Idle
  <2>2. CASE Begin
    BY <2>2 DEF Begin, PropertyInv
  <2>3. CASE PropertyRaises
    BY <2>3 DEF PropertyRaises, Idle
  <2>4. CASE PropertyMarkFailed
    BY <2>4 DEF PropertyMarkFailed, PropertyInv, Idle
  <2>5. CASE LosePropertyRun
    BY <2>5 DEF LosePropertyRun, Idle
  <2>6. CASE RedeliverProperty
    BY <2>6 DEF RedeliverProperty, Idle
  <2>7. CASE Visit
    BY <2>7 DEF Visit, Idle
  <2>8. QED
    BY <2>1, <2>2, <2>3, <2>4, <2>5, <2>6, <2>7 DEF PropertyMoves
<1>7. place' \in Places /\ portal' \in Portals
  BY <1>1 DEF PropertyInv
<1>8. QED
  BY <1>1, <1>2, <1>3, <1>4, <1>5, <1>6, <1>7 DEF PropertyInv

(* With no bad reply taken for rows, a lookup that counts no failure was   *)
(* answered whole.                                                         *)
LEMMA GatherKeeps ==
  ASSUME PropertyInv, Gather
  PROVE  PropertyInv'
<1>1. PICK ill \in SUBSET Asked, bad \in Replies \ {RowsReply(place.county)} :
       LET failed == IF Answered(place.county, bad) THEN {} ELSE ill
           got == UNION {Answer(q) : q \in Asked \ ill}
       IN  IF AllFailed(failed)
           THEN /\ Report("failed", "covered", Cardinality(Asked),
                          Cardinality(failed), row.items)
                /\ lookup' = Idle
           ELSE /\ lookup' = [pc |-> "store", todo |-> Kept(got), rows |-> got,
                            failed |-> Cardinality(failed), whole |-> ill = {}]
                /\ UNCHANGED row
  BY Zenon DEF Gather
<1>2. /\ lookup.pc = "gather" /\ UNCHANGED <<place, portal, events, heard>>
  BY DEF Gather
<1>3. place.county \in Counties /\ HasAdapter
  BY <1>2 DEF PropertyInv, HasAdapter
<1>4. ~Answered(place.county, bad)
  BY <1>3, BadRepliesAreSeen
<1>5. PICK got : got = UNION {Answer(q) : q \in Asked \ ill}
  OBVIOUS
<1>6. \A e \in events' : Sound(e)'
  BY <1>2, FileStays
<1>7. HasAdapter' = HasAdapter /\ place' \in Places /\ portal' \in Portals
  BY <1>2, KeptStays DEF PropertyInv
<1>8. CASE AllFailed(ill)
  <2>1. /\ Report("failed", "covered", Cardinality(Asked), Cardinality(ill), row.items)
        /\ lookup' = Idle
    BY <1>1, <1>4, <1>8
  <2>2. PropertyCompleteIsWhole'
    BY <2>1 DEF Report, PropertyCompleteIsWhole
  <2>3. QED
    BY <1>2, <1>6, <1>7, <2>1, <2>2 DEF Report, Idle, PropertyInv
<1>9. CASE ~AllFailed(ill)
  <2>1. /\ lookup' = [pc |-> "store", todo |-> Kept(got), rows |-> got,
                      failed |-> Cardinality(ill), whole |-> ill = {}]
        /\ row' = row
    BY <1>1, <1>4, <1>5, <1>9
  <2>2. IsFiniteSet(ill)
    BY <1>3, QueriesAreFinite, FS_Subset DEF Asked
  <2>3. Cardinality(ill) \in Nat /\ (Cardinality(ill) = 0 => ill = {})
    BY <2>2, FS_CardinalityType, FS_EmptySet
  <2>4. Kept(lookup.rows)' = Kept(got)
    <3>1. Kept(got)' = Kept(got)
      BY <1>2, KeptStays
    <3>2. QED
      BY <2>1, <3>1
  <2>5. \A e \in Kept(got) : Sound(e)
    <3> SUFFICES ASSUME NEW e \in Kept(got)
                 PROVE  Sound(e)
      OBVIOUS
    <3>1. AboutThisAddress(e) /\ e \in EventsOf(got)
      BY DEF Kept
    <3>2. PICK r \in got : e \in Parsed(place.county, r.from, r, Terms)
      BY <3>1 DEF EventsOf
    <3>3. r \in portal
      BY <1>5, <3>2 DEF Answer
    <3>4. e.situs = r.situs
      BY <3>2, ParsingKeepsAddress
    <3>5. QED
      BY <3>1, <3>3, <3>4 DEF Sound, Listed, PropertyInv
  <2>6. \A e : Sound(e)' = Sound(e)
    BY <1>2, KeptStays DEF Sound, Listed
  <2>7. StoreAccounts'
    BY <2>1, <2>3, <2>4, <2>5, <2>6 DEF StoreAccounts
  <2>8. PropertyCompleteIsWhole'
    BY <1>2, <2>1, FileStays
  <2>9. QED
    BY <1>2, <1>3, <1>6, <1>7, <2>1, <2>7, <2>8 DEF PropertyInv
<1>10. QED
  BY <1>8, <1>9

(* A row stored, or found on file under its record id.                     *)
LEMMA StoreKeeps ==
  ASSUME PropertyInv, Store
  PROVE  PropertyInv'
<1>1. PICK e \in lookup.todo :
       /\ events' = IF \E old \in events : SameRecord(old, e) THEN events
                    ELSE events \cup {e}
       /\ lookup' = [lookup EXCEPT !.todo = @ \ {e}]
  BY DEF Store
<1>2. /\ lookup.pc = "store" /\ UNCHANGED <<place, portal, row, heard>>
  BY DEF Store
<1>3. /\ lookup' = [pc |-> "store", todo |-> lookup.todo \ {e}, rows |-> lookup.rows,
                    failed |-> lookup.failed, whole |-> lookup.whole]
  BY <1>1, <1>2 DEF PropertyInv
<1>4. StoreAccounts
  BY <1>2 DEF PropertyInv
<1>5. \A d : OnFile(d) => OnFile(d)'
  BY <1>1 DEF OnFile
<1>6. OnFile(e)'
  BY <1>1 DEF OnFile, SameRecord
<1>7. Kept(lookup.rows)' = Kept(lookup.rows)
  <2>1. Kept(lookup.rows)' = Kept(lookup'.rows)
    BY <1>2 DEF Kept, EventsOf, AboutThisAddress, Terms
  <2>2. QED
    BY <1>3, <2>1
<1>8. \A d : Sound(d)' = Sound(d)
  BY <1>2, KeptStays DEF Sound, Listed
<1>9. StoreAccounts'
  BY <1>3, <1>4, <1>5, <1>6, <1>7, <1>8 DEF StoreAccounts
<1>10. \A d \in events' : Sound(d)'
  BY <1>1, <1>4, <1>8 DEF StoreAccounts, PropertyInv
<1>11. PropertyCompleteIsWhole'
  <2>1. Asked' = Asked /\ \A rs : Kept(rs)' = Kept(rs)
    BY <1>2, KeptStays
  <2>2. PropertyCompleteIsWhole
    BY DEF PropertyInv
  <2>3. \A d : OnFile(d) => \E old \in events' : old.source = d.source /\ old.id = d.id
    BY <1>5 DEF OnFile
  <2>4. QED
    BY <1>2, <2>1, <2>2, <2>3 DEF PropertyCompleteIsWhole, OnFile
<1>12. HasAdapter' = HasAdapter
  BY <1>2, KeptStays
<1>13. QED
  BY <1>2, <1>3, <1>9, <1>10, <1>11, <1>12 DEF PropertyInv

(* A run that counted no failure reports complete: it was answered whole,  *)
(* and nothing is left to store.                                           *)
LEMMA FinishKeeps ==
  ASSUME PropertyInv, Finish
  PROVE  PropertyInv'
<1>1. /\ lookup.pc = "store" /\ lookup.todo = {}
      /\ row' = [status |-> Verdict, coverage |-> "covered",
                 run |-> Cardinality(Asked), failed |-> lookup.failed,
                 items |-> Cardinality(events)]
      /\ heard' = [rows |-> lookup.rows, whole |-> lookup.whole]
      /\ lookup' = [pc |-> "idle", todo |-> {}, rows |-> {}, failed |-> 0,
                    whole |-> TRUE]
      /\ UNCHANGED <<place, portal, events>>
  BY DEF Finish, Report, Idle
<1>2. StoreAccounts
  BY <1>1 DEF PropertyInv
<1>3. \/ Verdict = "partial"
      \/ Verdict = "complete" /\ lookup.failed = 0
  BY <1>2 DEF Verdict, StoreAccounts
<1>4. PropertyCompleteIsWhole'
  <2> SUFFICES ASSUME Verdict = "complete"
               PROVE  PropertyCompleteIsWhole'
    BY <1>1 DEF PropertyCompleteIsWhole
  <2>1. lookup.failed = 0 /\ lookup.whole
    BY <1>2, <1>3 DEF StoreAccounts
  <2>2. Kept(heard.rows)' = Kept(lookup.rows)
    <3>1. Kept(heard.rows)' = Kept(heard'.rows)
      BY <1>1 DEF Kept, EventsOf, AboutThisAddress, Terms
    <3>2. QED
      BY <1>1, <3>1
  <2>3. \A e \in Kept(lookup.rows) : OnFile(e)
    BY <1>1, <1>2 DEF StoreAccounts
  <2>4. Asked' = Asked
    BY <1>1, KeptStays
  <2>5. QED
    BY <1>1, <2>1, <2>2, <2>3, <2>4 DEF PropertyCompleteIsWhole, OnFile
<1>5. \A e \in events' : Sound(e)'
  BY <1>1, FileStays
<1>6. QED
  BY <1>1, <1>3, <1>4, <1>5 DEF PropertyInv

LEMMA PropertyStep == PropertyInv /\ [PropertyNext]_propertyVars => PropertyInv'
<1> SUFFICES ASSUME PropertyInv, [PropertyNext]_propertyVars
             PROVE  PropertyInv'
  OBVIOUS
<1>1. CASE UNCHANGED propertyVars
  <2>1. UNCHANGED <<place, portal, row, events, lookup, heard>>
    BY <1>1 DEF propertyVars
  <2>2. HasAdapter' = HasAdapter /\ \A rs : Kept(rs)' = Kept(rs)
    BY <2>1, KeptStays
  <2>3. /\ PropertyCompleteIsWhole'
        /\ \A e \in events' : Sound(e)'
    BY <2>1, FileStays
  <2>4. StoreAccounts => StoreAccounts'
    <3>1. Kept(lookup.rows)' = Kept(lookup.rows)
      BY <2>1 DEF Kept, EventsOf, AboutThisAddress, Terms
    <3>2. \A e : Sound(e)' = Sound(e)
      BY <2>1, KeptStays DEF Sound, Listed
    <3>3. QED
      BY <2>1, <3>1, <3>2 DEF StoreAccounts, OnFile
  <2>5. QED
    BY <2>1, <2>2, <2>3, <2>4 DEF PropertyInv
<1>2. QED
  BY <1>1, PropertyMovesKeep, PortalChangesKeeps, GatherKeeps, StoreKeeps,
     FinishKeeps DEF PropertyNext, PropertyMoves

LEMMA PropertyInvHolds == PropertySpec => []PropertyInv
  BY PropertyInitHolds, PropertyStep, PTL DEF PropertySpec

(* The types: a report counts at most the eight queries, and no more       *)
(* records than are on file, which a later run only adds to.               *)
PropertyTyped ==
  /\ PropertyTypeOK
  /\ IsFiniteSet(events)
  /\ lookup.pc = "store" => lookup.failed \in 0 .. 8

RowStatuses == {"queued", "processing", "complete", "partial", "skipped", "failed"}
Coverages == {NoCoverage, "no_adapter", "not_covered", "covered"}

LEMMA RowTyped ==
  ASSUME IsFiniteSet(events), NEW st \in RowStatuses, NEW co \in Coverages,
         NEW ru \in 0 .. 8, NEW fa \in 0 .. 8, NEW it \in 0 .. Cardinality(events)
  PROVE  [status |-> st, coverage |-> co, run |-> ru, failed |-> fa, items |-> it]
           \in [status : RowStatuses, coverage : Coverages, run : 0 .. 8,
               failed : 0 .. 8, items : 0 .. Cardinality(events)]
  OBVIOUS

LEMMA CountsTyped ==
  ASSUME HasAdapter, NEW ill \in SUBSET Asked
  PROVE  Cardinality(ill) \in 0 .. 8 /\ Cardinality(Asked) \in 0 .. 8
<1>1. Few(Asked, 8)
  BY QueriesAreFew DEF HasAdapter, Asked
<1>2. IsFiniteSet(ill) /\ Cardinality(ill) <= Cardinality(Asked)
  BY <1>1, FS_Subset DEF Few
<1>3. Cardinality(ill) \in Nat /\ Cardinality(Asked) \in Nat
  BY <1>1, <1>2, FS_CardinalityType DEF Few
<1>4. QED
  BY <1>1, <1>2, <1>3 DEF Few

LEMMA PropertyStartsTyped == PropertyInit => PropertyTyped
<1> SUFFICES ASSUME PropertyInit
             PROVE  PropertyTyped
  OBVIOUS
<1>1. IsFiniteSet(events) /\ Cardinality(events) = 0
  BY FS_EmptySet DEF PropertyInit
<1>2. row = [status |-> "queued", coverage |-> NoCoverage, run |-> 0, failed |-> 0,
             items |-> 0]
  BY DEF PropertyInit, NewRow
<1>3. row \in [status : RowStatuses, coverage : Coverages, run : 0 .. 8,
              failed : 0 .. 8, items : 0 .. Cardinality(events)]
  BY <1>1, <1>2 DEF RowStatuses, Coverages
<1>4. lookup.pc = "start"
  BY DEF PropertyInit, Idle
<1>5. QED
  BY <1>1, <1>3, <1>4, PropertyBound
     DEF PropertyInit, PropertyTyped, PropertyTypeOK, RowStatuses, Coverages

LEMMA PropertyStaysTyped ==
  ASSUME PropertyInv, PropertyTyped, [PropertyNext]_propertyVars
  PROVE  PropertyTyped'
<1> DEFINE RowType(n) == [status : RowStatuses, coverage : Coverages, run : 0 .. 8,
                          failed : 0 .. 8, items : 0 .. n]
<1>1. /\ row \in RowType(Cardinality(events)) /\ IsFiniteSet(events)
      /\ Cardinality(events) \in Nat
  BY FS_CardinalityType DEF PropertyTyped, PropertyTypeOK, RowStatuses, Coverages
<1>2. \A n \in Nat : \A q \in RowType(n), st \in RowStatuses :
        /\ [q EXCEPT !.status = st] \in RowType(n)
        /\ [q EXCEPT !.status = st, !.items = 0] \in RowType(n)
  <2> SUFFICES ASSUME NEW n \in Nat, NEW q \in RowType(n), NEW st \in RowStatuses
               PROVE  /\ [q EXCEPT !.status = st] \in RowType(n)
                      /\ [q EXCEPT !.status = st, !.items = 0] \in RowType(n)
    OBVIOUS
  <2>1. [q EXCEPT !.status = st] \in RowType(n)
    OBVIOUS
  <2>2. 0 \in 0 .. n
    OBVIOUS
  <2>3. [q EXCEPT !.status = st, !.items = 0] \in RowType(n)
    BY <2>2
  <2>4. QED
    BY <2>1, <2>3
<1>3. runs' \in 0 .. MaxRuns /\ changes' \in 0 .. MaxChanges
  <2>1. runs' = runs \/ (runs' = runs + 1 /\ runs < MaxRuns)
    BY DEF PropertyNext, propertyVars, PortalChanges, SkipUncovered, Begin, Gather, Store,
       Finish, PropertyRaises, PropertyMarkFailed, LosePropertyRun, RedeliverProperty, Visit
  <2>2. changes' = changes \/ (changes' = changes + 1 /\ changes < MaxChanges)
    BY DEF PropertyNext, propertyVars, PortalChanges, SkipUncovered, Begin, Gather, Store,
       Finish, PropertyRaises, PropertyMarkFailed, LosePropertyRun, RedeliverProperty, Visit
  <2>3. QED
    BY <2>1, <2>2, PropertyBound DEF PropertyTyped, PropertyTypeOK
<1>4. place' \in Places /\ portal' \in Portals
  BY PropertyStep DEF PropertyInv
<1>5. CASE Store
  <2>1. PICK e \in lookup.todo :
          /\ events' = IF \E old \in events : SameRecord(old, e) THEN events
                       ELSE events \cup {e}
          /\ lookup' = [lookup EXCEPT !.todo = @ \ {e}]
    BY <1>5 DEF Store
  <2>2. /\ IsFiniteSet(events \cup {e})
        /\ Cardinality(events \cup {e}) >= Cardinality(events)
        /\ Cardinality(events \cup {e}) \in Nat
    <3>1. /\ IsFiniteSet(events \cup {e})
          /\ Cardinality(events \cup {e}) \in {Cardinality(events), Cardinality(events) + 1}
      BY <1>1, FS_AddElement
    <3>2. QED
      BY <1>1, <3>1
  <2>3. IsFiniteSet(events') /\ Cardinality(events') >= Cardinality(events)
          /\ Cardinality(events') \in Nat
    BY <1>1, <2>1, <2>2
  <2>4. row' = row
    BY <1>5 DEF Store
  <2>5. row' \in RowType(Cardinality(events'))
    BY <1>1, <2>3, <2>4
  <2>6. lookup'.pc = "store" /\ lookup'.failed = lookup.failed /\ lookup.pc = "store"
    BY <1>5, <2>1 DEF Store, PropertyInv
  <2>7. QED
    BY <1>3, <1>4, <2>3, <2>5, <2>6
       DEF PropertyTyped, PropertyTypeOK, RowStatuses, Coverages
<1>6. CASE Finish
  <2>1. /\ row' = [status |-> Verdict, coverage |-> "covered",
                   run |-> Cardinality(Asked), failed |-> lookup.failed,
                   items |-> Cardinality(events)]
        /\ lookup'.pc = "idle" /\ lookup.pc = "store" /\ events' = events
    BY <1>6 DEF Finish, Report, Idle
  <2>2. HasAdapter /\ lookup.failed \in 0 .. 8
    BY <2>1 DEF PropertyInv, PropertyTyped
  <2>3. Cardinality(Asked) \in 0 .. 8
    BY <2>2, CountsTyped
  <2>4. Verdict \in RowStatuses /\ "covered" \in Coverages
    BY DEF Verdict, RowStatuses, Coverages
  <2>5. Cardinality(events) \in 0 .. Cardinality(events)
    BY <1>1
  <2>6. row' \in RowType(Cardinality(events))
    BY <1>1, <2>1, <2>2, <2>3, <2>4, <2>5, RowTyped
  <2>7. QED
    BY <1>1, <1>3, <1>4, <2>1, <2>6
       DEF PropertyTyped, PropertyTypeOK, RowStatuses, Coverages
<1>7. CASE Gather
  <2>1. PICK ill \in SUBSET Asked, bad \in Replies \ {RowsReply(place.county)} :
         LET failed == IF Answered(place.county, bad) THEN {} ELSE ill
             got == UNION {Answer(q) : q \in Asked \ ill}
         IN  IF AllFailed(failed)
             THEN /\ Report("failed", "covered", Cardinality(Asked),
                            Cardinality(failed), row.items)
                  /\ lookup' = Idle
             ELSE /\ lookup' = [pc |-> "store", todo |-> Kept(got), rows |-> got,
                              failed |-> Cardinality(failed), whole |-> ill = {}]
                  /\ UNCHANGED row
    BY <1>7, Zenon DEF Gather
  <2>2. HasAdapter /\ events' = events
    BY <1>7 DEF Gather, PropertyInv
  <2>3. ~Answered(place.county, bad)
    BY <2>2, BadRepliesAreSeen DEF HasAdapter
  <2>4. Cardinality(ill) \in 0 .. 8 /\ Cardinality(Asked) \in 0 .. 8
    BY <2>2, CountsTyped
  <2>5. "failed" \in RowStatuses /\ "covered" \in Coverages
    BY DEF RowStatuses, Coverages
  <2>6. row.items \in 0 .. Cardinality(events)
    BY <1>1
  <2>7. CASE AllFailed(ill)
    <3>1. /\ row' = [status |-> "failed", coverage |-> "covered",
                     run |-> Cardinality(Asked), failed |-> Cardinality(ill),
                     items |-> row.items]
          /\ lookup'.pc = "idle"
      BY <2>1, <2>3, <2>7 DEF Report, Idle
    <3>2. row' \in RowType(Cardinality(events))
      BY <1>1, <2>4, <2>5, <2>6, <3>1, RowTyped
    <3>3. QED
      BY <1>1, <1>3, <1>4, <2>2, <3>1, <3>2
         DEF PropertyTyped, PropertyTypeOK, RowStatuses, Coverages
  <2>8. CASE ~AllFailed(ill)
    <3>1. /\ row' = row /\ lookup'.pc = "store" /\ lookup'.failed = Cardinality(ill)
      BY <2>1, <2>3, <2>8
    <3>2. QED
      BY <1>1, <1>3, <1>4, <2>2, <2>4, <3>1
         DEF PropertyTyped, PropertyTypeOK, RowStatuses, Coverages
  <2>9. QED
    BY <2>7, <2>8
<1>8. CASE PropertyMoves
  <2>1. events' = events
    BY <1>8 DEF PropertyMoves, SkipUncovered, Begin, PropertyRaises, PropertyMarkFailed,
       LosePropertyRun, RedeliverProperty, Visit
  <2>2. lookup'.pc \in {"idle", "start", "gather", "failing", "lost"}
    <3>1. CASE Begin
      BY <3>1 DEF Begin, PropertyInv
    <3>2. QED
      BY <1>8, <3>1 DEF PropertyMoves, SkipUncovered, PropertyRaises, PropertyMarkFailed,
         LosePropertyRun, RedeliverProperty, Visit, Idle
  <2>3. row' \in RowType(Cardinality(events))
    <3>1. CASE SkipUncovered
      <4>1. PICK co \in {"not_covered", "no_adapter"} :
              row' = [status |-> "skipped", coverage |-> co, run |-> 0, failed |-> 0,
                      items |-> 0]
        BY <3>1 DEF SkipUncovered, Report
      <4>2. "skipped" \in RowStatuses /\ co \in Coverages
        BY DEF RowStatuses, Coverages
      <4>3. QED
        BY <1>1, <4>1, <4>2
    <3>2. CASE Begin \/ PropertyMarkFailed \/ RedeliverProperty
      <4>1. "processing" \in RowStatuses /\ "failed" \in RowStatuses
              /\ "queued" \in RowStatuses
        BY DEF RowStatuses
      <4>2. QED
        BY <1>1, <1>2, <3>2, <4>1 DEF Begin, PropertyMarkFailed, RedeliverProperty
    <3>3. CASE Visit
      <4>1. "queued" \in RowStatuses /\ NoCoverage \in Coverages
        BY DEF RowStatuses, Coverages
      <4>2. QED
        BY <1>1, <3>3, <4>1 DEF Visit, NewRow
    <3>4. CASE PropertyRaises \/ LosePropertyRun
      BY <1>1, <3>4 DEF PropertyRaises, LosePropertyRun
    <3>5. QED
      BY <1>8, <3>1, <3>2, <3>3, <3>4 DEF PropertyMoves
  <2>4. QED
    BY <1>1, <1>3, <1>4, <2>1, <2>2, <2>3
       DEF PropertyTyped, PropertyTypeOK, RowStatuses, Coverages
<1>9. CASE PortalChanges \/ UNCHANGED propertyVars
  <2>1. UNCHANGED <<row, events, lookup>>
    BY <1>9 DEF PortalChanges, propertyVars
  <2>2. QED
    BY <1>1, <1>3, <1>4, <2>1
       DEF PropertyTyped, PropertyTypeOK, RowStatuses, Coverages
<1>10. QED
  BY <1>5, <1>6, <1>7, <1>8, <1>9 DEF PropertyNext, PropertyMoves

(* A complete history is whole: every query of that run was answered, and  *)
(* every row answered about this address is on file under its record id    *)
(* (timeline.py, _fetch_property).                                         *)
THEOREM CompleteHistoryIsWhole == PropertySpec => []PropertyCompleteIsWhole
<1>1. PropertyInv => PropertyCompleteIsWhole
  BY DEF PropertyInv
<1>2. QED
  BY <1>1, PropertyInvHolds, PTL

(* A history that may be thin is asked for again by the next visit: an     *)
(* attempt ends complete with no query failed, or in a state the visit     *)
(* asks again for.                                                         *)
THEOREM ThinHistoryIsAskedAgain == PropertySpec => []PropertyThinIsRefetched
<1>1. PropertyInv => PropertyThinIsRefetched
  BY DEF PropertyInv, PropertyThinIsRefetched, NeedsProperty
<1>2. QED
  BY <1>1, PropertyInvHolds, PTL

(* What a run is answered, a portal lists.                                 *)
AnswersAreListed ==
  \A r \in lookup.rows \cup heard.rows : \E listing \in Portals : r \in listing

LEMMA AnswersStayListed ==
  ASSUME PropertyInv, AnswersAreListed, [PropertyNext]_propertyVars
  PROVE  AnswersAreListed'
<1>1. CASE Gather
  <2>1. PICK ill \in SUBSET Asked, bad \in Replies \ {RowsReply(place.county)} :
         LET failed == IF Answered(place.county, bad) THEN {} ELSE ill
             got == UNION {Answer(q) : q \in Asked \ ill}
         IN  IF AllFailed(failed)
             THEN /\ Report("failed", "covered", Cardinality(Asked),
                            Cardinality(failed), row.items)
                  /\ lookup' = Idle
             ELSE /\ lookup' = [pc |-> "store", todo |-> Kept(got), rows |-> got,
                              failed |-> Cardinality(failed), whole |-> ill = {}]
                  /\ UNCHANGED row
    BY <1>1, Zenon DEF Gather
  <2>2. \A r \in lookup'.rows : r \in portal
    <3>1. lookup' = Idle \/ lookup'.rows = UNION {Answer(q) : q \in Asked \ ill}
      BY <2>1
    <3>2. QED
      BY <3>1 DEF Idle, Answer
  <2>3. heard' = heard /\ portal \in Portals
    BY <1>1 DEF Gather, PropertyInv
  <2>4. QED
    BY <2>2, <2>3 DEF AnswersAreListed
<1>2. CASE Finish
  BY <1>2 DEF Finish, Idle, AnswersAreListed
<1>3. CASE Store
  <2>1. PICK e \in lookup.todo : lookup' = [lookup EXCEPT !.todo = @ \ {e}]
    BY <1>3 DEF Store
  <2>2. lookup'.rows = lookup.rows /\ heard' = heard
    BY <1>3, <2>1 DEF Store, PropertyInv
  <2>3. QED
    BY <2>2 DEF AnswersAreListed
<1>4. CASE Begin
  <2>1. lookup'.rows = lookup.rows /\ heard' = heard
    BY <1>4 DEF Begin, PropertyInv
  <2>2. QED
    BY <2>1 DEF AnswersAreListed
<1>5. CASE \/ SkipUncovered \/ PropertyRaises \/ PropertyMarkFailed
           \/ LosePropertyRun \/ RedeliverProperty \/ Visit
  <2>1. lookup'.rows = {} /\ heard' = heard
    BY <1>5 DEF SkipUncovered, PropertyRaises, PropertyMarkFailed, LosePropertyRun,
       RedeliverProperty, Visit, Idle
  <2>2. QED
    BY <2>1 DEF AnswersAreListed
<1>6. CASE PortalChanges \/ UNCHANGED propertyVars
  BY <1>6 DEF PortalChanges, propertyVars, AnswersAreListed
<1>7. QED
  BY <1>1, <1>2, <1>3, <1>4, <1>5, <1>6 DEF PropertyNext

(* A match shares more than two in three words of the shorter name.        *)
LEMMA MatchesShareMost ==
  ASSUME NEW mine \in Seq(STRING), NEW theirs \in Seq(STRING),
         IsAddressMatch(mine, theirs)
  PROVE  LET shared == Cardinality(StreetWords(theirs) \cap StreetWords(mine))
         IN  \/ 3 * shared > 2 * Cardinality(StreetWords(theirs))
             \/ 3 * shared > 2 * Cardinality(StreetWords(mine))
<1>1. PICK a, b : a = StreetWords(mine) /\ b = StreetWords(theirs)
  OBVIOUS
<1>2. IsFiniteSet(a) /\ IsFiniteSet(b)
  BY <1>1, StreetsAreFinite
<1>3. a # {} /\ b # {}
  <2>1. 2 \in 2 .. Len(mine) /\ 2 \in 2 .. Len(theirs)
    BY DEF IsAddressMatch
  <2>2. NormalizeAddress(mine)[2] \in a /\ NormalizeAddress(theirs)[2] \in b
    BY <1>1, <2>1 DEF StreetWords
  <2>3. QED
    BY <2>2
<1>4. /\ Cardinality(a) \in Nat \ {0} /\ Cardinality(b) \in Nat \ {0}
      /\ Cardinality(a \cap b) \in Nat
  BY <1>2, <1>3, FS_CardinalityType, FS_EmptySet, FS_Intersection
<1>5. \/ 10 * Cardinality(a \cap b) >= 7 * Cardinality(a)
      \/ 10 * Cardinality(a \cap b) >= 7 * Cardinality(b)
  BY <1>1 DEF IsAddressMatch
<1>6. \A c \in Nat, n \in Nat \ {0} : 10 * c >= 7 * n => 3 * c > 2 * n
  OBVIOUS
<1>7. b \cap a = a \cap b
  OBVIOUS
<1>8. QED
  BY <1>1, <1>4, <1>5, <1>6, <1>7

(* And a name that only leaves out words of the other's matches it.        *)
LEMMA ShortFormsMatch ==
  ASSUME NEW mine \in Seq(STRING), NEW theirs \in Seq(STRING),
         Len(mine) >= 2, Len(theirs) >= 2,
         NormalizeAddress(mine)[1] = NormalizeAddress(theirs)[1],
         \/ StreetWords(theirs) \subseteq StreetWords(mine)
         \/ StreetWords(mine) \subseteq StreetWords(theirs)
  PROVE  IsAddressMatch(mine, theirs)
<1>1. PICK a, b : a = StreetWords(mine) /\ b = StreetWords(theirs)
  OBVIOUS
<1>2. IsFiniteSet(a) /\ IsFiniteSet(b)
  BY <1>1, StreetsAreFinite
<1>3. PICK least : least = IF Cardinality(a) < Cardinality(b) THEN a ELSE b
  OBVIOUS
<1>4. Cardinality(a) \in Nat /\ Cardinality(b) \in Nat
  BY <1>2, FS_CardinalityType
<1>5. a \cap b = least
  <2>1. CASE b \subseteq a
    <3>1. Cardinality(b) <= Cardinality(a)
      BY <1>2, <2>1, FS_Subset
    <3>2. QED
      BY <1>3, <1>4, <2>1, <3>1
  <2>2. CASE a \subseteq b
    <3>1. /\ Cardinality(a) <= Cardinality(b)
          /\ Cardinality(a) = Cardinality(b) => a = b
      BY <1>2, <2>2, FS_Subset
    <3>2. QED
      BY <1>3, <1>4, <2>2, <3>1
  <2>3. QED
    BY <1>1, <2>1, <2>2
<1>6. 10 * Cardinality(a \cap b) >= 7 * Cardinality(least)
  <2>1. Cardinality(least) \in Nat
    BY <1>3, <1>4
  <2>2. \A n \in Nat : 10 * n >= 7 * n
    OBVIOUS
  <2>3. QED
    BY <1>5, <2>1, <2>2
<1>7. QED
  BY <1>1, <1>3, <1>6 DEF IsAddressMatch

(* The filter is fair, for any places and portals: nothing on file         *)
(* contradicts the parcel's number or one word in three of its street, and *)
(* no record of a complete history was turned away that contradicts        *)
(* nothing (address_normalizer.py, is_address_match).                      *)
THEOREM TheFilterIsFair == PropertySpec => []PropertyFilterIsFair
<1>1. PropertyInit => AnswersAreListed
  BY DEF PropertyInit, Idle, AnswersAreListed
<1>2. PropertyInv /\ AnswersAreListed => PropertyFilterIsFair
  <2> SUFFICES ASSUME PropertyInv, AnswersAreListed
               PROVE  PropertyFilterIsFair
    OBVIOUS
  <2>1. place.address \in Seq(STRING)
    BY AddressAssumption DEF PropertyInv
  <2>2. ASSUME NEW e \in events, e.situs # << >>
        PROVE  SameNumber(e) /\ MostlyShared(e)
    <3>1. Listed(e) /\ IsAddressMatch(place.address, e.situs)
      BY <2>2 DEF PropertyInv, Sound, AboutThisAddress
    <3>2. e.situs \in Seq(STRING)
      BY <3>1, AddressAssumption DEF Listed
    <3>3. MostlyShared(e)
      BY <2>1, <3>1, <3>2, MatchesShareMost DEF MostlyShared
    <3>4. QED
      BY <3>1, <3>3 DEF IsAddressMatch, SameNumber
  <2>3. ASSUME row.status = "complete", NEW e \in EventsOf(heard.rows),
               e.id # <<NoText>>, SameNumber(e), LeavesOutOnly(e)
        PROVE  \E old \in events : old.source = e.source /\ old.id = e.id
    <3>1. PICK r \in heard.rows : e.situs = r.situs
      BY ParsingKeepsAddress DEF EventsOf
    <3>2. e.situs \in Seq(STRING)
      BY <3>1, AddressAssumption DEF AnswersAreListed
    <3>3. IsAddressMatch(place.address, e.situs)
      BY <2>1, <2>3, <3>2, ShortFormsMatch DEF SameNumber, LeavesOutOnly
    <3>4. e \in Kept(heard.rows)
      BY <2>3, <3>3 DEF Kept, AboutThisAddress
    <3>5. QED
      BY <2>3, <3>4 DEF PropertyInv, PropertyCompleteIsWhole
  <2>4. QED
    BY <2>2, <2>3 DEF PropertyFilterIsFair
<1>3. PropertySpec => []AnswersAreListed
  <2>1. PropertyInv /\ AnswersAreListed /\ [PropertyNext]_propertyVars => AnswersAreListed'
    BY AnswersStayListed
  <2>2. QED
    BY <1>1, <2>1, PropertyInvHolds, PTL DEF PropertySpec
<1>4. QED
  BY <1>2, <1>3, PropertyInvHolds, PTL

-----------------------------------------------------------------------------
(* Scene selection.                                                        *)

(* A pool is scenes of the search's answer: an id names one of them, and   *)
(* their years are numbers.                                                *)
LEMMA ScenesTyped ==
  ASSUME SelectionTypeOK
  PROVE  /\ raw \subseteq AllScenes /\ pool \subseteq raw
         /\ \A s, t \in raw : s.id = t.id => s = t
         /\ \A s \in raw : s.year \in Nat /\ (s.year # 0 => s.year \in AllYears)
<1>1. raw \in Pools /\ pool \subseteq raw
  BY DEF SelectionTypeOK
<1>2. raw \subseteq AllScenes
  BY <1>1 DEF AllScenes
<1>3. \A s \in raw : s.year \in Nat
  BY <1>1, PoolsAssumption
<1>4. \A s \in raw : s.year # 0 => s.year \in AllYears
  BY <1>2 DEF AllYears
<1>5. \A s, t \in raw : s.id = t.id => s = t
  BY <1>1, PoolsAssumption
<1>6. QED
  BY <1>1, <1>2, <1>3, <1>4, <1>5

LEMMA SelectionInitHolds == SelectionInit => SelectionInv
<1> SUFFICES ASSUME SelectionInit  PROVE SelectionInv
  OBVIOUS
<1> USE DEF SelectionInit
<1>1. SelectionTypeOK
  BY DEF SelectionTypeOK, Unasked, NoNote, Servable, Reasons, SignReasons
<1>2. QED
  BY <1>1 DEF SelectionInv

LEMMA FilterKeeps == SelectionInv /\ Filter => SelectionInv'
<1> SUFFICES ASSUME SelectionInv, Filter  PROVE SelectionInv'
  OBVIOUS
<1> USE DEF Filter
<1>1. SelectionTypeOK'
  BY DEF SelectionInv, SelectionTypeOK
<1>2. pool' = {s \in raw' : ContainsPoint(s)}
  OBVIOUS
<1>3. QED
  BY <1>1, <1>2 DEF SelectionInv

(* One scene of each dated year of the pool is a first choice.             *)
LEMMA SelectKeeps == SelectionInv /\ Select => SelectionInv'
<1> SUFFICES ASSUME SelectionInv, Select  PROVE SelectionInv'
  OBVIOUS
<1>1. /\ phase = "select" /\ phase' = "validate" /\ picks' \subseteq pool
      /\ \A y \in AllYears \cup {0} :
           IF y = 0 \/ OfYear(pool, y) = {} THEN OfYear(picks', y) = {}
           ELSE \E s \in Choices(OfYear(pool, y)) : OfYear(picks', y) = {s}
      /\ UNCHANGED <<sentinel, raw, pool, verdict, walking, validated, notes>>
  BY DEF Select
<1>2. SelectionTypeOK /\ pool = {s \in raw : ContainsPoint(s)}
  BY <1>1 DEF SelectionInv
<1>3. /\ pool \subseteq raw /\ raw \subseteq AllScenes
      /\ \A s \in raw : s.year \in Nat /\ (s.year # 0 => s.year \in AllYears)
  BY <1>2, ScenesTyped
<1>4. SelectionTypeOK'
  BY <1>1, <1>2, <1>3 DEF SelectionTypeOK
<1>5. ASSUME NEW s \in picks'
      PROVE  s.year # 0 /\ \A t \in picks' : t.year = s.year => t = s
  <2>1. s \in pool /\ s.year \in AllYears \cup {0}
    BY <1>1, <1>3, <1>5
  <2>2. s \in OfYear(picks', s.year) /\ OfYear(pool, s.year) # {}
    BY <1>5, <2>1 DEF OfYear
  <2>3. s.year # 0 /\ \E p \in Choices(OfYear(pool, s.year)) : OfYear(picks', s.year) = {p}
    BY <1>1, <2>1, <2>2
  <2>4. QED
    BY <2>2, <2>3 DEF OfYear
<1>6. ASSUME NEW s \in pool, s.year # 0
      PROVE  \E p \in picks' : p.year = s.year
  <2>1. s.year \in AllYears /\ OfYear(pool, s.year) # {}
    BY <1>3, <1>6 DEF OfYear
  <2>2. \E p \in Choices(OfYear(pool, s.year)) : OfYear(picks', s.year) = {p}
    BY <1>1, <1>6, <2>1
  <2>3. QED
    BY <2>2 DEF OfYear
<1>7. PicksOK'
  BY <1>1, <1>5, <1>6 DEF PicksOK, OneOfEachYear
<1>8. QED
  BY <1>1, <1>2, <1>4, <1>7 DEF SelectionInv

LEMMA ValidateFirstKeeps == SelectionInv /\ ValidateFirst => SelectionInv'
<1> SUFFICES ASSUME SelectionInv, ValidateFirst  PROVE SelectionInv'
  OBVIOUS
<1>1. PICK answers \in [picks -> Reasons \cup {Servable}] :
        /\ \A s \in picks : answers[s] \in Verdicts(s)
        /\ verdict' = [s \in AllScenes |-> IF s \in picks THEN answers[s] ELSE verdict[s]]
        /\ validated' = {s \in picks : answers[s] = Servable}
        /\ walking' = {s.year : s \in {p \in picks : answers[p] # Servable}}
        /\ notes' = [y \in AllYears |->
                       IF y \in walking'
                       THEN answers[CHOOSE s \in picks : s.year = y] ELSE NoNote]
  BY Zenon DEF ValidateFirst
<1>2. /\ phase = "validate" /\ phase' = "walk"
      /\ UNCHANGED <<sentinel, raw, pool, picks>>
  BY DEF ValidateFirst
<1>3. /\ SelectionTypeOK /\ pool = {s \in raw : ContainsPoint(s)} /\ PicksOK
      /\ \A s \in AllScenes : verdict[s] = Unasked
  BY <1>2 DEF SelectionInv
<1>4. /\ pool \subseteq raw /\ raw \subseteq AllScenes
      /\ \A s \in raw : s.year \in Nat /\ (s.year # 0 => s.year \in AllYears)
  BY <1>3, ScenesTyped
<1>5. /\ picks \subseteq pool
      /\ \A s \in picks : s.year # 0 /\ s.year \in AllYears
                          /\ \A t \in picks : t.year = s.year => t = s
  BY <1>3, <1>4 DEF PicksOK, OneOfEachYear
<1>6. ASSUME NEW s \in picks
      PROVE  (CHOOSE t \in picks : t.year = s.year) = s
  BY <1>5
<1>7. \A s \in picks : verdict'[s] = answers[s] /\ answers[s] # Unasked
  <2>1. Unasked \notin Reasons \cup {Servable}
    BY DEF Unasked, Reasons, SignReasons, Servable
  <2>2. QED
    BY <1>1, <1>4, <1>5, <2>1
<1>8. /\ walking' \subseteq AllYears
      /\ \A s \in picks : s.year \in walking' <=> answers[s] # Servable
  BY <1>1, <1>5
<1>9. \A s \in picks : notes'[s.year] = IF answers[s] = Servable THEN NoNote ELSE answers[s]
  BY <1>1, <1>5, <1>6, <1>8
<1>10. NoNote \notin Reasons \cup {Servable} /\ Servable \notin Reasons
  BY DEF NoNote, Servable, Reasons, SignReasons
<1>11. SelectionTypeOK'
  <2>1. verdict' \in [AllScenes -> Reasons \cup {Servable, Unasked}]
    BY <1>1, <1>3 DEF SelectionTypeOK
  <2>2. ASSUME NEW y \in AllYears
        PROVE  notes'[y] \in Reasons \cup {NoNote}
    <3>1. CASE y \notin walking'
      BY <1>1, <3>1
    <3>2. CASE y \in walking'
      <4>1. PICK s \in picks : s.year = y /\ answers[s] # Servable
        BY <1>1, <3>2
      <4>2. QED
        BY <1>1, <1>9, <4>1
    <3>3. QED
      BY <3>1, <3>2
  <2>3. notes' \in [AllYears -> Reasons \cup {NoNote}]
    BY <1>1, <2>2
  <2>4. QED
    BY <1>1, <1>2, <1>3, <1>5, <1>8, <2>1, <2>3 DEF SelectionTypeOK
<1>12. YearsOK'
  <2>1. /\ validated' \subseteq pool
        /\ \A s \in validated' :
             verdict'[s] = Servable /\ s.year \notin walking' /\ notes'[s.year] = NoNote
    BY <1>1, <1>5, <1>7, <1>8, <1>9
  <2>2. OneOfEachYear(validated')
    BY <1>1, <1>5 DEF OneOfEachYear
  <2>3. ASSUME NEW y \in walking'
        PROVE  /\ notes'[y] # NoNote
               /\ \A s \in OfYear(pool, y) : verdict'[s] # Servable
    <3>1. PICK p \in picks : p.year = y /\ answers[p] # Servable
      BY <1>1
    <3>2. notes'[y] # NoNote
      BY <1>1, <1>9, <1>10, <3>1
    <3>3. ASSUME NEW s \in OfYear(pool, y)
          PROVE  verdict'[s] # Servable
      <4>1. s \in AllScenes /\ s.year = p.year
        BY <1>4, <3>1 DEF OfYear
      <4>2. CASE s \in picks
        BY <1>5, <1>7, <3>1, <4>1, <4>2
      <4>3. CASE s \notin picks
        <5>1. verdict'[s] = Unasked
          BY <1>1, <1>3, <4>1, <4>3
        <5>2. QED
          BY <5>1 DEF Unasked, Servable
      <4>4. QED
        BY <4>2, <4>3
    <3>4. QED
      BY <3>2, <3>3
  <2>4. ASSUME NEW s \in pool, s.year # 0, s.year \notin walking'
        PROVE  \E v \in validated' : v.year = s.year
    <3>1. PICK p \in picks : p.year = s.year
      BY <1>3, <2>4 DEF PicksOK
    <3>2. QED
      BY <1>1, <1>8, <2>4, <3>1
  <2>5. QED
    BY <1>2, <1>7, <2>1, <2>2, <2>3, <2>4 DEF YearsOK, OfYear
<1>13. PicksOK'
  BY <1>2, <1>3 DEF PicksOK, OneOfEachYear
<1>14. QED
  BY <1>2, <1>3, <1>11, <1>12, <1>13 DEF SelectionInv

(* The year whose walk is on.                                              *)
LEMMA WalksInOrder ==
  ASSUME SelectionTypeOK, walking # {}
  PROVE  EarliestWalk \in walking
<1>1. AllYears \subseteq Nat
  <2> SUFFICES ASSUME NEW P \in Pools, NEW s \in P  PROVE s.year \in Nat
    BY DEF AllYears, AllScenes
  <2>1. QED
    BY PoolsAssumption
<1>2. walking \subseteq Nat
  BY <1>1 DEF SelectionTypeOK
<1>3. \E y \in walking : \A z \in walking : y <= z
  BY <1>2, LeastOf
<1>4. QED
  BY <1>3 DEF EarliestWalk

LEMMA DropYearKeeps == SelectionInv /\ DropYear => SelectionInv'
<1> SUFFICES ASSUME SelectionInv, DropYear  PROVE SelectionInv'
  OBVIOUS
<1>1. PICK y : y = EarliestWalk
  OBVIOUS
<1>2. /\ phase = "walk" /\ phase' = "walk" /\ walking # {}
      /\ Candidates(y) = {} /\ walking' = walking \ {y}
      /\ UNCHANGED <<sentinel, raw, pool, picks, verdict, validated, notes, phase>>
  BY <1>1 DEF DropYear, NoneLeft
<1>3. /\ SelectionTypeOK /\ pool = {s \in raw : ContainsPoint(s)} /\ PicksOK /\ YearsOK
  BY <1>2 DEF SelectionInv
<1>4. y \in walking
  BY <1>1, <1>2, <1>3, WalksInOrder
<1>5. \A s, t \in pool : s.id = t.id => s = t
  BY <1>3, ScenesTyped
<1>6. notes[y] # NoNote /\ \A s \in OfYear(pool, y) : verdict[s] # Servable
  BY <1>3, <1>4 DEF YearsOK
<1>7. ASSUME NEW s \in OfYear(pool, y)
      PROVE  verdict[s] # Unasked
  <2>1. s \in pool
    BY DEF OfYear
  <2>2. CASE s \in picks
    BY <1>3, <2>2 DEF YearsOK
  <2>3. CASE s \notin picks
    <3>1. \A p \in picks : p.id # s.id
      BY <1>3, <1>5, <2>1, <2>3 DEF PicksOK
    <3>2. QED
      BY <1>2, <3>1 DEF Candidates
  <2>4. QED
    BY <2>2, <2>3
<1>8. AllRefused(y)'
  BY <1>2, <1>6, <1>7 DEF AllRefused, OfYear
<1>9. YearsOK'
  <2>1. ASSUME NEW s \in pool, s.year # 0, s.year \notin walking'
        PROVE  (\E v \in validated : v.year = s.year) \/ AllRefused(s.year)'
    <3>1. CASE s.year = y
      BY <1>8, <3>1
    <3>2. CASE s.year # y
      <4>1. (\E v \in validated : v.year = s.year) \/ AllRefused(s.year)
        BY <1>2, <1>3, <2>1, <3>2 DEF YearsOK
      <4>2. QED
        BY <1>2, <4>1 DEF AllRefused, OfYear
    <3>3. QED
      BY <3>1, <3>2
  <2>2. QED
    BY <1>2, <1>3, <2>1 DEF YearsOK, OneOfEachYear, OfYear
<1>10. SelectionTypeOK'
  BY <1>2, <1>3 DEF SelectionTypeOK
<1>11. PicksOK'
  BY <1>2, <1>3 DEF PicksOK, OneOfEachYear
<1>12. QED
  BY <1>2, <1>3, <1>9, <1>10, <1>11 DEF SelectionInv

LEMMA WalkOneKeeps == SelectionInv /\ WalkOne => SelectionInv'
<1> SUFFICES ASSUME SelectionInv, WalkOne  PROVE SelectionInv'
  OBVIOUS
<1>1. PICK y : y = EarliestWalk
  OBVIOUS
<1>2. PICK s \in Clearest(Candidates(y)) : \E answer \in Verdicts(s) :
        /\ verdict' = [verdict EXCEPT ![s] = answer]
        /\ IF answer = Servable
           THEN /\ validated' = validated \cup {s}
                /\ walking' = walking \ {y}
                /\ notes' = [notes EXCEPT ![y] = NoNote]
           ELSE /\ notes' = [notes EXCEPT ![y] = answer]
                /\ UNCHANGED <<validated, walking>>
  BY <1>1, Zenon DEF WalkOne
<1>3. PICK answer \in Verdicts(s) :
        /\ verdict' = [verdict EXCEPT ![s] = answer]
        /\ answer = Servable => /\ validated' = validated \cup {s}
                                /\ walking' = walking \ {y}
                                /\ notes' = [notes EXCEPT ![y] = NoNote]
        /\ answer # Servable => /\ notes' = [notes EXCEPT ![y] = answer]
                                /\ UNCHANGED <<validated, walking>>
  BY <1>2
<1>4. /\ phase = "walk" /\ phase' = "walk" /\ walking # {}
      /\ UNCHANGED <<sentinel, raw, pool, picks>>
  BY DEF WalkOne
<1>5. /\ SelectionTypeOK /\ pool = {t \in raw : ContainsPoint(t)} /\ PicksOK /\ YearsOK
  BY <1>4 DEF SelectionInv
<1>6. /\ pool \subseteq raw /\ raw \subseteq AllScenes
      /\ \A t \in raw : t.year \in Nat /\ (t.year # 0 => t.year \in AllYears)
  BY <1>5, ScenesTyped
<1>7. y \in walking /\ y \in AllYears /\ y # 0
  <2>1. y \in walking
    BY <1>1, <1>4, <1>5, WalksInOrder
  <2>2. QED
    BY <1>5, <2>1 DEF SelectionTypeOK, AllYears
<1>8. s \in pool /\ s.year = y /\ verdict[s] = Unasked
  BY DEF Clearest, Candidates, OfYear
<1>9. answer \in Reasons \cup {Servable} /\ answer \notin {NoNote, Unasked}
  <2>1. answer \in Reasons \cup {Servable}
    BY DEF Verdicts, Reasons
  <2>2. QED
    BY <2>1 DEF Reasons, SignReasons, Servable, NoNote, Unasked
<1>10. /\ verdict'[s] = answer
       /\ \A t \in AllScenes : t # s => verdict'[t] = verdict[t]
       /\ verdict' \in [AllScenes -> Reasons \cup {Servable, Unasked}]
  BY <1>3, <1>5, <1>6, <1>8, <1>9 DEF SelectionTypeOK
<1>11. /\ notes'[y] = IF answer = Servable THEN NoNote ELSE answer
       /\ \A z \in AllYears : z # y => notes'[z] = notes[z]
       /\ notes' \in [AllYears -> Reasons \cup {NoNote}]
  <2>1. notes \in [AllYears -> Reasons \cup {NoNote}]
    BY <1>5 DEF SelectionTypeOK
  <2>2. CASE answer = Servable
    BY <1>3, <1>7, <2>1, <2>2
  <2>3. CASE answer # Servable
    BY <1>3, <1>7, <1>9, <2>1, <2>3
  <2>4. QED
    BY <2>2, <2>3
<1>12. /\ validated \subseteq pool /\ validated \subseteq validated'
       /\ validated' \subseteq validated \cup {s}
       /\ walking' \subseteq walking /\ walking \subseteq walking' \cup {y}
       /\ s \in validated' <=> y \notin walking'
       /\ s \in validated' <=> answer = Servable
  <2>1. s \notin validated
    BY <1>5, <1>8 DEF YearsOK, Servable, Unasked
  <2>2. validated \subseteq pool
    BY <1>5 DEF YearsOK
  <2>3. QED
    BY <1>3, <1>7, <2>1, <2>2
<1>13. SelectionTypeOK'
  <2>1. validated' \subseteq raw /\ walking' \subseteq AllYears
    BY <1>5, <1>6, <1>8, <1>12 DEF SelectionTypeOK
  <2>2. QED
    BY <1>4, <1>5, <1>10, <1>11, <2>1 DEF SelectionTypeOK
<1>14. ASSUME NEW t \in validated'
       PROVE  /\ t \in pool /\ verdict'[t] = Servable
              /\ t.year \notin walking' /\ notes'[t.year] = NoNote /\ t.year # 0
              /\ \A u \in validated' : u.year = t.year => u = t
  <2>1. ASSUME NEW v \in validated
        PROVE  /\ v \in pool /\ verdict[v] = Servable /\ v.year \in AllYears
               /\ v.year \notin walking /\ notes[v.year] = NoNote /\ v.year # 0
               /\ \A u \in validated : u.year = v.year => u = v
    BY <1>5, <1>6, <1>12 DEF YearsOK, OneOfEachYear
  <2>2. CASE t = s
    BY <1>7, <1>8, <1>10, <1>11, <1>12, <2>1, <2>2
  <2>3. CASE t # s
    <3>1. t \in validated
      BY <1>12, <2>3
    <3>2. t.year # y
      BY <1>7, <2>1, <3>1
    <3>3. QED
      BY <1>6, <1>8, <1>10, <1>11, <1>12, <2>1, <2>3, <3>1, <3>2
  <2>4. QED
    BY <2>2, <2>3
<1>15. \A p \in picks : verdict'[p] # Unasked
  BY <1>5, <1>6, <1>9, <1>10 DEF YearsOK, PicksOK
<1>16. ASSUME NEW z \in walking'
       PROVE  /\ notes'[z] # NoNote
              /\ \A t \in OfYear(pool, z) : verdict'[t] # Servable
  <2>1. z \in walking /\ z \in AllYears
    BY <1>5, <1>12 DEF SelectionTypeOK
  <2>2. notes[z] # NoNote /\ \A t \in OfYear(pool, z) : verdict[t] # Servable
    BY <1>5, <2>1 DEF YearsOK
  <2>3. CASE z = y
    BY <1>6, <1>9, <1>10, <1>11, <1>12, <2>2, <2>3 DEF OfYear
  <2>4. CASE z # y
    BY <1>6, <1>8, <1>10, <1>11, <2>1, <2>2, <2>4 DEF OfYear
  <2>5. QED
    BY <2>3, <2>4
<1>17. ASSUME NEW t \in pool, t.year # 0, t.year \notin walking'
       PROVE  (\E v \in validated' : v.year = t.year) \/ AllRefused(t.year)'
  <2>1. CASE t.year = y
    BY <1>8, <1>12, <1>17, <2>1
  <2>2. CASE t.year # y
    <3>1. t.year \in AllYears /\ t.year \notin walking
      BY <1>6, <1>12, <1>17, <2>2
    <3>2. (\E v \in validated : v.year = t.year) \/ AllRefused(t.year)
      BY <1>5, <1>17, <3>1 DEF YearsOK
    <3>3. CASE AllRefused(t.year)
      BY <1>4, <1>6, <1>8, <1>10, <1>11, <2>2, <3>1, <3>3 DEF AllRefused, OfYear
    <3>4. QED
      BY <1>12, <3>2, <3>3
  <2>3. QED
    BY <2>1, <2>2
<1>18. YearsOK'
  BY <1>4, <1>14, <1>15, <1>16, <1>17 DEF YearsOK, OneOfEachYear, OfYear
<1>19. PicksOK'
  BY <1>4, <1>5 DEF PicksOK, OneOfEachYear
<1>20. QED
  BY <1>4, <1>5, <1>13, <1>18, <1>19 DEF SelectionInv

LEMMA EndWalkKeeps == SelectionInv /\ EndWalk => SelectionInv'
<1> SUFFICES ASSUME SelectionInv, EndWalk  PROVE SelectionInv'
  OBVIOUS
<1>1. /\ phase = "walk" /\ phase' = "done" /\ walking = {}
      /\ UNCHANGED <<sentinel, raw, pool, picks, verdict, walking, validated, notes>>
  BY DEF EndWalk
<1>2. /\ SelectionTypeOK /\ pool = {s \in raw : ContainsPoint(s)} /\ PicksOK /\ YearsOK
  BY <1>1 DEF SelectionInv
<1>3. SelectionTypeOK' /\ PicksOK' /\ YearsOK'
  BY <1>1, <1>2 DEF SelectionTypeOK, PicksOK, YearsOK, OneOfEachYear, AllRefused, OfYear
<1>4. QED
  BY <1>1, <1>2, <1>3 DEF SelectionInv

LEMMA SelectionStep == SelectionInv /\ [SelectionNext]_selectionVars => SelectionInv'
<1>1. ASSUME SelectionInv, UNCHANGED selectionVars
      PROVE  SelectionInv'
  <2>1. PicksOK => PicksOK'
    BY <1>1 DEF selectionVars, PicksOK, OneOfEachYear
  <2>2. YearsOK => YearsOK'
    BY <1>1 DEF selectionVars, YearsOK, OneOfEachYear, AllRefused, OfYear
  <2>3. QED
    BY <1>1, <2>1, <2>2 DEF selectionVars, SelectionInv, SelectionTypeOK
<1>2. QED
  BY <1>1, FilterKeeps, SelectKeeps, ValidateFirstKeeps, WalkOneKeeps, DropYearKeeps,
     EndWalkKeeps DEF SelectionNext

(* Scene selection serves only what shows the parcel and is servable, one  *)
(* scene a year, and gives a year up only when every scene over the parcel *)
(* was asked and refused, with a reason for the ledger                     *)
(* (stac.py, validate_selection).                                          *)
THEOREM ServesWhatItCan == SelectionSpec => []SelectionServesWhatItCan
<1>1. SelectionInv => SelectionServesWhatItCan
  <2> SUFFICES ASSUME SelectionInv  PROVE SelectionServesWhatItCan
    OBVIOUS
  <2>1. /\ pool \subseteq raw /\ raw \subseteq AllScenes
        /\ \A s \in raw : s.year \in Nat /\ (s.year # 0 => s.year \in AllYears)
    BY ScenesTyped DEF SelectionInv
  <2>2. ServedShowsTheParcel
    <3>1. CASE phase \in {"filter", "select", "validate"}
      BY <3>1 DEF SelectionInv, ServedShowsTheParcel
    <3>2. CASE phase \in {"walk", "done"}
      <4>1. YearsOK /\ pool = {s \in raw : ContainsPoint(s)}
        BY <3>2 DEF SelectionInv
      <4>2. \A s \in validated : ContainsPoint(s)
        BY <4>1 DEF YearsOK
      <4>3. QED
        BY <4>1, <4>2 DEF YearsOK, OneOfEachYear, ContainsPoint, ServedShowsTheParcel
    <3>3. QED
      BY <3>1, <3>2 DEF SelectionInv, SelectionTypeOK
  <2>3. NoServableYearIsLost
    <3> SUFFICES ASSUME phase = "done", NEW r \in raw, ContainsPoint(r), r.year # 0
                 PROVE  \/ OfYear(validated, r.year) # {} /\ notes[r.year] = NoNote
                        \/ /\ notes[r.year] # NoNote
                           /\ \A s \in OfYear(raw, r.year) :
                                ContainsPoint(s) => verdict[s] \notin {Servable, Unasked}
      BY DEF NoServableYearIsLost
    <3>1. /\ pool = {s \in raw : ContainsPoint(s)} /\ YearsOK /\ walking = {}
      BY DEF SelectionInv
    <3>2. (\E v \in validated : v.year = r.year) \/ AllRefused(r.year)
      BY <3>1 DEF YearsOK
    <3>3. CASE AllRefused(r.year)
      BY <3>1, <3>3 DEF AllRefused, OfYear
    <3>4. CASE \E v \in validated : v.year = r.year
      BY <3>1, <3>4 DEF YearsOK, OfYear
    <3>5. QED
      BY <3>2, <3>3, <3>4
  <2>4. QED
    BY <2>2, <2>3 DEF SelectionServesWhatItCan
<1>2. QED
  BY <1>1, SelectionInitHolds, SelectionStep, PTL DEF SelectionSpec

-----------------------------------------------------------------------------
(* The mosaic of a NAIP year.                                              *)

(* How wide and how high one box shows in another.                         *)
WideIn(a, b) == Larger(0, Smaller(a.e, b.e) - Larger(a.w, b.w))
HighIn(a, b) == Larger(0, Smaller(a.n, b.n) - Larger(a.s, b.s))

LEMMA SideTyped == Side \in Nat /\ Side > 0 /\ Viewport \in Boxes
<1>1. Side \in Nat \ {0}
  BY GridAssumption
<1>2. QED
  BY <1>1 DEF Viewport, Boxes

LEMMA MeetIsWideByHigh ==
  ASSUME NEW a \in Boxes, NEW b \in Boxes
  PROVE  /\ WideIn(a, b) \in Nat /\ HighIn(a, b) \in Nat
         /\ IntersectionArea(a, b) = WideIn(a, b) * HighIn(a, b)
<1>1. /\ a.w \in Int /\ a.s \in Int /\ a.e \in Int /\ a.n \in Int
      /\ b.w \in Int /\ b.s \in Int /\ b.e \in Int /\ b.n \in Int
  BY DEF Boxes
<1>2. WideIn(a, b) \in Nat /\ HighIn(a, b) \in Nat
  BY <1>1 DEF WideIn, HighIn, Smaller, Larger
<1>3. QED
  BY <1>2 DEF IntersectionArea, Area, Meet, WideIn, HighIn

LEMMA ProductGrows ==
  ASSUME NEW a \in Nat, NEW b \in Nat, NEW c \in Nat, NEW d \in Nat
  PROVE  /\ a <= c /\ b <= d => a * b <= c * d
         /\ a < c /\ b <= d /\ 0 < d => a * b < c * d
         /\ a * b > 0 <=> a > 0 /\ b > 0
         /\ a * b \in Nat
<1>1. a * b \in Nat /\ c * d \in Nat /\ a * d \in Nat
  BY SMT
<1>2. b <= d => a * b <= a * d
  BY SMT
<1>3. a <= c => a * d <= c * d
  BY SMT
<1>4. a < c /\ 0 < d => a * d < c * d
  BY SMT
<1>5. a * b > 0 <=> a > 0 /\ b > 0
  BY SMT
<1>6. QED
  BY <1>1, <1>2, <1>3, <1>4, <1>5

(* A quad shows more than half of a side of the viewport when it lies over *)
(* the middle of that side, and at most half when it does not.             *)
LEMMA QuadShows ==
  ASSUME NEW a \in Boxes, a.e - a.w >= Side, a.n - a.s >= Side
  PROVE  /\ WideIn(a, Viewport) <= Side /\ HighIn(a, Viewport) <= Side
         /\ InColumns(a) => 2 * WideIn(a, Viewport) > Side
         /\ ~InColumns(a) => 2 * WideIn(a, Viewport) <= Side
         /\ InRows(a) => 2 * HighIn(a, Viewport) > Side
         /\ ~InRows(a) => 2 * HighIn(a, Viewport) <= Side
<1>1. /\ a.w \in Int /\ a.s \in Int /\ a.e \in Int /\ a.n \in Int
      /\ Side \in Nat /\ Side > 0
  BY SideTyped DEF Boxes
<1>2. /\ WideIn(a, Viewport) <= Side
      /\ InColumns(a) => 2 * WideIn(a, Viewport) > Side
      /\ ~InColumns(a) => 2 * WideIn(a, Viewport) <= Side
  BY <1>1 DEF WideIn, Viewport, InColumns, Smaller, Larger
<1>3. /\ HighIn(a, Viewport) <= Side
      /\ InRows(a) => 2 * HighIn(a, Viewport) > Side
      /\ ~InRows(a) => 2 * HighIn(a, Viewport) <= Side
  BY <1>1 DEF HighIn, Viewport, InRows, Smaller, Larger
<1>4. QED
  BY <1>2, <1>3

(* What the grid says of the tiles on offer.                               *)
LEMMA QuadsOnOffer ==
  ASSUME MosaicTypeOK, NEW t \in offered
  PROVE  /\ t.box \in Boxes
         /\ HasBox(t) /\ Meets(t) => /\ t.box.e - t.box.w >= Side
                                     /\ t.box.n - t.box.s >= Side
<1>1. offered \in TilePools /\ IsGrid(offered) /\ t.box \in Boxes
  BY GridAssumption DEF MosaicTypeOK
<1>2. QED
  BY <1>1 DEF IsGrid

LEMMA QuadsShareLines ==
  ASSUME MosaicTypeOK, NEW a \in offered, NEW b \in offered, NEW c \in offered,
         HasBox(a), HasBox(b), HasBox(c), Meets(a), Meets(b), Meets(c)
  PROVE  /\ \/ SameColumnOfQuads(a.box, b.box) \/ SameColumnOfQuads(b.box, c.box)
            \/ SameColumnOfQuads(a.box, c.box)
         /\ \/ SameRowOfQuads(a.box, b.box) \/ SameRowOfQuads(b.box, c.box)
            \/ SameRowOfQuads(a.box, c.box)
<1>1. offered \in TilePools /\ IsGrid(offered)
  BY GridAssumption DEF MosaicTypeOK
<1>2. QED
  BY <1>1 DEF IsGrid

(* A tile of the year that shows the parcel meets the viewport.            *)
LEMMA CoveringMeets ==
  ASSUME MosaicTypeOK, NEW p \in offered, ContainsParcel(p)
  PROVE  Meets(p)
<1> SUFFICES ASSUME HasBox(p)  PROVE IntersectionArea(p.box, Viewport) > 0
  BY DEF Meets
<1>1. InColumns(p.box) /\ InRows(p.box)
  BY DEF ContainsParcel
<1>2. p.box \in Boxes /\ Side \in Nat /\ Side > 0 /\ Viewport \in Boxes
  BY QuadsOnOffer, SideTyped
<1>3. /\ p.box.w \in Int /\ p.box.s \in Int /\ p.box.e \in Int /\ p.box.n \in Int
  BY <1>2 DEF Boxes
<1>4. WideIn(p.box, Viewport) > 0
  BY <1>1, <1>2, <1>3 DEF InColumns, WideIn, Viewport, Smaller, Larger
<1>5. HighIn(p.box, Viewport) > 0
  BY <1>1, <1>2, <1>3 DEF InRows, HighIn, Viewport, Smaller, Larger
<1>6. QED
  BY <1>2, <1>4, <1>5, MeetIsWideByHigh, ProductGrows

(* A first pick beside the parcel, although a tile over it was on offer,   *)
(* lies beside it in one direction only, and is not enough of the viewport.*)
LEMMA FirstPickBeside ==
  ASSUME NEW a \in Boxes, NEW b \in Boxes,
         a.e - a.w >= Side, a.n - a.s >= Side, b.e - b.w >= Side, b.n - b.s >= Side,
         InColumns(b), InRows(b), ~(InColumns(a) /\ InRows(a)),
         IntersectionArea(a, Viewport) >= IntersectionArea(b, Viewport)
  PROVE  /\ InColumns(a) \/ InRows(a)
         /\ ~Enough(IntersectionArea(a, Viewport))
<1> DEFINE W(x) == WideIn(x, Viewport)
           H(x) == HighIn(x, Viewport)
<1>1. Side \in Nat /\ Side > 0 /\ Viewport \in Boxes
  BY SideTyped
<1>2. /\ W(a) \in Nat /\ H(a) \in Nat /\ W(b) \in Nat /\ H(b) \in Nat
      /\ IntersectionArea(a, Viewport) = W(a) * H(a)
      /\ IntersectionArea(b, Viewport) = W(b) * H(b)
  BY <1>1, MeetIsWideByHigh
<1>3. 2 * W(b) > Side /\ 2 * H(b) > Side
  BY QuadShows
<1>4. /\ W(a) <= Side /\ H(a) <= Side
      /\ ~InColumns(a) => 2 * W(a) <= Side
      /\ ~InRows(a) => 2 * H(a) <= Side
  BY QuadShows
<1> HIDE DEF W, H
<1>5. InColumns(a) \/ InRows(a)
  <2> SUFFICES ASSUME ~InColumns(a), ~InRows(a)  PROVE FALSE
    OBVIOUS
  <2>1. W(a) < W(b) /\ H(a) <= H(b) /\ 0 < H(b)
    BY <1>1, <1>2, <1>3, <1>4
  <2>2. W(a) * H(a) < W(b) * H(b)
    BY <1>2, <2>1, ProductGrows
  <2>3. W(a) * H(a) \in Nat /\ W(b) * H(b) \in Nat
    BY <1>2, ProductGrows
  <2>4. QED
    BY <1>2, <2>2, <2>3
<1>6. 2 * (W(a) * H(a)) <= Side * Side
  <2>1. CASE ~InColumns(a)
    <3>1. (2 * W(a)) * H(a) <= Side * Side
      BY <1>1, <1>2, <1>4, <2>1, ProductGrows
    <3>2. (2 * W(a)) * H(a) = 2 * (W(a) * H(a))
      BY <1>2
    <3>3. QED
      BY <3>1, <3>2
  <2>2. CASE ~InRows(a)
    <3>1. W(a) * (2 * H(a)) <= Side * Side
      BY <1>1, <1>2, <1>4, <2>2, ProductGrows
    <3>2. W(a) * (2 * H(a)) = 2 * (W(a) * H(a))
      BY <1>2
    <3>3. QED
      BY <3>1, <3>2
  <2>3. QED
    BY <2>1, <2>2
<1>7. Area(Viewport) = Side * Side /\ Side * Side \in Nat /\ Side * Side > 0
  <2>1. Side * Side \in Nat /\ Side * Side > 0
    BY <1>1, ProductGrows
  <2>2. Larger(0, Side - 0) = Side
    BY <1>1 DEF Larger
  <2>3. Area(Viewport) = Side * Side
    BY <2>2 DEF Area, Viewport
  <2>4. QED
    BY <2>1, <2>3
<1>8. ~Enough(IntersectionArea(a, Viewport))
  <2>1. PICK k \in Nat : k = W(a) * H(a)
    BY <1>2, ProductGrows
  <2>2. PICK m \in Nat : m = Side * Side
    BY <1>7
  <2>3. 2 * k <= m /\ m > 0
    BY <1>6, <1>7, <2>1, <2>2
  <2>4. ~(100 * k >= 95 * m)
    BY <2>3
  <2>5. QED
    BY <1>2, <1>7, <2>1, <2>2, <2>4 DEF Enough, CoverageTarget
<1>9. QED
  BY <1>5, <1>8

(* The open rectangle is then the strip beyond the tile: the strips at its *)
(* other sides, if any, are smaller.                                       *)
LEMMA LargestStripIsBeyond ==
  ASSUME NEW a \in Boxes, a.e - a.w >= Side, a.n - a.s >= Side,
         IntersectionArea(a, Viewport) > 0, open = Viewport,
         InColumns(a) \/ InRows(a), ~(InColumns(a) /\ InRows(a))
  PROVE  /\ Residuals(a) # {}
         /\ \A r \in LargestOf(Residuals(a)) : IsBeyond(r, a)
<1> DEFINE east == [Viewport EXCEPT !.w = Larger(a.e, 0)]
           west == [Viewport EXCEPT !.e = Smaller(a.w, Side)]
           north == [Viewport EXCEPT !.s = Larger(a.n, 0)]
           south == [Viewport EXCEPT !.n = Smaller(a.s, Side)]
<1>1. /\ a.w \in Int /\ a.s \in Int /\ a.e \in Int /\ a.n \in Int
      /\ Side \in Nat /\ Side > 0 /\ Viewport \in Boxes
  BY SideTyped DEF Boxes
<1>2. WideIn(a, Viewport) > 0 /\ HighIn(a, Viewport) > 0
  BY <1>1, MeetIsWideByHigh, ProductGrows
<1>3. 0 < a.e /\ a.w < Side /\ 0 < a.n /\ a.s < Side
  BY <1>1, <1>2 DEF WideIn, HighIn, Viewport, Smaller, Larger
<1>4. Larger(a.e, 0) = a.e /\ Smaller(a.w, Side) = a.w
      /\ Larger(a.n, 0) = a.n /\ Smaller(a.s, Side) = a.s
  BY <1>1, <1>3 DEF Smaller, Larger
<1>5. /\ Viewport.w = 0 /\ Viewport.s = 0 /\ Viewport.e = Side /\ Viewport.n = Side
  BY DEF Viewport
<1>6. Residuals(a) = (IF a.e < Side THEN {east} ELSE {})
                     \cup (IF a.w > 0 THEN {west} ELSE {})
                     \cup (IF a.n < Side THEN {north} ELSE {})
                     \cup (IF a.s > 0 THEN {south} ELSE {})
  BY <1>5 DEF Residuals
<1>7. /\ a.e < Side => Area(east) = (Side - a.e) * Side
      /\ a.w > 0 => Area(west) = a.w * Side
      /\ a.n < Side => Area(north) = Side * (Side - a.n)
      /\ a.s > 0 => Area(south) = Side * a.s
  BY <1>1, <1>3, <1>4 DEF Area, Viewport, Larger
<1>8. /\ a.e < Side => east = [Viewport EXCEPT !.w = a.e]
      /\ a.w > 0 => west = [Viewport EXCEPT !.e = a.w]
      /\ a.n < Side => north = [Viewport EXCEPT !.s = a.n]
      /\ a.s > 0 => south = [Viewport EXCEPT !.n = a.s]
  BY <1>4
<1> HIDE DEF east, west, north, south
<1>9. ASSUME NEW x \in Nat, NEW y \in Nat, x < y
      PROVE  /\ x * Side < y * Side /\ Side * x < Side * y
             /\ x * Side < Side * y /\ Side * x < y * Side
  <2>1. x * Side < y * Side
    BY <1>1, <1>9, ProductGrows
  <2>2. x * Side = Side * x /\ y * Side = Side * y
    BY <1>1
  <2>3. QED
    BY <2>1, <2>2
<1>10. ASSUME NEW big, NEW small, NEW x \in Nat, NEW y \in Nat, x < y,
              big \in Residuals(a), Area(big) \in {y * Side, Side * y},
              Area(small) \in {x * Side, Side * x}
       PROVE  small \notin LargestOf(Residuals(a))
  <2>1. small \in LargestOf(Residuals(a)) => Area(big) <= Area(small)
    BY <1>10 DEF LargestOf
  <2>2. /\ x * Side \in Nat /\ y * Side \in Nat /\ Side * x \in Nat /\ Side * y \in Nat
        /\ x * Side < y * Side /\ Side * x < Side * y
        /\ x * Side < Side * y /\ Side * x < y * Side
    BY <1>1, <1>9, <1>10, ProductGrows
  <2>3. QED
    BY <1>10, <2>1, <2>2
<1>11. ASSUME InRows(a), Side <= 2 * a.w
       PROVE  west \in Residuals(a) /\ \A r \in LargestOf(Residuals(a)) : r = west
  <2>1. /\ a.w > 0 /\ a.w \in Nat /\ ~(a.e < Side)
        /\ a.s < a.w /\ Side - a.n < a.w
    BY <1>1, <1>11 DEF InRows
  <2>2. west \in Residuals(a)
    BY <1>6, <2>1
  <2>3. a.n < Side => north \notin LargestOf(Residuals(a))
    <3>1. CASE a.n < Side
      <4>1. Side - a.n \in Nat
        BY <1>1, <3>1
      <4>2. QED
        BY <1>7, <1>10, <2>1, <2>2, <3>1, <4>1
    <3>2. QED
      BY <3>1
  <2>4. a.s > 0 => south \notin LargestOf(Residuals(a))
    <3>1. CASE a.s > 0
      <4>1. a.s \in Nat
        BY <1>1, <3>1
      <4>2. QED
        BY <1>7, <1>10, <2>1, <2>2, <3>1, <4>1
    <3>2. QED
      BY <3>1
  <2>5. QED
    BY <1>6, <2>1, <2>2, <2>3, <2>4 DEF LargestOf
<1>12. ASSUME InRows(a), 2 * a.e <= Side
       PROVE  east \in Residuals(a) /\ \A r \in LargestOf(Residuals(a)) : r = east
  <2>1. /\ a.e < Side /\ Side - a.e \in Nat /\ ~(a.w > 0)
        /\ a.s < Side - a.e /\ Side - a.n < Side - a.e
    BY <1>1, <1>3, <1>12 DEF InRows
  <2>2. east \in Residuals(a)
    BY <1>6, <2>1
  <2>3. a.n < Side => north \notin LargestOf(Residuals(a))
    <3>1. CASE a.n < Side
      <4>1. Side - a.n \in Nat
        BY <1>1, <3>1
      <4>2. QED
        BY <1>7, <1>10, <2>1, <2>2, <3>1, <4>1
    <3>2. QED
      BY <3>1
  <2>4. a.s > 0 => south \notin LargestOf(Residuals(a))
    <3>1. CASE a.s > 0
      <4>1. a.s \in Nat
        BY <1>1, <3>1
      <4>2. QED
        BY <1>7, <1>10, <2>1, <2>2, <3>1, <4>1
    <3>2. QED
      BY <3>1
  <2>5. QED
    BY <1>6, <2>1, <2>2, <2>3, <2>4 DEF LargestOf
<1>13. ASSUME InColumns(a), Side <= 2 * a.s
       PROVE  south \in Residuals(a) /\ \A r \in LargestOf(Residuals(a)) : r = south
  <2>1. /\ a.s > 0 /\ a.s \in Nat /\ ~(a.n < Side)
        /\ a.w < a.s /\ Side - a.e < a.s
    BY <1>1, <1>13 DEF InColumns
  <2>2. south \in Residuals(a)
    BY <1>6, <2>1
  <2>3. a.e < Side => east \notin LargestOf(Residuals(a))
    <3>1. CASE a.e < Side
      <4>1. Side - a.e \in Nat
        BY <1>1, <3>1
      <4>2. QED
        BY <1>7, <1>10, <2>1, <2>2, <3>1, <4>1
    <3>2. QED
      BY <3>1
  <2>4. a.w > 0 => west \notin LargestOf(Residuals(a))
    <3>1. CASE a.w > 0
      <4>1. a.w \in Nat
        BY <1>1, <3>1
      <4>2. QED
        BY <1>7, <1>10, <2>1, <2>2, <3>1, <4>1
    <3>2. QED
      BY <3>1
  <2>5. QED
    BY <1>6, <2>1, <2>2, <2>3, <2>4 DEF LargestOf
<1>14. ASSUME InColumns(a), 2 * a.n <= Side
       PROVE  north \in Residuals(a) /\ \A r \in LargestOf(Residuals(a)) : r = north
  <2>1. /\ a.n < Side /\ Side - a.n \in Nat /\ ~(a.s > 0)
        /\ a.w < Side - a.n /\ Side - a.e < Side - a.n
    BY <1>1, <1>3, <1>14 DEF InColumns
  <2>2. north \in Residuals(a)
    BY <1>6, <2>1
  <2>3. a.e < Side => east \notin LargestOf(Residuals(a))
    <3>1. CASE a.e < Side
      <4>1. Side - a.e \in Nat
        BY <1>1, <3>1
      <4>2. QED
        BY <1>7, <1>10, <2>1, <2>2, <3>1, <4>1
    <3>2. QED
      BY <3>1
  <2>4. a.w > 0 => west \notin LargestOf(Residuals(a))
    <3>1. CASE a.w > 0
      <4>1. a.w \in Nat
        BY <1>1, <3>1
      <4>2. QED
        BY <1>7, <1>10, <2>1, <2>2, <3>1, <4>1
    <3>2. QED
      BY <3>1
  <2>5. QED
    BY <1>6, <2>1, <2>2, <2>3, <2>4 DEF LargestOf
<1>15. \/ InRows(a) /\ Side <= 2 * a.w
       \/ InRows(a) /\ 2 * a.e <= Side
       \/ InColumns(a) /\ Side <= 2 * a.s
       \/ InColumns(a) /\ 2 * a.n <= Side
  BY <1>1 DEF InColumns, InRows
<1>16. CASE InRows(a) /\ Side <= 2 * a.w
  <2>1. a.w > 0
    BY <1>1, <1>16
  <2>2. QED
    BY <1>8, <1>11, <1>16, <2>1 DEF IsBeyond
<1>17. CASE InRows(a) /\ 2 * a.e <= Side
  <2>1. a.e < Side
    BY <1>1, <1>3, <1>17
  <2>2. QED
    BY <1>8, <1>12, <1>17, <2>1 DEF IsBeyond
<1>18. CASE InColumns(a) /\ Side <= 2 * a.s
  <2>1. a.s > 0
    BY <1>1, <1>18
  <2>2. QED
    BY <1>8, <1>13, <1>18, <2>1 DEF IsBeyond
<1>19. CASE InColumns(a) /\ 2 * a.n <= Side
  <2>1. a.n < Side
    BY <1>1, <1>3, <1>19
  <2>2. QED
    BY <1>8, <1>14, <1>19, <2>1 DEF IsBeyond
<1>20. QED
  BY <1>15, <1>16, <1>17, <1>18, <1>19

(* With a strip beyond the first pick open, and a tile over the parcel on  *)
(* the grid, what shows most of the strip shows the parcel.                *)
LEMMA SecondPickCovers ==
  ASSUME NEW a \in Boxes, NEW b \in Boxes, NEW c \in Boxes, NEW o \in Boxes,
         a.e - a.w >= Side, a.n - a.s >= Side, b.e - b.w >= Side, b.n - b.s >= Side,
         c.e - c.w >= Side, c.n - c.s >= Side,
         IntersectionArea(a, Viewport) > 0, InColumns(b), InRows(b),
         SameColumnOfQuads(a, b) \/ SameColumnOfQuads(b, c) \/ SameColumnOfQuads(a, c),
         SameRowOfQuads(a, b) \/ SameRowOfQuads(b, c) \/ SameRowOfQuads(a, c),
         IsBeyond(o, a)
  PROVE  /\ IntersectionArea(b, o) > 0
         /\ IntersectionArea(c, o) >= IntersectionArea(b, o) => InColumns(c) /\ InRows(c)
<1>1. /\ a.w \in Int /\ a.s \in Int /\ a.e \in Int /\ a.n \in Int
      /\ b.w \in Int /\ b.s \in Int /\ b.e \in Int /\ b.n \in Int
      /\ c.w \in Int /\ c.s \in Int /\ c.e \in Int /\ c.n \in Int
      /\ Side \in Nat /\ Side > 0 /\ Viewport \in Boxes
  BY SideTyped DEF Boxes
<1>2. 0 < a.e /\ a.w < Side /\ 0 < a.n /\ a.s < Side
  <2>1. WideIn(a, Viewport) > 0 /\ HighIn(a, Viewport) > 0
    BY <1>1, MeetIsWideByHigh, ProductGrows
  <2>2. QED
    BY <1>1, <2>1 DEF WideIn, HighIn, Viewport, Smaller, Larger
<1>3. /\ WideIn(b, o) \in Nat /\ HighIn(b, o) \in Nat
      /\ WideIn(c, o) \in Nat /\ HighIn(c, o) \in Nat
      /\ IntersectionArea(b, o) = WideIn(b, o) * HighIn(b, o)
      /\ IntersectionArea(c, o) = WideIn(c, o) * HighIn(c, o)
      /\ IntersectionArea(b, o) \in Nat /\ IntersectionArea(c, o) \in Nat
  BY MeetIsWideByHigh, ProductGrows
<1>4. CASE \/ o = [Viewport EXCEPT !.e = a.w] /\ Side <= 2 * a.w
           \/ o = [Viewport EXCEPT !.w = a.e] /\ 2 * a.e <= Side
  <2>1. /\ o.w \in Int /\ o.e \in Int /\ o.s = 0 /\ o.n = Side
        /\ \/ o.w = 0 /\ o.e = a.w /\ Side <= 2 * a.w
           \/ o.w = a.e /\ o.e = Side /\ 2 * a.e <= Side
    BY <1>1, <1>4 DEF Viewport
  <2>2. WideIn(b, o) > 0
    BY <1>1, <1>2, <2>1 DEF InColumns, WideIn, Smaller, Larger
  <2>3. HighIn(b, o) = HighIn(b, Viewport) /\ HighIn(c, o) = HighIn(c, Viewport)
    BY <2>1 DEF HighIn, Viewport
  <2>4. 2 * HighIn(b, o) > Side
    BY <2>3, QuadShows
  <2>5. IntersectionArea(b, o) > 0
    BY <1>1, <1>3, <2>2, <2>4, ProductGrows
  <2>6. ASSUME IntersectionArea(c, o) >= IntersectionArea(b, o)
        PROVE  InColumns(c) /\ InRows(c)
    <3>1. WideIn(c, o) > 0
      BY <1>3, <2>5, <2>6, ProductGrows
    <3>2. ~SameColumnOfQuads(a, c)
      BY <1>1, <1>2, <2>1, <3>1 DEF SameColumnOfQuads, WideIn, Smaller, Larger
    <3>3. ~SameColumnOfQuads(a, b)
      BY <1>1, <2>1 DEF SameColumnOfQuads, InColumns
    <3>4. b.w = c.w /\ b.e = c.e
      BY <3>2, <3>3 DEF SameColumnOfQuads
    <3>5. InColumns(c) /\ WideIn(c, o) = WideIn(b, o)
      BY <3>4 DEF InColumns, WideIn
    <3>6. ~(HighIn(c, o) < HighIn(b, o))
      <4> SUFFICES ASSUME HighIn(c, o) < HighIn(b, o)  PROVE FALSE
        OBVIOUS
      <4>1. HighIn(c, o) * WideIn(c, o) < HighIn(b, o) * WideIn(b, o)
        BY <1>3, <2>2, <3>5, ProductGrows
      <4>2. /\ HighIn(c, o) * WideIn(c, o) = WideIn(c, o) * HighIn(c, o)
            /\ HighIn(b, o) * WideIn(b, o) = WideIn(b, o) * HighIn(b, o)
        BY <1>3
      <4>3. QED
        BY <1>3, <2>6, <4>1, <4>2
    <3>7. 2 * HighIn(c, Viewport) > Side
      BY <1>1, <1>3, <2>3, <2>4, <3>6
    <3>8. InRows(c)
      <4>1. ~InRows(c) => 2 * HighIn(c, Viewport) <= Side
        BY QuadShows
      <4>2. QED
        BY <1>1, <1>3, <2>3, <3>7, <4>1
    <3>9. QED
      BY <3>5, <3>8
  <2>7. QED
    BY <2>5, <2>6
<1>5. CASE \/ o = [Viewport EXCEPT !.n = a.s] /\ Side <= 2 * a.s
           \/ o = [Viewport EXCEPT !.s = a.n] /\ 2 * a.n <= Side
  <2>1. /\ o.s \in Int /\ o.n \in Int /\ o.w = 0 /\ o.e = Side
        /\ \/ o.s = 0 /\ o.n = a.s /\ Side <= 2 * a.s
           \/ o.s = a.n /\ o.n = Side /\ 2 * a.n <= Side
    BY <1>1, <1>5 DEF Viewport
  <2>2. HighIn(b, o) > 0
    BY <1>1, <1>2, <2>1 DEF InRows, HighIn, Smaller, Larger
  <2>3. WideIn(b, o) = WideIn(b, Viewport) /\ WideIn(c, o) = WideIn(c, Viewport)
    BY <2>1 DEF WideIn, Viewport
  <2>4. 2 * WideIn(b, o) > Side
    BY <2>3, QuadShows
  <2>5. IntersectionArea(b, o) > 0
    BY <1>1, <1>3, <2>2, <2>4, ProductGrows
  <2>6. ASSUME IntersectionArea(c, o) >= IntersectionArea(b, o)
        PROVE  InColumns(c) /\ InRows(c)
    <3>1. HighIn(c, o) > 0
      BY <1>3, <2>5, <2>6, ProductGrows
    <3>2. ~SameRowOfQuads(a, c)
      BY <1>1, <1>2, <2>1, <3>1 DEF SameRowOfQuads, HighIn, Smaller, Larger
    <3>3. ~SameRowOfQuads(a, b)
      BY <1>1, <2>1 DEF SameRowOfQuads, InRows
    <3>4. b.s = c.s /\ b.n = c.n
      BY <3>2, <3>3 DEF SameRowOfQuads
    <3>5. InRows(c) /\ HighIn(c, o) = HighIn(b, o)
      BY <3>4 DEF InRows, HighIn
    <3>6. ~(WideIn(c, o) < WideIn(b, o))
      <4> SUFFICES ASSUME WideIn(c, o) < WideIn(b, o)  PROVE FALSE
        OBVIOUS
      <4>1. WideIn(c, o) * HighIn(c, o) < WideIn(b, o) * HighIn(b, o)
        BY <1>3, <2>2, <3>5, ProductGrows
      <4>2. /\ WideIn(c, o) * HighIn(c, o) = HighIn(c, o) * WideIn(c, o)
            /\ WideIn(b, o) * HighIn(b, o) = HighIn(b, o) * WideIn(b, o)
        BY <1>3
      <4>3. QED
        BY <1>3, <2>6, <4>1, <4>2
    <3>7. 2 * WideIn(c, Viewport) > Side
      BY <1>1, <1>3, <2>3, <2>4, <3>6
    <3>8. InColumns(c)
      <4>1. ~InColumns(c) => 2 * WideIn(c, Viewport) <= Side
        BY QuadShows
      <4>2. QED
        BY <1>1, <1>3, <2>3, <3>7, <4>1
    <3>9. QED
      BY <3>5, <3>8
  <2>7. QED
    BY <2>5, <2>6
<1>6. QED
  BY <1>4, <1>5 DEF IsBeyond

(* A tile that gains something shows a cell of what is open.               *)
LEMMA GainShows ==
  ASSUME NEW a \in Boxes, open \in Boxes, 0 <= open.w, open.e <= Side,
         0 <= open.s, open.n <= Side, IntersectionArea(a, open) > 0
  PROVE  \E c \in CellsOf(a) : c \in CellsOf(open)
<1> DEFINE x == Larger(a.w, open.w)
           y == Larger(a.s, open.s)
<1>1. /\ a.w \in Int /\ a.s \in Int /\ a.e \in Int /\ a.n \in Int
      /\ open.w \in Int /\ open.s \in Int /\ open.e \in Int /\ open.n \in Int
      /\ Side \in Nat
  BY SideTyped DEF Boxes
<1>2. WideIn(a, open) > 0 /\ HighIn(a, open) > 0
  BY MeetIsWideByHigh, ProductGrows
<1>3. /\ x \in 0 .. Side - 1 /\ a.w <= x /\ x < a.e /\ open.w <= x /\ x < open.e
  BY <1>1, <1>2 DEF WideIn, Smaller, Larger
<1>4. /\ y \in 0 .. Side - 1 /\ a.s <= y /\ y < a.n /\ open.s <= y /\ y < open.n
  BY <1>1, <1>2 DEF HighIn, Smaller, Larger
<1> HIDE DEF x, y
<1>5. <<x, y>> \in CellsOf(a) /\ <<x, y>> \in CellsOf(open)
  BY <1>3, <1>4 DEF CellsOf, Cells
<1>6. QED
  BY <1>5

(* The strips left of what is open lie in it, and outside the tile.        *)
LEMMA ResidualsAreLeft ==
  ASSUME NEW a \in Boxes, open \in Boxes, 0 <= open.w, open.e <= Side,
         0 <= open.s, open.n <= Side, NEW r \in Residuals(a)
  PROVE  /\ r \in Boxes /\ 0 <= r.w /\ r.e <= Side /\ 0 <= r.s /\ r.n <= Side
         /\ CellsOf(r) \subseteq CellsOf(open) /\ CellsOf(a) \cap CellsOf(r) = {}
<1>1. /\ a.w \in Int /\ a.s \in Int /\ a.e \in Int /\ a.n \in Int
      /\ open.w \in Int /\ open.s \in Int /\ open.e \in Int /\ open.n \in Int
      /\ Side \in Nat
  BY SideTyped DEF Boxes
<1>2. \A c \in Cells : c[1] \in Int /\ c[2] \in Int
  BY <1>1 DEF Cells
<1>3. \/ r = [open EXCEPT !.w = Larger(a.e, open.w)]
      \/ r = [open EXCEPT !.e = Smaller(a.w, open.e)]
      \/ r = [open EXCEPT !.s = Larger(a.n, open.s)]
      \/ r = [open EXCEPT !.n = Smaller(a.s, open.n)]
  BY DEF Residuals
<1>4. /\ Larger(a.e, open.w) \in Int /\ Smaller(a.w, open.e) \in Int
      /\ Larger(a.n, open.s) \in Int /\ Smaller(a.s, open.n) \in Int
  BY <1>1 DEF Larger, Smaller
<1>5. /\ r \in Boxes
      /\ open.w <= r.w /\ r.e <= open.e /\ open.s <= r.s /\ r.n <= open.n
      /\ a.e <= r.w \/ r.e <= a.w \/ a.n <= r.s \/ r.n <= a.s
  <2>1. CASE r = [open EXCEPT !.w = Larger(a.e, open.w)]
    <3>1. /\ r.w = Larger(a.e, open.w) /\ r.e = open.e /\ r.s = open.s /\ r.n = open.n
          /\ r \in Boxes
      BY <1>4, <2>1 DEF Boxes
    <3>2. QED
      BY <1>1, <3>1 DEF Larger
  <2>2. CASE r = [open EXCEPT !.e = Smaller(a.w, open.e)]
    <3>1. /\ r.e = Smaller(a.w, open.e) /\ r.w = open.w /\ r.s = open.s /\ r.n = open.n
          /\ r \in Boxes
      BY <1>4, <2>2 DEF Boxes
    <3>2. QED
      BY <1>1, <3>1 DEF Smaller
  <2>3. CASE r = [open EXCEPT !.s = Larger(a.n, open.s)]
    <3>1. /\ r.s = Larger(a.n, open.s) /\ r.w = open.w /\ r.e = open.e /\ r.n = open.n
          /\ r \in Boxes
      BY <1>4, <2>3 DEF Boxes
    <3>2. QED
      BY <1>1, <3>1 DEF Larger
  <2>4. CASE r = [open EXCEPT !.n = Smaller(a.s, open.n)]
    <3>1. /\ r.n = Smaller(a.s, open.n) /\ r.w = open.w /\ r.e = open.e /\ r.s = open.s
          /\ r \in Boxes
      BY <1>4, <2>4 DEF Boxes
    <3>2. QED
      BY <1>1, <3>1 DEF Smaller
  <2>5. QED
    BY <1>3, <2>1, <2>2, <2>3, <2>4
<1>6. /\ r.w \in Int /\ r.s \in Int /\ r.e \in Int /\ r.n \in Int
  BY <1>5 DEF Boxes
<1>7. CellsOf(r) \subseteq CellsOf(open)
  BY <1>1, <1>2, <1>5, <1>6 DEF CellsOf
<1>8. CellsOf(a) \cap CellsOf(r) = {}
  BY <1>1, <1>2, <1>5, <1>6 DEF CellsOf
<1>9. QED
  BY <1>1, <1>5, <1>6, <1>7, <1>8

LEMMA MosaicInitHolds == MosaicInit => MosaicInv
<1> SUFFICES ASSUME MosaicInit  PROVE MosaicInv
  OBVIOUS
<1> USE DEF MosaicInit
<1>1. IsFiniteSet({}) /\ Cardinality({}) = 0
  BY FS_EmptySet
<1>2. MosaicTypeOK
  BY <1>1, SideTyped DEF MosaicTypeOK, MaxTiles
<1>3. OpenIsUnseen
  BY SideTyped DEF OpenIsUnseen, Viewport
<1>4. Untouched
  BY DEF Untouched, MeetingTiles
<1>5. QED
  BY <1>2, <1>3, <1>4 DEF MosaicInv, EveryTileAddsView, MeetingTiles

(* A tile that is taken gains something: it shows some of what is open.    *)
LEMMA BestTileGains ==
  ASSUME MosaicInv, stage = "pick", NEW t \in BestTiles, HasBox(t),
         Gain(t) > 0 \/ chosen = {}
  PROVE  /\ t \in offered /\ t \in candidates /\ Meets(t) /\ t.box \in Boxes
         /\ IntersectionArea(t.box, open) > 0
         /\ t.box.e - t.box.w >= Side /\ t.box.n - t.box.s >= Side
<1>1. MosaicTypeOK /\ OpenIsUnseen /\ t \in candidates
  BY DEF MosaicInv, BestTiles
<1>2. t \in offered /\ Meets(t)
  BY <1>1 DEF MosaicInv, MosaicTypeOK, MeetingTiles
<1>3. IntersectionArea(t.box, open) > 0
  BY <1>1, <1>2 DEF OpenIsUnseen, Meets, Gain
<1>4. QED
  BY <1>1, <1>2, <1>3, QuadsOnOffer

(* With the strip beyond the first tile open, the next pick is over the    *)
(* parcel if any tile on offer is.                                         *)
LEMMA SecondIsOver ==
  ASSUME MosaicInv, stage = "pick", NEW u \in chosen, EndsBeside(u),
         NEW p \in offered, HasBox(p), ContainsParcel(p)
  PROVE  /\ p \in candidates /\ Gain(p) > 0
         /\ \A t \in BestTiles : ContainsParcel(t) /\ (HasBox(t) => Gain(t) > 0)
<1>1. /\ MosaicTypeOK /\ u \in offered /\ HasBox(u) /\ Meets(u)
      /\ candidates = MeetingTiles \ {u} /\ IsBeyond(open, u.box) /\ open \in Boxes
  BY DEF MosaicInv, MosaicTypeOK, EndsBeside
<1>2. InColumns(p.box) /\ InRows(p.box) /\ Meets(p)
  BY <1>1, CoveringMeets DEF ContainsParcel
<1>3. /\ u.box \in Boxes /\ u.box.e - u.box.w >= Side /\ u.box.n - u.box.s >= Side
      /\ p.box \in Boxes /\ p.box.e - p.box.w >= Side /\ p.box.n - p.box.s >= Side
      /\ IntersectionArea(u.box, Viewport) > 0
  BY <1>1, <1>2, QuadsOnOffer DEF Meets
<1>4. ~(InColumns(u.box) /\ InRows(u.box))
  <2>1. /\ u.box.w \in Int /\ u.box.s \in Int /\ u.box.e \in Int /\ u.box.n \in Int
        /\ Side \in Nat
    BY <1>3, SideTyped DEF Boxes
  <2>2. QED
    BY <1>1, <2>1 DEF IsBeyond, InColumns, InRows
<1>5. p \in candidates
  BY <1>1, <1>2, <1>4 DEF MeetingTiles
<1>6. ASSUME NEW t \in offered, HasBox(t), Meets(t)
      PROVE  /\ IntersectionArea(p.box, open) > 0
             /\ IntersectionArea(t.box, open) >= IntersectionArea(p.box, open) =>
                  InColumns(t.box) /\ InRows(t.box)
  <2>1. /\ t.box \in Boxes /\ t.box.e - t.box.w >= Side /\ t.box.n - t.box.s >= Side
    BY <1>1, <1>6, QuadsOnOffer
  <2>2. /\ \/ SameColumnOfQuads(u.box, p.box) \/ SameColumnOfQuads(p.box, t.box)
           \/ SameColumnOfQuads(u.box, t.box)
        /\ \/ SameRowOfQuads(u.box, p.box) \/ SameRowOfQuads(p.box, t.box)
           \/ SameRowOfQuads(u.box, t.box)
    BY <1>1, <1>2, <1>6, QuadsShareLines
  <2>3. QED
    BY <1>1, <1>2, <1>3, <2>1, <2>2, SecondPickCovers
<1>7. Gain(p) > 0 /\ Gain(p) \in Nat
  <2>1. IntersectionArea(p.box, open) > 0
    BY <1>2, <1>6
  <2>2. IntersectionArea(p.box, open) \in Nat
    BY <1>1, <1>3, MeetIsWideByHigh, ProductGrows
  <2>3. QED
    BY <2>1, <2>2 DEF Gain
<1>8. ASSUME NEW t \in BestTiles
      PROVE  ContainsParcel(t) /\ (HasBox(t) => Gain(t) > 0)
  <2>1. t \in offered /\ Meets(t) /\ (Gain(t) > Gain(p) \/ Gain(t) = Gain(p))
    BY <1>1, <1>5 DEF BestTiles, MosaicTypeOK, MeetingTiles
  <2>2. CASE ~HasBox(t)
    BY <2>2 DEF ContainsParcel
  <2>3. CASE HasBox(t)
    <3>1. t.box \in Boxes
      BY <1>1, <2>1, QuadsOnOffer
    <3>2. IntersectionArea(t.box, open) \in Nat
      BY <1>1, <3>1, MeetIsWideByHigh, ProductGrows
    <3>3. /\ Gain(t) = IntersectionArea(t.box, open)
          /\ Gain(p) = IntersectionArea(p.box, open)
      BY <2>3 DEF Gain
    <3>4. IntersectionArea(t.box, open) >= IntersectionArea(p.box, open) /\ Gain(t) > 0
      BY <1>7, <2>1, <3>2, <3>3
    <3>5. QED
      BY <1>6, <2>1, <2>3, <3>4 DEF ContainsParcel
  <2>4. QED
    BY <2>2, <2>3
<1>9. QED
  BY <1>5, <1>7, <1>8

LEMMA TakeKeeps == MosaicInv /\ Take => MosaicInv'
<1> SUFFICES ASSUME MosaicInv, Take  PROVE MosaicInv'
  OBVIOUS
<1>1. PICK t \in BestTiles :
        /\ HasBox(t) /\ (Gain(t) > 0 \/ chosen = {})
        /\ chosen' = chosen \cup {t}
        /\ candidates' = candidates \ {t}
        /\ added' = CellsOf(t.box) \ UNION {CellsOf(u.box) : u \in chosen}
        /\ covered' = CoveredSoFar(t)
        /\ IF Enough(covered') \/ Residuals(t.box) = {}
           THEN stage' = "gate" /\ UNCHANGED open
           ELSE open' \in LargestOf(Residuals(t.box)) /\ UNCHANGED stage
  BY Zenon DEF Take
<1>2. /\ stage = "pick" /\ Cardinality(chosen) < MaxTiles /\ offered' = offered
      /\ MosaicTypeOK /\ OpenIsUnseen /\ open \in Boxes /\ covered \in Nat
      /\ candidates \subseteq MeetingTiles
      /\ Untouched \/ Covering \/ NoneCovers \/ \E u \in chosen : EndsBeside(u)
  BY DEF Take, MosaicInv, MosaicTypeOK
<1>3. /\ t \in offered /\ t \in candidates /\ Meets(t) /\ t.box \in Boxes
      /\ IntersectionArea(t.box, open) > 0
      /\ t.box.e - t.box.w >= Side /\ t.box.n - t.box.s >= Side
  BY <1>1, <1>2, BestTileGains
<1>4. added' # {}
  <2>1. PICK c \in CellsOf(t.box) : c \in CellsOf(open)
    BY <1>2, <1>3, GainShows DEF OpenIsUnseen
  <2>2. \A u \in chosen : c \notin CellsOf(u.box)
    BY <1>2, <2>1 DEF OpenIsUnseen
  <2>3. QED
    BY <1>1, <2>1, <2>2
<1>5. stage' \in {"pick", "gate"} /\ (stage' = "pick" => open' \in Residuals(t.box))
  BY <1>1, <1>2 DEF LargestOf
<1>6. open' \in Boxes
  <2>1. CASE open' = open
    BY <1>2, <2>1
  <2>2. CASE open' \in LargestOf(Residuals(t.box))
    BY <1>2, <1>3, <2>2, ResidualsAreLeft DEF LargestOf, OpenIsUnseen
  <2>3. QED
    BY <1>1, <2>1, <2>2
<1>7. MosaicTypeOK'
  <2>1. IsFiniteSet(chosen) /\ Cardinality(chosen) < 3 /\ Cardinality(chosen) \in Nat
    BY <1>2, FS_CardinalityType DEF MosaicTypeOK, MaxTiles
  <2>2. /\ IsFiniteSet(chosen \cup {t})
        /\ \/ Cardinality(chosen \cup {t}) = Cardinality(chosen)
           \/ Cardinality(chosen \cup {t}) = Cardinality(chosen) + 1
    BY <2>1, FS_AddElement
  <2>3. IsFiniteSet(chosen') /\ Cardinality(chosen') <= MaxTiles
    BY <1>1, <2>1, <2>2 DEF MaxTiles
  <2>4. covered' \in Nat
    <3>1. IntersectionArea(t.box, Viewport) \in Nat
      BY <1>3, SideTyped, MeetIsWideByHigh, ProductGrows
    <3>2. QED
      BY <1>1, <1>2, <3>1 DEF CoveredSoFar
  <2>5. added' \subseteq Cells
    BY <1>1 DEF CellsOf
  <2>6. QED
    BY <1>1, <1>2, <1>3, <1>5, <1>6, <2>3, <2>4, <2>5 DEF MosaicTypeOK
<1>8. stage' = "pick" => OpenIsUnseen'
  <2> SUFFICES ASSUME stage' = "pick"  PROVE OpenIsUnseen'
    OBVIOUS
  <2>1. /\ 0 <= open'.w /\ open'.e <= Side /\ 0 <= open'.s /\ open'.n <= Side
        /\ CellsOf(open') \subseteq CellsOf(open) /\ CellsOf(t.box) \cap CellsOf(open') = {}
    BY <1>2, <1>3, <1>5, ResidualsAreLeft DEF OpenIsUnseen
  <2>2. \A u \in chosen' : CellsOf(u.box) \cap CellsOf(open') = {}
    BY <1>1, <1>2, <2>1 DEF OpenIsUnseen
  <2>3. chosen' # {}
    BY <1>1
  <2>4. QED
    BY <2>1, <2>2, <2>3 DEF OpenIsUnseen
<1>9. candidates' \subseteq MeetingTiles'
  BY <1>1, <1>2 DEF MeetingTiles
<1>10. Covering' \/ NoneCovers' \/ (stage' = "pick" /\ t \in chosen' /\ EndsBeside(t)')
  <2>1. CASE NoneCovers
    BY <1>2, <2>1 DEF NoneCovers
  <2>2. CASE Covering
    BY <1>1, <2>2 DEF Covering
  <2>3. CASE ContainsParcel(t)
    BY <1>1, <2>3 DEF Covering
  <2>4. CASE ~NoneCovers /\ ~Covering /\ ~ContainsParcel(t)
    <3>1. PICK p \in offered : HasBox(p) /\ ContainsParcel(p)
      BY <2>4 DEF NoneCovers
    <3>2. ~\E u \in chosen : EndsBeside(u)
      BY <1>1, <1>2, <2>4, <3>1, SecondIsOver
    <3>3. chosen = {} /\ covered = 0 /\ open = Viewport /\ candidates = MeetingTiles
      BY <1>2, <2>4, <3>2 DEF Untouched
    <3>4. Meets(p) /\ p \in candidates
      BY <1>2, <3>1, <3>3, CoveringMeets DEF MeetingTiles
    <3>5. /\ p.box \in Boxes /\ InColumns(p.box) /\ InRows(p.box)
          /\ p.box.e - p.box.w >= Side /\ p.box.n - p.box.s >= Side
      BY <1>2, <3>1, <3>4, QuadsOnOffer DEF ContainsParcel
    <3>6. ~(InColumns(t.box) /\ InRows(t.box))
      BY <2>4 DEF ContainsParcel
    <3>7. IntersectionArea(t.box, Viewport) >= IntersectionArea(p.box, Viewport)
      <4>1. Gain(t) > Gain(p) \/ Gain(t) = Gain(p)
        BY <3>4 DEF BestTiles
      <4>2. /\ Gain(t) = IntersectionArea(t.box, Viewport)
            /\ Gain(p) = IntersectionArea(p.box, Viewport)
        BY <1>1, <3>1, <3>3 DEF Gain
      <4>3. /\ IntersectionArea(t.box, Viewport) \in Nat
            /\ IntersectionArea(p.box, Viewport) \in Nat
        BY <1>3, <3>5, SideTyped, MeetIsWideByHigh, ProductGrows
      <4>4. QED
        BY <4>1, <4>2, <4>3
    <3>8. /\ InColumns(t.box) \/ InRows(t.box)
          /\ ~Enough(IntersectionArea(t.box, Viewport))
      BY <1>3, <3>5, <3>6, <3>7, FirstPickBeside
    <3>9. /\ Residuals(t.box) # {}
          /\ \A r \in LargestOf(Residuals(t.box)) : IsBeyond(r, t.box)
      BY <1>3, <3>3, <3>6, <3>8, LargestStripIsBeyond
    <3>10. ~Enough(covered')
      <4>1. IntersectionArea(t.box, Viewport) \in Nat
        BY <1>3, SideTyped, MeetIsWideByHigh, ProductGrows
      <4>2. covered' = IntersectionArea(t.box, Viewport)
        BY <1>1, <3>3, <4>1 DEF CoveredSoFar
      <4>3. QED
        BY <3>8, <4>2
    <3>11. stage' = "pick" /\ IsBeyond(open', t.box)
      BY <1>1, <1>2, <3>9, <3>10
    <3>12. chosen' = {t} /\ candidates' = MeetingTiles' \ {t}
      BY <1>1, <1>2, <3>3 DEF MeetingTiles
    <3>13. EndsBeside(t)'
      BY <1>1, <1>3, <3>11, <3>12 DEF EndsBeside
    <3>14. QED
      BY <3>11, <3>12, <3>13
  <2>5. QED
    BY <2>1, <2>2, <2>3, <2>4
<1>11. QED
  BY <1>4, <1>5, <1>7, <1>8, <1>9, <1>10 DEF MosaicInv, EveryTileAddsView

LEMMA StopPickingKeeps == MosaicInv /\ StopPicking => MosaicInv'
<1> SUFFICES ASSUME MosaicInv, StopPicking  PROVE MosaicInv'
  OBVIOUS
<1>1. /\ stage = "pick" /\ stage' = "gate"
      /\ UNCHANGED <<offered, candidates, chosen, covered, open, added>>
      /\ \/ candidates = {} \/ Cardinality(chosen) = MaxTiles
         \/ chosen # {} /\ \E t \in BestTiles : HasBox(t) /\ Gain(t) <= 0
  BY DEF StopPicking
<1>2. /\ MosaicTypeOK /\ candidates \subseteq MeetingTiles
      /\ Untouched \/ Covering \/ NoneCovers \/ \E u \in chosen : EndsBeside(u)
  BY <1>1 DEF MosaicInv
<1>3. MosaicTypeOK' /\ EveryTileAddsView' /\ candidates' \subseteq MeetingTiles'
  BY <1>1, <1>2 DEF MosaicInv, MosaicTypeOK, EveryTileAddsView, MeetingTiles
<1>4. Covering \/ NoneCovers
  <2> SUFFICES ASSUME NEW p \in offered, HasBox(p), ContainsParcel(p)  PROVE Covering
    BY DEF NoneCovers
  <2>1. p \in MeetingTiles
    BY <1>2, CoveringMeets DEF MeetingTiles
  <2>2. CASE Untouched
    <3>1. chosen = {} /\ p \in candidates /\ Cardinality(chosen) = 0
      BY <2>1, <2>2, FS_EmptySet DEF Untouched
    <3>2. QED
      BY <1>1, <3>1 DEF MaxTiles
  <2>3. CASE \E u \in chosen : EndsBeside(u)
    <3>1. PICK u \in chosen : EndsBeside(u)
      BY <2>3
    <3>2. /\ p \in candidates
          /\ \A t \in BestTiles : HasBox(t) => Gain(t) > 0
      BY <1>1, <3>1, SecondIsOver
    <3>3. Cardinality(chosen) = 1
      BY <3>1, FS_Singleton DEF EndsBeside
    <3>4. ASSUME NEW t \in BestTiles, HasBox(t), Gain(t) <= 0
          PROVE  FALSE
      <4>1. t \in offered /\ open \in Boxes
        BY <1>2 DEF BestTiles, MosaicTypeOK
      <4>2. IntersectionArea(t.box, open) \in Nat
        BY <1>2, <4>1, QuadsOnOffer, MeetIsWideByHigh, ProductGrows
      <4>3. Gain(t) \in Nat /\ Gain(t) > 0
        BY <3>2, <3>4, <4>2 DEF Gain
      <4>4. QED
        BY <3>4, <4>3
    <3>5. QED
      BY <1>1, <3>2, <3>3, <3>4 DEF MaxTiles
  <2>4. QED
    BY <1>2, <2>2, <2>3 DEF NoneCovers
<1>5. Covering' \/ NoneCovers'
  BY <1>1, <1>4 DEF Covering, NoneCovers
<1>6. QED
  BY <1>1, <1>3, <1>5 DEF MosaicInv

LEMMA TakeBlindKeeps == MosaicInv /\ TakeBlind => MosaicInv'
<1> SUFFICES ASSUME MosaicInv, TakeBlind  PROVE MosaicInv'
  OBVIOUS
<1>1. PICK t \in BestTiles : ~HasBox(t) /\ chosen' = chosen \cup {t}
  BY DEF TakeBlind
<1>2. /\ stage = "pick" /\ stage' = "gate" /\ added' = Cells
      /\ Cardinality(chosen) < MaxTiles
      /\ UNCHANGED <<offered, candidates, covered, open>>
      /\ MosaicTypeOK /\ candidates \subseteq MeetingTiles
  BY DEF TakeBlind, MosaicInv
<1>3. t \in offered
  BY <1>2 DEF BestTiles, MosaicTypeOK
<1>4. IsFiniteSet(chosen') /\ Cardinality(chosen') <= MaxTiles
  <2>1. IsFiniteSet(chosen) /\ Cardinality(chosen) < 3 /\ Cardinality(chosen) \in Nat
    BY <1>2, FS_CardinalityType DEF MosaicTypeOK, MaxTiles
  <2>2. /\ IsFiniteSet(chosen \cup {t})
        /\ \/ Cardinality(chosen \cup {t}) = Cardinality(chosen)
           \/ Cardinality(chosen \cup {t}) = Cardinality(chosen) + 1
    BY <2>1, FS_AddElement
  <2>3. QED
    BY <1>1, <2>1, <2>2 DEF MaxTiles
<1>5. MosaicTypeOK'
  BY <1>1, <1>2, <1>3, <1>4 DEF MosaicTypeOK
<1>6. added' # {}
  <2>1. 0 \in 0 .. Side - 1
    BY SideTyped
  <2>2. <<0, 0>> \in Cells
    BY <2>1 DEF Cells
  <2>3. QED
    BY <1>2, <2>2
<1>7. Covering'
  BY <1>1 DEF Covering, ContainsParcel
<1>8. candidates' \subseteq MeetingTiles'
  BY <1>2 DEF MeetingTiles
<1>9. QED
  BY <1>2, <1>5, <1>6, <1>7, <1>8 DEF MosaicInv, EveryTileAddsView

LEMMA GateKeeps == MosaicInv /\ Gate => MosaicInv'
<1> SUFFICES ASSUME MosaicInv, Gate  PROVE MosaicInv'
  OBVIOUS
<1>1. /\ stage = "gate" /\ stage' = IF Covering THEN "served" ELSE "suppressed"
      /\ UNCHANGED <<offered, candidates, chosen, covered, open, added>>
  BY DEF Gate
<1>2. MosaicTypeOK' /\ EveryTileAddsView' /\ candidates' \subseteq MeetingTiles'
  BY <1>1 DEF MosaicInv, MosaicTypeOK, EveryTileAddsView, MeetingTiles
<1>3. Covering \/ NoneCovers
  BY <1>1 DEF MosaicInv
<1>4. (Covering => Covering') /\ (NoneCovers => NoneCovers')
  BY <1>1 DEF Covering, NoneCovers
<1>5. QED
  BY <1>1, <1>2, <1>3, <1>4 DEF MosaicInv

LEMMA MosaicStep == MosaicInv /\ [MosaicNext]_mosaicVars => MosaicInv'
<1>1. ASSUME MosaicInv, UNCHANGED mosaicVars
      PROVE  MosaicInv'
  <2>1. UNCHANGED <<offered, candidates, chosen, covered, open, stage, added>>
    BY <1>1 DEF mosaicVars
  <2>2. MosaicTypeOK' /\ EveryTileAddsView' /\ candidates' \subseteq MeetingTiles'
    BY <1>1, <2>1 DEF MosaicInv, MosaicTypeOK, EveryTileAddsView, MeetingTiles
  <2>3. OpenIsUnseen => OpenIsUnseen'
    BY <2>1 DEF OpenIsUnseen
  <2>4. /\ Untouched => Untouched'
        /\ Covering => Covering'
        /\ NoneCovers => NoneCovers'
        /\ (\E u \in chosen : EndsBeside(u)) => (\E u \in chosen : EndsBeside(u))'
    BY <2>1 DEF Untouched, Covering, NoneCovers, EndsBeside, MeetingTiles
  <2>5. QED
    BY <1>1, <2>1, <2>2, <2>3, <2>4 DEF MosaicInv
<1>2. QED
  BY <1>1, TakeKeeps, StopPickingKeeps, TakeBlindKeeps, GateKeeps DEF MosaicNext

(* On NAIP's grid, of which any tiles may be missing, a mosaic is served   *)
(* only with a tile over the parcel, and suppressed only when no tile of   *)
(* the year is over it; each of its tiles adds to the view                 *)
(* (stac.py, select_naip_items and filter_groups_containing_point).        *)
THEOREM MosaicsShowTheParcel == MosaicSpec => []MosaicShowsTheParcel
<1>1. MosaicInv => MosaicShowsTheParcel
  <2> SUFFICES ASSUME MosaicInv  PROVE MosaicShowsTheParcel
    OBVIOUS
  <2>1. ServedMosaicCovers
    BY DEF MosaicInv, ServedMosaicCovers, Covering
  <2>2. CoveringTileIsNeverPassedOver
    BY DEF MosaicInv, CoveringTileIsNeverPassedOver, NoneCovers
  <2>3. QED
    BY <2>1, <2>2 DEF MosaicInv, MosaicShowsTheParcel
<1>2. QED
  BY <1>1, MosaicInitHolds, MosaicStep, PTL DEF MosaicSpec

-----------------------------------------------------------------------------
(* The studies of MCSourceTasks share no state.                            *)

LEMMA StudiesStepApart ==
  ASSUME TasksNext \/ UNCHANGED <<study, vars, propertyVars, topoVars, selectionVars,
                                  mosaicVars, retryVars>>
  PROVE  /\ [Next]_vars /\ [PropertyNext]_propertyVars /\ [TopoNext]_topoVars
         /\ [SelectionNext]_selectionVars /\ [MosaicNext]_mosaicVars
         /\ [RetryNext]_retryVars
  BY DEF TasksNext

(* Every behaviour of the instance that TLC runs is one of each component, *)
(* parked or not: what is proved of a component holds in the instance.     *)
LEMMA StudiesAreComponents ==
  TasksSpec => /\ Spec /\ PropertySpec /\ TopoSpec
               /\ SelectionSpec /\ MosaicSpec /\ RetrySpec
<1>1. TasksInit => /\ Init /\ PropertyInit /\ TopoInit
                   /\ SelectionInit /\ MosaicInit /\ RetryInit
  BY DEF TasksInit, CParked, PParked, MParked, SParked, NParked, UParked
<1>2. [TasksNext]_<<study, vars, propertyVars, topoVars, selectionVars, mosaicVars, retryVars>>
        => /\ [Next]_vars /\ [PropertyNext]_propertyVars /\ [TopoNext]_topoVars
           /\ [SelectionNext]_selectionVars /\ [MosaicNext]_mosaicVars
           /\ [RetryNext]_retryVars
  BY StudiesStepApart
<1>3. QED
  BY <1>1, <1>2, PTL
     DEF TasksSpec, Spec, PropertySpec, TopoSpec, SelectionSpec, MosaicSpec, RetrySpec

(* Every task keeps its types: the counts a property report gives are at   *)
(* most its queries and the records on file (timeline.py, _set_task_status)*)
THEOREM TasksAreTyped == TasksSpec => []TasksTypeOK
<1>1. PropertyInv /\ PropertyTyped /\ [PropertyNext]_propertyVars => PropertyTyped'
  BY PropertyStaysTyped
<1>2. PropertySpec => []PropertyTyped
  BY <1>1, PropertyStartsTyped, PropertyInvHolds, PTL DEF PropertySpec
<1>3. TopoSpec => []TopoInv
  BY TopoInitHolds, TopoStep, PTL DEF TopoSpec
<1>4. RetrySpec => []RetryInv
  BY RetryInitHolds, RetryStep, PTL DEF RetrySpec
<1>5. SelectionSpec => []SelectionInv
  BY SelectionInitHolds, SelectionStep, PTL DEF SelectionSpec
<1>6. MosaicSpec => []MosaicInv
  BY MosaicInitHolds, MosaicStep, PTL DEF MosaicSpec
<1>7. TypeOK /\ PropertyTyped /\ TopoInv /\ RetryInv /\ SelectionInv /\ MosaicInv
        => TasksTypeOK
  BY DEF PropertyTyped, TopoInv, RetryInv, SelectionInv, MosaicInv, TasksTypeOK
<1>8. QED
  BY <1>2, <1>3, <1>4, <1>5, <1>6, <1>7, StudiesAreComponents, CensusTypes, PTL

=============================================================================
