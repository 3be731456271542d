---------------------------- MODULE BackfillPolicy ----------------------------
(***************************************************************************)
(* What a visit of a parcel that is already served dispatches, and what an *)
(* operator's heal selects: the task rows of the parcel's current request, *)
(* the latest ledger outcome of every group over all its requests, the     *)
(* retry policy, and a cooldown per source.                                *)
(*                                                                         *)
(* A request is run in one step; runs may raise, write what they like of   *)
(* the groups the worker's code attempts, and be redelivered after newer   *)
(* requests have run.  Time is counted in cooldowns.                       *)
(***************************************************************************)
EXTENDS TimelineStatus, Sequences, FiniteSets

CONSTANTS
  FullScope,       (* the sources of a full-scope request                 *)
  Attempted,       (* version of the code -> the groups it attempts       *)
  LedgerSource,    (* group -> the source the ledger files it under       *)
  WholeSource,     (* the group of a source that only knows one, "*"      *)
  Seeds,           (* what a parcel may start with: sequences of requests *)
  MaxRequests,     (* bound: requests of the parcel                       *)
  MaxBad,          (* bound: troubles of one run                          *)
  MaxNow,          (* bound: cooldowns that pass                          *)
  MaxRedeliveries  (* bound: runs of a request after its first            *)

(* One census task writes the rows of two ledger sources.                  *)
Keys == UNION {Attempted[c] : c \in DOMAIN Attempted}
TaskSource(k) ==
  IF LedgerSource[k] \in {"census_decennial", "census_acs5"} THEN "census"
  ELSE LedgerSource[k]

NoRow == "no row"
NoCode == 0   (* requests older than the column *)

VARIABLES
  requests,     (* the parcel's requests by creation                      *)
  covered,      (* the county is the permit authority for the address     *)
  now,
  code,         (* version of the API, the worker and the scripts         *)
  redeliveries

backfillVars == <<requests, covered, now, code, redeliveries>>

Created == DOMAIN requests
RowOutcomes == {"ok", "failed", "absent", "absent_api", "absent_cloud",
                "indeterminate", "suppressed"}
NoRows == [k \in Keys |-> NoRow]
NoTasks == [s \in FullScope |-> "none"]

RequestType ==
  [scope : (SUBSET FullScope) \ {{}}, origin : {"user", "backfill", "heal"}, why : SUBSET Keys,
   at : Nat, code : Nat, status : RequestStatuses \ {"none"},
   tasks : [FullScope -> TaskStatuses \cup {"not_covered"}],
   rows : [Keys -> RowOutcomes \cup {NoRow}]]

BackfillTypeOK ==
  /\ requests \in Seq(RequestType)
  /\ \A i \in Created, k \in Keys :
       requests[i].rows[k] # NoRow => TaskSource(k) \in requests[i].scope
  /\ Cardinality({i \in Created : requests[i].status \in InflightStatuses}) <= 1
  /\ now \in 0 .. MaxNow /\ code \in DOMAIN Attempted

(* The ledger knows the census, the imagery sources and the maps, whose    *)
(* one group is "*".                                                       *)
ASSUME GroupsAssumption ==
  /\ {"census", "property", "usgs_topo"} \subseteq FullScope
  /\ DOMAIN Attempted \subseteq Nat /\ 1 \in DOMAIN Attempted /\ MaxNow \in Nat \ {0}
  /\ \A k \in Keys : TaskSource(k) \in FullScope \ {"property"}
  /\ WholeSource \in Keys => TaskSource(WholeSource) = "usgs_topo"

(* A parcel starts with requests that ended before, none of them a         *)
(* backfill; what a source of theirs answered is in its rows.              *)
ASSUME SeedsAssumption ==
  \A old \in Seeds :
    /\ old \in Seq(RequestType)
    /\ \A i \in DOMAIN old :
         /\ old[i].status \in TerminalRequestStatuses
         /\ old[i].origin # "backfill" /\ old[i].at <= 1
         /\ \A j \in i .. Len(old) : old[i].at <= old[j].at
         /\ \A k \in Keys :
              old[i].rows[k] # NoRow =>
                TaskSource(k) \in old[i].scope /\ old[i].tasks[TaskSource(k)] # "none"
         /\ \A k \in Attempted[1] \ {WholeSource} :
              old[i].tasks[TaskSource(k)] \in {"complete", "skipped", "not_covered"} =>
                old[i].rows[k] # NoRow

BackfillInit ==
  /\ requests \in Seeds /\ covered \in BOOLEAN
  /\ now = 1
  /\ code = 1
  /\ redeliveries = 0

-----------------------------------------------------------------------------
(* The latest outcome of a group is that of the newest request that has    *)
(* one, whenever that request was run; its attempts are all of them.       *)
Holding(k) == {i \in Created : requests[i].rows[k] # NoRow}
Newest(S) == CHOOSE i \in S : \A j \in S : j <= i
Outcome(k) == IF Holding(k) = {} THEN NoRow ELSE requests[Newest(Holding(k))].rows[k]
RecordedCode(k) == requests[Newest(Holding(k))].code
Attempts(k) == Cardinality(Holding(k))

RetryPolicy ==
  [failed |-> "retry", indeterminate |-> "retry_once",
   absent_cloud |-> "needs_cloud_flag", absent_api |-> "needs_absent_api_flag",
   absent |-> "never", suppressed |-> "never", ok |-> "never"]

(* A group the code no longer attempts can never be turned into ok.        *)
(* Mutant: every recorded group counts as attempted.                       *)
NeverStale(k) == FALSE
IsStale(k) == k \notin Attempted[code]
(* Mutant: the recorded version is not compared.                           *)
NeverSameCode(k) == FALSE
SameDeployedCode(k) == RecordedCode(k) = code

(* Mutant: what failed twice is given up.                                  *)
FailedOnce(k, flags) ==
  /\ Outcome(k) # NoRow /\ ~IsStale(k)
  /\ RetryPolicy[Outcome(k)] \in {"retry", "retry_once"} /\ Attempts(k) <= 1
IsRetryable(k, flags) ==
  /\ Outcome(k) # NoRow /\ ~IsStale(k)
  /\ LET policy == RetryPolicy[Outcome(k)]
     IN  \/ policy = "retry"
         \/ policy = "retry_once" /\ Attempts(k) <= 1
         \/ policy \in flags /\ ~SameDeployedCode(k)
RetryableGroups(flags) == {k \in Keys : IsRetryable(k, flags)}

-----------------------------------------------------------------------------
(* The parcel's current request: the latest full-scope one that serves or  *)
(* may come to serve.                                                      *)
(* Mutant: a scoped request may be the current one.                        *)
CurrentAnyScope == {i \in Created : requests[i].status \in ReusableStatuses}
Reusable ==
  {i \in Created :
     requests[i].status \in ReusableStatuses /\ requests[i].scope = FullScope}
Current == requests[Newest(Reusable)]
(* Mutant: a run in progress is overlooked.                                *)
NothingQueued == \A i \in Created : requests[i].status # "queued"
NothingInFlight == \A i \in Created : requests[i].status \notin InflightStatuses

(* The three triggers read from the current request's task rows.           *)
NeedsRefetch ==
  \/ Current.tasks["census"] \in {"none", "failed"}
  \/ Current.tasks["property"] \in {"none", "skipped", "partial", "failed"}
  \/ Current.tasks["usgs_topo"] = "none"

LedgerBackfillSources == {TaskSource(k) : k \in RetryableGroups({})}

(* Per source, when a request that declares it was created last.           *)
(* Mutant: when one was created first.                                     *)
FirstAttempt(s) ==
  {i \in Created : s \in requests[i].scope /\ \A j \in 1 .. i - 1 : s \notin requests[j].scope}
LastAttempt(s) ==
  {i \in Created : s \in requests[i].scope /\
     \A j \in i + 1 .. Len(requests) : s \notin requests[j].scope}
OutsideCooldown(wanted) ==
  {s \in wanted : \A i \in LastAttempt(s) : now - requests[i].at >= 1}

(* A full-scope trigger stays full scope as long as any source is ready.   *)
BackfillScope ==
  LET wanted == IF NeedsRefetch THEN FullScope ELSE LedgerBackfillSources
      ready == OutsideCooldown(wanted)
  IN  IF ready # {} /\ NeedsRefetch THEN FullScope ELSE ready

NewRequest(scope, origin, why) ==
  [scope |-> scope, origin |-> origin, why |-> why, at |-> now, code |-> code,
   status |-> "queued", tasks |-> NoTasks, rows |-> NoRows]

CreateQueuedRequest(scope, origin, why) ==
  /\ Len(requests) < MaxRequests /\ NothingInFlight
  /\ scope # {}
  /\ requests' = Append(requests, NewRequest(scope, origin, why))
  /\ UNCHANGED <<covered, now, code, redeliveries>>

(* A parcel without a current request is fetched for its visitor.          *)
VisitFirst ==
  /\ Reusable = {}
  /\ CreateQueuedRequest(FullScope, "user", {})

VisitBackfill ==
  /\ Reusable # {} /\ Current.status \in {"complete", "partial"}
  /\ CreateQueuedRequest(BackfillScope, "backfill", {})

(* requeue_parcels --from-ledger: the groups selected by flag and source   *)
(* become a request for the sources that would re-run them; no cooldown.   *)
HealFromLedger ==
  \E flags \in SUBSET {"needs_cloud_flag", "needs_absent_api_flag"}, s \in FullScope :
    LET why == {k \in RetryableGroups(flags) : TaskSource(k) = s}
    IN  CreateQueuedRequest({TaskSource(k) : k \in why}, "heal", why)

-----------------------------------------------------------------------------
(* A run.  In the groups its worker attempts a few troubles may occur; a   *)
(* source that raises leaves a failed task and no rows.  The maps have a   *)
(* row for the whole source only when the search went wrong.               *)
InScope(i) == {k \in Attempted[code] : TaskSource(k) \in requests[i].scope}
Clean(k) == IF k = WholeSource THEN NoRow ELSE "ok"
Bad(k) ==
  CASE TaskSource(k) = "usgs_topo" -> {"failed", "indeterminate"}
    [] TaskSource(k) = "census" -> {"failed", "absent_api"}
    [] OTHER -> {"failed", "indeterminate"}

Ran(i, raised, bad, outcome) ==
  [k \in Keys |->
     IF k \notin InScope(i) \/ TaskSource(k) \in raised THEN NoRow
     ELSE IF k \in bad THEN outcome[k] ELSE Clean(k)]
TaskVerdict(i, s, raised, rows, property) ==
  LET own == {k \in InScope(i) : TaskSource(k) = s}
  IN  CASE s \notin requests[i].scope -> "none"
        [] s = "property" -> property
        [] s \in raised -> "failed"
        [] own # {} /\ \A k \in own : rows[k] = "failed" -> "failed"
        [] OTHER -> "complete"
Concluded(tasks) ==
  AggregateRequestStatus(
    [s \in FullScope |-> IF tasks[s] = "not_covered" THEN "skipped" ELSE tasks[s]])

Finish(i) ==
  /\ requests[i].status \in InflightStatuses
  /\ \E raised \in SUBSET (requests[i].scope \ {"property"}), bad \in SUBSET InScope(i),
        property \in IF covered THEN {"complete", "partial", "failed"} ELSE {"not_covered"} :
       /\ Cardinality(raised) + Cardinality(bad)
            + (IF property \in {"complete", "not_covered"} THEN 0 ELSE 1) <= MaxBad
       /\ \E outcome \in [bad -> UNION {Bad(k) : k \in bad}] :
            /\ \A k \in bad : outcome[k] \in Bad(k)
            /\ LET rows == Ran(i, raised, bad, outcome)
                   tasks == [s \in FullScope |-> TaskVerdict(i, s, raised, rows, property)]
               IN  requests' = [requests EXCEPT ![i].rows = rows, ![i].tasks = tasks,
                                                ![i].status = Concluded(tasks),
                                                ![i].why = {}]
  /\ UNCHANGED <<covered, now, code, redeliveries>>

(* The dispatch fails, or the run is lost or ends at its time limit.       *)
Lose(i) ==
  /\ requests[i].status \in InflightStatuses
  /\ requests' = [requests EXCEPT ![i].status = "failed", ![i].why = {}]
  /\ UNCHANGED <<covered, now, code, redeliveries>>

(* A message not acknowledged is run again, also after newer requests were *)
(* created; its task rows are reset and its verdicts cleared first.        *)
RunAgain(i) ==
  /\ requests[i].status \in TerminalRequestStatuses /\ NothingInFlight
  /\ redeliveries < MaxRedeliveries /\ redeliveries' = redeliveries + 1
  /\ requests' = [requests EXCEPT ![i].status = "processing", ![i].rows = NoRows,
       ![i].tasks = [s \in FullScope |-> IF s \in requests[i].scope THEN "queued" ELSE "none"]]
  /\ UNCHANGED <<covered, now, code>>

TimePasses ==
  /\ now < MaxNow /\ now' = now + 1
  /\ UNCHANGED <<requests, covered, code, redeliveries>>

Deploy ==
  /\ code + 1 \in DOMAIN Attempted /\ code' = code + 1
  /\ UNCHANGED <<requests, covered, now, redeliveries>>

BackfillNext ==
  \/ VisitFirst \/ VisitBackfill \/ HealFromLedger
  \/ \E i \in Created : Finish(i) \/ Lose(i) \/ RunAgain(i)
  \/ TimePasses \/ Deploy

BackfillSpec == BackfillInit /\ [][BackfillNext]_backfillVars

-----------------------------------------------------------------------------
NewOf(origin) ==
  /\ Len(requests') = Len(requests) + 1
  /\ requests'[Len(requests')].origin = origin
New == requests'[Len(requests')]

(* The requests that ran source s, the newest of them, and whether it left *)
(* nothing to ask of s again.                                              *)
RanSource(s) == {i \in Created : requests[i].tasks[s] # "none"}
LeftClean(i, s) ==
  /\ requests[i].tasks[s] \in {"complete", "skipped", "not_covered"}
  /\ \A k \in Keys : TaskSource(k) = s =>
       requests[i].rows[k] \notin {"failed", "indeterminate"}

(* A backfill waits: of the sources it declares, at least one was not in a *)
(* request of the last cooldown, and of a scoped backfill none was, also   *)
(* counting requests whose dispatch or run failed.                         *)
Waited(j) ==
  {s \in requests[j].scope :
     \A i \in 1 .. j - 1 : s \in requests[i].scope => requests[j].at - requests[i].at >= 1}
BackfillsWait ==
  \A j \in Created : requests[j].origin = "backfill" =>
    Waited(j) # {} /\ (requests[j].scope # FullScope => Waited(j) = requests[j].scope)

(* A source whose newest run answered every group it attempted is not      *)
(* asked again by a visit, whatever older runs, older code or redelivered  *)
(* messages left behind in the ledger.                                     *)
QuietAbout(s) ==
  NewOf("backfill") /\ New.scope # FullScope /\ s \in New.scope =>
    ~LeftClean(Newest(RanSource(s)), s)
HealedStaysQuiet == \A s \in FullScope \ {"usgs_topo"} : QuietAbout(s)

(* The same of the maps: "treating it as retryable forever is a policy     *)
(* gap" (imagery.py, attempted_group_keys) of a group no run can turn ok.  *)
TopoRetryEnds == QuietAbout("usgs_topo")

(* A group that no run ever answered is not forgotten: as long as the code *)
(* attempts it and every row about it says failed, a visit after the       *)
(* cooldown dispatches its source.                                         *)
NothingFailedIsForgotten ==
  (NothingInFlight /\ Reusable # {}) =>
    \A k \in Attempted[code] :
      (Holding(k) # {} /\ (\A i \in Holding(k) : requests[i].rows[k] = "failed")
         /\ \A i \in Created : now - requests[i].at >= 1)
      => TaskSource(k) \in BackfillScope

(* The whole pipeline is not dispatched again and again: a full-scope      *)
(* backfill follows only on a full-scope run that left census, property or *)
(* the maps open.  A scoped run has no row for most sources and must never *)
(* be taken for the parcel's state.                                        *)
FullScopeSettles ==
  NewOf("backfill") /\ New.scope = FullScope =>
    \E i \in Created :
      /\ requests[i].scope = FullScope
      /\ \A j \in i + 1 .. Len(requests) :
           requests[j].scope = FullScope => requests[j].status = "failed"
      /\ ~(/\ requests[i].tasks["census"] \in {"complete", "skipped"}
           /\ requests[i].tasks["property"] \in {"complete", "not_covered"}
           /\ requests[i].tasks["usgs_topo"] # "none")

(* A flagged heal repeats no question under one deploy: of an absent group *)
(* it selects, no earlier heal under the running code recorded an answer   *)
(* that still stands.                                                      *)
HealsOncePerDeploy ==
  NewOf("heal") =>
    \A k \in New.why : Outcome(k) \in {"absent_api", "absent_cloud"} =>
      \A i \in Created :
        requests[i].origin = "heal" /\ requests[i].code = code
          /\ requests[i].rows[k] # NoRow =>
        \E j \in i + 1 .. Len(requests) :
          requests[j].rows[k] # NoRow /\ requests[j].code # code

(* HealedStaysQuiet (imagery.py, maybe_refetch_for_backfill): no step asks *)
(* again a source whose newest run answered everything it attempted.       *)
BackfillStaysQuiet == [][HealedStaysQuiet]_backfillVars

(* TopoRetryEnds (imagery.py, attempted_group_keys): a map search that     *)
(* succeeds ends the retries of the one that failed.                       *)
BackfillTopoEnds == [][TopoRetryEnds]_backfillVars

(* FullScopeSettles (imagery.py, maybe_refetch_for_backfill): the whole    *)
(* pipeline is dispatched again only for what a full run left open.        *)
BackfillSettles == [][FullScopeSettles]_backfillVars

(* HealsOncePerDeploy (ledger.py, is_retryable): a flagged heal selects    *)
(* nothing a heal of the same deploy already asked.                        *)
BackfillHealsOnce == [][HealsOncePerDeploy]_backfillVars

(***************************************************************************)
(* The inductive strengthening.                                            *)
(***************************************************************************)

OneInFlight ==
  \A i, j \in Created :
    requests[i].status \in InflightStatuses /\ requests[j].status \in InflightStatuses => i = j

(* Requests are created in the order of their times, none in the future.   *)
StampsAreInOrder ==
  /\ \A i \in Created : requests[i].at <= now
  /\ \A i, j \in Created : i <= j => requests[i].at <= requests[j].at

(* A source that left a row has a task row.                                *)
RowsHaveTasks ==
  \A i \in Created, k \in Keys :
    requests[i].rows[k] # NoRow => requests[i].tasks[TaskSource(k)] # "none"

PolicyInv ==
  BackfillTypeOK /\ OneInFlight /\ StampsAreInOrder /\ RowsHaveTasks /\ BackfillsWait

(* As long as groups only leave the code, a run that came to its end has   *)
(* a row for every group of its sources the code still attempts.           *)
GroupsOnlyLeave ==
  \A c, d \in DOMAIN Attempted : c <= d => Attempted[d] \subseteq Attempted[c]
CleanRunsAnswer ==
  \A i \in Created, k \in Attempted[code] \ {WholeSource} :
    requests[i].tasks[TaskSource(k)] \in {"complete", "skipped", "not_covered"} =>
      requests[i].rows[k] # NoRow

=============================================================================
