------------------------- MODULE BackfillPolicyProofs -------------------------
(***************************************************************************)
(* Proofs about the backfill and retry policy, for any number of requests, *)
(* sources, groups, deploys, troubles and redeliveries: a backfill waits   *)
(* out its cooldown, what always failed is asked again, and neither the    *)
(* whole pipeline nor an answered question is dispatched over and over.    *)
(***************************************************************************)
EXTENDS BackfillPolicy, FiniteSetTheorems, SequenceTheorems, WellFoundedInduction, TLAPS

-----------------------------------------------------------------------------
(* The newest of some requests is one of them.                             *)
LEMMA NewestIsIn ==
  ASSUME requests \in Seq(RequestType), NEW S, S \subseteq Created, S # {}
  PROVE  /\ Newest(S) \in S /\ Newest(S) \in Created
         /\ \A j \in S : j <= Newest(S)
<1> DEFINE n == Len(requests)
           T == {n - i : i \in S}
<1>1. n \in Nat /\ Created = 1 .. n
  BY DEF Created
<1> HIDE DEF n
<1>2. T \subseteq Nat /\ T # {} /\ \A i \in S : i \in Nat
  <2>1. \A i \in S : i \in Nat /\ n - i \in Nat
    BY <1>1
  <2>2. QED
    BY <2>1
<1>3. PICK m \in T : \A t \in T : ~(<<t, m>> \in OpToRel(<, Nat))
  BY <1>2, WFMin, NatLessThanWellFounded
<1>4. PICK i \in S : m = n - i
  OBVIOUS
<1>5. ASSUME NEW j \in S
      PROVE  j <= i
  <2>1. n - j \in T /\ n - j \in Nat /\ m \in Nat /\ i \in Nat /\ j \in Nat
    BY <1>2
  <2>2. ~(n - j < m)
    <3>1. n - j < m => <<n - j, m>> \in OpToRel(<, Nat)
      BY <2>1 DEF OpToRel
    <3>2. QED
      BY <1>3, <2>1, <3>1
  <2>3. QED
    BY <1>1, <1>4, <2>1, <2>2
<1>6. \E x \in S : \A j \in S : j <= x
  BY <1>5
<1>7. QED
  BY <1>6 DEF Newest

LEMMA OneIsAtMostOne ==
  ASSUME NEW F, \A i, j \in F : i = j
  PROVE  Cardinality(F) <= 1
<1>1. CASE F = {}
  BY <1>1, FS_EmptySet
<1>2. CASE F # {}
  <2>1. PICK i : i \in F
    BY <1>2
  <2>2. F = {i}
    BY <2>1
  <2>3. Cardinality(F) = 1
    BY <2>2, FS_Singleton
  <2>4. QED
    BY <2>3
<1>3. QED
  BY <1>1, <1>2

LEMMA PolicyTypes ==
  ASSUME PolicyInv
  PROVE  /\ requests \in Seq(RequestType) /\ Len(requests) \in Nat
         /\ Created = 1 .. Len(requests) /\ \A i \in Created : i \in Nat
         /\ \A i \in Created :
              /\ requests[i] \in RequestType
              /\ requests[i].at \in Nat /\ requests[i].code \in Nat
              /\ requests[i].scope \subseteq FullScope /\ requests[i].scope # {}
              /\ requests[i].why \subseteq Keys
              /\ requests[i].tasks \in [FullScope -> TaskStatuses \cup {"not_covered"}]
              /\ requests[i].rows \in [Keys -> RowOutcomes \cup {NoRow}]
         /\ now \in Nat /\ now \in 0 .. MaxNow /\ code \in DOMAIN Attempted /\ code \in Nat
         /\ MaxNow \in Nat
<1>1. BackfillTypeOK
  BY DEF PolicyInv
<1>2. /\ requests \in Seq(RequestType) /\ Len(requests) \in Nat
      /\ Created = 1 .. Len(requests) /\ \A i \in Created : i \in Nat
  BY <1>1 DEF BackfillTypeOK, Created
<1>3. \A i \in Created : requests[i] \in RequestType
  BY <1>2 DEF Created
<1>4. QED
  BY <1>1, <1>2, <1>3, GroupsAssumption DEF BackfillTypeOK, RequestType

-----------------------------------------------------------------------------
(* One request changes what it reports, not what it asks.                  *)
LEMMA RequestMoves ==
  ASSUME PolicyInv, NEW i \in Created, NEW new \in RequestType,
         requests' = [requests EXCEPT ![i] = new], UNCHANGED <<now, code>>,
         new.scope = requests[i].scope, new.origin = requests[i].origin,
         new.at = requests[i].at,
         \A k \in Keys :
           new.rows[k] # NoRow => TaskSource(k) \in new.scope /\ new.tasks[TaskSource(k)] # "none",
         new.status \in InflightStatuses =>
           requests[i].status \in InflightStatuses \/ NothingInFlight
  PROVE  PolicyInv'
<1>1. requests \in Seq(RequestType) /\ BackfillTypeOK
  BY DEF PolicyInv, BackfillTypeOK
<1>2. /\ requests' \in Seq(RequestType) /\ Created' = Created
      /\ \A j \in Created : requests'[j] = IF j = i THEN new ELSE requests[j]
  BY <1>1 DEF Created
<1>3. \A j \in Created : /\ requests'[j].scope = requests[j].scope
                         /\ requests'[j].origin = requests[j].origin
                         /\ requests'[j].at = requests[j].at
  BY <1>2
<1>4. OneInFlight'
  BY <1>2 DEF PolicyInv, OneInFlight, NothingInFlight
<1>5. BackfillTypeOK'
  <2>1. Cardinality({j \in Created' : requests'[j].status \in InflightStatuses}) <= 1
    <3>1. \A j, h \in {j \in Created' : requests'[j].status \in InflightStatuses} : j = h
      BY <1>4 DEF OneInFlight
    <3>2. QED
      BY <3>1, OneIsAtMostOne
  <2>2. \A j \in Created', k \in Keys :
          requests'[j].rows[k] # NoRow => TaskSource(k) \in requests'[j].scope
    BY <1>1, <1>2 DEF BackfillTypeOK
  <2>3. QED
    BY <1>1, <1>2, <2>1, <2>2 DEF BackfillTypeOK
<1>6. StampsAreInOrder' /\ RowsHaveTasks'
  BY <1>2, <1>3 DEF PolicyInv, StampsAreInOrder, RowsHaveTasks
<1>7. BackfillsWait'
  <2>1. \A j \in Created : 1 .. j - 1 \subseteq Created
    BY PolicyTypes
  <2>2. \A j \in Created : Waited(j)' = Waited(j)
    BY <1>3, <2>1 DEF Waited
  <2>3. QED
    BY <1>2, <1>3, <2>2 DEF PolicyInv, BackfillsWait
<1>8. QED
  BY <1>4, <1>5, <1>6, <1>7 DEF PolicyInv

(* A request is created while nothing is in flight.                        *)
LEMMA RequestAdded ==
  ASSUME PolicyInv, NothingInFlight, NEW new \in RequestType,
         requests' = Append(requests, new), UNCHANGED <<now, code>>,
         new.rows = NoRows, new.at = now,
         new.origin = "backfill" =>
           LET waited == {s \in new.scope :
                            \A i \in Created : s \in requests[i].scope => now - requests[i].at >= 1}
           IN  waited # {} /\ (new.scope # FullScope => waited = new.scope)
  PROVE  PolicyInv'
<1>1. /\ requests \in Seq(RequestType) /\ BackfillTypeOK /\ Len(requests) \in Nat
      /\ Created = 1 .. Len(requests) /\ now \in Nat
      /\ \A i \in Created : requests[i].at \in Nat
  BY PolicyTypes DEF PolicyInv
<1>2. PICK n : n = Len(requests) + 1
  OBVIOUS
<1>3. /\ requests' \in Seq(RequestType) /\ Created' = 1 .. n /\ n \in Nat
      /\ \A j \in Created : requests'[j] = requests[j]
      /\ requests'[n] = new
  BY <1>1, <1>2, AppendProperties DEF Created
<1>4. /\ \A j \in Created' : j \in Created \/ j = n
      /\ \A j \in Created : j <= n /\ j # n /\ j \in Nat
      /\ 1 .. n - 1 = Created /\ Created \subseteq Created'
  BY <1>1, <1>2, <1>3
<1>5. \A k \in Keys : new.rows[k] = NoRow
  BY DEF NoRows
<1>6. OneInFlight'
  BY ZenonT(30), <1>3, <1>4 DEF PolicyInv, OneInFlight, NothingInFlight
<1>7. BackfillTypeOK'
  <2>1. Cardinality({j \in Created' : requests'[j].status \in InflightStatuses}) <= 1
    <3>1. \A j, h \in {j \in Created' : requests'[j].status \in InflightStatuses} : j = h
      BY <1>6 DEF OneInFlight
    <3>2. QED
      BY <3>1, OneIsAtMostOne
  <2>2. \A j \in Created', k \in Keys :
          requests'[j].rows[k] # NoRow => TaskSource(k) \in requests'[j].scope
    BY <1>1, <1>3, <1>4, <1>5 DEF BackfillTypeOK
  <2>3. QED
    BY <1>1, <1>3, <2>1, <2>2 DEF BackfillTypeOK
<1>8. StampsAreInOrder'
  <2>1. \A j \in Created' : requests'[j].at <= now'
    BY <1>1, <1>3, <1>4 DEF PolicyInv, StampsAreInOrder
  <2>2. ASSUME NEW i \in Created', NEW j \in Created', i <= j
        PROVE  requests'[i].at <= requests'[j].at
    <3>1. CASE j \in Created
      <4>1. i \in Created
        BY <1>3, <1>4, <2>2, <3>1
      <4>2. QED
        BY <1>3, <2>2, <3>1, <4>1 DEF PolicyInv, StampsAreInOrder
    <3>2. CASE j = n
      BY <1>3, <2>1, <3>2
    <3>3. QED
      BY <1>4, <3>1, <3>2
  <2>3. QED
    BY <2>1, <2>2 DEF StampsAreInOrder
<1>9. RowsHaveTasks'
  <2> SUFFICES ASSUME NEW j \in Created', NEW k \in Keys, requests'[j].rows[k] # NoRow
               PROVE  requests'[j].tasks[TaskSource(k)] # "none"
    BY DEF RowsHaveTasks
  <2>1. j \in Created /\ requests'[j] = requests[j]
    BY ZenonT(30), <1>3, <1>4, <1>5
  <2>2. QED
    BY <2>1 DEF PolicyInv, RowsHaveTasks
<1>10. BackfillsWait'
  <2>1. \A j \in Created : 1 .. j - 1 \subseteq Created
    BY <1>1
  <2>2. \A j \in Created : Waited(j)' = Waited(j)
    BY <1>3, <2>1 DEF Waited
  <2>3. Waited(n)' = {s \in new.scope :
                        \A i \in Created : s \in requests[i].scope => now - requests[i].at >= 1}
    BY <1>3, <1>4 DEF Waited
  <2>4. QED
    BY ZenonT(30), <1>3, <1>4, <2>2, <2>3 DEF PolicyInv, BackfillsWait
<1>11. QED
  BY <1>6, <1>7, <1>8, <1>9, <1>10 DEF PolicyInv

-----------------------------------------------------------------------------
(* The cooldown.                                                           *)

(* A source outside its cooldown is in no request of the last one.         *)
LEMMA ReadyHaveWaited ==
  ASSUME PolicyInv, NEW wanted, NEW s \in OutsideCooldown(wanted),
         NEW i \in Created, s \in requests[i].scope
  PROVE  now - requests[i].at >= 1
<1> DEFINE S == {j \in Created : s \in requests[j].scope}
<1>1. PICK m \in S : \A j \in S : j <= m
  BY PolicyTypes, NewestIsIn
<1>2. m \in Created /\ s \in requests[m].scope /\ i <= m
  BY <1>1
<1>3. m \in LastAttempt(s)
  <2>1. \A j \in m + 1 .. Len(requests) : j \in Created /\ ~(j <= m)
    BY <1>2, PolicyTypes
  <2>2. \A j \in m + 1 .. Len(requests) : s \notin requests[j].scope
    BY <1>1, <2>1
  <2>3. QED
    BY <1>2, <2>2 DEF LastAttempt
<1>4. now - requests[m].at >= 1
  BY <1>3 DEF OutsideCooldown
<1>5. requests[i].at <= requests[m].at
  BY <1>2 DEF PolicyInv, StampsAreInOrder
<1>6. requests[i].at \in Nat /\ requests[m].at \in Nat /\ now \in Nat
  BY <1>2, PolicyTypes
<1>7. QED
  BY <1>4, <1>5, <1>6

LEMMA ScopeIsKnown ==
  /\ LedgerBackfillSources \subseteq FullScope \ {"property"}
  /\ \A wanted : OutsideCooldown(wanted) \subseteq wanted
  /\ BackfillScope \subseteq FullScope
<1>1. LedgerBackfillSources \subseteq FullScope \ {"property"}
  BY GroupsAssumption DEF LedgerBackfillSources, RetryableGroups
<1>2. \A wanted : OutsideCooldown(wanted) \subseteq wanted
  BY DEF OutsideCooldown
<1>3. QED
  BY <1>1, <1>2 DEF BackfillScope

(* What a visit asks for.                                                  *)
LEMMA BackfillsAskTheReady ==
  ASSUME BackfillScope # {}
  PROVE  \E wanted \in SUBSET FullScope :
           /\ OutsideCooldown(wanted) # {} /\ OutsideCooldown(wanted) \subseteq BackfillScope
           /\ BackfillScope # FullScope => BackfillScope = OutsideCooldown(wanted)
<1> DEFINE wanted == IF NeedsRefetch THEN FullScope ELSE LedgerBackfillSources
<1>1. wanted \in SUBSET FullScope /\ OutsideCooldown(wanted) \subseteq wanted
  BY ScopeIsKnown
<1>2. BackfillScope = IF OutsideCooldown(wanted) # {} /\ NeedsRefetch THEN FullScope
                      ELSE OutsideCooldown(wanted)
  BY DEF BackfillScope
<1>3. QED
  BY <1>1, <1>2

(* The whole pipeline is asked for only by the task rows of the current    *)
(* request, since property has no groups; the rest comes from the ledger.  *)
LEMMA ScopeHasItsReason ==
  /\ BackfillScope = FullScope => NeedsRefetch
  /\ BackfillScope # FullScope => BackfillScope \subseteq LedgerBackfillSources
<1>1. "property" \in FullScope
  BY GroupsAssumption
<1>2. CASE NeedsRefetch
  BY <1>2 DEF BackfillScope
<1>3. CASE ~NeedsRefetch
  <2>1. BackfillScope \subseteq LedgerBackfillSources
    BY <1>3, ScopeIsKnown DEF BackfillScope
  <2>2. QED
    BY <1>1, <2>1, ScopeIsKnown
<1>4. QED
  BY <1>2, <1>3

-----------------------------------------------------------------------------
(* The steps that create a request.                                        *)
LEMMA NewRequestType ==
  ASSUME PolicyInv, NEW scope \in (SUBSET FullScope) \ {{}},
         NEW origin \in {"user", "backfill", "heal"}, NEW why \in SUBSET Keys
  PROVE  /\ NewRequest(scope, origin, why) \in RequestType
         /\ NewRequest(scope, origin, why).scope = scope
         /\ NewRequest(scope, origin, why).origin = origin
         /\ NewRequest(scope, origin, why).why = why
         /\ NewRequest(scope, origin, why).at = now
         /\ NewRequest(scope, origin, why).rows = NoRows
         /\ NewRequest(scope, origin, why).tasks = NoTasks
<1>1. NoTasks \in [FullScope -> TaskStatuses \cup {"not_covered"}]
  BY DEF NoTasks, TaskStatuses
<1>2. NoRows \in [Keys -> RowOutcomes \cup {NoRow}]
  BY DEF NoRows
<1>3. "queued" \in RequestStatuses \ {"none"} /\ now \in Nat /\ code \in Nat
  BY PolicyTypes DEF RequestStatuses, InflightStatuses
<1>4. QED
  BY <1>1, <1>2, <1>3 DEF NewRequest, RequestType

(* Another request than a backfill is created.                             *)
LEMMA CreatedKeeps ==
  ASSUME PolicyInv, NEW scope \in (SUBSET FullScope) \ {{}},
         NEW origin \in {"user", "heal"}, NEW why \in SUBSET Keys,
         CreateQueuedRequest(scope, origin, why)
  PROVE  PolicyInv'
<1>1. PICK new : new = NewRequest(scope, origin, why)
  OBVIOUS
<1>2. /\ new \in RequestType /\ new.origin = origin /\ new.at = now /\ new.rows = NoRows
      /\ new.origin # "backfill"
  BY <1>1, NewRequestType
<1>3. NothingInFlight /\ requests' = Append(requests, new) /\ UNCHANGED <<now, code>>
  BY <1>1 DEF CreateQueuedRequest
<1>4. QED
  BY <1>2, <1>3, RequestAdded

LEMMA VisitsKeep ==
  ASSUME PolicyInv, VisitFirst \/ VisitBackfill \/ HealFromLedger
  PROVE  PolicyInv'
<1>1. CASE VisitFirst
  <2>1. /\ CreateQueuedRequest(FullScope, "user", {}) /\ FullScope \in (SUBSET FullScope) \ {{}}
        /\ {} \in SUBSET Keys
    BY <1>1, GroupsAssumption DEF VisitFirst
  <2>2. QED
    BY <2>1, CreatedKeeps
<1>2. CASE VisitBackfill
  <2>1. CreateQueuedRequest(BackfillScope, "backfill", {}) /\ BackfillScope # {}
    BY <1>2 DEF VisitBackfill, CreateQueuedRequest
  <2>2. PICK wanted \in SUBSET FullScope :
          /\ OutsideCooldown(wanted) # {} /\ OutsideCooldown(wanted) \subseteq BackfillScope
          /\ BackfillScope # FullScope => BackfillScope = OutsideCooldown(wanted)
    BY <2>1, BackfillsAskTheReady
  <2>3. PICK new : new = NewRequest(BackfillScope, "backfill", {})
    OBVIOUS
  <2>4. BackfillScope \in (SUBSET FullScope) \ {{}} /\ {} \in SUBSET Keys
    BY <2>1, ScopeIsKnown
  <2>5. /\ new \in RequestType /\ new.scope = BackfillScope /\ new.at = now /\ new.rows = NoRows
        /\ requests' = Append(requests, new) /\ NothingInFlight /\ UNCHANGED <<now, code>>
    <3>1. /\ new \in RequestType /\ new.scope = BackfillScope /\ new.at = now
          /\ new.rows = NoRows
      <4>1. PICK asked \in (SUBSET FullScope) \ {{}} : asked = BackfillScope
        BY <2>4
      <4>2. /\ NewRequest(asked, "backfill", {}) \in RequestType
            /\ NewRequest(asked, "backfill", {}).scope = asked
            /\ NewRequest(asked, "backfill", {}).at = now
            /\ NewRequest(asked, "backfill", {}).rows = NoRows
        BY <2>4, NewRequestType
      <4>3. QED
        BY <2>3, <4>1, <4>2
    <3>2. requests' = Append(requests, new) /\ NothingInFlight /\ UNCHANGED <<now, code>>
      BY <2>1, <2>3 DEF CreateQueuedRequest
    <3>3. QED
      BY <3>1, <3>2
  <2>6. PICK waited : waited = {s \in BackfillScope :
                                  \A i \in Created : s \in requests[i].scope =>
                                    now - requests[i].at >= 1}
    OBVIOUS
  <2>7. OutsideCooldown(wanted) \subseteq waited /\ waited \subseteq BackfillScope
    BY <2>2, <2>6, ReadyHaveWaited
  <2>8. waited # {} /\ (BackfillScope # FullScope => waited = BackfillScope)
    BY <2>2, <2>7
  <2>9. QED
    BY <2>5, <2>6, <2>8, RequestAdded
<1>3. CASE HealFromLedger
  <2>1. PICK flags \in SUBSET {"needs_cloud_flag", "needs_absent_api_flag"}, s \in FullScope :
          LET why == {k \in RetryableGroups(flags) : TaskSource(k) = s}
          IN  CreateQueuedRequest({TaskSource(k) : k \in why}, "heal", why)
    BY <1>3 DEF HealFromLedger
  <2>2. PICK why : why = {k \in RetryableGroups(flags) : TaskSource(k) = s}
    OBVIOUS
  <2>3. PICK scope : scope = {TaskSource(k) : k \in why}
    OBVIOUS
  <2>4. /\ why \in SUBSET Keys /\ scope \in (SUBSET FullScope) \ {{}}
        /\ CreateQueuedRequest(scope, "heal", why)
    BY <2>1, <2>2, <2>3 DEF RetryableGroups, CreateQueuedRequest
  <2>5. QED
    BY <2>4, CreatedKeeps
<1>4. QED
  BY <1>1, <1>2, <1>3

-----------------------------------------------------------------------------
(* The steps of a request that exists.                                     *)

(* What a run writes.                                                      *)
LEMMA RanRows ==
  ASSUME PolicyInv, NEW i \in Created, NEW raised, NEW bad \in SUBSET InScope(i), NEW outcome,
         \A k \in bad : outcome[k] \in Bad(k)
  PROVE  /\ Ran(i, raised, bad, outcome) \in [Keys -> RowOutcomes \cup {NoRow}]
         /\ \A k \in Keys : Ran(i, raised, bad, outcome)[k] # NoRow =>
              k \in InScope(i) /\ TaskSource(k) \notin raised
         /\ \A k \in InScope(i) : TaskSource(k) \notin raised /\ k # WholeSource =>
              Ran(i, raised, bad, outcome)[k] # NoRow
<1>1. \A k \in Keys : Bad(k) \subseteq RowOutcomes
  BY DEF Bad, RowOutcomes
<1>2. \A k \in Keys : Clean(k) \in RowOutcomes \cup {NoRow}
  BY DEF Clean, RowOutcomes
<1>3. InScope(i) \subseteq Keys
  BY PolicyTypes DEF InScope, Keys
<1>4. NoRow \notin RowOutcomes /\ \A k : k # WholeSource => Clean(k) # NoRow
  BY DEF NoRow, RowOutcomes, Clean
<1>5. \A k \in bad : outcome[k] \in RowOutcomes
  BY <1>1, <1>3
<1>6. \A k \in Keys : Ran(i, raised, bad, outcome)[k] =
        IF k \notin InScope(i) \/ TaskSource(k) \in raised THEN NoRow
        ELSE IF k \in bad THEN outcome[k] ELSE Clean(k)
  BY DEF Ran
<1>7. Ran(i, raised, bad, outcome) \in [Keys -> RowOutcomes \cup {NoRow}]
  BY <1>2, <1>5 DEF Ran
<1>8. QED
  BY <1>3, <1>4, <1>5, <1>6, <1>7

LEMMA RanTasks ==
  ASSUME NEW i, NEW s \in FullScope, NEW raised, NEW rows,
         NEW property \in {"complete", "partial", "failed", "not_covered"}
  PROVE  /\ TaskVerdict(i, s, raised, rows, property) \in TaskStatuses \cup {"not_covered"}
         /\ s \in requests[i].scope => TaskVerdict(i, s, raised, rows, property) # "none"
         /\ s # "property" /\ TaskVerdict(i, s, raised, rows, property)
                                \in {"complete", "skipped", "not_covered"} =>
              s \in requests[i].scope /\ s \notin raised
BY DEF TaskVerdict, TaskStatuses, InflightStatuses, TerminalTaskStatuses

LEMMA FinishKeeps ==
  ASSUME PolicyInv, NEW i \in Created, Finish(i)
  PROVE  /\ PolicyInv' /\ Created' = Created
         /\ CleanRunsAnswer => CleanRunsAnswer'
<1>1. PICK raised \in SUBSET (requests[i].scope \ {"property"}), bad \in SUBSET InScope(i),
           property \in (IF covered THEN {"complete", "partial", "failed"} ELSE {"not_covered"}) :
        /\ Cardinality(raised) + Cardinality(bad)
             + (IF property \in {"complete", "not_covered"} THEN 0 ELSE 1) <= MaxBad
        /\ \E outcome \in [bad -> UNION {Bad(k) : k \in bad}] :
             /\ \A k \in bad : outcome[k] \in Bad(k)
             /\ LET rows == Ran(i, raised, bad, outcome)
                    tasks == [s \in FullScope |-> TaskVerdict(i, s, raised, rows, property)]
                IN  requests' = [requests EXCEPT ![i].rows = rows, ![i].tasks = tasks,
                                                 ![i].status = Concluded(tasks),
                                                 ![i].why = {}]
  BY Zenon DEF Finish
<1>2. PICK outcome \in [bad -> UNION {Bad(k) : k \in bad}] :
          /\ \A k \in bad : outcome[k] \in Bad(k)
          /\ LET rows == Ran(i, raised, bad, outcome)
                 tasks == [s \in FullScope |-> TaskVerdict(i, s, raised, rows, property)]
             IN  requests' = [requests EXCEPT ![i].rows = rows, ![i].tasks = tasks,
                                              ![i].status = Concluded(tasks),
                                              ![i].why = {}]
  BY <1>1
<1>3. property \in {"complete", "partial", "failed", "not_covered"}
  OBVIOUS
<1>4. PICK rows, tasks : /\ rows = Ran(i, raised, bad, outcome)
                         /\ tasks = [s \in FullScope |-> TaskVerdict(i, s, raised, rows, property)]
  OBVIOUS
<1>5. requests' = [requests EXCEPT ![i].rows = rows, ![i].tasks = tasks,
                                   ![i].status = Concluded(tasks), ![i].why = {}]
  BY <1>2, <1>4
<1>6. /\ rows \in [Keys -> RowOutcomes \cup {NoRow}]
      /\ \A k \in Keys : rows[k] # NoRow => k \in InScope(i) /\ TaskSource(k) \notin raised
      /\ \A k \in InScope(i) : TaskSource(k) \notin raised /\ k # WholeSource => rows[k] # NoRow
  <2>1. /\ Ran(i, raised, bad, outcome) \in [Keys -> RowOutcomes \cup {NoRow}]
        /\ \A k \in Keys : Ran(i, raised, bad, outcome)[k] # NoRow =>
             k \in InScope(i) /\ TaskSource(k) \notin raised
        /\ \A k \in InScope(i) : TaskSource(k) \notin raised /\ k # WholeSource =>
             Ran(i, raised, bad, outcome)[k] # NoRow
    BY <1>2, RanRows
  <2>2. QED
    BY <1>4, <2>1
<1>7. /\ tasks \in [FullScope -> TaskStatuses \cup {"not_covered"}]
      /\ \A s \in FullScope : s \in requests[i].scope => tasks[s] # "none"
      /\ \A s \in FullScope \ {"property"} :
           tasks[s] \in {"complete", "skipped", "not_covered"} =>
             s \in requests[i].scope /\ s \notin raised
  <2>1. \A s \in FullScope :
          /\ TaskVerdict(i, s, raised, rows, property) \in TaskStatuses \cup {"not_covered"}
          /\ s \in requests[i].scope => TaskVerdict(i, s, raised, rows, property) # "none"
          /\ s # "property" /\ TaskVerdict(i, s, raised, rows, property)
                                 \in {"complete", "skipped", "not_covered"} =>
               s \in requests[i].scope /\ s \notin raised
    BY <1>3, RanTasks
  <2>2. \A s \in FullScope : tasks[s] = TaskVerdict(i, s, raised, rows, property)
    BY <1>4
  <2>3. tasks \in [FullScope -> TaskStatuses \cup {"not_covered"}]
    BY <1>4, <2>1
  <2>4. QED
    BY <2>1, <2>2, <2>3
<1>8. Concluded(tasks) \in {"complete", "partial", "failed"}
  BY DEF Concluded, AggregateRequestStatus
<1>9. requests[i] \in RequestType /\ requests \in Seq(RequestType) /\ code \in DOMAIN Attempted
  BY PolicyTypes
<1>10. PICK new : new = [requests[i] EXCEPT !.rows = rows, !.tasks = tasks,
                                            !.status = Concluded(tasks), !.why = {}]
  OBVIOUS
<1>11. /\ new.rows = rows /\ new.tasks = tasks /\ new.status = Concluded(tasks)
       /\ new.scope = requests[i].scope /\ new.origin = requests[i].origin
       /\ new.at = requests[i].at
       /\ new \in RequestType
  <2>1. Concluded(tasks) \in RequestStatuses \ {"none"}
    BY <1>8 DEF RequestStatuses, TerminalRequestStatuses
  <2>2. QED
    BY <1>6, <1>7, <1>9, <1>10, <2>1 DEF RequestType
<1>12. requests' = [requests EXCEPT ![i] = new]
  BY <1>5, <1>9, <1>10 DEF RequestType, Created
<1>13. UNCHANGED <<now, code>>
  BY DEF Finish
<1>14. \A k \in Keys : TaskSource(k) \in FullScope \ {"property"}
  BY GroupsAssumption
<1>15. \A k \in Keys : rows[k] # NoRow => TaskSource(k) \in requests[i].scope
  BY <1>6 DEF InScope
<1>16. PolicyInv'
  <2>1. new.status \notin InflightStatuses
    BY <1>8, <1>11 DEF InflightStatuses
  <2>2. \A k \in Keys :
          new.rows[k] # NoRow => TaskSource(k) \in new.scope /\ new.tasks[TaskSource(k)] # "none"
    BY <1>7, <1>11, <1>14, <1>15
  <2>3. QED
    BY <1>11, <1>12, <1>13, <2>1, <2>2, RequestMoves
<1>17. CleanRunsAnswer => CleanRunsAnswer'
  <2>1. \A k \in Attempted[code] \ {WholeSource} :
          new.tasks[TaskSource(k)] \in {"complete", "skipped", "not_covered"} =>
            new.rows[k] # NoRow
    <3> TAKE k \in Attempted[code] \ {WholeSource}
    <3> HAVE new.tasks[TaskSource(k)] \in {"complete", "skipped", "not_covered"}
    <3>1. k \in Keys /\ TaskSource(k) \in FullScope \ {"property"}
      BY <1>9, <1>14 DEF Keys
    <3>2. k \in InScope(i) /\ TaskSource(k) \notin raised
      BY <1>7, <1>11, <3>1 DEF InScope
    <3>3. QED
      BY <1>6, <1>11, <3>2
  <2>2. Created' = Created /\ \A j \in Created : requests'[j] = IF j = i THEN new ELSE requests[j]
    BY <1>9, <1>12 DEF Created
  <2>3. QED
    BY <1>13, <2>1, <2>2 DEF CleanRunsAnswer
<1>18. Created' = Created
  BY <1>9, <1>12 DEF Created
<1>19. QED
  BY <1>16, <1>17, <1>18

LEMMA LoseKeeps ==
  ASSUME PolicyInv, NEW i \in Created, Lose(i)
  PROVE  /\ PolicyInv'
         /\ CleanRunsAnswer => CleanRunsAnswer'
<1>1. requests[i] \in RequestType /\ requests \in Seq(RequestType)
  BY PolicyTypes
<1>2. PICK new : new = [requests[i] EXCEPT !.status = "failed", !.why = {}]
  OBVIOUS
<1>3. /\ new \in RequestType /\ new.status = "failed" /\ new.scope = requests[i].scope
      /\ new.origin = requests[i].origin /\ new.at = requests[i].at
      /\ new.rows = requests[i].rows /\ new.tasks = requests[i].tasks
  BY <1>1, <1>2 DEF RequestType, RequestStatuses, TerminalRequestStatuses
<1>4. requests' = [requests EXCEPT ![i] = new] /\ UNCHANGED <<now, code>>
  BY <1>1, <1>2 DEF Lose, Created
<1>5. \A k \in Keys :
        new.rows[k] # NoRow => TaskSource(k) \in new.scope /\ new.tasks[TaskSource(k)] # "none"
  BY <1>3 DEF PolicyInv, BackfillTypeOK, RowsHaveTasks
<1>6. new.status \notin InflightStatuses
  BY <1>3 DEF InflightStatuses
<1>7. PolicyInv'
  BY <1>3, <1>4, <1>5, <1>6, RequestMoves
<1>8. Created' = Created /\ \A j \in Created : requests'[j] = IF j = i THEN new ELSE requests[j]
  BY <1>1, <1>4 DEF Created
<1>9. CleanRunsAnswer => CleanRunsAnswer'
  BY <1>3, <1>4, <1>8 DEF CleanRunsAnswer
<1>10. QED
  BY <1>7, <1>9

LEMMA RedeliverKeeps ==
  ASSUME PolicyInv, NEW i \in Created, RunAgain(i)
  PROVE  /\ PolicyInv'
         /\ CleanRunsAnswer => CleanRunsAnswer'
<1>1. requests[i] \in RequestType /\ requests \in Seq(RequestType) /\ code \in DOMAIN Attempted
  BY PolicyTypes
<1>2. PICK tasks :
        tasks = [s \in FullScope |-> IF s \in requests[i].scope THEN "queued" ELSE "none"]
  OBVIOUS
<1>3. tasks \in [FullScope -> TaskStatuses \cup {"not_covered"}]
  BY <1>2 DEF TaskStatuses, InflightStatuses
<1>4. PICK new : new = [requests[i] EXCEPT !.status = "processing", !.rows = NoRows,
                                           !.tasks = tasks]
  OBVIOUS
<1>5. /\ new \in RequestType /\ new.scope = requests[i].scope
      /\ new.origin = requests[i].origin /\ new.at = requests[i].at
      /\ new.rows = NoRows /\ new.tasks = tasks
  <2>1. NoRows \in [Keys -> RowOutcomes \cup {NoRow}]
    BY DEF NoRows
  <2>2. "processing" \in RequestStatuses \ {"none"}
    BY DEF RequestStatuses, InflightStatuses
  <2>3. QED
    BY <1>1, <1>3, <1>4, <2>1, <2>2 DEF RequestType
<1>6. requests' = [requests EXCEPT ![i] = new] /\ UNCHANGED <<now, code>> /\ NothingInFlight
  BY <1>1, <1>2, <1>4 DEF RunAgain, Created
<1>7. \A k \in Keys : new.rows[k] = NoRow
  BY <1>5 DEF NoRows
<1>8. PolicyInv'
  BY <1>5, <1>6, <1>7, RequestMoves
<1>9. Created' = Created /\ \A j \in Created : requests'[j] = IF j = i THEN new ELSE requests[j]
  BY <1>1, <1>6 DEF Created
<1>10. \A k \in Keys : new.tasks[TaskSource(k)] \notin {"complete", "skipped", "not_covered"}
  BY <1>2, <1>5, GroupsAssumption
<1>11. CleanRunsAnswer => CleanRunsAnswer'
  BY <1>1, <1>6, <1>9, <1>10 DEF CleanRunsAnswer, Keys
<1>12. QED
  BY <1>8, <1>11

LEMMA TimeKeeps ==
  ASSUME PolicyInv, TimePasses \/ Deploy \/ UNCHANGED backfillVars
  PROVE  /\ PolicyInv'
         /\ GroupsOnlyLeave /\ CleanRunsAnswer => CleanRunsAnswer'
<1>1. /\ requests' = requests /\ Created' = Created
      /\ now' \in 0 .. MaxNow /\ now <= now'
      /\ code' \in DOMAIN Attempted /\ code <= code'
  <2>1. /\ now \in 0 .. MaxNow /\ now \in Nat /\ MaxNow \in Nat
        /\ code \in DOMAIN Attempted /\ code \in Nat
    BY PolicyTypes
  <2>2. CASE TimePasses
    BY <2>1, <2>2 DEF TimePasses, Created
  <2>3. CASE Deploy
    BY <2>1, <2>3 DEF Deploy, Created
  <2>4. CASE UNCHANGED backfillVars
    BY <2>1, <2>4 DEF backfillVars, Created
  <2>5. QED
    BY <2>2, <2>3, <2>4
<1>2. BackfillTypeOK' /\ OneInFlight' /\ RowsHaveTasks'
  BY <1>1 DEF PolicyInv, BackfillTypeOK, OneInFlight, RowsHaveTasks
<1>3. StampsAreInOrder'
  <2>1. now \in Nat /\ now' \in Nat /\ \A i \in Created : requests[i].at \in Nat
    BY <1>1, PolicyTypes
  <2>2. QED
    BY <1>1, <2>1 DEF PolicyInv, StampsAreInOrder
<1>4. BackfillsWait'
  BY <1>1 DEF PolicyInv, BackfillsWait, Waited
<1>5. GroupsOnlyLeave /\ CleanRunsAnswer => CleanRunsAnswer'
  <2>1. code \in DOMAIN Attempted
    BY PolicyTypes
  <2>2. GroupsOnlyLeave => Attempted[code'] \subseteq Attempted[code]
    BY <1>1, <2>1 DEF GroupsOnlyLeave
  <2>3. QED
    BY <1>1, <2>2 DEF CleanRunsAnswer
<1>6. QED
  BY <1>2, <1>3, <1>4, <1>5 DEF PolicyInv

(* A request that was just created has answered nothing yet.               *)
LEMMA CreatingLeavesAnswers ==
  ASSUME PolicyInv, CleanRunsAnswer, NEW scope, NEW origin, NEW why,
         CreateQueuedRequest(scope, origin, why)
  PROVE  CleanRunsAnswer'
<1>1. requests \in Seq(RequestType) /\ Len(requests) \in Nat /\ code \in DOMAIN Attempted
  BY PolicyTypes
<1>2. PICK new : new = NewRequest(scope, origin, why)
  OBVIOUS
<1>3. new.tasks = NoTasks /\ requests' = Append(requests, new) /\ code' = code
  BY <1>2 DEF NewRequest, CreateQueuedRequest
<1>4. \A j \in Created' : (j \in Created /\ requests'[j] = requests[j]) \/ requests'[j] = new
  BY <1>1, <1>3 DEF Created
<1>5. \A k \in Attempted[code] : NoTasks[TaskSource(k)] = "none"
  BY <1>1, GroupsAssumption DEF NoTasks, Keys
<1>6. QED
  BY <1>3, <1>4, <1>5 DEF CleanRunsAnswer

LEMMA PolicyStarts == BackfillInit => PolicyInv /\ CleanRunsAnswer
<1> SUFFICES ASSUME BackfillInit
             PROVE  PolicyInv /\ CleanRunsAnswer
  OBVIOUS
<1>1. /\ requests \in Seq(RequestType) /\ now = 1 /\ code = 1
      /\ Created = 1 .. Len(requests) /\ Len(requests) \in Nat
      /\ \A i \in Created :
           /\ requests[i].status \in TerminalRequestStatuses
           /\ requests[i].origin # "backfill" /\ requests[i].at <= 1
           /\ \A j \in i .. Len(requests) : requests[i].at <= requests[j].at
           /\ \A k \in Keys :
                requests[i].rows[k] # NoRow =>
                  TaskSource(k) \in requests[i].scope /\ requests[i].tasks[TaskSource(k)] # "none"
           /\ \A k \in Attempted[1] \ {WholeSource} :
                requests[i].tasks[TaskSource(k)] \in {"complete", "skipped", "not_covered"} =>
                  requests[i].rows[k] # NoRow
  BY SeedsAssumption DEF BackfillInit, Created
<1>2. \A i \in Created : requests[i].status \notin InflightStatuses
  BY <1>1 DEF TerminalRequestStatuses, InflightStatuses
<1>3. OneInFlight
  BY <1>2 DEF OneInFlight
<1>4. BackfillTypeOK
  <2>1. Cardinality({i \in Created : requests[i].status \in InflightStatuses}) <= 1
    <3>1. \A i, j \in {i \in Created : requests[i].status \in InflightStatuses} : i = j
      BY <1>2
    <3>2. QED
      BY <3>1, OneIsAtMostOne
  <2>2. now \in 0 .. MaxNow /\ code \in DOMAIN Attempted
    BY <1>1, GroupsAssumption
  <2>3. QED
    BY <1>1, <2>1, <2>2 DEF BackfillTypeOK
<1>5. StampsAreInOrder
  BY <1>1 DEF StampsAreInOrder
<1>6. RowsHaveTasks /\ CleanRunsAnswer
  BY <1>1 DEF RowsHaveTasks, CleanRunsAnswer
<1>7. BackfillsWait
  BY <1>1 DEF BackfillsWait
<1>8. QED
  BY <1>3, <1>4, <1>5, <1>6, <1>7 DEF PolicyInv

LEMMA PolicyNextKeeps ==
  ASSUME PolicyInv, [BackfillNext]_backfillVars
  PROVE  /\ PolicyInv'
         /\ GroupsOnlyLeave /\ CleanRunsAnswer => CleanRunsAnswer'
<1>1. CASE VisitFirst \/ VisitBackfill \/ HealFromLedger
  <2>1. CleanRunsAnswer => CleanRunsAnswer'
    BY <1>1, CreatingLeavesAnswers DEF VisitFirst, VisitBackfill, HealFromLedger
  <2>2. QED
    BY <1>1, <2>1, VisitsKeep
<1>2. ASSUME NEW i \in Created, Finish(i) \/ Lose(i) \/ RunAgain(i)
      PROVE  PolicyInv' /\ (CleanRunsAnswer => CleanRunsAnswer')
  BY <1>2, FinishKeeps, LoseKeeps, RedeliverKeeps
<1>3. CASE TimePasses \/ Deploy \/ UNCHANGED backfillVars
  BY <1>3, TimeKeeps
<1>4. QED
  BY <1>1, <1>2, <1>3 DEF BackfillNext

LEMMA PolicyIsInvariant == BackfillSpec => []PolicyInv
<1>1. PolicyInv /\ [BackfillNext]_backfillVars => PolicyInv'
  BY PolicyNextKeeps
<1>2. QED
  BY <1>1, PolicyStarts, PTL DEF BackfillSpec

(* For any number of requests, sources and groups: the ledger of a parcel  *)
(* is well formed and at most one of its requests is in flight.            *)
THEOREM BackfillTypes == BackfillSpec => []BackfillTypeOK
<1>1. PolicyInv => BackfillTypeOK
  BY DEF PolicyInv
<1>2. QED
  BY <1>1, PolicyIsInvariant, PTL

(* Every backfill has waited: some source of it, and every source of a     *)
(* scoped one, was in no request of the last cooldown.                     *)
THEOREM EveryBackfillWaited == BackfillSpec => []BackfillsWait
<1>1. PolicyInv => BackfillsWait
  BY DEF PolicyInv
<1>2. QED
  BY <1>1, PolicyIsInvariant, PTL

-----------------------------------------------------------------------------
(* What always failed is asked again.                                      *)
LEMMA FailedIsWanted ==
  ASSUME PolicyInv
  PROVE  NothingFailedIsForgotten
<1> SUFFICES ASSUME NEW k \in Attempted[code], Holding(k) # {},
                    \A i \in Holding(k) : requests[i].rows[k] = "failed",
                    \A i \in Created : now - requests[i].at >= 1
             PROVE  TaskSource(k) \in BackfillScope
  BY DEF NothingFailedIsForgotten
<1>1. Outcome(k) = "failed"
  <2>1. Newest(Holding(k)) \in Holding(k)
    BY PolicyTypes, NewestIsIn DEF Holding
  <2>2. QED
    BY <2>1 DEF Outcome
<1>2. k \in RetryableGroups({})
  <2>1. RetryPolicy["failed"] = "retry"
    BY DEF RetryPolicy
  <2>2. k \in Keys
    BY PolicyTypes DEF Keys
  <2>3. QED
    BY <1>1, <2>1, <2>2 DEF RetryableGroups, IsRetryable, IsStale, NoRow
<1>3. TaskSource(k) \in LedgerBackfillSources /\ TaskSource(k) \in FullScope
  BY <1>2, ScopeIsKnown DEF LedgerBackfillSources
<1>4. \A wanted : TaskSource(k) \in wanted => TaskSource(k) \in OutsideCooldown(wanted)
  BY DEF OutsideCooldown, LastAttempt
<1>5. QED
  BY <1>3, <1>4 DEF BackfillScope

(* A group that no run ever answered is dispatched again by a visit after  *)
(* the cooldown, for any history of requests, deploys and redeliveries.    *)
THEOREM FailuresAreAskedAgain == BackfillSpec => []NothingFailedIsForgotten
<1>1. PolicyInv => NothingFailedIsForgotten
  BY FailedIsWanted
<1>2. QED
  BY <1>1, PolicyIsInvariant, PTL

-----------------------------------------------------------------------------
(* What a step that creates a request creates.                             *)
LEMMA StepCreates ==
  ASSUME PolicyInv, [BackfillNext]_backfillVars, Len(requests') = Len(requests) + 1
  PROVE  /\ NothingInFlight
         /\ \/ VisitFirst /\ New = NewRequest(FullScope, "user", {})
            \/ /\ VisitBackfill /\ New = NewRequest(BackfillScope, "backfill", {})
               /\ BackfillScope # {} /\ Reusable # {}
            \/ \E flags \in SUBSET {"needs_cloud_flag", "needs_absent_api_flag"} :
                 \E why \in SUBSET RetryableGroups(flags) :
                   /\ HealFromLedger
                   /\ New = NewRequest({TaskSource(k) : k \in why}, "heal", why)
<1>1. requests \in Seq(RequestType) /\ Len(requests) \in Nat /\ Len(requests) # Len(requests) + 1
  BY PolicyTypes
<1>2. \A x : requests' = Append(requests, x) => New = x
  BY <1>1, AppendProperties DEF New
<1>3. CASE VisitFirst
  BY <1>2, <1>3 DEF VisitFirst, CreateQueuedRequest
<1>4. CASE VisitBackfill
  BY <1>2, <1>4 DEF VisitBackfill, CreateQueuedRequest
<1>5. CASE HealFromLedger
  <2>1. PICK flags \in SUBSET {"needs_cloud_flag", "needs_absent_api_flag"}, s \in FullScope :
          LET why == {k \in RetryableGroups(flags) : TaskSource(k) = s}
          IN  CreateQueuedRequest({TaskSource(k) : k \in why}, "heal", why)
    BY <1>5 DEF HealFromLedger
  <2>2. PICK why : why = {k \in RetryableGroups(flags) : TaskSource(k) = s}
    OBVIOUS
  <2>3. New = NewRequest({TaskSource(k) : k \in why}, "heal", why)
    BY <1>2, <2>1, <2>2 DEF CreateQueuedRequest
  <2>4. why \in SUBSET RetryableGroups(flags)
    BY <2>2
  <2>5. New = NewRequest({TaskSource(k) : k \in why}, "heal", why)
          /\ why \in SUBSET RetryableGroups(flags)
    BY <2>3, <2>4
  <2>6. NothingInFlight
    BY <2>1 DEF CreateQueuedRequest
  <2>7. QED
    BY Zenon, <1>5, <2>5, <2>6
<1>6. CASE \E i \in Created : Finish(i) \/ Lose(i) \/ RunAgain(i)
  <2>1. DOMAIN requests' = DOMAIN requests
    <3>1. PICK i \in Created : Finish(i) \/ Lose(i) \/ RunAgain(i)
      BY <1>6
    <3>2. CASE Finish(i)
      BY <3>2, FinishKeeps DEF Created
    <3>3. CASE Lose(i) \/ RunAgain(i)
      BY <3>3 DEF Lose, RunAgain
    <3>4. QED
      BY <3>1, <3>2, <3>3
  <2>2. requests' \in Seq(RequestType)
    BY <1>6, FinishKeeps, LoseKeeps, RedeliverKeeps DEF PolicyInv, BackfillTypeOK
  <2>3. Len(requests') = Len(requests)
    BY <1>1, <2>1, <2>2
  <2>4. QED
    BY <1>1, <2>3
<1>7. CASE TimePasses \/ Deploy \/ UNCHANGED backfillVars
  <2>1. requests' = requests
    BY <1>7 DEF TimePasses, Deploy, backfillVars
  <2>2. QED
    BY <1>1, <2>1
<1>8. QED
  BY <1>3, <1>4, <1>5, <1>6, <1>7 DEF BackfillNext

LEMMA NewRequestFields ==
  ASSUME NEW scope, NEW origin, NEW why
  PROVE  /\ NewRequest(scope, origin, why).scope = scope
         /\ NewRequest(scope, origin, why).origin = origin
         /\ NewRequest(scope, origin, why).why = why
BY DEF NewRequest

LEMMA BackfillIsVisit ==
  ASSUME PolicyInv, [BackfillNext]_backfillVars, NewOf("backfill")
  PROVE  /\ New.scope = BackfillScope /\ BackfillScope # {} /\ Reusable # {}
         /\ NothingInFlight
<1>1. Len(requests') = Len(requests) + 1 /\ New.origin = "backfill"
  BY DEF NewOf, New
<1>2. CASE New = NewRequest(BackfillScope, "backfill", {}) /\ BackfillScope # {} /\ Reusable # {}
  BY <1>1, <1>2, StepCreates, NewRequestFields
<1>3. CASE \E scope, why : New = NewRequest(scope, "heal", why)
  BY <1>1, <1>3, NewRequestFields
<1>4. CASE New = NewRequest(FullScope, "user", {})
  BY <1>1, <1>4, NewRequestFields
<1>5. QED
  BY <1>1, <1>2, <1>3, <1>4, StepCreates

LEMMA FullVisitIsNeeded ==
  ASSUME PolicyInv, [BackfillNext]_backfillVars
  PROVE  FullScopeSettles
<1> SUFFICES ASSUME NewOf("backfill"), New.scope = FullScope
             PROVE  \E i \in Created :
                      /\ requests[i].scope = FullScope
                      /\ \A j \in i + 1 .. Len(requests) :
                           requests[j].scope = FullScope => requests[j].status = "failed"
                      /\ ~(/\ requests[i].tasks["census"] \in {"complete", "skipped"}
                           /\ requests[i].tasks["property"] \in {"complete", "not_covered"}
                           /\ requests[i].tasks["usgs_topo"] # "none")
  BY DEF FullScopeSettles
<1>1. BackfillScope = FullScope /\ Reusable # {}
  BY BackfillIsVisit
<1>2. NeedsRefetch
  BY <1>1, ScopeHasItsReason
<1>3. PICK i : i = Newest(Reusable)
  OBVIOUS
<1>4. i \in Reusable /\ i \in Created /\ \A j \in Reusable : j <= i
  BY <1>1, <1>3, PolicyTypes, NewestIsIn DEF Reusable
<1>5. ASSUME NEW j \in i + 1 .. Len(requests), requests[j].scope = FullScope
      PROVE  requests[j].status = "failed"
  <2>1. j \in Created /\ ~(j <= i)
    BY <1>4, PolicyTypes
  <2>2. requests[j].status \in RequestStatuses \ {"none"}
    BY <2>1, PolicyTypes DEF RequestType
  <2>3. requests[j].status \notin ReusableStatuses
    BY <1>4, <1>5, <2>1 DEF Reusable
  <2>4. QED
    BY <2>2, <2>3 DEF RequestStatuses, ReusableStatuses, TerminalRequestStatuses
<1>6. ~(/\ requests[i].tasks["census"] \in {"complete", "skipped"}
        /\ requests[i].tasks["property"] \in {"complete", "not_covered"}
        /\ requests[i].tasks["usgs_topo"] # "none")
  BY <1>2, <1>3 DEF NeedsRefetch, Current
<1>7. QED
  BY <1>4, <1>5, <1>6 DEF Reusable

LEMMA HealRepeatsNothing ==
  ASSUME PolicyInv, [BackfillNext]_backfillVars
  PROVE  HealsOncePerDeploy
<1> SUFFICES ASSUME NewOf("heal"), NEW k \in New.why,
                    Outcome(k) \in {"absent_api", "absent_cloud"}, NEW i \in Created,
                    requests[i].code = code, requests[i].rows[k] # NoRow
             PROVE  \E j \in i + 1 .. Len(requests) :
                      requests[j].rows[k] # NoRow /\ requests[j].code # code
  BY DEF HealsOncePerDeploy
<1>1. Len(requests') = Len(requests) + 1 /\ New.origin = "heal"
  BY DEF NewOf, New
<1>2. PICK flags \in SUBSET {"needs_cloud_flag", "needs_absent_api_flag"} :
        k \in RetryableGroups(flags)
  <2>1. CASE \E flags \in SUBSET {"needs_cloud_flag", "needs_absent_api_flag"} :
               \E why \in SUBSET RetryableGroups(flags) :
                 New = NewRequest({TaskSource(m) : m \in why}, "heal", why)
    BY <2>1, NewRequestFields
  <2>2. CASE \E scope, origin, why : origin # "heal" /\ New = NewRequest(scope, origin, why)
    BY <1>1, <2>2, NewRequestFields
  <2>3. QED
    BY <1>1, <2>1, <2>2, StepCreates
<1>3. ~SameDeployedCode(k)
  <2>1. RetryPolicy[Outcome(k)] \in {"needs_cloud_flag", "needs_absent_api_flag"}
    BY DEF RetryPolicy
  <2>2. QED
    BY <1>2, <2>1 DEF RetryableGroups, IsRetryable
<1>4. PICK j : j = Newest(Holding(k))
  OBVIOUS
<1>5. i \in Holding(k)
  BY DEF Holding
<1>6. j \in Holding(k) /\ i <= j /\ j \in Created
  BY <1>4, <1>5, PolicyTypes, NewestIsIn DEF Holding
<1>7. requests[j].code # code
  BY <1>3, <1>4 DEF SameDeployedCode, RecordedCode
<1>8. j \in i + 1 .. Len(requests)
  BY <1>6, <1>7, PolicyTypes
<1>9. QED
  BY <1>6, <1>7, <1>8 DEF Holding

LEMMA CleanRunIsLeftAlone ==
  ASSUME PolicyInv, CleanRunsAnswer, [BackfillNext]_backfillVars
  PROVE  HealedStaysQuiet
<1> SUFFICES ASSUME NEW s \in FullScope \ {"usgs_topo"}, NewOf("backfill"),
                    New.scope # FullScope, s \in New.scope,
                    LeftClean(Newest(RanSource(s)), s)
             PROVE  FALSE
  BY DEF HealedStaysQuiet, QuietAbout
<1>1. s \in LedgerBackfillSources
  BY BackfillIsVisit, ScopeHasItsReason
<1>2. PICK k \in RetryableGroups({}) : TaskSource(k) = s
  BY <1>1 DEF LedgerBackfillSources
<1>3. k \in Keys /\ Outcome(k) # NoRow /\ k \in Attempted[code]
      /\ RetryPolicy[Outcome(k)] \in {"retry", "retry_once"}
  BY <1>2 DEF RetryableGroups, IsRetryable, IsStale
<1>4. k # WholeSource
  BY <1>2, <1>3, GroupsAssumption
<1>5. PICK h : h = Newest(Holding(k))
  OBVIOUS
<1>6. h \in Holding(k) /\ h \in Created /\ \A j \in Holding(k) : j <= h
  BY <1>3, <1>5, PolicyTypes, NewestIsIn DEF Holding, Outcome
<1>7. requests[h].rows[k] \in {"failed", "indeterminate"}
  <2>1. Outcome(k) = requests[h].rows[k] /\ Outcome(k) \in RowOutcomes
    BY <1>3, <1>5, <1>6, PolicyTypes DEF Outcome
  <2>2. QED
    BY <1>3, <2>1 DEF RowOutcomes, RetryPolicy
<1>8. PICK r : r = Newest(RanSource(s))
  OBVIOUS
<1>9. h \in RanSource(s)
  BY <1>2, <1>3, <1>6 DEF PolicyInv, RowsHaveTasks, Holding, RanSource
<1>10. r \in RanSource(s) /\ r \in Created /\ h <= r
  BY <1>8, <1>9, PolicyTypes, NewestIsIn DEF RanSource
<1>11. requests[r].tasks[s] \in {"complete", "skipped", "not_covered"}
       /\ requests[r].rows[k] \notin {"failed", "indeterminate"}
  BY <1>2, <1>3, <1>8 DEF LeftClean
<1>12. requests[r].rows[k] # NoRow
  BY <1>2, <1>3, <1>4, <1>10, <1>11 DEF CleanRunsAnswer
<1>13. r = h
  <2>1. r <= h
    BY <1>6, <1>10, <1>12 DEF Holding
  <2>2. QED
    BY <1>6, <1>10, <2>1, PolicyTypes
<1>14. QED
  BY <1>7, <1>11, <1>13

(* A full-scope backfill follows only on a full-scope run that left the    *)
(* census, property or the maps open: the pipeline is not dispatched over  *)
(* and over.                                                               *)
THEOREM FullBackfillsSettle == BackfillSpec => BackfillSettles
<1>1. PolicyInv /\ [BackfillNext]_backfillVars => [FullScopeSettles]_backfillVars
  BY FullVisitIsNeeded
<1>2. QED
  BY <1>1, PolicyIsInvariant, PTL DEF BackfillSpec, BackfillSettles

(* Under one deploy a flagged heal asks no absent group a second time.     *)
THEOREM HealsAskOnce == BackfillSpec => BackfillHealsOnce
<1>1. PolicyInv /\ [BackfillNext]_backfillVars => [HealsOncePerDeploy]_backfillVars
  BY HealRepeatsNothing
<1>2. QED
  BY <1>1, PolicyIsInvariant, PTL DEF BackfillSpec, BackfillHealsOnce

(* As long as groups only leave the code, a source whose newest run        *)
(* answered everything it attempted is not asked again by a visit.         *)
THEOREM HealedSourcesStayQuiet == GroupsOnlyLeave /\ BackfillSpec => BackfillStaysQuiet
<1>1. GroupsOnlyLeave /\ PolicyInv /\ CleanRunsAnswer /\ [BackfillNext]_backfillVars =>
        PolicyInv' /\ CleanRunsAnswer'
  BY PolicyNextKeeps
<1>2. PolicyInv /\ CleanRunsAnswer /\ [BackfillNext]_backfillVars =>
        [HealedStaysQuiet]_backfillVars
  BY CleanRunIsLeftAlone
<1>3. GroupsOnlyLeave => GroupsOnlyLeave'
  BY DEF GroupsOnlyLeave
<1>4. QED
  BY <1>1, <1>2, <1>3, PolicyStarts, PTL DEF BackfillSpec, BackfillStaysQuiet

=============================================================================
