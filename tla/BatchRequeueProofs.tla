-------------------------- MODULE BatchRequeueProofs --------------------------
(***************************************************************************)
(* Proofs about the sweep of the fleet and the gate it shares with the     *)
(* visitors: for any fleet, cap, reserve and number of sessions, what the  *)
(* gate lets through passes its cap by the racing sessions only and leaves *)
(* first fetches their reserve, and no parcel is dropped from the report   *)
(* of a sweep.                                                             *)
(***************************************************************************)
EXTENDS BatchRequeue, FiniteSetTheorems, SequenceTheorems, WellFoundedInduction, TLAPS

-----------------------------------------------------------------------------
(* Counting.                                                               *)

LEMMA NoMore ==
  ASSUME NEW S, IsFiniteSet(S), NEW T, T \subseteq S
  PROVE  /\ IsFiniteSet(T) /\ Cardinality(T) \in Nat /\ Cardinality(S) \in Nat
         /\ Cardinality(T) <= Cardinality(S)
BY FS_Subset, FS_CardinalityType

LEMMA OneMore ==
  ASSUME NEW S, IsFiniteSet(S), NEW x, NEW T, T \subseteq S \cup {x}
  PROVE  /\ Cardinality(T) \in Nat /\ Cardinality(S) \in Nat
         /\ Cardinality(T) <= Cardinality(S) + 1
<1>1. /\ IsFiniteSet(S \cup {x}) /\ Cardinality(S) \in Nat
      /\ Cardinality(S \cup {x}) \in {Cardinality(S), Cardinality(S) + 1}
  BY FS_AddElement, FS_CardinalityType
<1>2. Cardinality(T) \in Nat /\ Cardinality(T) <= Cardinality(S \cup {x})
  BY <1>1, NoMore
<1>3. QED
  BY <1>1, <1>2

LEMMA OneLess ==
  ASSUME NEW S, IsFiniteSet(S), NEW x \in S, NEW T, T \subseteq S \ {x}
  PROVE  /\ Cardinality(T) \in Nat /\ Cardinality(S) \in Nat
         /\ Cardinality(T) <= Cardinality(S) - 1
<1>1. /\ IsFiniteSet(S \ {x}) /\ Cardinality(S) \in Nat
      /\ Cardinality(S \ {x}) = Cardinality(S) - 1
  BY FS_RemoveElement, FS_CardinalityType
<1>2. Cardinality(T) \in Nat /\ Cardinality(T) <= Cardinality(S \ {x})
  BY <1>1, NoMore
<1>3. QED
  BY <1>1, <1>2

LEMMA StillFits ==
  ASSUME NEW a \in Int, NEW b \in Int, NEW h \in Int, NEW cap \in Int, a + b + h <= cap,
         NEW x \in Int, NEW y \in Int, NEW k \in Int, x + y + k <= a + b + h
  PROVE  x + y + k <= cap
OBVIOUS

(* What is in flight.                                                      *)
Flying == {p \in Parcels : inflight[p] # "none"}

LEMMA FlyingIsFinite ==
  /\ IsFiniteSet(Flying) /\ IsFiniteSet(Admitted) /\ IsFiniteSet(HealsInFlight)
  /\ IsFiniteSet(Pending)
  /\ InflightDepth = Cardinality(Flying)
  /\ InflightDepth \in Nat /\ Cardinality(HealsInFlight) \in Nat
  /\ Cardinality(Pending) \in Nat /\ Cardinality(Sessions) \in Nat
  /\ Cardinality(Admitted) \in Nat /\ Cardinality(Admitted) <= InflightDepth
  /\ Cardinality(HealsInFlight) <= Cardinality(Admitted)
  /\ Cardinality(Pending) <= Cardinality(Sessions)
<1>1. /\ Flying \subseteq Parcels /\ Admitted \subseteq Flying
      /\ HealsInFlight \subseteq Admitted /\ Pending \subseteq Sessions
  BY DEF Flying, Admitted, HealsInFlight, Pending
<1>2. IsFiniteSet(Flying)
  BY <1>1, NoMore, BatchAssumption
<1>3. InflightDepth = Cardinality(Flying)
  BY DEF InflightDepth, Flying
<1>4. QED
  BY <1>1, <1>2, <1>3, NoMore, BatchAssumption

(* The cap of whom the reserve is kept from.                               *)
LEMMA CapType ==
  ASSUME BatchTypeOK, NEW origin
  PROVE  /\ CapOf(origin) \in Nat /\ CapOf(origin) <= HardCap
         /\ HardCap \in Nat /\ reserve \in Nat
BY BatchAssumption DEF BatchTypeOK, CapOf

(* The sweep's next parcel is one it has still to do.                      *)
LEMMA FirstIsLeft ==
  ASSUME BatchTypeOK, left # {}
  PROVE  First \in left /\ Target \in FleetParcels /\ Target \in Parcels
<1>1. left \subseteq Nat /\ \A i \in left : i \in DOMAIN Fleet
  BY BatchAssumption DEF BatchTypeOK
<1>2. PICK i \in left : \A j \in left : ~(<<j, i>> \in OpToRel(<, Nat))
  BY <1>1, WFMin, NatLessThanWellFounded
<1>3. ASSUME NEW j \in left
      PROVE  i <= j
  <2>1. i \in Nat /\ j \in Nat
    BY <1>1
  <2>2. ~(j < i)
    <3>1. j < i => <<j, i>> \in OpToRel(<, Nat)
      BY <2>1 DEF OpToRel
    <3>2. QED
      BY <1>2, <3>1
  <2>3. QED
    BY <2>1, <2>2
<1>4. First \in left
  BY <1>3 DEF First
<1>5. QED
  BY <1>1, <1>4, BatchAssumption DEF Target, FleetParcels

-----------------------------------------------------------------------------
(* The steps, one lemma each.                                              *)

(* A step that adds nothing to what is in flight or let through keeps the  *)
(* gate.                                                                   *)
LEMMA NothingAdded ==
  ASSUME BatchTypeOK, GateIsKept, UNCHANGED <<reserve, session>>,
         Admitted' \subseteq Admitted, HealsInFlight' \subseteq HealsInFlight,
         HealPending' <= HealPending
  PROVE  GateIsKept'
<1>1. Pending' = Pending /\ CapOf("heal")' = CapOf("heal")
  BY DEF CapOf, Pending
<1>2. /\ Cardinality(Admitted') \in Nat /\ Cardinality(Admitted') <= Cardinality(Admitted)
      /\ Cardinality(HealsInFlight') \in Nat
      /\ Cardinality(HealsInFlight') <= Cardinality(HealsInFlight)
  BY NoMore, FlyingIsFinite
<1>3. HealPending \in 0 .. 1 /\ HealPending' \in 0 .. 1 /\ CapOf("heal") \in Nat
  BY CapType DEF HealPending
<1>4. /\ Cardinality(Admitted') + Cardinality(Pending) + HealPending'
           <= Cardinality(Admitted) + Cardinality(Pending) + HealPending
      /\ Cardinality(HealsInFlight') + 0 + HealPending'
           <= Cardinality(HealsInFlight) + 0 + HealPending
  BY <1>2, <1>3, FlyingIsFinite
<1>5. /\ Cardinality(Admitted) + Cardinality(Pending) + HealPending <= HardCap + Cardinality(Sessions)
      /\ Cardinality(HealsInFlight) + 0 + HealPending <= CapOf("heal")
  BY FlyingIsFinite DEF GateIsKept
<1>6. HardCap + Cardinality(Sessions) \in Int
  BY FlyingIsFinite, BatchAssumption
<1>7. Cardinality(Admitted') + Cardinality(Pending) + HealPending' <= HardCap + Cardinality(Sessions)
  BY <1>2, <1>3, <1>4, <1>5, <1>6, FlyingIsFinite, StillFits
<1>8. Cardinality(HealsInFlight') + 0 + HealPending' <= CapOf("heal")
  BY <1>2, <1>3, <1>4, <1>5, FlyingIsFinite, StillFits
<1>9. Cardinality(HealsInFlight') + HealPending' <= CapOf("heal")
  BY <1>2, <1>8
<1>10. QED
  BY <1>1, <1>7, <1>9 DEF GateIsKept

(* What the sweep counts only grows by what is left of it.                 *)
LEMMA SweptStays ==
  ASSUME SweptIsRerun, UNCHANGED <<late, swept>>, rerun \subseteq rerun'
  PROVE  SweptIsRerun'
BY DEF SweptIsRerun, SweptSince

(* What is known of ended requests stays typed when one more is.           *)
LEMMA LateTyped ==
  ASSUME BatchTypeOK, NEW p \in Parcels, NEW e \in EndedRequests,
         late' = late \/ late' = [late EXCEPT ![p] = e]
  PROVE  /\ late' \in [Parcels -> EndedRequests \cup {<< >>}]
         /\ \A q \in Parcels : late'[q] = late[q] \/ (q = p /\ late'[q] = e)
BY DEF BatchTypeOK

LEMMA VisitorAdmittedKeeps ==
  ASSUME BatchInv, NEW v \in Sessions, VisitorAdmitted(v)
  PROVE  BatchInv'
<1>1. BatchTypeOK /\ GateIsKept /\ SweptIsRerun /\ SweepIsAccounted
  BY DEF BatchInv
<1>2. PICK p, kind :
        /\ p \in Parcels /\ kind \in Wants(p)
        /\ Admits(IF kind = "visit" THEN "user" ELSE "backfill")
        /\ session' = [session EXCEPT ![v] = <<p, kind>>]
  BY DEF VisitorAdmitted
<1>3. session[v] = << >> /\ UNCHANGED <<inflight, accept, reserve, again, late, swept, rerun, sweepVars>>
  BY DEF VisitorAdmitted
<1>4. kind \in {"visit", "full", "scoped"}
  BY <1>2 DEF Wants
<1>5. BatchTypeOK'
  BY <1>1, <1>2, <1>3, <1>4 DEF BatchTypeOK, sweepVars
<1>6. GateIsKept'
  <2>1. Admitted' = Admitted /\ HealsInFlight' = HealsInFlight
        /\ HealPending' = HealPending /\ CapOf("heal")' = CapOf("heal")
    BY <1>3 DEF Admitted, HealsInFlight, HealPending, CapOf, sweepVars
  <2>2. InflightDepth < HardCap
    BY <1>1, <1>2, CapType, FlyingIsFinite DEF Admits
  <2>3. Pending' \subseteq Sessions
    BY DEF Pending
  <2>4. Cardinality(Pending') \in Nat /\ Cardinality(Pending') <= Cardinality(Sessions)
    BY <2>3, NoMore, BatchAssumption
  <2>5. HealPending \in 0 .. 1
    BY DEF HealPending
  <2>6. Cardinality(Admitted) + Cardinality(Pending') + HealPending <= HardCap + Cardinality(Sessions)
    BY <2>2, <2>4, <2>5, FlyingIsFinite, BatchAssumption
  <2>7. QED
    BY <1>1, <2>1, <2>6 DEF GateIsKept
<1>7. SweptIsRerun'
  BY <1>1, <1>3, SweptStays
<1>8. SweepIsAccounted'
  BY <1>1, <1>3 DEF SweepIsAccounted, sweepVars
<1>9. QED
  BY <1>5, <1>6, <1>7, <1>8 DEF BatchInv

LEMMA VisitorInsertsKeeps ==
  ASSUME BatchInv, NEW v \in Sessions, VisitorInserts(v)
  PROVE  BatchInv'
<1>1. BatchTypeOK /\ GateIsKept /\ SweptIsRerun /\ SweepIsAccounted
  BY DEF BatchInv
<1>2. /\ session[v] # << >> /\ session' = [session EXCEPT ![v] = << >>]
      /\ UNCHANGED <<accept, reserve, again, late, swept, rerun, sweepVars>>
  BY DEF VisitorInserts
<1>3. PICK p, kind : p = session[v][1] /\ kind = session[v][2]
  OBVIOUS
<1>4. p \in Parcels /\ kind \in {"visit", "full", "scoped"}
  BY <1>1, <1>2, <1>3 DEF BatchTypeOK
<1>5. inflight' = [inflight EXCEPT ![p] = IF inflight[p] = "none" THEN kind ELSE inflight[p]]
  BY <1>3 DEF VisitorInserts
<1>6. \A q \in Parcels :
        inflight'[q] = IF q = p /\ inflight[p] = "none" THEN kind ELSE inflight[q]
  BY <1>1, <1>4, <1>5 DEF BatchTypeOK
<1>7. BatchTypeOK'
  <2>1. inflight' \in [Parcels -> Flights]
    BY <1>1, <1>4, <1>5 DEF BatchTypeOK, Flights
  <2>2. QED
    BY <1>1, <1>2, <2>1 DEF BatchTypeOK, sweepVars
<1>8. GateIsKept'
  <2>1. HealsInFlight' = HealsInFlight
    BY <1>2, <1>4, <1>6 DEF HealsInFlight, Admitted
  <2>2. HealPending' = HealPending /\ CapOf("heal")' = CapOf("heal")
    BY <1>2 DEF HealPending, CapOf, sweepVars
  <2>3. Admitted' \subseteq Admitted \cup {p}
    BY <1>2, <1>6 DEF Admitted
  <2>4. Cardinality(Admitted') \in Nat /\ Cardinality(Admitted') <= Cardinality(Admitted) + 1
    BY <2>3, OneMore, FlyingIsFinite
  <2>5. Pending' \subseteq Pending \ {v} /\ v \in Pending
    BY <1>1, <1>2 DEF Pending, BatchTypeOK
  <2>6. Cardinality(Pending') \in Nat /\ Cardinality(Pending') <= Cardinality(Pending) - 1
    BY <2>5, OneLess, FlyingIsFinite
  <2>7. HealPending \in 0 .. 1
    BY DEF HealPending
  <2>8. Cardinality(Admitted') + Cardinality(Pending') + HealPending
          <= Cardinality(Admitted) + Cardinality(Pending) + HealPending
    BY <2>4, <2>6, <2>7, FlyingIsFinite
  <2>9. Cardinality(Admitted) + Cardinality(Pending) + HealPending <= HardCap + Cardinality(Sessions)
    BY <1>1 DEF GateIsKept
  <2>10. HardCap + Cardinality(Sessions) \in Int
    BY FlyingIsFinite, BatchAssumption
  <2>11. Cardinality(Admitted') + Cardinality(Pending') + HealPending <= HardCap + Cardinality(Sessions)
    BY <2>4, <2>6, <2>7, <2>8, <2>9, <2>10, FlyingIsFinite, StillFits
  <2>12. QED
    BY <1>1, <2>1, <2>2, <2>11 DEF GateIsKept
<1>9. SweptIsRerun'
  BY <1>1, <1>2, SweptStays
<1>10. SweepIsAccounted'
  BY <1>1, <1>2 DEF SweepIsAccounted, sweepVars
<1>11. QED
  BY <1>7, <1>8, <1>9, <1>10 DEF BatchInv

LEMMA RunEndsKeeps ==
  ASSUME BatchInv, NEW p \in Parcels, NEW ended \in {"served", "failed"}, NEW kept \in BOOLEAN,
         RunEnds(p, ended, kept)
  PROVE  BatchInv'
<1>1. BatchTypeOK /\ GateIsKept /\ SweptIsRerun /\ SweepIsAccounted
  BY DEF BatchInv
<1>2. /\ inflight[p] # "none" /\ inflight' = [inflight EXCEPT ![p] = "none"]
      /\ again' = again \ {p} /\ Leaves(p, inflight[p], ended, kept)
      /\ UNCHANGED <<accept, reserve, session, sweepVars>>
  BY DEF RunEnds
<1>3. \A q \in Parcels : inflight'[q] = IF q = p THEN "none" ELSE inflight[q]
  BY <1>1, <1>2 DEF BatchTypeOK
<1>4. inflight[p] \in Flights \ {"none"}
  BY <1>1, <1>2 DEF BatchTypeOK
<1>5. PICK e \in EndedRequests : e = <<inflight[p], ended>>
  BY <1>4 DEF EndedRequests
<1>6. /\ late' \in [Parcels -> EndedRequests \cup {<< >>}]
      /\ \A q \in Parcels : late'[q] = late[q] \/ (q = p /\ late'[q] = e)
  <2>1. late' = late \/ late' = [late EXCEPT ![p] = e]
    BY <1>2, <1>5 DEF Leaves
  <2>2. QED
    BY <1>1, <2>1, LateTyped
<1>7. PICK whole : whole = (ended = "served" /\ p \in FleetParcels /\ WholeRun(inflight[p]))
  OBVIOUS
<1>8. /\ rerun' = IF whole THEN rerun \cup {p} ELSE rerun
      /\ swept' = IF whole /\ ~kept THEN swept \cup {p} ELSE swept
  BY <1>7 DEF RunEnds, WholeRun
<1>9. /\ swept' \subseteq FleetParcels /\ rerun' \subseteq FleetParcels
      /\ rerun \subseteq rerun'
  BY <1>1, <1>7, <1>8 DEF BatchTypeOK
<1>10. BatchTypeOK'
  <2>1. inflight' \in [Parcels -> Flights] /\ again' \subseteq Parcels
    BY <1>1, <1>2 DEF BatchTypeOK, Flights
  <2>2. QED
    BY <1>1, <1>2, <1>6, <1>9, <2>1 DEF BatchTypeOK, sweepVars
<1>11. GateIsKept'
  <2>1. Admitted' \subseteq Admitted /\ HealsInFlight' \subseteq HealsInFlight
    BY <1>2, <1>3 DEF Admitted, HealsInFlight
  <2>2. HealPending' <= HealPending
    BY <1>2 DEF HealPending, sweepVars
  <2>3. QED
    BY <1>1, <1>2, <2>1, <2>2, NothingAdded
<1>12. SweptIsRerun'
  <2>1. swept \subseteq rerun /\ \A q \in FleetParcels :
          late[q] # << >> /\ late[q][2] = "served" /\ WholeRun(late[q][1]) => q \in rerun
    BY <1>1 DEF SweptIsRerun, SweptSince
  <2>2. swept' \subseteq rerun'
    BY <1>8, <1>9, <2>1
  <2>3. ASSUME NEW q \in FleetParcels, late'[q] # << >>, late'[q][2] = "served",
               WholeRun(late'[q][1])
        PROVE  q \in rerun'
    <3>1. q \in Parcels
      BY BatchAssumption DEF FleetParcels
    <3>2. CASE q = p /\ late'[q] = e
      <4>1. ended = "served" /\ WholeRun(inflight[p]) /\ p \in FleetParcels
        BY <1>5, <2>3, <3>2
      <4>2. QED
        BY <1>7, <1>8, <3>2, <4>1
    <3>3. CASE late'[q] = late[q]
      BY <1>9, <2>1, <2>3, <3>3
    <3>4. QED
      BY <1>6, <3>1, <3>2, <3>3
  <2>4. QED
    BY <2>2, <2>3 DEF SweptIsRerun, SweptSince, FleetParcels, WholeRun
<1>13. SweepIsAccounted'
  BY <1>1, <1>2, <1>9 DEF SweepIsAccounted, sweepVars
<1>14. QED
  BY <1>10, <1>11, <1>12, <1>13 DEF BatchInv

(* A late message adds nothing to what the gate let through.               *)
LEMMA ClaimedAgainKeeps ==
  ASSUME BatchInv, NEW p \in Parcels, ClaimedAgain(p)
  PROVE  BatchInv'
<1>1. BatchTypeOK /\ GateIsKept /\ SweptIsRerun /\ SweepIsAccounted
  BY DEF BatchInv
<1>2. /\ late[p] # << >> /\ late' = [late EXCEPT ![p] = << >>]
      /\ UNCHANGED <<accept, reserve, session, swept, rerun, sweepVars>>
  BY DEF ClaimedAgain
<1>3. \A q \in Parcels : late'[q] = IF q = p THEN << >> ELSE late[q]
  BY <1>1, <1>2 DEF BatchTypeOK
<1>4. late[p] \in EndedRequests
  BY <1>1, <1>2 DEF BatchTypeOK
<1>5. late[p][1] \in Flights
  BY <1>4 DEF EndedRequests
<1>6. \/ /\ inflight' = [inflight EXCEPT ![p] = late[p][1]]
         /\ again' = again \cup {p}
      \/ UNCHANGED <<inflight, again>>
  BY DEF ClaimedAgain
<1>7. /\ inflight' \in [Parcels -> Flights] /\ again' \subseteq Parcels
      /\ Admitted' \subseteq Admitted /\ HealsInFlight' \subseteq HealsInFlight
  <2>1. CASE inflight' = [inflight EXCEPT ![p] = late[p][1]] /\ again' = again \cup {p}
    <3>1. PICK kind \in Flights : kind = late[p][1]
      BY <1>5
    <3>2. inflight' = [inflight EXCEPT ![p] = kind] /\ again' = again \cup {p}
      BY <2>1, <3>1
    <3>3. inflight' \in [Parcels -> Flights] /\ again' \subseteq Parcels
      BY <1>1, <3>2 DEF BatchTypeOK
    <3>4. \A q \in Parcels : inflight'[q] = IF q = p THEN kind ELSE inflight[q]
      BY <1>1, <3>2 DEF BatchTypeOK
    <3>5. QED
      BY <3>2, <3>3, <3>4 DEF Admitted, HealsInFlight
  <2>2. CASE UNCHANGED <<inflight, again>>
    BY <1>1, <2>2 DEF BatchTypeOK, Admitted, HealsInFlight
  <2>3. QED
    BY <1>6, <2>1, <2>2
<1>8. BatchTypeOK'
  <2>1. late' \in [Parcels -> EndedRequests \cup {<< >>}]
    BY <1>1, <1>2 DEF BatchTypeOK
  <2>2. QED
    BY <1>1, <1>2, <1>7, <2>1 DEF BatchTypeOK, sweepVars
<1>9. GateIsKept'
  <2>1. HealPending' <= HealPending
    BY <1>2 DEF HealPending, sweepVars
  <2>2. QED
    BY <1>1, <1>2, <1>7, <2>1, NothingAdded
<1>10. SweptIsRerun'
  <2>1. FleetParcels \subseteq Parcels
    BY BatchAssumption DEF FleetParcels
  <2>2. QED
    BY <1>1, <1>2, <1>3, <2>1 DEF SweptIsRerun, SweptSince
<1>11. SweepIsAccounted'
  BY <1>1, <1>2 DEF SweepIsAccounted, sweepVars
<1>12. QED
  BY <1>8, <1>9, <1>10, <1>11 DEF BatchInv

(* The loop goes on to the next parcel, or is through.                     *)
LEMMA NextTargetKeeps ==
  ASSUME BatchTypeOK, SweepIsAccounted, pc # "done", NEW value \in {"queued", "skipped"},
         outcome' = Reported(value), NextTarget, UNCHANGED rerun
  PROVE  /\ SweepIsAccounted' /\ left' \subseteq DOMAIN Fleet /\ pc' \in {"gate", "done"}
         /\ exit' \in {"running", "0", "1"}
         /\ outcome' \in [FleetParcels -> {"none", "queued", "skipped", "unreached"}]
<1>1. exit = "running" /\ left # {}
  BY DEF SweepIsAccounted
<1>2. First \in left /\ Target = Fleet[First] /\ Target \in FleetParcels
  BY <1>1, FirstIsLeft DEF Target
<1>3. \A q \in FleetParcels : outcome'[q] = IF q = Target THEN value ELSE outcome[q]
  BY <1>2 DEF Reported, BatchTypeOK
<1>4. left' = left \ {First} /\ left \subseteq DOMAIN Fleet
  BY DEF NextTarget, BatchTypeOK
<1>5. \/ left' = {} /\ pc' = "done" /\ exit' = "0"
      \/ left' # {} /\ pc' = "gate" /\ exit' = "running"
  BY <1>1 DEF NextTarget
<1>6. \A i \in DOMAIN Fleet : Fleet[i] \in FleetParcels
  BY DEF FleetParcels
<1>7. \A i \in DOMAIN Fleet \ left' : outcome'[Fleet[i]] # "none" \/ Fleet[i] \in rerun'
  <2> TAKE i \in DOMAIN Fleet \ left'
  <2>1. CASE i = First
    BY <1>2, <1>3, <2>1
  <2>2. CASE i \notin left
    BY <1>3, <1>6, <2>2 DEF SweepIsAccounted
  <2>3. QED
    BY <1>4, <2>1, <2>2
<1>8. \A q \in FleetParcels : outcome'[q] # "unreached"
  BY <1>1, <1>3 DEF SweepIsAccounted
<1>9. outcome' \in [FleetParcels -> {"none", "queued", "skipped", "unreached"}]
  BY <1>2 DEF Reported, BatchTypeOK
<1>10. QED
  BY <1>4, <1>5, <1>7, <1>8, <1>9 DEF SweepIsAccounted

LEMMA StopKeeps ==
  ASSUME BatchInv, pc # "done", StopRefused
  PROVE  BatchInv'
<1>1. BatchTypeOK /\ GateIsKept /\ SweptIsRerun /\ SweepIsAccounted
  BY DEF BatchInv
<1>2. /\ pc' = "done" /\ exit' = "1" /\ UNCHANGED <<fleetVars, left, clock, sweeps>>
      /\ outcome' = [p \in FleetParcels |-> IF p \in Unreached THEN "unreached" ELSE outcome[p]]
  BY DEF StopRefused
<1>3. UNCHANGED <<inflight, accept, reserve, session, again, late, swept, rerun, left, clock>>
  BY <1>2 DEF fleetVars
<1>4. BatchTypeOK'
  <2>1. outcome' \in [FleetParcels -> {"none", "queued", "skipped", "unreached"}]
    BY <1>1, <1>2 DEF BatchTypeOK
  <2>2. QED
    BY <1>1, <1>2, <1>3, <2>1 DEF BatchTypeOK
<1>5. GateIsKept'
  <2>1. Admitted' = Admitted /\ HealsInFlight' = HealsInFlight
    BY <1>3 DEF Admitted, HealsInFlight
  <2>2. HealPending' <= HealPending
    BY <1>2 DEF HealPending
  <2>3. QED
    BY <1>1, <1>3, <2>1, <2>2, NothingAdded
<1>6. SweptIsRerun'
  BY <1>1, <1>3, SweptStays
<1>7. SweepIsAccounted'
  <2>1. \A i \in DOMAIN Fleet : Fleet[i] \in FleetParcels
    BY DEF FleetParcels
  <2>2. \A i \in left : Fleet[i] \in Unreached
    BY DEF Unreached
  <2>3. left \subseteq DOMAIN Fleet
    BY <1>1 DEF BatchTypeOK
  <2>4. \A i \in DOMAIN Fleet \ left : outcome'[Fleet[i]] # "none" \/ Fleet[i] \in rerun'
    BY <1>1, <1>2, <1>3, <2>1 DEF SweepIsAccounted
  <2>5. \A i \in left : outcome'[Fleet[i]] = "unreached"
    BY <1>2, <2>1, <2>2, <2>3
  <2>6. QED
    BY <1>2, <1>3, <2>4, <2>5 DEF SweepIsAccounted
<1>8. QED
  BY <1>4, <1>5, <1>6, <1>7 DEF BatchInv

(* A step of the loop that only turns, back to the gate or on waiting.     *)
LEMMA TurnKeeps ==
  ASSUME BatchInv, pc # "done", pc # "insert", pc' \in {"gate", "wait"}, clock' \in 0 .. Budget,
         UNCHANGED <<fleetVars, left, outcome, exit>>
  PROVE  BatchInv'
<1>1. BatchTypeOK /\ GateIsKept /\ SweptIsRerun /\ SweepIsAccounted
  BY DEF BatchInv
<1>2. UNCHANGED <<inflight, accept, reserve, session, again, late, swept, rerun, left, outcome, exit>>
  BY DEF fleetVars
<1>3. BatchTypeOK' /\ SweptIsRerun' /\ SweepIsAccounted'
  BY <1>1, <1>2, SweptStays DEF BatchTypeOK, SweepIsAccounted
<1>4. Admitted' = Admitted /\ HealsInFlight' = HealsInFlight /\ HealPending' <= HealPending
  BY <1>2 DEF Admitted, HealsInFlight, HealPending
<1>5. GateIsKept'
  BY <1>1, <1>2, <1>4, NothingAdded
<1>6. QED
  BY <1>3, <1>5 DEF BatchInv

LEMMA EnsureAdmissionKeeps ==
  ASSUME BatchInv, EnsureAdmission
  PROVE  BatchInv'
<1>1. BatchTypeOK /\ GateIsKept /\ SweptIsRerun /\ SweepIsAccounted /\ pc = "gate"
  BY DEF BatchInv, EnsureAdmission
<1>2. CASE /\ Refusal("heal") = "none" /\ pc' = "insert"
           /\ UNCHANGED <<fleetVars, left, clock, outcome, exit, sweeps>>
  <2>1. UNCHANGED <<inflight, accept, reserve, session, again, late, swept, rerun, left, clock, outcome, exit>>
    BY <1>2 DEF fleetVars
  <2>2. BatchTypeOK' /\ SweptIsRerun' /\ SweepIsAccounted'
    BY <1>1, <1>2, <2>1, SweptStays DEF BatchTypeOK, SweepIsAccounted
  <2>3. /\ Admitted' = Admitted /\ HealsInFlight' = HealsInFlight
        /\ Pending' = Pending /\ HealPending' = 1
        /\ CapOf("heal")' = CapOf("heal")
    BY <1>2, <2>1 DEF Admitted, HealsInFlight, Pending, HealPending, CapOf
  <2>4. ~(InflightDepth >= CapOf("heal"))
    BY <1>2 DEF Refusal
  <2>5. /\ InflightDepth + 1 <= CapOf("heal") /\ CapOf("heal") <= HardCap
        /\ CapOf("heal") \in Nat /\ HardCap \in Nat
    BY <1>1, <2>4, CapType, FlyingIsFinite
  <2>6. Cardinality(HealsInFlight) + 1 <= CapOf("heal")
    BY <2>5, FlyingIsFinite
  <2>7. Cardinality(Admitted) + Cardinality(Pending) + 1 <= HardCap + Cardinality(Sessions)
    <3>1. InflightDepth + 1 <= HardCap
      BY <2>5, FlyingIsFinite
    <3>2. QED
      BY <2>5, <3>1, FlyingIsFinite
  <2>8. GateIsKept'
    BY <2>3, <2>6, <2>7 DEF GateIsKept
  <2>9. QED
    BY <2>2, <2>8 DEF BatchInv
<1>3. CASE /\ pc' = "wait" /\ UNCHANGED <<fleetVars, left, clock, outcome, exit, sweeps>>
  BY <1>1, <1>3, TurnKeeps DEF BatchTypeOK
<1>4. CASE StopRefused
  BY <1>1, <1>4, StopKeeps
<1>5. QED
  BY <1>2, <1>3, <1>4 DEF EnsureAdmission

LEMMA WaitKeeps ==
  ASSUME BatchInv, WaitForAdmissionSlot
  PROVE  BatchInv'
<1>1. BatchTypeOK /\ pc = "wait"
  BY DEF BatchInv, WaitForAdmissionSlot
<1>2. CASE StopRefused
  BY <1>1, <1>2, StopKeeps
<1>3. CASE /\ pc' = "gate" /\ UNCHANGED <<fleetVars, left, clock, outcome, exit, sweeps>>
  BY <1>1, <1>3, TurnKeeps DEF BatchTypeOK
<1>4. CASE /\ clock > 0 /\ clock' = clock - 1
           /\ UNCHANGED <<fleetVars, left, pc, outcome, exit, sweeps>>
  <2>1. clock' \in 0 .. Budget
    BY <1>1, <1>4, BatchAssumption DEF BatchTypeOK
  <2>2. QED
    BY <1>1, <1>4, <2>1, TurnKeeps
<1>5. QED
  BY <1>2, <1>3, <1>4 DEF WaitForAdmissionSlot

LEMMA InsertHealKeeps ==
  ASSUME BatchInv, InsertHeal
  PROVE  BatchInv'
<1>1. BatchTypeOK /\ GateIsKept /\ SweptIsRerun /\ SweepIsAccounted /\ pc = "insert"
  BY DEF BatchInv, InsertHeal
<1>2. UNCHANGED <<accept, reserve, session, again, late, swept, rerun, clock, sweeps>>
  BY DEF InsertHeal
<1>3. Target \in FleetParcels /\ Target \in Parcels /\ FleetParcels \subseteq Parcels
  <2>1. left # {}
    BY <1>1 DEF SweepIsAccounted
  <2>2. QED
    BY <1>1, <2>1, FirstIsLeft, BatchAssumption DEF FleetParcels
<1>4. CASE inflight[Target] = "none"
  <2>1. /\ inflight' = [inflight EXCEPT ![Target] = "heal"] /\ pc' = "dispatch"
        /\ UNCHANGED <<left, outcome, exit>>
    BY <1>4 DEF InsertHeal
  <2>2. PICK t : t = Target
    OBVIOUS
  <2>3. \A q \in Parcels : inflight'[q] = IF q = t THEN "heal" ELSE inflight[q]
    BY <1>1, <2>1, <2>2 DEF BatchTypeOK
  <2>4. BatchTypeOK'
    <3>1. inflight' \in [Parcels -> Flights]
      BY <1>1, <1>3, <2>1 DEF BatchTypeOK, Flights
    <3>2. QED
      BY <1>1, <1>2, <2>1, <3>1 DEF BatchTypeOK
  <2>5. GateIsKept'
    <3>1. /\ Pending' = Pending /\ CapOf("heal")' = CapOf("heal")
          /\ HealPending = 1 /\ HealPending' = 0
      BY <1>1, <1>2, <2>1 DEF Pending, CapOf, HealPending
    <3>2. /\ Admitted' \subseteq Admitted \cup {t}
          /\ HealsInFlight' \subseteq HealsInFlight \cup {t}
      BY <1>2, <2>3 DEF Admitted, HealsInFlight
    <3>3. /\ Cardinality(Admitted') \in Nat /\ Cardinality(Admitted') <= Cardinality(Admitted) + 1
          /\ Cardinality(HealsInFlight') \in Nat
          /\ Cardinality(HealsInFlight') <= Cardinality(HealsInFlight) + 1
      BY <3>2, OneMore, FlyingIsFinite
    <3>4. /\ Cardinality(Admitted) + Cardinality(Pending) + 1 <= HardCap + Cardinality(Sessions)
          /\ Cardinality(HealsInFlight) + 0 + 1 <= CapOf("heal")
          /\ CapOf("heal") \in Nat /\ HardCap + Cardinality(Sessions) \in Int
      BY <1>1, <3>1, FlyingIsFinite, CapType, BatchAssumption DEF GateIsKept
    <3>5. Cardinality(Admitted') + Cardinality(Pending) + 0 <= Cardinality(Admitted) + Cardinality(Pending) + 1
      BY <3>3, FlyingIsFinite
    <3>6. Cardinality(Admitted') + Cardinality(Pending) + 0 <= HardCap + Cardinality(Sessions)
      BY <3>3, <3>4, <3>5, FlyingIsFinite, StillFits
    <3>7. Cardinality(HealsInFlight') + 0 <= CapOf("heal")
      BY <3>3, <3>4, FlyingIsFinite
    <3>8. QED
      BY <3>1, <3>6, <3>7 DEF GateIsKept
  <2>6. SweptIsRerun'
    BY <1>1, <1>2, SweptStays
  <2>7. SweepIsAccounted'
    BY <1>1, <1>2, <2>1 DEF SweepIsAccounted
  <2>8. QED
    BY <2>4, <2>5, <2>6, <2>7 DEF BatchInv
<1>5. CASE inflight[Target] # "none"
  <2>1. outcome' = Reported("skipped") /\ NextTarget /\ UNCHANGED inflight
    BY <1>5 DEF InsertHeal
  <2>2. /\ SweepIsAccounted' /\ left' \subseteq DOMAIN Fleet /\ pc' \in {"gate", "done"}
        /\ exit' \in {"running", "0", "1"}
        /\ outcome' \in [FleetParcels -> {"none", "queued", "skipped", "unreached"}]
    BY <1>1, <1>2, <2>1, NextTargetKeeps
  <2>3. BatchTypeOK' /\ SweptIsRerun'
    BY <1>1, <1>2, <2>1, <2>2, SweptStays DEF BatchTypeOK
  <2>4. Admitted' = Admitted /\ HealsInFlight' = HealsInFlight /\ HealPending' <= HealPending
    BY <1>2, <2>1, <2>2 DEF Admitted, HealsInFlight, HealPending
  <2>5. GateIsKept'
    BY <1>1, <1>2, <2>4, NothingAdded
  <2>6. QED
    BY <2>2, <2>3, <2>5 DEF BatchInv
<1>6. QED
  BY <1>4, <1>5

LEMMA DispatchKeeps ==
  ASSUME BatchInv, NEW sent \in BOOLEAN, NEW kept \in BOOLEAN, Dispatch(sent, kept)
  PROVE  BatchInv'
<1>1. BatchTypeOK /\ GateIsKept /\ SweptIsRerun /\ SweepIsAccounted /\ pc = "dispatch"
  BY DEF BatchInv, Dispatch
<1>2. PICK value \in {"queued", "skipped"} : outcome' = Reported(value)
  BY DEF Dispatch
<1>3. /\ UNCHANGED <<accept, reserve, session, again, swept, rerun, clock, sweeps>> /\ NextTarget
      /\ inflight' = IF sent THEN inflight ELSE [inflight EXCEPT ![Target] = "none"]
      /\ Leaves(Target, "heal", "failed", ~sent /\ kept)
  BY DEF Dispatch
<1>4. /\ SweepIsAccounted' /\ left' \subseteq DOMAIN Fleet /\ pc' \in {"gate", "done"}
      /\ exit' \in {"running", "0", "1"}
      /\ outcome' \in [FleetParcels -> {"none", "queued", "skipped", "unreached"}]
  BY <1>1, <1>2, <1>3, NextTargetKeeps
<1>5. /\ inflight' \in [Parcels -> Flights]
      /\ \A q \in Parcels : inflight'[q] \in {"none", inflight[q]}
  BY <1>1, <1>3 DEF BatchTypeOK, Flights
<1>6. /\ late' \in [Parcels -> EndedRequests \cup {<< >>}]
      /\ \A q \in Parcels : late'[q] = late[q] \/ late'[q] = <<"heal", "failed">>
  <2>1. left # {}
    BY <1>1 DEF SweepIsAccounted
  <2>2. PICK t \in Parcels : t = Target
    BY <1>1, <2>1, FirstIsLeft
  <2>3. PICK e \in EndedRequests : e = <<"heal", "failed">>
    BY DEF EndedRequests, Flights
  <2>4. late' = late \/ late' = [late EXCEPT ![t] = e]
    BY <1>3, <2>2, <2>3 DEF Leaves
  <2>5. QED
    BY <1>1, <2>3, <2>4, LateTyped
<1>7. BatchTypeOK'
  BY <1>1, <1>3, <1>4, <1>5, <1>6 DEF BatchTypeOK
<1>8. SweptIsRerun'
  <2>1. FleetParcels \subseteq Parcels /\ "failed" # "served"
    BY BatchAssumption DEF FleetParcels
  <2>2. \A q \in FleetParcels : late'[q][2] = "served" => late'[q] = late[q]
    BY <1>6, <2>1
  <2>3. QED
    BY <1>1, <1>3, <2>2 DEF SweptIsRerun, SweptSince
<1>9. /\ Admitted' \subseteq Admitted /\ HealsInFlight' \subseteq HealsInFlight
      /\ HealPending' <= HealPending
  BY <1>3, <1>4, <1>5 DEF Admitted, HealsInFlight, HealPending
<1>10. GateIsKept'
  BY <1>1, <1>3, <1>9, NothingAdded
<1>11. QED
  BY <1>4, <1>7, <1>8, <1>10 DEF BatchInv

LEMMA ResumeKeeps ==
  ASSUME BatchInv, Resume
  PROVE  BatchInv'
<1>1. BatchTypeOK /\ GateIsKept /\ SweptIsRerun
  BY DEF BatchInv
<1>2. /\ left' = {i \in DOMAIN Fleet : Fleet[i] \notin SweptSince} /\ left' # {}
      /\ pc' = "gate" /\ clock' = Budget /\ outcome' = NoOutcome /\ exit' = "running"
      /\ UNCHANGED <<inflight, accept, reserve, session, again, late, swept, rerun>>
  BY DEF Resume, fleetVars
<1>3. Budget \in 0 .. Budget
  BY BatchAssumption
<1>4. BatchTypeOK' /\ SweptIsRerun'
  BY <1>1, <1>2, <1>3, SweptStays DEF BatchTypeOK, NoOutcome
<1>5. SweepIsAccounted'
  BY <1>1, <1>2 DEF SweepIsAccounted, SweptIsRerun, NoOutcome
<1>6. Admitted' = Admitted /\ HealsInFlight' = HealsInFlight /\ HealPending' <= HealPending
  BY <1>2 DEF Admitted, HealsInFlight, HealPending
<1>7. GateIsKept'
  BY <1>1, <1>2, <1>6, NothingAdded
<1>8. QED
  BY <1>4, <1>5, <1>7 DEF BatchInv

LEMMA OperatorKeeps ==
  ASSUME BatchInv, Operator \/ UNCHANGED batchVars
  PROVE  BatchInv'
<1>1. BatchTypeOK /\ GateIsKept /\ SweptIsRerun /\ SweepIsAccounted
  BY DEF BatchInv
<1>2. /\ UNCHANGED <<inflight, reserve, session, again, late, swept, rerun, left, pc, clock, outcome, exit>>
      /\ accept' \in {accept, ~accept}
  BY DEF Operator, batchVars, fleetVars, sweepVars
<1>3. accept' \in BOOLEAN
  BY <1>1, <1>2 DEF BatchTypeOK
<1>4. BatchTypeOK' /\ SweptIsRerun' /\ SweepIsAccounted'
  BY <1>1, <1>2, <1>3, SweptStays DEF BatchTypeOK, SweepIsAccounted
<1>5. Admitted' = Admitted /\ HealsInFlight' = HealsInFlight /\ HealPending' <= HealPending
  BY <1>2 DEF Admitted, HealsInFlight, HealPending
<1>6. GateIsKept'
  BY <1>1, <1>2, <1>5, NothingAdded
<1>7. QED
  BY <1>4, <1>6 DEF BatchInv

LEMMA BatchStarts == BatchInit => BatchInv
<1> SUFFICES ASSUME BatchInit
             PROVE  BatchInv
  OBVIOUS
<1>1. /\ inflight \in [Parcels -> {"none", "before"}] /\ InflightDepth <= HardCap
      /\ accept = TRUE /\ reserve \in Reserves /\ session = [v \in Sessions |-> << >>]
      /\ again = {} /\ late = [p \in Parcels |-> << >>]
      /\ swept = {} /\ rerun = {} /\ left = DOMAIN Fleet /\ pc = "gate" /\ clock = Budget
      /\ outcome = NoOutcome /\ exit = "running"
  BY DEF BatchInit
<1>2. FleetParcels \subseteq Parcels /\ DOMAIN Fleet # {} /\ Budget \in 0 .. Budget
  <2>1. FleetParcels \subseteq Parcels /\ Budget \in 0 .. Budget
    BY BatchAssumption DEF FleetParcels
  <2>2. Fleet \in Seq(Parcels) /\ Len(Fleet) \in Nat \ {0}
    BY BatchAssumption, EmptySeq
  <2>3. 1 \in DOMAIN Fleet
    BY <2>2
  <2>4. QED
    BY <2>1, <2>3
<1>3. BatchTypeOK
  <2>1. inflight \in [Parcels -> Flights]
    BY <1>1 DEF Flights
  <2>2. session \in [Sessions -> (Parcels \X {"visit", "full", "scoped"}) \cup {<< >>}]
    BY <1>1
  <2>3. outcome \in [FleetParcels -> {"none", "queued", "skipped", "unreached"}]
    BY <1>1 DEF NoOutcome
  <2>4. QED
    BY <1>1, <1>2, <2>1, <2>2, <2>3 DEF BatchTypeOK
<1>4. GateIsKept
  <2>1. HealsInFlight = {} /\ Pending = {} /\ HealPending = 0
    BY <1>1 DEF HealsInFlight, Admitted, Pending, HealPending
  <2>2. Cardinality(HealsInFlight) = 0 /\ Cardinality(Pending) = 0
    BY <2>1, FS_EmptySet
  <2>3. CapOf("heal") \in Nat /\ HardCap \in Nat
    BY <1>3, CapType
  <2>4. Cardinality(Admitted) + 0 + 0 <= HardCap + Cardinality(Sessions) /\ 0 + 0 <= CapOf("heal")
    BY <1>1, <2>3, FlyingIsFinite
  <2>5. QED
    BY <2>1, <2>2, <2>4 DEF GateIsKept
<1>5. SweptIsRerun
  BY <1>1, <1>2 DEF SweptIsRerun, SweptSince
<1>6. SweepIsAccounted
  <2>1. \A p \in FleetParcels : outcome[p] = "none"
    BY <1>1 DEF NoOutcome
  <2>2. QED
    BY <1>1, <1>2, <2>1 DEF SweepIsAccounted
<1>7. QED
  BY <1>3, <1>4, <1>5, <1>6 DEF BatchInv

LEMMA BatchNextKeeps == BatchInv /\ [BatchNext]_batchVars => BatchInv'
<1> SUFFICES ASSUME BatchInv, [BatchNext]_batchVars
             PROVE  BatchInv'
  OBVIOUS
<1>1. CASE SweepStep
  BY <1>1, EnsureAdmissionKeeps, InsertHealKeeps, WaitKeeps, DispatchKeeps DEF SweepStep
<1>2. CASE Resume
  BY <1>2, ResumeKeeps
<1>3. CASE Operator \/ UNCHANGED batchVars
  BY <1>3, OperatorKeeps
<1>4. ASSUME NEW v \in Sessions, VisitorAdmitted(v) \/ VisitorInserts(v)
      PROVE  BatchInv'
  BY <1>4, VisitorAdmittedKeeps, VisitorInsertsKeeps
<1>5. ASSUME NEW p \in Parcels, NEW ended \in {"served", "failed"}, NEW kept \in BOOLEAN,
             RunEnds(p, ended, kept)
      PROVE  BatchInv'
  BY <1>5, RunEndsKeeps
<1>6. ASSUME NEW p \in Parcels, ClaimedAgain(p)
      PROVE  BatchInv'
  BY <1>6, ClaimedAgainKeeps
<1>7. QED
  BY <1>1, <1>2, <1>3, <1>4, <1>5, <1>6 DEF BatchNext

LEMMA SweepIsInvariant == BatchSpec => []BatchInv
BY BatchStarts, BatchNextKeeps, PTL DEF BatchSpec

LEMMA KeptGateSharesTheQueue == BatchInv => QueueIsShared
<1> SUFFICES ASSUME BatchInv
             PROVE  QueueIsShared
  OBVIOUS
<1>1. BatchTypeOK /\ GateIsKept
  BY DEF BatchInv
<1>2. HealPending \in 0 .. 1 /\ CapOf("heal") \in Nat /\ HardCap \in Nat /\ reserve \in Nat
  BY <1>1, CapType DEF HealPending
<1>3. OvershootIsBounded
  <2> DEFINE claimed == again \cap Parcels
  <2>1. IsFiniteSet(claimed) /\ Cardinality(claimed) \in Nat /\ claimed = again
    BY <1>1, NoMore, BatchAssumption DEF BatchTypeOK
  <2>2. Flying \subseteq Admitted \cup claimed
    BY DEF Flying, Admitted
  <2>3. /\ IsFiniteSet(Admitted \cup claimed)
        /\ Cardinality(Admitted \cup claimed) =
             Cardinality(Admitted) + Cardinality(claimed) - Cardinality(Admitted \cap claimed)
        /\ Cardinality(Admitted \cap claimed) \in Nat
    BY <2>1, FS_Union, FS_Intersection, FS_CardinalityType, FlyingIsFinite
  <2> HIDE DEF claimed
  <2>4. InflightDepth <= Cardinality(Admitted) + Cardinality(claimed)
    <3>1. Cardinality(Flying) <= Cardinality(Admitted \cup claimed)
      BY <2>2, <2>3, NoMore
    <3>2. QED
      BY <2>1, <2>3, <3>1, FlyingIsFinite
  <2>5. Cardinality(Admitted) + 0 + 0 <= HardCap + Cardinality(Sessions)
    BY <1>1, <1>2, FlyingIsFinite, StillFits DEF GateIsKept
  <2>6. QED
    BY <1>2, <2>1, <2>4, <2>5, FlyingIsFinite DEF OvershootIsBounded
<1>4. UsersKeepTheReserve
  <2> DEFINE others == {p \in Parcels :
                          inflight[p] # "none" /\ (inflight[p] = "heal" => p \in again)}
             kept == IF reserve < HardCap THEN reserve ELSE HardCap
  <2>1. others \subseteq Parcels /\ Flying = others \cup HealsInFlight
        /\ others \cap HealsInFlight = {}
    BY DEF Flying, HealsInFlight, Admitted
  <2>2. IsFiniteSet(others) /\ Cardinality(others) \in Nat
    BY <2>1, NoMore, BatchAssumption
  <2>3. InflightDepth = Cardinality(others) + Cardinality(HealsInFlight)
    <3>1. Cardinality(Flying) = Cardinality(others) + Cardinality(HealsInFlight) - 0
      BY <2>1, <2>2, FS_Union, FS_EmptySet, FlyingIsFinite
    <3>2. QED
      BY <2>2, <3>1, FlyingIsFinite
  <2>4. CapOf("heal") = HardCap - kept /\ kept \in Nat
    BY <1>2 DEF CapOf
  <2> HIDE DEF others, kept
  <2>5. Cardinality(HealsInFlight) <= HardCap - kept
    BY <1>1, <1>2, <2>4, FlyingIsFinite DEF GateIsKept
  <2>6. InflightDepth >= HardCap => Cardinality(others) >= kept
    BY <1>2, <2>2, <2>3, <2>4, <2>5, FlyingIsFinite
  <2>7. QED
    BY <2>6 DEF UsersKeepTheReserve, others, kept
<1>5. QED
  BY <1>3, <1>4 DEF QueueIsShared

LEMMA AccountedSweepDropsNobody == BatchInv => NobodyIsDropped
<1> SUFFICES ASSUME BatchInv, pc = "done", NEW p \in FleetParcels
             PROVE  /\ outcome[p] = "none" => p \in rerun
                    /\ exit = "0" => outcome[p] # "unreached"
  BY DEF NobodyIsDropped
<1>1. PICK i \in DOMAIN Fleet : p = Fleet[i]
  BY DEF FleetParcels
<1>2. CASE i \in left
  BY <1>1, <1>2 DEF BatchInv, SweepIsAccounted
<1>3. CASE i \notin left
  BY <1>1, <1>3 DEF BatchInv, SweepIsAccounted
<1>4. QED
  BY <1>2, <1>3

(* The sweep, the gate and what is known of ended requests keep their      *)
(* types (revalidate_landsat.py, admission.py).                            *)
THEOREM TheSweepIsTyped == BatchSpec => []BatchTypeOK
<1>1. BatchInv => BatchTypeOK
  BY DEF BatchInv
<1>2. QED
  BY <1>1, SweepIsInvariant, PTL

(* For any fleet, cap, reserve and number of sessions, whatever visitors,  *)
(* workers, late messages and the operator do between the count and the    *)
(* insert: the queue passes its cap by no more than the racing sessions    *)
(* and the runs claimed again after their request had ended, and at a full *)
(* queue the reserve is not taken by heals the gate let through.           *)
THEOREM TheQueueIsShared == BatchSpec => []QueueIsShared
<1>1. QED
  BY SweepIsInvariant, KeptGateSharesTheQueue, PTL

(* When the script ends, resumed or not, what it says nothing about was    *)
(* run whole under this sweep, and exit 0 leaves nothing unreached.        *)
THEOREM TheSweepDropsNobody == BatchSpec => []NobodyIsDropped
<1>1. QED
  BY SweepIsInvariant, AccountedSweepDropsNobody, PTL

=============================================================================
