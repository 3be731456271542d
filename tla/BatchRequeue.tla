----------------------------- MODULE BatchRequeue -----------------------------
(***************************************************************************)
(* An operator's sweep of the fleet (revalidate_landsat; requeue_parcels   *)
(* and requeue_empty_property share its loop): one request per parcel,     *)
(* through the admission gate that visitors use too, waiting out a full    *)
(* queue until a deadline, and resumed without the parcels already swept.  *)
(*                                                                         *)
(* The gate counts and the insert are separate steps of every session: no  *)
(* lock orders them.  A parcel has at most one request in flight.  Nor     *)
(* does a worker ask the gate: a message that outlives its request, one    *)
(* failed by a takeover, a janitor or a dispatch that raised, or one that  *)
(* ended just before its worker was lost, puts it in flight again.         *)
(***************************************************************************)
EXTENDS Naturals, Sequences, FiniteSets

CONSTANTS
  Fleet,      (* the parcels serving Landsat, in the order of the sweep    *)
  Parcels,    (* them and the others                                       *)
  Sessions,   (* sessions of the API                                       *)
  HardCap,    (* max_inflight_timeline_requests                            *)
  Reserves,   (* user_admission_reserve: values it may be set to           *)
  Budget,     (* polls until the deadline                                  *)
  MaxSweeps,  (* bound: times the operator starts the script               *)
  MaxLate     (* bound: messages that outlive their requests, at a time    *)

ASSUME BatchAssumption ==
  /\ Fleet \in Seq(Parcels) /\ Fleet # << >>
  /\ IsFiniteSet(Parcels) /\ IsFiniteSet(Sessions)
  /\ HardCap \in Nat /\ Reserves \subseteq Nat /\ Budget \in Nat
  /\ MaxSweeps \in Nat /\ MaxLate \in Nat

VARIABLES
  inflight,   (* parcel -> what is in flight for it: a heal, a first visit,*)
              (* a backfill of a visit (full or scoped), or a request from *)
              (* before the cutoff of this sweep                           *)
  accept,     (* the kill switch is off                                    *)
  reserve,
  session,    (* visitor -> the request the gate let through, or nothing    *)
  again,      (* parcels whose request was claimed after it had ended      *)
  late,       (* parcel -> an ended request with a message left, or nothing *)
  swept,      (* parcels with a whole run since the cutoff, for good        *)
  rerun,      (* parcels really re-run under it                            *)
  left,       (* indices in Fleet of what this start has still to do       *)
  pc, clock, outcome, exit, sweeps

sweepVars == <<left, pc, clock, outcome, exit, sweeps>>
fleetVars == <<inflight, accept, reserve, session, again, late, swept, rerun>>
batchVars == <<fleetVars, sweepVars>>

FleetParcels == {Fleet[i] : i \in DOMAIN Fleet}
Flights == {"none", "heal", "visit", "full", "scoped", "before"}
EndedRequests == (Flights \ {"none"}) \X {"served", "failed"}

BatchTypeOK ==
  /\ inflight \in [Parcels -> Flights] /\ accept \in BOOLEAN /\ reserve \in Reserves
  /\ session \in [Sessions -> (Parcels \X {"visit", "full", "scoped"}) \cup {<< >>}]
  /\ again \subseteq Parcels
  /\ late \in [Parcels -> EndedRequests \cup {<< >>}]
  /\ swept \subseteq FleetParcels /\ rerun \subseteq FleetParcels
  /\ left \subseteq DOMAIN Fleet
  /\ pc \in {"gate", "insert", "wait", "dispatch", "done"}
  /\ clock \in 0 .. Budget /\ exit \in {"running", "0", "1"}
  /\ outcome \in [FleetParcels -> {"none", "queued", "skipped", "unreached"}]

NoOutcome == [p \in FleetParcels |-> "none"]

InflightDepth == Cardinality({p \in Parcels : inflight[p] # "none"})

BatchInit ==
  /\ inflight \in [Parcels -> {"none", "before"}] /\ InflightDepth <= HardCap
  /\ accept = TRUE /\ reserve \in Reserves
  /\ session = [v \in Sessions |-> << >>]
  /\ again = {} /\ late = [p \in Parcels |-> << >>]
  /\ swept = {} /\ rerun = {}
  /\ left = DOMAIN Fleet /\ pc = "gate" /\ clock = Budget
  /\ outcome = NoOutcome /\ exit = "running" /\ sweeps = 1

-----------------------------------------------------------------------------
(* Mutant: a heal may fill the whole cap.                                  *)
NoReserve(origin) == HardCap
CapOf(origin) ==
  IF origin = "user" THEN HardCap
  ELSE HardCap - (IF reserve < HardCap THEN reserve ELSE HardCap)

(* Mutant: a session is let through at the cap.                            *)
AdmitsAtCap(origin) == accept /\ InflightDepth <= CapOf(origin)
Admits(origin) == accept /\ InflightDepth < CapOf(origin)
Refusal(origin) ==
  IF ~accept THEN "kill_switch"
  ELSE IF InflightDepth >= CapOf(origin) THEN "queue_full" ELSE "none"

(* What counts as swept: a whole run, complete or partial, of a request    *)
(* created since the cutoff.                                               *)
(* Mutant: a scoped backfill counts.                                       *)
AnyRun(kind) == kind # "before"
WholeRun(kind) == kind \in {"heal", "visit", "full"}
SweptSince ==
  swept \cup {p \in FleetParcels :
             late[p] # << >> /\ late[p][2] = "served" /\ WholeRun(late[p][1])}

(* A visitor of a parcel that is served may start a backfill, or a whole   *)
(* run of his own if no request of the parcel can be reused; of another,   *)
(* the first fetch.                                                        *)
Wants(p) ==
  (IF p \in SweptSince THEN {} ELSE {"visit"})
    \cup (IF p \in FleetParcels THEN {"full", "scoped"} ELSE {})
VisitorAdmitted(v) ==
  /\ session[v] = << >>
  /\ \E p \in Parcels : \E kind \in Wants(p) :
       /\ Admits(IF kind = "visit" THEN "user" ELSE "backfill")
       /\ session' = [session EXCEPT ![v] = <<p, kind>>]
  /\ UNCHANGED <<inflight, accept, reserve, again, late, swept, rerun, sweepVars>>
VisitorInserts(v) ==
  /\ session[v] # << >>
  /\ inflight' = [inflight EXCEPT ![session[v][1]] = IF @ = "none" THEN session[v][2] ELSE @]
  /\ session' = [session EXCEPT ![v] = << >>]
  /\ UNCHANGED <<accept, reserve, again, late, swept, rerun, sweepVars>>

(* A message is left of a request that ends (kept), or not.                *)
Leaves(p, kind, ended, kept) ==
  IF kept
  THEN /\ late[p] = << >> /\ Cardinality({q \in Parcels : late[q] # << >>}) < MaxLate
       /\ late' = [late EXCEPT ![p] = <<kind, ended>>]
  ELSE late' = late

(* A run ends, or its request is given up.  The heal just inserted has no  *)
(* message yet and is fresh.                                               *)
RunEnds(p, ended, kept) ==
  /\ inflight[p] # "none"
  /\ ~(pc = "dispatch" /\ p = Fleet[CHOOSE i \in left : \A j \in left : i <= j])
  /\ inflight' = [inflight EXCEPT ![p] = "none"]
  /\ again' = again \ {p}
  /\ Leaves(p, inflight[p], ended, kept)
  /\ IF ended = "served" /\ p \in FleetParcels /\ WholeRun(inflight[p])
     THEN swept' = IF kept THEN swept ELSE swept \cup {p}
     ELSE swept' = swept
  /\ rerun' = IF ended = "served" /\ p \in FleetParcels
                 /\ inflight[p] \in {"heal", "visit", "full"}
              THEN rerun \cup {p} ELSE rerun
  /\ UNCHANGED <<accept, reserve, session, sweepVars>>

(* A worker gets the message of an ended request: it claims the request    *)
(* and does not ask the gate; with another in flight for the parcel the    *)
(* claim conflicts and the request fails, once more or after all.          *)
ClaimedAgain(p) ==
  /\ late[p] # << >>
  /\ late' = [late EXCEPT ![p] = << >>]
  /\ IF inflight[p] = "none"
     THEN inflight' = [inflight EXCEPT ![p] = late[p][1]] /\ again' = again \cup {p}
     ELSE UNCHANGED <<inflight, again>>
  /\ UNCHANGED <<accept, reserve, session, swept, rerun, sweepVars>>

Operator ==
  /\ accept' = ~accept
  /\ UNCHANGED <<inflight, reserve, session, again, late, swept, rerun, sweepVars>>

-----------------------------------------------------------------------------
(* The sweep's loop.                                                       *)
First == CHOOSE i \in left : \A j \in left : i <= j
Target == Fleet[First]
Reported(value) == [outcome EXCEPT ![Target] = value]
NextTarget ==
  /\ left' = left \ {First}
  /\ IF left' = {} THEN pc' = "done" /\ exit' = "0" ELSE pc' = "gate" /\ exit' = exit

(* The rest is reported as not reached, this parcel with it.               *)
(* Mutant: the parcel that was refused is left out.                        *)
UnreachedAfter == {Fleet[i] : i \in left \ {First}}
Unreached == {Fleet[i] : i \in left}
StopRefused ==
  /\ pc' = "done" /\ exit' = "1"
  /\ outcome' = [p \in FleetParcels |-> IF p \in Unreached THEN "unreached" ELSE outcome[p]]
  /\ UNCHANGED <<fleetVars, left, clock, sweeps>>

EnsureAdmission ==
  /\ pc = "gate"
  /\ \/ /\ Refusal("heal") = "none" /\ pc' = "insert"
        /\ UNCHANGED <<fleetVars, left, clock, outcome, exit, sweeps>>
     \/ /\ Refusal("heal") = "queue_full" /\ pc' = "wait"
        /\ UNCHANGED <<fleetVars, left, clock, outcome, exit, sweeps>>
     \/ Refusal("heal") = "kill_switch" /\ StopRefused

InsertHeal ==
  /\ pc = "insert"
  /\ IF inflight[Target] = "none"
     THEN /\ inflight' = [inflight EXCEPT ![Target] = "heal"] /\ pc' = "dispatch"
          /\ UNCHANGED <<left, outcome, exit>>
     ELSE /\ outcome' = Reported("skipped") /\ NextTarget
          /\ UNCHANGED inflight
  /\ UNCHANGED <<accept, reserve, session, again, late, swept, rerun, clock, sweeps>>

Dispatch(sent, kept) ==
  /\ pc = "dispatch"
  /\ outcome' = Reported(IF sent THEN "queued" ELSE "skipped")
  /\ inflight' = IF sent THEN inflight ELSE [inflight EXCEPT ![Target] = "none"]
  /\ Leaves(Target, "heal", "failed", ~sent /\ kept)
  /\ NextTarget
  /\ UNCHANGED <<accept, reserve, session, again, swept, rerun, clock, sweeps>>

(* wait_for_admission_slot: one turn of its loop.                          *)
(* Mutant: the budget is never found exhausted.                            *)
NoDeadline == FALSE
DeadlinePassed == clock = 0
WaitForAdmissionSlot ==
  /\ pc = "wait"
  /\ \/ (~accept \/ CapOf("heal") <= 0) /\ StopRefused
     \/ /\ accept /\ InflightDepth < CapOf("heal") /\ pc' = "gate"
        /\ UNCHANGED <<fleetVars, left, clock, outcome, exit, sweeps>>
     \/ /\ accept /\ CapOf("heal") > 0
        /\ InflightDepth >= CapOf("heal")
        /\ \/ DeadlinePassed /\ StopRefused
           \/ /\ clock > 0 /\ clock' = clock - 1
              /\ UNCHANGED <<fleetVars, left, pc, outcome, exit, sweeps>>

SweepStep ==
  EnsureAdmission \/ InsertHeal \/ WaitForAdmissionSlot \/ \E sent, kept \in BOOLEAN : Dispatch(sent, kept)

(* Started again with --skip-swept-since: what is left of the fleet.       *)
Resume ==
  LET due == {i \in DOMAIN Fleet : Fleet[i] \notin SweptSince}
  IN  /\ pc = "done" /\ sweeps < MaxSweeps /\ due # {}
      /\ left' = due /\ pc' = "gate" /\ clock' = Budget
      /\ outcome' = NoOutcome /\ exit' = "running" /\ sweeps' = sweeps + 1
      /\ UNCHANGED fleetVars

BatchNext ==
  \/ SweepStep \/ Resume \/ Operator
  \/ \E v \in Sessions : VisitorAdmitted(v) \/ VisitorInserts(v)
  \/ \E p \in Parcels :
       \/ ClaimedAgain(p)
       \/ \E ended \in {"served", "failed"}, kept \in BOOLEAN : RunEnds(p, ended, kept)

-----------------------------------------------------------------------------
BatchSpec == BatchInit /\ [][BatchNext]_batchVars

(* A sweep in progress goes on; nothing is assumed of visitors and runs.   *)
BatchFairness == WF_batchVars(SweepStep)

(* The gate is checked and the request inserted in two steps, so the queue *)
(* may pass its cap by the sessions let through on one count (each adds    *)
(* one request, and the first had a slot), and by every run claimed again  *)
(* behind the gate's back: by those, and by no more.                       *)
OvershootIsBounded ==
  InflightDepth <= HardCap + Cardinality(Sessions) + Cardinality(again)

(* A visitor's first fetch is refused for a full queue only when at least  *)
(* the reserve of what is in flight is not the gate's own heals: it keeps  *)
(* the reserve from the heals it lets through, not from heals claimed      *)
(* again.                                                                  *)
UsersKeepTheReserve ==
  InflightDepth >= HardCap =>
    LET kept == IF reserve < HardCap THEN reserve ELSE HardCap
    IN  Cardinality({p \in Parcels : inflight[p] # "none" /\ (inflight[p] = "heal" => p \in again)})
          >= kept

(* The gate under a sweep (admission.py, requeue_parcels.py) beside late   *)
(* messages (timeline.py): what it lets through passes its cap by the      *)
(* racing sessions only, and leaves first fetches the reserve.             *)
QueueIsShared == OvershootIsBounded /\ UsersKeepTheReserve

(* "an incomplete sweep cannot be mistaken for a complete one": when the   *)
(* script ends, also a resumed one, a parcel it says nothing about was run *)
(* whole under this sweep, and exit 0 means that none was left unreached.  *)
NobodyIsDropped ==
  pc = "done" =>
    \A p \in FleetParcels :
      /\ outcome[p] = "none" => p \in rerun
      /\ exit = "0" => outcome[p] # "unreached"

(***************************************************************************)
(* The inductive strengthening of QueueIsShared and NobodyIsDropped.       *)
(***************************************************************************)

Admitted == {p \in Parcels : inflight[p] # "none" /\ p \notin again}
HealsInFlight == {p \in Admitted : inflight[p] = "heal"}
Pending == {v \in Sessions : session[v] # << >>}
HealPending == IF pc = "insert" THEN 1 ELSE 0

(* What the gate let through, in flight and to come, fits the cap and the  *)
(* racing sessions; its heals alone fit what the reserve leaves.           *)
GateIsKept ==
  /\ Cardinality(Admitted) + Cardinality(Pending) + HealPending <= HardCap + Cardinality(Sessions)
  /\ Cardinality(HealsInFlight) + HealPending <= CapOf("heal")

(* Only whole runs since the cutoff count as swept.                        *)
SweptIsRerun == SweptSince \subseteq rerun

(* What is no longer left to do was reported in this start or is swept.    *)
SweepIsAccounted ==
  /\ pc # "done" => exit = "running" /\ left # {}
  /\ pc = "done" => exit = "1" \/ (exit = "0" /\ left = {})
  /\ \A i \in DOMAIN Fleet \ left : outcome[Fleet[i]] # "none" \/ Fleet[i] \in rerun
  /\ exit = "1" => \A i \in left : outcome[Fleet[i]] = "unreached"
  /\ exit # "1" => \A p \in FleetParcels : outcome[p] # "unreached"

BatchInv == BatchTypeOK /\ GateIsKept /\ SweptIsRerun /\ SweepIsAccounted

(* Once visitors stop coming and no request is claimed again the sweep     *)
(* ends: its budget, the kill switch or the end of the fleet stops it.     *)
(* (While they come it may find a slot and lose it again also after its    *)
(* deadline.)                                                              *)
BatchEnds ==
  <>[]((\A v \in Sessions : session[v] = << >>) /\ again = {}) => <>[](pc = "done")

=============================================================================
