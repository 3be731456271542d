------------------------------ MODULE MCRequests ------------------------------
(***************************************************************************)
(* TLC instance of what several requests do to each other: the backfills   *)
(* and heals of one parcel, and a sweep of the fleet beside visitors.  A   *)
(* behaviour is one of the studies; the variables of the others stay as    *)
(* they start.                                                             *)
(***************************************************************************)
EXTENDS MCBackfill, BatchRequeue

VARIABLE study

-----------------------------------------------------------------------------
(* A sweep of two parcels beside a visitor, under a cap of two: with every *)
(* request and no late message ("sweep"), or with late messages beside     *)
(* heals and whole runs of the fleet, the switch on and the queue empty at *)
(* first ("late").                                                         *)
MCFleet == <<"p1", "p2">>
MCParcels == {"p1", "p2", "q1", "q2"}

QueueIsEmpty == inflight = [p \in Parcels |-> "none"] /\ reserve = 1
NoMessageIsLate == BatchNext /\ late' = late
MessagesAreLate ==
  /\ BatchNext /\ accept'
  /\ \A p \in Parcels \ FleetParcels : late'[p] = << >>
  /\ \A v \in Sessions : session'[v] # << >> => session'[v][2] = "visit"

-----------------------------------------------------------------------------
RequestsInit ==
  /\ study \in {"backfill", "sweep", "late"}
  /\ BackfillInit /\ (study # "backfill" => requests = << >> /\ covered)
  /\ BatchInit /\ (study # "sweep" => QueueIsEmpty)

RequestsNext ==
  /\ UNCHANGED study
  /\ \/ study = "backfill" /\ BackfillNext /\ UNCHANGED batchVars
     \/ study = "sweep" /\ NoMessageIsLate /\ UNCHANGED backfillVars
     \/ study = "late" /\ MessagesAreLate /\ UNCHANGED backfillVars

(* BatchFairness, asked of the sweep's behaviours alone.                   *)
SweepFairness == WF_batchVars(study \in {"sweep", "late"} /\ SweepStep)

RequestsSpec ==
  RequestsInit /\ [][RequestsNext]_<<study, backfillVars, batchVars>> /\ SweepFairness

-----------------------------------------------------------------------------
(* The sweep studies' promise to end (requeue_parcels.py).                 *)
SweepEnds == study \in {"sweep", "late"} => BatchEnds

=============================================================================
