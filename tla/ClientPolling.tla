----------------------------- MODULE ClientPolling -----------------------------
(***************************************************************************)
(* The explore page of one parcel: it polls the status of the request and, *)
(* while the request is under way, the imagery; it reads the imagery once  *)
(* more when it learns that the request delivered.                         *)
(***************************************************************************)
EXTENDS Naturals

CONSTANTS
  MaxServed,   (* bound: times a run changes what is served                *)
  MaxFailures  (* bound: reads that fail after their retries               *)

VARIABLES
  status,      (* of the timeline request                                  *)
  served,      (* how often what is served has changed                     *)
  tooOld,      (* the request is older than POLL_GIVE_UP_MS                *)
  seen,        (* the status the page holds, NotRead before an answer      *)
  statusError, (* the last read of the status failed                       *)
  shown,       (* the served state the page shows                          *)
  listError,   (* the last read of the imagery failed                      *)
  refetch,     (* the imagery is read once more, 500 ms from now           *)
  failures
pollVars == <<status, served, tooOld, seen, statusError, shown, listError, refetch, failures>>

NotRead == "unread"
Statuses == {"queued", "processing", "complete", "partial", "failed"}

PollTypeOK ==
  /\ status \in Statuses /\ seen \in Statuses \cup {NotRead} /\ shown \in 0 .. served
  /\ served <= MaxServed /\ failures <= MaxFailures
  /\ statusError \in BOOLEAN /\ listError \in BOOLEAN /\ refetch \in BOOLEAN

PollInit ==
  /\ status = "queued" /\ served = 0 /\ tooOld = FALSE /\ seen = NotRead /\ statusError = FALSE
  /\ shown = 0 /\ listError = FALSE /\ refetch = FALSE /\ failures = 0

(* Mutant: a partial timeline is not delivered.                            *)
OnlyComplete(s) == s = "complete"
IsTimelineDelivered(s) == s \in {"complete", "partial"}
IsTimelineTerminal(s) == IsTimelineDelivered(s) \/ s = "failed"

-----------------------------------------------------------------------------
(* The run (TimelineLifecycle has it in full).                             *)
RunStarts ==
  /\ status = "queued" /\ status' = "processing"
  /\ UNCHANGED <<served, tooOld, seen, statusError, shown, listError, refetch, failures>>
RunWrites ==
  /\ status = "processing" /\ served < MaxServed /\ served' = served + 1
  /\ UNCHANGED <<status, tooOld, seen, statusError, shown, listError, refetch, failures>>
RunConcludes ==
  /\ status = "processing" /\ status' \in {"complete", "partial", "failed"}
  /\ UNCHANGED <<served, tooOld, seen, statusError, shown, listError, refetch, failures>>
GrowsOld ==
  /\ ~tooOld /\ tooOld' = TRUE
  /\ UNCHANGED <<status, served, seen, statusError, shown, listError, refetch, failures>>

-----------------------------------------------------------------------------
(* The status: polled until it is terminal or, once it is known, too old.  *)
(* An error only slows the polling down.                                   *)
(* Mutant: an error ends it.                                               *)
PollingUntilError == ~IsTimelineTerminal(seen) /\ ~(seen # NotRead /\ tooOld) /\ ~statusError
PollingStatus == ~IsTimelineTerminal(seen) /\ ~(seen # NotRead /\ tooOld)
ReadStatus ==
  /\ PollingStatus /\ seen' = status /\ statusError' = FALSE
  /\ refetch' = (refetch \/ (IsTimelineDelivered(status) /\ seen # status))
  /\ UNCHANGED <<status, served, tooOld, shown, listError, failures>>
StatusFails ==
  /\ PollingStatus /\ failures < MaxFailures
  /\ failures' = failures + 1 /\ statusError' = TRUE
  /\ UNCHANGED <<status, served, tooOld, seen, shown, listError, refetch>>

(* The imagery: polled while the request is under way as far as the page   *)
(* knows, unless its own last read failed; read again on delivery.         *)
TimelineActive == ~statusError /\ ~IsTimelineTerminal(seen)
ReadsList == refetch \/ (TimelineActive /\ ~listError)
ReadImagery ==
  /\ ReadsList /\ shown' = served /\ listError' = FALSE /\ refetch' = FALSE
  /\ UNCHANGED <<status, served, tooOld, seen, statusError, failures>>
ImageryFails ==
  /\ ReadsList /\ failures < MaxFailures
  /\ failures' = failures + 1 /\ listError' = TRUE /\ refetch' = FALSE
  /\ UNCHANGED <<status, served, tooOld, seen, statusError, shown>>

PollNext ==
  \/ RunStarts \/ RunWrites \/ RunConcludes \/ GrowsOld
  \/ ReadStatus \/ StatusFails \/ ReadImagery \/ ImageryFails

(* The page's timers fire, and a read ends.                                *)
PollFairness == WF_pollVars(ReadStatus) /\ WF_pollVars(refetch /\ ReadImagery)

-----------------------------------------------------------------------------
(* A page that stays open comes to show all that a delivered timeline      *)
(* serves, a partial one too, unless it gave the request up for its age or *)
(* the very read of the imagery failed; an outage of the status endpoint,  *)
(* or of the imagery while the run went on, does not stop it.              *)
DeliveredIsShown ==
  status \in {"complete", "partial"} ~>
    shown = served \/ tooOld \/ (IsTimelineTerminal(seen) /\ listError)

=============================================================================
