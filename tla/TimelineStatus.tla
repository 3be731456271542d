--------------------------- MODULE TimelineStatus ---------------------------
(***************************************************************************)
(* The status vocabulary of timeline requests and of their per-source task *)
(* rows, the fold of task rows into a request status, and the admission    *)
(* cap: the pure part of services/imagery.py and services/admission.py.    *)
(***************************************************************************)
EXTENDS Integers

(* The six sources a full-scope request declares. *)
FULL_SCOPE ==
  {"census", "landsat", "naip", "property", "sentinel2", "usgs_topo"}

InflightStatuses == {"queued", "processing"}
TerminalRequestStatuses == {"complete", "partial", "failed"}
ReusableStatuses == InflightStatuses \cup {"complete", "partial"}
TerminalTaskStatuses == {"complete", "partial", "failed", "skipped"}

(* "none" is the absence of the row. *)
RequestStatuses == InflightStatuses \cup TerminalRequestStatuses \cup {"none"}
TaskStatuses == InflightStatuses \cup TerminalTaskStatuses \cup {"none"}

(* What a source's coroutine may write as its last status. *)
TaskVerdicts(s) ==
  CASE s = "property" -> {"complete", "partial", "failed"}
    [] OTHER          -> {"complete", "failed"}

(* Sources that may decline before they start: census without a usable     *)
(* tract, property without an adapter or outside the adapter's coverage.   *)
MaySkip(s) == s \in {"census", "property"}

(* Mutant: a partial source does not degrade the request.                  *)
PartialCountsAsComplete(rows) ==
  LET present == {s \in DOMAIN rows : rows[s] # "none"}
      failed  == {s \in present : rows[s] = "failed"}
  IN  IF failed = {} THEN "complete"
      ELSE IF failed = present THEN "failed" ELSE "partial"

(***************************************************************************)
(* aggregate_request_status over a request's task rows.  Rows that are not *)
(* failed or partial, the open ones included, count as not degraded.       *)
(***************************************************************************)
AggregateRequestStatus(rows) ==
  LET present  == {s \in DOMAIN rows : rows[s] # "none"}
      failed   == {s \in present : rows[s] = "failed"}
      degraded == {s \in present : rows[s] \in {"failed", "partial"}}
  IN  IF present # {} /\ failed = present THEN "failed"
      ELSE IF degraded # {} THEN "partial"
      ELSE "complete"

(* The in-flight cap an origin may fill: user traffic gets all of it, the  *)
(* others leave a reserve, which is clamped at the cap.                    *)
EffectiveCap(cap, reserve, origin) ==
  IF origin = "user" THEN cap
  ELSE IF reserve <= cap THEN cap - reserve ELSE 0

=============================================================================
