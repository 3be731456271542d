------------------------ MODULE MCTimelineLifecycle ------------------------
(* TLC instances of TimelineLifecycle.                                     *)
EXTENDS TimelineLifecycle, TLC

CONSTANTS p1, p2, w1, w2, c1, c2

(* Of the six sources, census, or census and property: a parcel without a  *)
(* tract and a county is eligible for neither, and a run of it has nothing *)
(* between its claim and its verdict.                                      *)
MCParcels == {p1}
OneSource == {"census"}
NotEligible == [p \in {p1} |-> {}]
EligibleOne == [p \in {p1} |-> OneSource]

MCTwoParcels == {p1, p2}
TwoSources == {"census", "property"}
EligibleTwo == p1 :> {} @@ p2 :> TwoSources

MCSymmetry == Permutations({w1, w2}) \cup Permutations({c1, c2})

-----------------------------------------------------------------------------
(* A behaviour is one of two studies.  Nothing is lost, and two callers    *)
(* race for full requests of p1; or a process may be lost, and p2 has one  *)
(* request.                                                                *)
Only(p) ==
  /\ \A r \in Requests : parcel[r] \in {p, NoParcel}
  /\ \A c \in Callers : call[c].parcel \in {p, NoParcel}
Creation ==
  /\ Only(p1)
  /\ \A c \in Callers : call[c].scope \in {{}, Sources}
  /\ losses = 0
Verdict ==
  /\ Only(p2)
  /\ Cardinality({c \in Callers : call[c].pc # "idle"}) <= 1
  /\ \A r \in Requests : r > 1 => status[r] = "none"

StudySpec == Init /\ [][Next /\ (Creation' \/ Verdict')]_vars

=============================================================================
