--------------------------- MODULE ServedTimeline ---------------------------
(***************************************************************************)
(* What a source run promises, with no searches, sessions or crashes: the  *)
(* scenes a parcel serves and the verdicts of the ledger change together.  *)
(* A run publishes in one step: a group it calls `ok' is served afterwards,*)
(* only a group it calls `suppressed' may stop being served, and every     *)
(* other group is left exactly as it was, whatever went wrong with it.     *)
(***************************************************************************)
CONSTANTS
  Runs,     (* source tasks, one per request          *)
  Groups,   (* the periods of the source              *)
  Scenes,   (* what may be served for a group         *)
  Nothing   (* no scene served, or no verdict yet     *)

VARIABLES
  served,   (* served[g]: the scene shown for group g *)
  verdict   (* verdict[r][g]: run r's ledger row      *)

Outcomes == {"ok", "failed", "absent", "suppressed", "indeterminate"}
Verdicts == [Groups -> Outcomes \cup {Nothing}]
Blank == [g \in Groups |-> Nothing]

Init ==
  /\ served = Blank
  /\ verdict = [r \in Runs |-> Blank]

(* The verdict of a group decides what may have happened to its scene.     *)
Justified(g, outcome) ==
  CASE outcome = "ok"         -> served'[g] \in Scenes
    [] outcome = "suppressed" -> served'[g] \in {served[g], Nothing}
    [] OTHER                  -> served'[g] = served[g]

Publish(r) ==
  \E v \in Verdicts :
    /\ verdict' = [verdict EXCEPT ![r] = v]
    /\ served' \in [Groups -> Scenes \cup {Nothing}]
    /\ \A g \in Groups : Justified(g, v[g])

(* A verdict may be added or restated later, but none becomes or stops     *)
(* being `ok' without a publication.                                       *)
Restate(r) ==
  /\ \E v \in Verdicts :
       /\ verdict' = [verdict EXCEPT ![r] = v]
       /\ \A g \in Groups : v[g] = "ok" <=> verdict[r][g] = "ok"
  /\ UNCHANGED served

(* A new attempt of the same run starts from an empty ledger.              *)
Forget(r) ==
  /\ verdict' = [verdict EXCEPT ![r] = Blank]
  /\ UNCHANGED served

Next == \E r \in Runs : Publish(r) \/ Restate(r) \/ Forget(r)

Spec == Init /\ [][Next]_<<served, verdict>>

=============================================================================
