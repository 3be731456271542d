---------------------------- MODULE RequestBoard ----------------------------
(***************************************************************************)
(* What the lifecycle of requests promises, with no threads, broker, task  *)
(* rows, clocks or crashes: a board of requests on which one request of a  *)
(* parcel is open at a time and an open or closed one is executed by at    *)
(* most one run.  Only the run that executes a request can call it         *)
(* complete or partial; anybody else who writes to it can only fail it.    *)
(* Nothing is taken off the board, moved to another parcel, given another  *)
(* scope or queued again.                                                  *)
(***************************************************************************)
EXTENDS TimelineStatus

CONSTANTS
  Requests,   (* request ids in creation order                             *)
  Parcels,    (* parcels that are visited                                  *)
  Sources,    (* the sources a request may declare                         *)
  NoParcel    (* parcel of an unused request id                            *)

VARIABLES
  status,     (* status[r]: "none" until the request is created            *)
  parcel,     (* parcel[r]: its parcel                                     *)
  declared,   (* declared[r]: its declared scope                           *)
  executing   (* requests that a run has begun and neither ended nor left  *)

boardVars == <<status, parcel, declared, executing>>

Init ==
  /\ status = [r \in Requests |-> "none"]
  /\ parcel = [r \in Requests |-> NoParcel]
  /\ declared = [r \in Requests |-> {}]
  /\ executing = {}

Open(r) == status[r] \in InflightStatuses
OthersClosed(r, p) ==
  \A q \in Requests : parcel[q] = p /\ Open(q) => q = r

(* The next request, of a parcel that has none open.                       *)
Create(r, p, scope) ==
  /\ status[r] = "none"
  /\ \A q \in Requests : q < r => status[q] # "none"
  /\ OthersClosed(r, p)
  /\ status' = [status EXCEPT ![r] = "queued"]
  /\ parcel' = [parcel EXCEPT ![r] = p]
  /\ declared' = [declared EXCEPT ![r] = scope]
  /\ UNCHANGED executing

(* A run takes a request, also one that was closed before; it must not     *)
(* stand beside another open request of the parcel.                        *)
Begin(r) ==
  /\ status[r] # "none"
  /\ r \notin executing
  /\ OthersClosed(r, parcel[r])
  /\ status' = [status EXCEPT ![r] = "processing"]
  /\ executing' = executing \cup {r}
  /\ UNCHANGED <<parcel, declared>>

(* The run that executes a request gives its verdict, and is done with it. *)
Conclude(r) ==
  /\ r \in executing
  /\ \E verdict \in TerminalRequestStatuses :
       status' = [status EXCEPT ![r] = verdict]
  /\ executing' = executing \ {r}
  /\ UNCHANGED <<parcel, declared>>

(* The run ends without a verdict: an error, a time limit, a lost process. *)
Leave(r) ==
  /\ r \in executing
  /\ executing' = executing \ {r}
  /\ UNCHANGED <<status, parcel, declared>>

(* Somebody fails one request: a visit that took it over, a dispatch that  *)
(* was refused, the handler of a run that raised.                          *)
Fail(r) ==
  /\ status[r] # "none"
  /\ status' = [status EXCEPT ![r] = "failed"]
  /\ UNCHANGED <<parcel, declared, executing>>

(* The janitor fails open requests, whichever it takes for lost.           *)
FailOpen(lost) ==
  /\ UNCHANGED <<parcel, declared, executing>>
  /\ \A r \in lost : Open(r)
  /\ status' = [r \in Requests |-> IF r \in lost THEN "failed" ELSE status[r]]

Next ==
  \/ \E lost \in SUBSET Requests : FailOpen(lost)
  \/ \E r \in Requests : Leave(r) \/ Fail(r) \/ Begin(r) \/ Conclude(r)
  \/ \E r \in Requests, p \in Parcels, scope \in SUBSET Sources :
       Create(r, p, scope)

Spec == Init /\ [][Next]_boardVars

=============================================================================
