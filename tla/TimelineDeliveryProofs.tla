----------------------- MODULE TimelineDeliveryProofs -----------------------
(***************************************************************************)
(* The delivery invariants of TimelineLifecycle hold for every set of      *)
(* parcels, workers and callers: no request is executed twice at once, a   *)
(* parcel has one request in flight, and an in-flight request has an owner;*)
(* and until a process is lost, no live run looks stale.                   *)
(*                                                                         *)
(* DeliveryInv is inductive.  Most actions are quiet: they touch neither   *)
(* the broker nor the ownership of any request.  The others are treated    *)
(* one by one, conjunct by conjunct.                                       *)
(***************************************************************************)
EXTENDS TimelineLifecycleProofs

(* What a quiet step does not disturb.                                     *)
Quiet ==
  /\ msg' = msg /\ held' = held /\ stranded' = stranded
  /\ \A x \in Workers :
       Busy(x)' => /\ Busy(x)
                   /\ run'[x].req = run[x].req
                   /\ run'[x].elapsed = run[x].elapsed
                   /\ run'[x].pc = "ack" => run[x].pc = "ack"
  /\ \A c \in Callers :
       /\ call[c].pc \in {"dispatch", "undispatched"} => call'[c] = call[c]
       /\ call'[c].pc = "dispatch" => call'[c] = call[c]
  /\ \A r \in Requests : /\ parcel'[r] = parcel[r]
                         /\ Inflight(r)' => Inflight(r)
                         /\ status[r] # "none" => status'[r] # "none"

LEMMA QuietPreserves ==
  ASSUME DeliveryInv, TypeInv', Quiet
  PROVE  DeliveryInv'
<1>1. TypeOK' /\ RefsOK'
  BY DEF TypeInv
<1>2. NoDuplicateExecution'
  BY DEF DeliveryInv, Quiet, NoDuplicateExecution
<1>3. RunHoldsMessage'
  BY DEF DeliveryInv, Quiet, RunHoldsMessage
<1>4. DispatchesOnce'
  BY <1>1 DEF DeliveryInv, Quiet, DispatchesOnce, RefsOK
<1>5. CreatedBeforeSent'
  BY DEF DeliveryInv, Quiet, CreatedBeforeSent
<1>6. VerdictBeforeAck'
  <2> SUFFICES ASSUME NEW w \in Workers, run'[w].pc = "ack"
               PROVE  (~Inflight(run[w].req) \/ run[w].req \in stranded)'
    BY DEF VerdictBeforeAck
  <2>1. Busy(w)'
    BY DEF Busy
  <2>2. run[w].pc = "ack" /\ run'[w].req = run[w].req /\ Busy(w)
    BY <2>1 DEF Quiet
  <2>3. run[w].req \in Requests
    BY <2>2 DEF DeliveryInv, RefsOK
  <2>4. QED
    BY <2>2, <2>3 DEF DeliveryInv, VerdictBeforeAck, Quiet, Inflight
<1>7. InflightHasOwner'
  BY DEF DeliveryInv, Quiet, InflightHasOwner
<1>8. OneInflightPerParcel'
  BY DEF DeliveryInv, Quiet, OneInflightPerParcel, InflightOf
<1>9. QED
  BY <1>1, <1>2, <1>3, <1>4, <1>5, <1>6, <1>7, <1>8 DEF DeliveryInv

-----------------------------------------------------------------------------
(* The quiet actions.                                                      *)

(* Ending a request's life, or leaving it, puts nothing in flight.         *)
LEMMA SetTerminalQuiet ==
  ASSUME TypeOK, NEW r \in Requests, NEW s \in TerminalRequestStatuses,
         SetStatus(r, s)
  PROVE  \A q \in Requests : /\ parcel'[q] = parcel[q]
                             /\ Inflight(q)' => Inflight(q) /\ q # r
                             /\ status[q] # "none" => status'[q] # "none"
  BY DEF TypeOK, SetStatus, TerminalRequestStatuses, Inflight,
     InflightStatuses

LEMMA CallerQuiet ==
  ASSUME TypeInv, NEW c \in Callers,
         \/ TakeOver(c) \/ Admit(c) \/ Refuse(c) \/ LoseInsertRace(c)
         \/ \E p \in Parcels : Visit(c, p)
  PROVE  Quiet
<1>1. CASE TakeOver(c)
  <2>1. call[c].req \in Requests
    BY <1>1 DEF TakeOver, TypeInv, RefsOK
  <2>2. \A q \in Requests : /\ parcel'[q] = parcel[q]
                            /\ Inflight(q)' => Inflight(q)
                            /\ status[q] # "none" => status'[q] # "none"
    BY <1>1, <2>1, SetTerminalQuiet
       DEF TakeOver, TypeInv, TerminalRequestStatuses
  <2>3. QED
    BY <1>1, <2>2 DEF TakeOver, GoTo, Quiet, Busy, TypeInv, TypeOK
<1>2. CASE Admit(c)
  BY <1>2 DEF Admit, GoTo, requestVars, Quiet, Busy, Inflight, TypeInv, TypeOK
<1>3. CASE Refuse(c)
  BY <1>3 DEF Refuse, Return, IdleCall, requestVars, Quiet, Busy, Inflight,
     TypeInv, TypeOK
<1>4. CASE LoseInsertRace(c)
  BY <1>4 DEF LoseInsertRace, Return, IdleCall, requestVars, Quiet, Busy,
     Inflight, TypeInv, TypeOK
<1>5. ASSUME NEW p \in Parcels, VisitFirst(c, p)
      PROVE  Quiet
  BY <1>5 DEF VisitFirst, BeginCreate, requestVars, Quiet, Busy, Inflight,
     TypeInv, TypeOK
<1>6. ASSUME NEW p \in Parcels, VisitStale(c, p)
      PROVE  Quiet
  BY <1>6 DEF VisitStale, requestVars, Quiet, Busy, Inflight, TypeInv, TypeOK
<1>7. ASSUME NEW p \in Parcels, VisitRefetch(c, p)
      PROVE  Quiet
  BY <1>7 DEF VisitRefetch, BeginCreate, requestVars, Quiet, Busy, Inflight,
     TypeInv, TypeOK
<1>8. QED
  BY <1>1, <1>2, <1>3, <1>4, <1>5, <1>6, <1>7 DEF Visit

LEMMA WorkerQuiet ==
  ASSUME TypeInv, NEW w \in Workers,
         \/ ClaimConflicts(w) \/ CreateRequestTasks(w) \/ RunRaises(w)
         \/ \E s \in Sources : \/ StartSource(w, s) \/ FinishSource(w, s)
                               \/ SkipSource(w, s) \/ LoseSource(w, s)
         \/ Fold(w) \/ SoftTimeout(w) \/ MachineLost(w) \/ BootStep(w)
  PROVE  Quiet
<1>1. CASE ClaimConflicts(w)
  BY <1>1 DEF ClaimConflicts, RunTo, requestVars, Quiet, Busy, Inflight,
     TypeInv, TypeOK
<1>2. CASE CreateRequestTasks(w)
  BY <1>2 DEF CreateRequestTasks, RunTo, requestVars, Quiet, Busy, Inflight,
     TypeInv, TypeOK
<1>3. CASE RunRaises(w)
  BY <1>3 DEF RunRaises, LivePcs, RunTo, requestVars, Quiet, Busy, Inflight,
     TypeInv, TypeOK
<1>4. ASSUME NEW s \in Sources, StartSource(w, s)
      PROVE  Quiet
  BY <1>4 DEF StartSource, SetTask, requestVars, Quiet, Busy, Inflight,
     TypeInv, TypeOK
<1>5. ASSUME NEW s \in Sources, FinishSource(w, s)
      PROVE  Quiet
  BY <1>5 DEF FinishSource, SetTask, requestVars, Quiet, Busy, Inflight,
     TypeInv, TypeOK
<1>6. ASSUME NEW s \in Sources, SkipSource(w, s)
      PROVE  Quiet
  BY <1>6 DEF SkipSource, SetTask, requestVars, Quiet, Busy, Inflight,
     TypeInv, TypeOK
<1>7. ASSUME NEW s \in Sources, LoseSource(w, s)
      PROVE  Quiet
  BY <1>7 DEF LoseSource, requestVars, Quiet, Busy, Inflight, TypeInv, TypeOK
<1>8. CASE SoftTimeout(w)
  BY <1>8 DEF SoftTimeout, LivePcs, RunTo, requestVars, Quiet, Busy, Inflight,
     TypeInv, TypeOK
<1>9. CASE MachineLost(w)
  BY <1>9 DEF MachineLost, IdleRun, requestVars, Quiet, Busy, Inflight,
     TypeInv, TypeOK
<1>10. CASE Fold(w)
  <2>1. PICK verdict \in TerminalRequestStatuses :
          run' = [run EXCEPT ![w].pc = "verdict", ![w].verdict = verdict]
    BY <1>10, AggregateTerminal DEF Fold
  <2>2. QED
    BY <1>10, <2>1 DEF Fold, requestVars, Quiet, Busy, Inflight, RunType,
       TypeInv, TypeOK
<1>11. CASE SweepReads(w)
  <2>1. PICK sweep : run' = [run EXCEPT ![w].pc = "sweeping",
                                        ![w].sweep = sweep]
    BY <1>11 DEF SweepReads
  <2>2. QED
    BY <1>11, <2>1 DEF SweepReads, requestVars, Quiet, Busy, Inflight,
       RunType, TypeInv, TypeOK
<1>12. CASE SweepCommits(w)
  <2>1. \A x \in Workers :
          IF x = w THEN run'[x].pc = "idle"
          ELSE /\ run'[x].pc = run[x].pc /\ run'[x].req = run[x].req
               /\ run'[x].elapsed = run[x].elapsed
    BY <1>12 DEF SweepCommits, IdleRun, RunType, TypeInv, TypeOK
  <2>2. \A r \in Requests : /\ Inflight(r)' => Inflight(r)
                            /\ status[r] # "none" => status'[r] # "none"
    BY <1>12 DEF SweepCommits, Inflight, InflightStatuses
  <2>3. QED
    BY <1>12, <2>1, <2>2 DEF SweepCommits, Quiet, Busy
<1>13. CASE BootUnswept(w)
  BY <1>13 DEF BootUnswept, IdleRun, requestVars, Quiet, Busy, Inflight,
     TypeInv, TypeOK
<1>14. QED
  BY <1>1, <1>2, <1>3, <1>4, <1>5, <1>6, <1>7, <1>8, <1>9, <1>10, <1>11,
     <1>12, <1>13 DEF BootStep

-----------------------------------------------------------------------------
(* The loud actions of callers.                                            *)

(* The new request is owned by its caller, and by nobody before.           *)
LEMMA InsertDelivers ==
  ASSUME DeliveryInv, TypeInv', NEW c \in Callers, Insert(c)
  PROVE  DeliveryInv'
<1>1. TypeOK' /\ RefsOK'
  BY DEF TypeInv
<1>2. PICK r \in Requests :
          /\ status[r] = "none"
          /\ status' = [status EXCEPT ![r] = "queued"]
          /\ parcel' = [parcel EXCEPT ![r] = call[c].parcel]
          /\ call' = [call EXCEPT ![c] = [@ EXCEPT !.pc = "dispatch",
                                                !.req = r]]
  BY DEF Insert
<1>3. msg[r] = "unsent" /\ msg' = msg /\ held' = held /\ run' = run
      /\ stranded' = stranded /\ InflightOf(call[c].parcel) = {}
      /\ call[c].pc = "insert"
  BY <1>2 DEF Insert, DeliveryInv, CreatedBeforeSent
<1>4. call'[c].pc = "dispatch" /\ call'[c].req = r
  BY <1>2 DEF DeliveryInv, TypeOK, CallType
<1>5. \A q \in Requests : q # r => status'[q] = status[q]
                                /\ parcel'[q] = parcel[q]
  BY <1>2 DEF DeliveryInv, TypeOK
<1>6. status'[r] = "queued" /\ parcel'[r] = call[c].parcel
  BY <1>2 DEF DeliveryInv, TypeOK
<1>7. \A d \in Callers : d # c => call'[d] = call[d]
  BY <1>2 DEF DeliveryInv, TypeOK
<1>8. NoDuplicateExecution'
  BY <1>2, <1>3, <1>4, <1>5, <1>6, <1>7 DEF RefsOK, NoDuplicateExecution,
     Busy, DeliveryInv, TypeOK
<1>9. RunHoldsMessage'
  BY <1>2, <1>3, <1>4, <1>5, <1>6, <1>7 DEF RefsOK, RunHoldsMessage, Busy,
     NoDuplicateExecution, DeliveryInv, TypeOK
<1>10. DispatchesOnce'
  BY <1>2, <1>3, <1>4, <1>5, <1>6, <1>7 DEF RefsOK, DispatchesOnce,
     DeliveryInv, TypeOK
<1>11. CreatedBeforeSent'
  BY <1>2, <1>3, <1>4, <1>5, <1>6, <1>7 DEF RefsOK, CreatedBeforeSent,
     DeliveryInv, TypeOK
<1>12. VerdictBeforeAck'
  BY <1>2, <1>3, <1>4, <1>5, <1>6, <1>7 DEF RefsOK, VerdictBeforeAck,
     Inflight, Busy, DeliveryInv, TypeOK, RunHoldsMessage
<1>13. InflightHasOwner'
  BY <1>2, <1>3, <1>4, <1>5, <1>6, <1>7 DEF RefsOK, InflightHasOwner,
     Inflight, DeliveryInv, TypeOK
<1>14. OneInflightPerParcel'
  BY <1>2, <1>3, <1>4, <1>5, <1>6, <1>7 DEF RefsOK, OneInflightPerParcel,
     InflightOf, Inflight, DeliveryInv, TypeOK
<1>15. QED
  BY <1>1, <1>8, <1>9, <1>10, <1>11, <1>12, <1>13, <1>14 DEF DeliveryInv

(* Publishing hands the request from its caller to the broker.             *)
LEMMA DispatchDelivers ==
  ASSUME DeliveryInv, TypeInv', NEW c \in Callers, Dispatch(c)
  PROVE  DeliveryInv'
<1>1. TypeOK' /\ RefsOK'
  BY DEF TypeInv
<1>2. call[c].req \in Requests /\ msg[call[c].req] = "unsent"
  BY DEF Dispatch, DeliveryInv, RefsOK, DispatchesOnce
<1>3. \A d \in Callers : IF d = c THEN call'[d] = IdleCall
                                   ELSE call'[d] = call[d]
  BY DEF Dispatch, Return, DeliveryInv, TypeOK
<1>4. msg'[call[c].req] = "ready" /\ \A q \in Requests :
        q # call[c].req => msg'[q] = msg[q]
  BY <1>2 DEF Dispatch, DeliveryInv, TypeOK
<1>5. \A d \in Callers : call'[d].pc = "dispatch" =>
                            d # c /\ call'[d] = call[d]
  BY <1>3 DEF IdleCall
<1>6. \A q \in Requests : status[q] # "none" => status'[q] # "none"
  BY DEF Dispatch, requestVars
<1>7. NoDuplicateExecution'
  BY <1>2, <1>3, <1>4, <1>5, <1>6 DEF Dispatch, requestVars, IdleCall,
     RefsOK, NoDuplicateExecution, Busy, DeliveryInv, TypeOK
<1>8. RunHoldsMessage'
  BY <1>2, <1>3, <1>4, <1>5, <1>6 DEF Dispatch, requestVars, IdleCall,
     RefsOK, RunHoldsMessage, Busy, NoDuplicateExecution, DeliveryInv,
     TypeOK
<1>9. DispatchesOnce'
  BY <1>2, <1>4, <1>5, <1>6 DEF Dispatch, DispatchesOnce, RefsOK, DeliveryInv
<1>10. CreatedBeforeSent'
  BY <1>2, <1>3, <1>4, <1>5, <1>6 DEF Dispatch, requestVars, IdleCall,
     RefsOK, CreatedBeforeSent, DeliveryInv, TypeOK, DispatchesOnce
<1>11. VerdictBeforeAck'
  BY <1>2, <1>3, <1>4, <1>5, <1>6 DEF Dispatch, requestVars, IdleCall,
     RefsOK, VerdictBeforeAck, Inflight, Busy, DeliveryInv, TypeOK
<1>12. InflightHasOwner'
  BY <1>2, <1>3, <1>4, <1>5, <1>6 DEF Dispatch, requestVars, IdleCall,
     RefsOK, InflightHasOwner, Inflight, DeliveryInv, TypeOK
<1>13. OneInflightPerParcel'
  BY <1>2, <1>3, <1>4, <1>5, <1>6 DEF Dispatch, requestVars, IdleCall,
     RefsOK, OneInflightPerParcel, InflightOf, Inflight, DeliveryInv, TypeOK
<1>14. QED
  BY <1>1, <1>7, <1>8, <1>9, <1>10, <1>11, <1>12, <1>13 DEF DeliveryInv

(* A failed publication leaves the request with its caller.                *)
LEMMA DispatchRaisesDelivers ==
  ASSUME DeliveryInv, TypeInv', NEW c \in Callers, DispatchRaises(c)
  PROVE  DeliveryInv'
<1>1. TypeOK' /\ RefsOK'
  BY DEF TypeInv
<1>2. call[c].req \in Requests /\ msg[call[c].req] = "unsent"
  BY DEF DispatchRaises, DeliveryInv, RefsOK, DispatchesOnce
<1>3. /\ call'[c].pc = "undispatched" /\ call'[c].req = call[c].req
      /\ \A d \in Callers : d # c => call'[d] = call[d]
  BY DEF DispatchRaises, GoTo, DeliveryInv, TypeOK, CallType
<1>4. msg'[call[c].req] \in {"unsent", "ready"} /\ \A q \in Requests :
        q # call[c].req => msg'[q] = msg[q]
  BY <1>2 DEF DispatchRaises, DeliveryInv, TypeOK
<1>5. \A d \in Callers : call'[d].pc = "dispatch" =>
                            d # c /\ call'[d] = call[d]
  BY <1>3
<1>6. \A q \in Requests : status[q] # "none" => status'[q] # "none"
  BY DEF DispatchRaises, requestVars
<1>7. NoDuplicateExecution'
  BY <1>2, <1>3, <1>4, <1>5, <1>6 DEF DispatchRaises, requestVars, RefsOK,
     NoDuplicateExecution, Busy, DeliveryInv, TypeOK
<1>8. RunHoldsMessage'
  BY <1>2, <1>3, <1>4, <1>5, <1>6 DEF DispatchRaises, requestVars, RefsOK,
     RunHoldsMessage, Busy, NoDuplicateExecution, DeliveryInv, TypeOK
<1>9. DispatchesOnce'
  BY <1>2, <1>4, <1>5, <1>6 DEF DispatchRaises, DispatchesOnce, RefsOK,
     DeliveryInv
<1>10. CreatedBeforeSent'
  BY <1>2, <1>3, <1>4, <1>5, <1>6 DEF DispatchRaises, requestVars, RefsOK,
     CreatedBeforeSent, DeliveryInv, TypeOK, DispatchesOnce
<1>11. VerdictBeforeAck'
  BY <1>2, <1>3, <1>4, <1>5, <1>6 DEF DispatchRaises, requestVars, RefsOK,
     VerdictBeforeAck, Inflight, Busy, DeliveryInv, TypeOK
<1>12. InflightHasOwner'
  <2> SUFFICES ASSUME NEW q \in Requests, Inflight(q)'
               PROVE  (\/ msg[q] \in {"ready", "unacked"}
                       \/ \E d \in Callers :
                            /\ call[d].req = q
                            /\ call[d].pc \in {"dispatch", "undispatched"}
                       \/ q \in stranded)'
    BY DEF InflightHasOwner
  <2>1. Inflight(q) /\ stranded' = stranded
    BY DEF DispatchRaises, requestVars, Inflight
  <2>2. CASE q = call[c].req
    BY <1>3, <2>2
  <2>3. CASE q # call[c].req
    BY <1>3, <1>4, <2>1, <2>3 DEF DeliveryInv, InflightHasOwner
  <2>4. QED
    BY <2>2, <2>3
<1>13. OneInflightPerParcel'
  BY <1>2, <1>3, <1>4, <1>5, <1>6 DEF DispatchRaises, requestVars, RefsOK,
     OneInflightPerParcel, InflightOf, Inflight, DeliveryInv, TypeOK
<1>14. QED
  BY <1>1, <1>7, <1>8, <1>9, <1>10, <1>11, <1>12, <1>13 DEF DeliveryInv

(* The caller lets go of a request it has just failed.                     *)
LEMMA MarkUndispatchedDelivers ==
  ASSUME DeliveryInv, TypeInv', NEW c \in Callers, MarkUndispatched(c)
  PROVE  DeliveryInv'
<1>1. TypeOK' /\ RefsOK'
  BY DEF TypeInv
<1>2. call[c].req \in Requests
  BY DEF MarkUndispatched, DeliveryInv, RefsOK
<1>3. \A q \in Requests : /\ parcel'[q] = parcel[q]
                          /\ Inflight(q)' => Inflight(q) /\ q # call[c].req
                          /\ status[q] # "none" => status'[q] # "none"
  BY <1>2, SetTerminalQuiet
     DEF MarkUndispatched, DeliveryInv, TerminalRequestStatuses
<1>4. \A d \in Callers : IF d = c THEN call'[d] = IdleCall
                                   ELSE call'[d] = call[d]
  BY DEF MarkUndispatched, Return, DeliveryInv, TypeOK
<1>5. \A d \in Callers : call'[d].pc = "dispatch" =>
                            d # c /\ call'[d] = call[d]
  BY <1>4 DEF IdleCall
<1>6. msg' = msg
  BY DEF MarkUndispatched
<1>7. NoDuplicateExecution'
  BY <1>2, <1>3, <1>4, <1>5, <1>6 DEF MarkUndispatched, IdleCall, RefsOK,
     NoDuplicateExecution, Busy, DeliveryInv, TypeOK
<1>8. RunHoldsMessage'
  BY <1>2, <1>3, <1>4, <1>5, <1>6 DEF MarkUndispatched, IdleCall, RefsOK,
     RunHoldsMessage, Busy, NoDuplicateExecution, DeliveryInv, TypeOK
<1>9. DispatchesOnce'
  BY <1>3, <1>5, <1>6 DEF DispatchesOnce, RefsOK, DeliveryInv
<1>10. CreatedBeforeSent'
  BY <1>2, <1>3, <1>4, <1>5, <1>6 DEF MarkUndispatched, IdleCall, RefsOK,
     CreatedBeforeSent, DeliveryInv, TypeOK
<1>11. VerdictBeforeAck'
  BY <1>2, <1>3, <1>4, <1>5, <1>6 DEF MarkUndispatched, IdleCall, RefsOK,
     VerdictBeforeAck, Inflight, Busy, DeliveryInv, TypeOK
<1>12. InflightHasOwner'
  BY <1>2, <1>3, <1>4, <1>5, <1>6 DEF MarkUndispatched, IdleCall, RefsOK,
     InflightHasOwner, Inflight, DeliveryInv, TypeOK
<1>13. OneInflightPerParcel'
  BY <1>2, <1>3, <1>4, <1>5, <1>6 DEF MarkUndispatched, IdleCall, RefsOK,
     OneInflightPerParcel, InflightOf, Inflight, DeliveryInv, TypeOK
<1>14. QED
  BY <1>1, <1>7, <1>8, <1>9, <1>10, <1>11, <1>12, <1>13 DEF DeliveryInv

(* A caller that dies strands what it had not dispatched.                  *)
LEMMA CallerDiesDelivers ==
  ASSUME DeliveryInv, TypeInv', NEW c \in Callers, CallerDies(c)
  PROVE  DeliveryInv'
<1>1. TypeOK' /\ RefsOK'
  BY DEF TypeInv
<1>2. \A d \in Callers : IF d = c THEN call'[d] = IdleCall
                                   ELSE call'[d] = call[d]
  BY DEF CallerDies, Return, DeliveryInv, TypeOK
<1>3. \A d \in Callers : call'[d].pc = "dispatch" =>
                            d # c /\ call'[d] = call[d]
  BY <1>2 DEF IdleCall
<1>4. msg' = msg /\ status' = status
  BY DEF CallerDies, requestVars
<1>5. NoDuplicateExecution'
  BY <1>2, <1>3, <1>4 DEF CallerDies, requestVars, IdleCall, RefsOK,
     NoDuplicateExecution, Busy, DeliveryInv, TypeOK
<1>6. RunHoldsMessage'
  BY <1>2, <1>3, <1>4 DEF CallerDies, requestVars, IdleCall, RefsOK,
     RunHoldsMessage, Busy, NoDuplicateExecution, DeliveryInv, TypeOK
<1>7. DispatchesOnce'
  BY <1>3, <1>4 DEF DispatchesOnce, DeliveryInv
<1>8. CreatedBeforeSent'
  BY <1>2, <1>3, <1>4 DEF CallerDies, requestVars, IdleCall, RefsOK,
     CreatedBeforeSent, DeliveryInv, TypeOK
<1>9. VerdictBeforeAck'
  BY <1>2, <1>3, <1>4 DEF CallerDies, requestVars, IdleCall, RefsOK,
     VerdictBeforeAck, Inflight, Busy, DeliveryInv, TypeOK
<1>10. InflightHasOwner'
  BY <1>2, <1>3, <1>4 DEF CallerDies, requestVars, IdleCall, RefsOK,
     InflightHasOwner, Inflight, DeliveryInv, TypeOK
<1>11. OneInflightPerParcel'
  BY <1>2, <1>3, <1>4 DEF CallerDies, requestVars, IdleCall, RefsOK,
     OneInflightPerParcel, InflightOf, Inflight, DeliveryInv, TypeOK
<1>12. QED
  BY <1>1, <1>5, <1>6, <1>7, <1>8, <1>9, <1>10, <1>11 DEF DeliveryInv

-----------------------------------------------------------------------------
(* The loud actions of workers, of the broker and of the clock.            *)

(* No busy worker holds a request whose message is ready.                  *)
LEMMA DeliverDelivers ==
  ASSUME DeliveryInv, TypeInv', NEW w \in Workers, NEW r \in Requests,
         Deliver(w, r)
  PROVE  DeliveryInv'
<1>1. TypeOK' /\ RefsOK'
  BY DEF TypeInv
<1>2. /\ run'[w].pc = "claim" /\ run'[w].req = r /\ run'[w].elapsed = 0
      /\ \A x \in Workers : x # w => run'[x] = run[x]
  BY DEF Deliver, IdleRun, DeliveryInv, TypeOK
<1>3. /\ msg'[r] = "unacked" /\ held'[r] = 0
      /\ \A q \in Requests : q # r => msg'[q] = msg[q] /\ held'[q] = held[q]
  BY DEF Deliver, DeliveryInv, TypeOK
<1>4. \A x \in Workers : Busy(x) => run[x].req # r /\ run[x].req \in Requests
  BY DEF Deliver, DeliveryInv, RunHoldsMessage, RefsOK
<1>5. NoDuplicateExecution'
  BY <1>2, <1>3, <1>4 DEF Deliver, requestVars, RefsOK,
     NoDuplicateExecution, Busy, DeliveryInv, TypeOK
<1>6. RunHoldsMessage'
  BY <1>2, <1>3, <1>4 DEF Deliver, requestVars, RefsOK, RunHoldsMessage,
     Busy, NoDuplicateExecution, DeliveryInv, TypeOK
<1>7. DispatchesOnce'
  BY <1>2, <1>3, <1>4 DEF Deliver, requestVars, RefsOK, DispatchesOnce,
     DeliveryInv, TypeOK
<1>8. CreatedBeforeSent'
  BY <1>2, <1>3, <1>4 DEF Deliver, requestVars, RefsOK, CreatedBeforeSent,
     DeliveryInv, TypeOK
<1>9. VerdictBeforeAck'
  BY <1>2, <1>3, <1>4 DEF Deliver, requestVars, RefsOK, VerdictBeforeAck,
     Inflight, Busy, DeliveryInv, TypeOK
<1>10. InflightHasOwner'
  BY <1>2, <1>3, <1>4 DEF Deliver, requestVars, RefsOK, InflightHasOwner,
     Inflight, DeliveryInv, TypeOK
<1>11. OneInflightPerParcel'
  BY <1>2, <1>3, <1>4 DEF Deliver, requestVars, RefsOK,
     OneInflightPerParcel, InflightOf, Inflight, DeliveryInv, TypeOK
<1>12. QED
  BY <1>1, <1>5, <1>6, <1>7, <1>8, <1>9, <1>10, <1>11 DEF DeliveryInv

(* A claim puts in flight only a request that its worker holds.            *)
LEMMA ClaimDelivers ==
  ASSUME DeliveryInv, TypeInv', NEW w \in Workers, Claim(w)
  PROVE  DeliveryInv'
<1>1. TypeOK' /\ RefsOK'
  BY DEF TypeInv
<1>2. run[w].req \in Requests /\ Busy(w)
  BY DEF Claim, DeliveryInv, RefsOK, Busy
<1>3. \A x \in Workers : /\ Busy(x)' <=> Busy(x)
                         /\ run'[x].req = run[x].req
                         /\ run'[x].elapsed = run[x].elapsed
                         /\ run'[x].pc = "ack" => run[x].pc = "ack" /\ x # w
  BY DEF Claim, RunTo, Busy, DeliveryInv, TypeOK, RunType
<1>4. /\ status'[run[w].req] = "processing" /\ parcel' = parcel
      /\ \A q \in Requests : q # run[w].req => status'[q] = status[q]
  BY <1>2 DEF Claim, SetStatus, AgeAfterWrite, DeliveryInv, TypeOK
<1>5. msg[run[w].req] = "unacked"
  BY <1>2 DEF DeliveryInv, RunHoldsMessage
<1>6. NoDuplicateExecution'
  BY <1>2, <1>3, <1>4, <1>5 DEF Claim, RefsOK, SlotFree,
     NoDuplicateExecution, Busy, DeliveryInv, TypeOK
<1>7. RunHoldsMessage'
  BY <1>2, <1>3, <1>4, <1>5 DEF Claim, RefsOK, SlotFree, RunHoldsMessage,
     Busy, NoDuplicateExecution, DeliveryInv, TypeOK
<1>8. DispatchesOnce'
  BY <1>2, <1>3, <1>4, <1>5 DEF Claim, RefsOK, SlotFree, DispatchesOnce,
     DeliveryInv, TypeOK
<1>9. CreatedBeforeSent'
  BY <1>2, <1>3, <1>4, <1>5 DEF Claim, RefsOK, SlotFree, CreatedBeforeSent,
     DeliveryInv, TypeOK
<1>10. VerdictBeforeAck'
  BY <1>2, <1>3, <1>4, <1>5 DEF Claim, RefsOK, SlotFree, VerdictBeforeAck,
     Inflight, Busy, DeliveryInv, TypeOK, NoDuplicateExecution
<1>11. InflightHasOwner'
  BY <1>2, <1>3, <1>4, <1>5 DEF Claim, RefsOK, SlotFree, InflightHasOwner,
     Inflight, DeliveryInv, TypeOK
<1>12. OneInflightPerParcel'
  BY <1>2, <1>3, <1>4, <1>5 DEF Claim, RefsOK, SlotFree,
     OneInflightPerParcel, InflightOf, Inflight, DeliveryInv, TypeOK
<1>13. QED
  BY <1>1, <1>6, <1>7, <1>8, <1>9, <1>10, <1>11, <1>12 DEF DeliveryInv

(* The verdict is terminal.                                                *)
LEMMA ConcludeDelivers ==
  ASSUME DeliveryInv, TypeInv', NEW w \in Workers, Conclude(w)
  PROVE  DeliveryInv'
<1>1. TypeOK' /\ RefsOK'
  BY DEF TypeInv
<1>2. run[w].req \in Requests /\ Busy(w)
  BY DEF Conclude, DeliveryInv, RefsOK, Busy
<1>3. \A q \in Requests : /\ parcel'[q] = parcel[q]
                          /\ Inflight(q)' => Inflight(q) /\ q # run[w].req
                          /\ status[q] # "none" => status'[q] # "none"
  <2>1. run[w].verdict \in TerminalRequestStatuses
    BY DEF Conclude, DeliveryInv, RefsOK
  <2>2. QED
    BY <1>2, <2>1, SetTerminalQuiet DEF Conclude, DeliveryInv
<1>4. \A x \in Workers : /\ Busy(x)' <=> Busy(x)
                         /\ run'[x].req = run[x].req
                         /\ run'[x].elapsed = run[x].elapsed
                         /\ run'[x].pc = "ack" => run[x].pc = "ack" \/ x = w
  BY DEF Conclude, RunTo, Busy, DeliveryInv, TypeOK, RunType
<1>5. NoDuplicateExecution'
  BY <1>2, <1>3, <1>4 DEF Conclude, RefsOK, NoDuplicateExecution, Busy,
     DeliveryInv, TypeOK
<1>6. RunHoldsMessage'
  BY <1>2, <1>3, <1>4 DEF Conclude, RefsOK, RunHoldsMessage, Busy,
     NoDuplicateExecution, DeliveryInv, TypeOK
<1>7. DispatchesOnce'
  BY <1>2, <1>3, <1>4 DEF Conclude, RefsOK, DispatchesOnce, DeliveryInv,
     TypeOK
<1>8. CreatedBeforeSent'
  BY <1>2, <1>3, <1>4 DEF Conclude, RefsOK, CreatedBeforeSent, DeliveryInv,
     TypeOK
<1>9. VerdictBeforeAck'
  BY <1>2, <1>3, <1>4 DEF Conclude, RefsOK, VerdictBeforeAck, Inflight,
     Busy, DeliveryInv, TypeOK
<1>10. InflightHasOwner'
  BY <1>2, <1>3, <1>4 DEF Conclude, RefsOK, InflightHasOwner, Inflight,
     DeliveryInv, TypeOK
<1>11. OneInflightPerParcel'
  BY <1>2, <1>3, <1>4 DEF Conclude, RefsOK, OneInflightPerParcel,
     InflightOf, Inflight, DeliveryInv, TypeOK
<1>12. QED
  BY <1>1, <1>5, <1>6, <1>7, <1>8, <1>9, <1>10, <1>11 DEF DeliveryInv

(* A failed request is not in flight.                                      *)
LEMMA MarkFailedDelivers ==
  ASSUME DeliveryInv, TypeInv', NEW w \in Workers, MarkFailed(w)
  PROVE  DeliveryInv'
<1>1. TypeOK' /\ RefsOK'
  BY DEF TypeInv
<1>2. run[w].req \in Requests /\ Busy(w)
  BY DEF MarkFailed, DeliveryInv, RefsOK, Busy
<1>3. \A q \in Requests : /\ parcel'[q] = parcel[q]
                          /\ Inflight(q)' => Inflight(q) /\ q # run[w].req
                          /\ status[q] # "none" => status'[q] # "none"
  BY <1>2, SetTerminalQuiet
     DEF MarkFailed, DeliveryInv, TerminalRequestStatuses
<1>4. \A x \in Workers : /\ Busy(x)' <=> Busy(x)
                         /\ run'[x].req = run[x].req
                         /\ run'[x].elapsed = run[x].elapsed
                         /\ run'[x].pc = "ack" => run[x].pc = "ack" \/ x = w
  BY DEF MarkFailed, RunTo, Busy, DeliveryInv, TypeOK, RunType
<1>5. NoDuplicateExecution'
  BY <1>2, <1>3, <1>4 DEF MarkFailed, RefsOK, NoDuplicateExecution, Busy,
     DeliveryInv, TypeOK
<1>6. RunHoldsMessage'
  BY <1>2, <1>3, <1>4 DEF MarkFailed, RefsOK, RunHoldsMessage, Busy,
     NoDuplicateExecution, DeliveryInv, TypeOK
<1>7. DispatchesOnce'
  BY <1>2, <1>3, <1>4 DEF MarkFailed, RefsOK, DispatchesOnce, DeliveryInv,
     TypeOK
<1>8. CreatedBeforeSent'
  BY <1>2, <1>3, <1>4 DEF MarkFailed, RefsOK, CreatedBeforeSent,
     DeliveryInv, TypeOK
<1>9. VerdictBeforeAck'
  BY <1>2, <1>3, <1>4 DEF MarkFailed, RefsOK, VerdictBeforeAck, Inflight,
     Busy, DeliveryInv, TypeOK
<1>10. InflightHasOwner'
  BY <1>2, <1>3, <1>4 DEF MarkFailed, RefsOK, InflightHasOwner, Inflight,
     DeliveryInv, TypeOK
<1>11. OneInflightPerParcel'
  BY <1>2, <1>3, <1>4 DEF MarkFailed, RefsOK, OneInflightPerParcel,
     InflightOf, Inflight, DeliveryInv, TypeOK
<1>12. QED
  BY <1>1, <1>5, <1>6, <1>7, <1>8, <1>9, <1>10, <1>11 DEF DeliveryInv

(* A verdict that could not be written is recorded as stranded.            *)
LEMMA MarkFailedRaisesDelivers ==
  ASSUME DeliveryInv, TypeInv', NEW w \in Workers, MarkFailedRaises(w)
  PROVE  DeliveryInv'
<1>1. TypeOK' /\ RefsOK'
  BY DEF TypeInv
<1>2. run[w].req \in Requests /\ Busy(w)
  BY DEF MarkFailedRaises, DeliveryInv, RefsOK, Busy
<1>3. \A x \in Workers : /\ Busy(x)' <=> Busy(x)
                         /\ run'[x].req = run[x].req
                         /\ run'[x].elapsed = run[x].elapsed
                         /\ run'[x].pc = "ack" => run[x].pc = "ack" \/ x = w
  BY DEF MarkFailedRaises, RunTo, Busy, DeliveryInv, TypeOK, RunType
<1>4. NoDuplicateExecution'
  BY <1>2, <1>3 DEF MarkFailedRaises, requestVars, RefsOK,
     NoDuplicateExecution, Busy, DeliveryInv, TypeOK
<1>5. RunHoldsMessage'
  BY <1>2, <1>3 DEF MarkFailedRaises, requestVars, RefsOK, RunHoldsMessage,
     Busy, NoDuplicateExecution, DeliveryInv, TypeOK
<1>6. DispatchesOnce'
  BY <1>2, <1>3 DEF MarkFailedRaises, requestVars, RefsOK, DispatchesOnce,
     DeliveryInv, TypeOK
<1>7. CreatedBeforeSent'
  BY <1>2, <1>3 DEF MarkFailedRaises, requestVars, RefsOK,
     CreatedBeforeSent, DeliveryInv, TypeOK
<1>8. VerdictBeforeAck'
  BY <1>2, <1>3 DEF MarkFailedRaises, requestVars, RefsOK, VerdictBeforeAck,
     Inflight, Busy, DeliveryInv, TypeOK
<1>9. InflightHasOwner'
  BY <1>2, <1>3 DEF MarkFailedRaises, requestVars, RefsOK, InflightHasOwner,
     Inflight, DeliveryInv, TypeOK
<1>10. OneInflightPerParcel'
  BY <1>2, <1>3 DEF MarkFailedRaises, requestVars, RefsOK,
     OneInflightPerParcel, InflightOf, Inflight, DeliveryInv, TypeOK
<1>11. QED
  BY <1>1, <1>4, <1>5, <1>6, <1>7, <1>8, <1>9, <1>10 DEF DeliveryInv

(* By the time of the acknowledgement the verdict was written.             *)
LEMMA AckDelivers ==
  ASSUME DeliveryInv, TypeInv', NEW w \in Workers, Ack(w)
  PROVE  DeliveryInv'
<1>1. TypeOK' /\ RefsOK'
  BY DEF TypeInv
<1>2. run[w].req \in Requests /\ Busy(w) /\ msg[run[w].req] = "unacked"
  BY DEF Ack, DeliveryInv, RefsOK, RunHoldsMessage, Busy
<1>3. \A x \in Workers : IF x = w THEN run'[x] = IdleRun
                                  ELSE run'[x] = run[x]
  BY DEF Ack, DeliveryInv, TypeOK
<1>4. /\ msg'[run[w].req] = "gone"
      /\ \A q \in Requests : q # run[w].req => msg'[q] = msg[q]
  BY <1>2 DEF Ack, AckMessage, DeliveryInv, TypeOK
<1>5. NoDuplicateExecution'
  BY <1>2, <1>3, <1>4 DEF Ack, requestVars, IdleRun, RefsOK,
     NoDuplicateExecution, Busy, DeliveryInv, TypeOK
<1>6. RunHoldsMessage'
  <2>1. SUFFICES ASSUME NEW x \in Workers, Busy(x)'
                 PROVE  msg'[run'[x].req] = "unacked" /\ held'[run'[x].req] <= run'[x].elapsed
    BY DEF RunHoldsMessage
  <2>2. x # w /\ run'[x] = run[x] /\ Busy(x)
    BY <1>3, <2>1 DEF Busy, IdleRun
  <2>3. run[x].req \in Requests /\ run[x].req # run[w].req
    BY <1>2, <2>2 DEF DeliveryInv, RefsOK, NoDuplicateExecution
  <2>4. msg[run[x].req] = "unacked" /\ held[run[x].req] <= run[x].elapsed
    BY <2>2 DEF DeliveryInv, RunHoldsMessage
  <2>5. held' = held
    BY DEF Ack
  <2>6. QED
    BY <1>4, <2>2, <2>3, <2>4, <2>5
<1>7. DispatchesOnce'
  BY <1>2, <1>3, <1>4 DEF Ack, requestVars, IdleRun, RefsOK, DispatchesOnce,
     DeliveryInv, TypeOK
<1>8. CreatedBeforeSent'
  BY <1>2, <1>3, <1>4 DEF Ack, requestVars, IdleRun, RefsOK,
     CreatedBeforeSent, DeliveryInv, TypeOK
<1>9. VerdictBeforeAck'
  BY <1>2, <1>3, <1>4 DEF Ack, requestVars, IdleRun, RefsOK,
     VerdictBeforeAck, Inflight, Busy, DeliveryInv, TypeOK
<1>10. InflightHasOwner'
  BY <1>2, <1>3, <1>4 DEF Ack, requestVars, IdleRun, RefsOK,
     InflightHasOwner, Inflight, DeliveryInv, TypeOK, VerdictBeforeAck
<1>11. OneInflightPerParcel'
  BY <1>2, <1>3, <1>4 DEF Ack, requestVars, IdleRun, RefsOK,
     OneInflightPerParcel, InflightOf, Inflight, DeliveryInv, TypeOK
<1>12. QED
  BY <1>1, <1>5, <1>6, <1>7, <1>8, <1>9, <1>10, <1>11 DEF DeliveryInv

(* A kill strands the request unless its verdict was written.              *)
LEMMA HardKillDelivers ==
  ASSUME DeliveryInv, TypeInv', NEW w \in Workers, HardKill(w)
  PROVE  DeliveryInv'
<1>1. TypeOK' /\ RefsOK'
  BY DEF TypeInv
<1>2. run[w].req \in Requests /\ Busy(w) /\ msg[run[w].req] = "unacked"
  BY DEF HardKill, DeliveryInv, RefsOK, RunHoldsMessage, Busy
<1>3. \A x \in Workers : IF x = w THEN run'[x] = IdleRun
                                  ELSE run'[x] = run[x]
  BY DEF HardKill, DeliveryInv, TypeOK
<1>4. /\ msg'[run[w].req] = "gone"
      /\ \A q \in Requests : q # run[w].req => msg'[q] = msg[q]
  BY <1>2 DEF HardKill, AckMessage, DeliveryInv, TypeOK
<1>5. NoDuplicateExecution'
  BY <1>2, <1>3, <1>4 DEF HardKill, requestVars, IdleRun, RefsOK,
     NoDuplicateExecution, Busy, DeliveryInv, TypeOK
<1>6. RunHoldsMessage'
  BY <1>2, <1>3, <1>4 DEF HardKill, requestVars, IdleRun, RefsOK,
     RunHoldsMessage, Busy, NoDuplicateExecution, DeliveryInv, TypeOK
<1>7. DispatchesOnce'
  BY <1>2, <1>3, <1>4 DEF HardKill, requestVars, IdleRun, RefsOK,
     DispatchesOnce, DeliveryInv, TypeOK
<1>8. CreatedBeforeSent'
  BY <1>2, <1>3, <1>4 DEF HardKill, requestVars, IdleRun, RefsOK,
     CreatedBeforeSent, DeliveryInv, TypeOK
<1>9. VerdictBeforeAck'
  BY <1>2, <1>3, <1>4 DEF HardKill, requestVars, IdleRun, RefsOK,
     VerdictBeforeAck, Inflight, Busy, DeliveryInv, TypeOK
<1>10. InflightHasOwner'
  BY <1>2, <1>3, <1>4 DEF HardKill, requestVars, IdleRun, RefsOK,
     InflightHasOwner, Inflight, DeliveryInv, TypeOK, VerdictBeforeAck
<1>11. OneInflightPerParcel'
  BY <1>2, <1>3, <1>4 DEF HardKill, requestVars, IdleRun, RefsOK,
     OneInflightPerParcel, InflightOf, Inflight, DeliveryInv, TypeOK
<1>12. QED
  BY <1>1, <1>5, <1>6, <1>7, <1>8, <1>9, <1>10, <1>11 DEF DeliveryInv

(* The message of a lost child is requeued.                                *)
LEMMA ChildLostDelivers ==
  ASSUME DeliveryInv, TypeInv', NEW w \in Workers, ChildLost(w)
  PROVE  DeliveryInv'
<1>1. TypeOK' /\ RefsOK'
  BY DEF TypeInv
<1>2. run[w].req \in Requests /\ Busy(w) /\ msg[run[w].req] = "unacked"
  BY DEF ChildLost, RequeuedOnLoss, DeliveryInv, RefsOK, RunHoldsMessage, Busy
<1>3. \A x \in Workers : IF x = w THEN run'[x] = IdleRun
                                  ELSE run'[x] = run[x]
  BY DEF ChildLost, RequeuedOnLoss, DeliveryInv, TypeOK
<1>4. /\ msg'[run[w].req] = "ready"
      /\ \A q \in Requests : q # run[w].req => msg'[q] = msg[q]
  BY <1>2 DEF ChildLost, RequeuedOnLoss, AckMessage, DeliveryInv, TypeOK
<1>5. NoDuplicateExecution'
  BY <1>2, <1>3, <1>4 DEF ChildLost, RequeuedOnLoss, requestVars, IdleRun,
     RefsOK,
     NoDuplicateExecution, Busy, DeliveryInv, TypeOK
<1>6. RunHoldsMessage'
  BY <1>2, <1>3, <1>4 DEF ChildLost, RequeuedOnLoss, requestVars, IdleRun,
     RefsOK,
     RunHoldsMessage, Busy, NoDuplicateExecution, DeliveryInv, TypeOK
<1>7. DispatchesOnce'
  BY <1>2, <1>3, <1>4 DEF ChildLost, RequeuedOnLoss, requestVars, IdleRun,
     RefsOK,
     DispatchesOnce, DeliveryInv, TypeOK
<1>8. CreatedBeforeSent'
  BY <1>2, <1>3, <1>4 DEF ChildLost, RequeuedOnLoss, requestVars, IdleRun,
     RefsOK,
     CreatedBeforeSent, DeliveryInv, TypeOK
<1>9. VerdictBeforeAck'
  BY <1>2, <1>3, <1>4 DEF ChildLost, RequeuedOnLoss, requestVars, IdleRun,
     RefsOK,
     VerdictBeforeAck, Inflight, Busy, DeliveryInv, TypeOK
<1>10. InflightHasOwner'
  BY <1>2, <1>3, <1>4 DEF ChildLost, RequeuedOnLoss, requestVars, IdleRun,
     RefsOK,
     InflightHasOwner, Inflight, DeliveryInv, TypeOK
<1>11. OneInflightPerParcel'
  BY <1>2, <1>3, <1>4 DEF ChildLost, RequeuedOnLoss, requestVars, IdleRun,
     RefsOK,
     OneInflightPerParcel, InflightOf, Inflight, DeliveryInv, TypeOK
<1>12. QED
  BY <1>1, <1>5, <1>6, <1>7, <1>8, <1>9, <1>10, <1>11 DEF DeliveryInv

(* A message is restored only after its run must have ended.               *)
LEMMA RestoreDelivers ==
  ASSUME DeliveryInv, TypeInv', NEW r \in Requests, Restore(r)
  PROVE  DeliveryInv'
<1>1. TypeOK' /\ RefsOK'
  BY DEF TypeInv
<1>2. \A x \in Workers : Busy(x) => /\ run[x].elapsed \in 0 .. HardLimit
                                      /\ run[x].req \in Requests
  BY DEF DeliveryInv, TypeOK, RunType, RefsOK
<1>3. \A x \in Workers : Busy(x) => run[x].req # r
  BY <1>2, TimeAssumption DEF Restore, Expired, DeliveryInv, RunHoldsMessage,
     TypeOK
<1>4. /\ msg'[r] = "ready" /\ msg[r] = "unacked"
      /\ \A q \in Requests : q # r => msg'[q] = msg[q]
  BY DEF Restore, Expired, DeliveryInv, TypeOK
<1>5. NoDuplicateExecution'
  BY <1>2, <1>3, <1>4 DEF Restore, Expired, requestVars, RefsOK,
     NoDuplicateExecution, Busy, DeliveryInv, TypeOK
<1>6. RunHoldsMessage'
  BY <1>2, <1>3, <1>4 DEF Restore, Expired, requestVars, RefsOK,
     RunHoldsMessage,
     Busy, NoDuplicateExecution, DeliveryInv, TypeOK
<1>7. DispatchesOnce'
  BY <1>2, <1>3, <1>4 DEF Restore, Expired, requestVars, RefsOK,
     DispatchesOnce,
     DeliveryInv, TypeOK
<1>8. CreatedBeforeSent'
  BY <1>2, <1>3, <1>4 DEF Restore, Expired, requestVars, RefsOK,
     CreatedBeforeSent,
     DeliveryInv, TypeOK
<1>9. VerdictBeforeAck'
  BY <1>2, <1>3, <1>4 DEF Restore, Expired, requestVars, RefsOK,
     VerdictBeforeAck,
     Inflight, Busy, DeliveryInv, TypeOK
<1>10. InflightHasOwner'
  BY <1>2, <1>3, <1>4 DEF Restore, Expired, requestVars, RefsOK,
     InflightHasOwner,
     Inflight, DeliveryInv, TypeOK
<1>11. OneInflightPerParcel'
  BY <1>2, <1>3, <1>4 DEF Restore, Expired, requestVars, RefsOK,
     OneInflightPerParcel, InflightOf, Inflight, DeliveryInv, TypeOK
<1>12. QED
  BY <1>1, <1>5, <1>6, <1>7, <1>8, <1>9, <1>10, <1>11 DEF DeliveryInv

(* Runs and the messages they hold age together.                           *)
LEMMA TickDelivers ==
  ASSUME DeliveryInv, TypeInv', Tick
  PROVE  DeliveryInv'
<1>1. TypeOK' /\ RefsOK'
  BY DEF TypeInv
<1>2. \A x \in Workers : /\ Busy(x)' <=> Busy(x)
                         /\ run'[x].req = run[x].req
                         /\ run'[x].pc = run[x].pc
                         /\ Busy(x) => run'[x].elapsed = run[x].elapsed + 1
  BY DEF Tick, WithinLimit, Busy, DeliveryInv, TypeOK, RunType
<1>3. \A x \in Workers : Busy(x) => /\ run[x].elapsed \in Nat
                                      /\ run[x].req \in Requests
  BY DEF DeliveryInv, TypeOK, RunType, RefsOK
<1>4. \A q \in Requests : held[q] \in Nat /\ held'[q] \in Nat
                               /\ held'[q] <= held[q] + 1
  BY TimeAssumption DEF Tick, WithinLimit, DeliveryInv, TypeOK
<1>5. msg' = msg
  BY DEF Tick
<1>6. NoDuplicateExecution'
  BY <1>2 DEF NoDuplicateExecution, DeliveryInv
<1>7. RunHoldsMessage'
  <2> SUFFICES ASSUME NEW x \in Workers, Busy(x)'
               PROVE  (/\ msg[run[x].req] = "unacked"
                       /\ held[run[x].req] <= run[x].elapsed)'
    BY DEF RunHoldsMessage
  <2>1. Busy(x) /\ run[x].req \in Requests /\ run[x].elapsed \in Nat
    BY <1>2, <1>3
  <2>2. msg[run[x].req] = "unacked" /\ held[run[x].req] <= run[x].elapsed
    BY <2>1 DEF RunHoldsMessage, DeliveryInv
  <2>3. run'[x].req = run[x].req /\ run'[x].elapsed = run[x].elapsed + 1
    BY <1>2, <2>1
  <2>4. held'[run[x].req] <= run'[x].elapsed
    BY <1>4, <2>1, <2>2, <2>3
  <2>5. QED
    BY <1>5, <2>2, <2>3, <2>4
<1>8. DispatchesOnce'
  BY <1>2, <1>3, <1>4, <1>5 DEF Tick, WithinLimit, RefsOK, DispatchesOnce,
     DeliveryInv,
     TypeOK
<1>9. CreatedBeforeSent'
  BY <1>2, <1>3, <1>4, <1>5 DEF Tick, WithinLimit, RefsOK, CreatedBeforeSent,
     DeliveryInv, TypeOK
<1>10. VerdictBeforeAck'
  BY <1>2, <1>3, <1>4, <1>5 DEF Tick, WithinLimit, RefsOK, VerdictBeforeAck,
     Inflight,
     Busy, DeliveryInv, TypeOK
<1>11. InflightHasOwner'
  BY <1>2, <1>3, <1>4, <1>5 DEF Tick, WithinLimit, RefsOK, InflightHasOwner,
     Inflight,
     DeliveryInv, TypeOK
<1>12. OneInflightPerParcel'
  BY <1>2, <1>3, <1>4, <1>5 DEF Tick, WithinLimit, RefsOK,
     OneInflightPerParcel,
     InflightOf, Inflight, DeliveryInv, TypeOK
<1>13. QED
  BY <1>1, <1>6, <1>7, <1>8, <1>9, <1>10, <1>11, <1>12 DEF DeliveryInv

-----------------------------------------------------------------------------
LEMMA DeliveryInit == Init => DeliveryInv
<1> SUFFICES ASSUME Init
             PROVE  DeliveryInv
  OBVIOUS
<1>1. TypeOK /\ RefsOK
  BY TypeInvInit DEF TypeInv
<1>2. \A w \in Workers : run[w].pc = "idle"
  BY DEF Init, IdleRun
<1>3. \A c \in Callers : call[c].pc = "idle"
  BY DEF Init, IdleCall
<1>4. \A r \in Requests : msg[r] = "unsent" /\ ~Inflight(r)
  BY DEF Init, Inflight, InflightStatuses
<1>5. NoDuplicateExecution /\ RunHoldsMessage /\ VerdictBeforeAck
  BY <1>2 DEF NoDuplicateExecution, RunHoldsMessage, VerdictBeforeAck, Busy
<1>6. DispatchesOnce /\ CreatedBeforeSent
  BY <1>3, <1>4 DEF DispatchesOnce, CreatedBeforeSent
<1>7. InflightHasOwner /\ OneInflightPerParcel
  BY <1>4 DEF InflightHasOwner, OneInflightPerParcel, InflightOf
<1>8. QED
  BY <1>1, <1>5, <1>6, <1>7 DEF DeliveryInv

LEMMA DeliveryStep == DeliveryInv /\ [Next]_vars => DeliveryInv'
<1> SUFFICES ASSUME DeliveryInv, [Next]_vars
             PROVE  DeliveryInv'
  OBVIOUS
<1>1. TypeInv /\ TypeInv'
  BY TypeInvStep DEF DeliveryInv, TypeInv
<1>2. CASE UNCHANGED vars
  BY <1>1, <1>2, QuietPreserves DEF vars, Quiet, Busy, Inflight
<1>3. ASSUME NEW c \in Callers, CallStep(c) \/ CallerDies(c)
      PROVE  DeliveryInv'
  BY <1>1, <1>3, CallerQuiet, QuietPreserves, InsertDelivers,
     DispatchDelivers, DispatchRaisesDelivers, MarkUndispatchedDelivers,
     CallerDiesDelivers DEF CallStep
<1>4. ASSUME NEW c \in Callers, NEW p \in Parcels, Visit(c, p)
      PROVE  DeliveryInv'
  BY <1>1, <1>4, CallerQuiet, QuietPreserves
<1>5. ASSUME NEW w \in Workers,
             RunStep(w) \/ ChildLost(w) \/ MachineLost(w) \/ BootStep(w)
      PROVE  DeliveryInv'
  BY <1>1, <1>5, WorkerQuiet, QuietPreserves, ClaimDelivers,
     ConcludeDelivers, MarkFailedDelivers, MarkFailedRaisesDelivers,
     AckDelivers, HardKillDelivers, ChildLostDelivers DEF RunStep
<1>6. ASSUME NEW w \in Workers, NEW r \in Requests, Deliver(w, r)
      PROVE  DeliveryInv'
  BY <1>1, <1>6, DeliverDelivers
<1>7. ASSUME NEW r \in Requests, Restore(r)
      PROVE  DeliveryInv'
  BY <1>1, <1>7, RestoreDelivers
<1>8. CASE Tick
  BY <1>1, <1>8, TickDelivers
<1>9. QED
  BY <1>2, <1>3, <1>4, <1>5, <1>6, <1>7, <1>8 DEF Next

LEMMA DeliveryHolds == Spec => []DeliveryInv
  BY DeliveryInit, DeliveryStep, PTL DEF Spec

(* However messages are redelivered after losses and time-outs, no request *)
(* is executed by two workers at once, provided the hard time limit is     *)
(* below the visibility timeout.                                           *)
THEOREM NeverExecutedTwice == Spec => []NoDuplicateExecution
<1>1. DeliveryInv => NoDuplicateExecution
  BY DEF DeliveryInv
<1>2. QED
  BY <1>1, DeliveryHolds, PTL

(* A parcel never has two requests in flight, whatever creations,          *)
(* takeovers and redelivered claims interleave.                            *)
THEOREM OneInflight == Spec => []OneInflightPerParcel
<1>1. DeliveryInv => OneInflightPerParcel
  BY DEF DeliveryInv
<1>2. QED
  BY <1>1, DeliveryHolds, PTL

(* Late acknowledgement loses no work by itself: every in-flight request   *)
(* has a caller, a message, or a recorded loss.                            *)
THEOREM InflightIsOwned == Spec => []InflightHasOwner
<1>1. DeliveryInv => InflightHasOwner
  BY DEF DeliveryInv
<1>2. QED
  BY <1>1, DeliveryHolds, PTL

(* The inductive invariant itself, for every value of the constants.       *)
THEOREM DeliveryInvariant == Spec => []DeliveryInv
  BY DeliveryHolds

-----------------------------------------------------------------------------
(* A live run is not stale.  Most actions are steady: they neither deliver *)
(* nor claim, and they leave every run with its request and its age.       *)

Steady ==
  /\ losses' = losses
  /\ \A r \in Requests :
       /\ msg'[r] \in {"unsent", "ready"} => msg[r] \in {"unsent", "ready"}
       /\ msg'[r] = "unacked" =>
            /\ msg[r] = "unacked"
            /\ \A w \in Workers : Busy(w) /\ run[w].req = r =>
                                    Busy(w)' /\ run'[w].req = r
       /\ status'[r] = "processing" => status[r] = "processing"
       /\ age'[r] \in {0, age[r]}
  /\ \A w \in Workers :
       /\ run'[w].pc = "claim" =>
            run[w].pc = "claim" /\ run'[w].req = run[w].req
       /\ run'[w].pc \in LivePcs =>
            /\ run[w].pc \in LivePcs
            /\ run'[w].req = run[w].req
            /\ run'[w].elapsed = run[w].elapsed

LEMMA SteadyPreserves ==
  ASSUME TypeInv, LiveInv, Steady
  PROVE  LiveInv'
<1> SUFFICES ASSUME losses = 0
             PROVE  (RunsAreFresh /\ UnclaimedIsNotProcessing
                       /\ UnackedIsRunning)'
  BY DEF LiveInv, Steady
<1>1. RunsAreFresh'
  <2> SUFFICES ASSUME NEW w \in Workers, run'[w].pc \in LivePcs
               PROVE  age'[run'[w].req] <= run'[w].elapsed
    BY DEF RunsAreFresh
  <2>1. /\ run[w].pc \in LivePcs
        /\ run'[w].req = run[w].req /\ run'[w].elapsed = run[w].elapsed
    BY DEF Steady
  <2>2. Busy(w) /\ run[w].req \in Requests
    BY <2>1 DEF Busy, LivePcs, TypeInv, RefsOK
  <2>3. run[w].elapsed \in Nat /\ age[run[w].req] <= run[w].elapsed
    BY <2>1, TimeAssumption DEF LiveInv, RunsAreFresh, TypeInv, TypeOK, RunType
  <2>4. age'[run[w].req] \in {0, age[run[w].req]}
    BY <2>2 DEF Steady
  <2>5. QED
    BY <2>1, <2>3, <2>4
<1>2. UnclaimedIsNotProcessing'
  <2>1. ASSUME NEW r \in Requests, msg'[r] \in {"unsent", "ready"}
        PROVE  status'[r] # "processing"
    BY <2>1 DEF Steady, LiveInv, UnclaimedIsNotProcessing
  <2>2. ASSUME NEW w \in Workers, run'[w].pc = "claim"
        PROVE  status'[run'[w].req] # "processing"
    <3>1. run[w].pc = "claim" /\ run'[w].req = run[w].req
      BY <2>2 DEF Steady
    <3>2. run[w].req \in Requests
      BY <3>1 DEF Busy, TypeInv, RefsOK
    <3>3. QED
      BY <3>1, <3>2 DEF Steady, LiveInv, UnclaimedIsNotProcessing
  <2>3. QED
    BY <2>1, <2>2 DEF UnclaimedIsNotProcessing
<1>3. UnackedIsRunning'
  <2> SUFFICES ASSUME NEW r \in Requests, msg'[r] = "unacked"
               PROVE  \E w \in Workers : Busy(w)' /\ run'[w].req = r
    BY DEF UnackedIsRunning
  <2>1. msg[r] = "unacked"
    BY DEF Steady
  <2>2. PICK w \in Workers : Busy(w) /\ run[w].req = r
    BY <2>1 DEF LiveInv, UnackedIsRunning
  <2>3. QED
    BY <2>2 DEF Steady
<1>4. QED
  BY <1>1, <1>2, <1>3

(* A write other than a claim.                                             *)
LEMMA SetOtherSteady ==
  ASSUME TypeOK, NEW r \in Requests, NEW s \in TerminalRequestStatuses,
         SetStatus(r, s)
  PROVE  \A q \in Requests :
           /\ status'[q] = "processing" => status[q] = "processing"
           /\ age'[q] \in {0, age[q]}
  BY DEF TypeOK, SetStatus, AgeAfterWrite, TerminalRequestStatuses

LEMMA CallerSteady ==
  ASSUME DeliveryInv, NEW c \in Callers,
         CallStep(c) \/ \E p \in Parcels : Visit(c, p)
  PROVE  Steady
<1> USE DEF Busy
<1>1. TypeOK /\ RefsOK
  BY DEF DeliveryInv
<1>2. CASE TakeOver(c)
  <2>1. call[c].req \in Requests /\ SetStatus(call[c].req, "failed")
    BY <1>1, <1>2 DEF TakeOver, RefsOK
  <2>2. QED
    BY <1>1, <1>2, <2>1, SetOtherSteady
       DEF TakeOver, TerminalRequestStatuses, Steady
<1>3. CASE Admit(c) \/ Refuse(c) \/ LoseInsertRace(c)
  BY <1>3 DEF Admit, Refuse, LoseInsertRace, requestVars, Steady
<1>4. CASE Insert(c)
  <2>1. \A r \in Requests : /\ status'[r] = "processing" =>
                                 status[r] = "processing"
                            /\ age'[r] \in {0, age[r]}
    BY <1>1, <1>4 DEF Insert, TypeOK
  <2>2. QED
    BY <1>4, <2>1 DEF Insert, Steady
<1>5. CASE Dispatch(c) \/ DispatchRaises(c)
  <2>1. call[c].req \in Requests /\ msg[call[c].req] = "unsent"
    BY <1>1, <1>5 DEF Dispatch, DispatchRaises, RefsOK, DeliveryInv,
       DispatchesOnce
  <2>2. \A r \in Requests :
          /\ msg'[r] \in {"unsent", "ready"} => msg[r] \in {"unsent", "ready"}
          /\ msg'[r] = "unacked" => msg[r] = "unacked"
    BY <1>1, <1>5, <2>1 DEF Dispatch, DispatchRaises, TypeOK
  <2>3. QED
    BY <1>5, <2>2 DEF Dispatch, DispatchRaises, requestVars, Steady
<1>6. CASE MarkUndispatched(c)
  <2>1. call[c].req \in Requests /\ SetStatus(call[c].req, "failed")
    BY <1>1, <1>6 DEF MarkUndispatched, RefsOK
  <2>2. QED
    BY <1>1, <1>6, <2>1, SetOtherSteady
       DEF MarkUndispatched, TerminalRequestStatuses, Steady
<1>7. CASE \E p \in Parcels : Visit(c, p)
  BY <1>7 DEF Visit, VisitFirst, VisitStale, VisitRefetch, requestVars, Steady
<1>8. QED
  BY <1>2, <1>3, <1>4, <1>5, <1>6, <1>7 DEF CallStep

(* A booting worker leaves the others' runs where they are.                *)
LEMMA BootMoves ==
  ASSUME TypeOK, NEW w \in Workers, BootStep(w)
  PROVE  \A x \in Workers :
           IF x = w THEN run'[x].pc \in {"idle", "sweeping"}
           ELSE /\ run'[x].pc = run[x].pc /\ run'[x].req = run[x].req
                /\ run'[x].elapsed = run[x].elapsed
                /\ run'[x].outcome = run[x].outcome
                /\ run'[x].verdict = run[x].verdict
                /\ run'[x].sweep = run[x].sweep
<1>1. CASE SweepReads(w)
  <2>1. PICK sweep : run' = [run EXCEPT ![w].pc = "sweeping",
                                        ![w].sweep = sweep]
    BY <1>1 DEF SweepReads
  <2>2. QED
    BY <2>1 DEF RunType, TypeOK
<1>2. CASE SweepCommits(w)
  BY <1>2 DEF SweepCommits, IdleRun, RunType, TypeOK
<1>3. CASE BootUnswept(w)
  BY <1>3 DEF BootUnswept, IdleRun, RunType, TypeOK
<1>4. QED
  BY <1>1, <1>2, <1>3 DEF BootStep

LEMMA WorkerSteady ==
  ASSUME DeliveryInv, NEW w \in Workers,
         \/ RunStep(w) /\ ~Claim(w)
         \/ BootStep(w)
  PROVE  Steady
<1> USE DEF Busy, LivePcs
<1>1. TypeOK /\ RefsOK
  BY DEF DeliveryInv
<1>2. CASE \/ ClaimConflicts(w) \/ RunRaises(w) \/ SoftTimeout(w)
           \/ MarkFailedRaises(w) \/ CreateRequestTasks(w)
  <2>1. \E pc \in {"failing", "ack", "sources"} :
          RunTo(w, pc) /\ (pc = "sources" => run[w].pc = "tasks")
    BY <1>2 DEF ClaimConflicts, RunRaises, SoftTimeout, MarkFailedRaises,
       CreateRequestTasks
  <2>2. \A x \in Workers : /\ run'[x].req = run[x].req
                           /\ run'[x].elapsed = run[x].elapsed
                           /\ x # w => run'[x].pc = run[x].pc
    BY <1>1, <2>1 DEF RunTo, TypeOK, RunType
  <2>3. /\ run'[w].pc \in {"failing", "ack", "sources"}
        /\ run'[w].pc = "sources" => run[w].pc = "tasks"
    BY <1>1, <2>1 DEF RunTo, TypeOK, RunType
  <2>4. UNCHANGED <<status, age, msg, losses>>
    BY <1>2 DEF ClaimConflicts, RunRaises, SoftTimeout, MarkFailedRaises,
       CreateRequestTasks, requestVars
  <2>5. QED
    BY <2>2, <2>3, <2>4 DEF Steady
<1>3. ASSUME NEW s \in Sources,
             \/ StartSource(w, s) \/ FinishSource(w, s)
             \/ SkipSource(w, s) \/ LoseSource(w, s)
      PROVE  Steady
  <2>1. \A x \in Workers : /\ run'[x].pc = run[x].pc
                           /\ run'[x].req = run[x].req
                           /\ run'[x].elapsed = run[x].elapsed
    <3>1. PICK o : run' = [run EXCEPT ![w].outcome[s] = o]
      BY <1>3 DEF StartSource, FinishSource, SkipSource, LoseSource
    <3>2. QED
      BY <1>1, <3>1 DEF TypeOK, RunType
  <2>2. UNCHANGED <<status, age, msg, losses>>
    BY <1>3 DEF StartSource, FinishSource, SkipSource, LoseSource, SetTask,
       requestVars
  <2>3. QED
    BY <2>1, <2>2 DEF Steady
<1>4. CASE Conclude(w) \/ MarkFailed(w)
  <2>1. run[w].req \in Requests
    BY <1>1, <1>4 DEF Conclude, MarkFailed, RefsOK
  <2>2. PICK s \in TerminalRequestStatuses : SetStatus(run[w].req, s)
    BY <1>1, <1>4 DEF Conclude, MarkFailed, RefsOK, TerminalRequestStatuses
  <2>3. \A q \in Requests :
          /\ status'[q] = "processing" => status[q] = "processing"
          /\ age'[q] \in {0, age[q]}
    BY <1>1, <2>1, <2>2, SetOtherSteady
  <2>4. \A x \in Workers : /\ run'[x].req = run[x].req
                           /\ run'[x].elapsed = run[x].elapsed
                           /\ run'[x].pc = IF x = w THEN "ack" ELSE run[x].pc
    BY <1>1, <1>4 DEF Conclude, MarkFailed, RunTo, TypeOK, RunType
  <2>5. losses' = losses /\ msg' = msg /\ Busy(w)
    BY <1>4 DEF Conclude, MarkFailed
  <2>6. QED
    BY <2>3, <2>4, <2>5 DEF Steady
<1>5. CASE Ack(w) \/ HardKill(w)
  <2>1. /\ run[w].req \in Requests /\ msg[run[w].req] = "unacked"
        /\ \A x \in Workers : Busy(x) /\ run[x].req = run[w].req => x = w
    BY <1>1, <1>5 DEF Ack, HardKill, RefsOK, DeliveryInv, RunHoldsMessage,
       NoDuplicateExecution
  <2>2. \A x \in Workers : IF x = w THEN run'[x] = IdleRun
                                    ELSE run'[x] = run[x]
    BY <1>1, <1>5 DEF Ack, HardKill, TypeOK
  <2>3. /\ msg'[run[w].req] = "gone"
        /\ \A r \in Requests : r # run[w].req => msg'[r] = msg[r]
    BY <1>1, <1>5, <2>1 DEF Ack, HardKill, AckMessage, TypeOK
  <2>4. status' = status /\ age' = age /\ losses' = losses
    BY <1>5 DEF Ack, HardKill, requestVars
  <2>5. QED
    BY <2>1, <2>2, <2>3, <2>4 DEF Steady, IdleRun
<1>6. CASE Fold(w)
  <2>1. PICK verdict \in TerminalRequestStatuses :
          run' = [run EXCEPT ![w].pc = "verdict", ![w].verdict = verdict]
    BY <1>6, AggregateTerminal DEF Fold
  <2>2. \A x \in Workers : /\ run'[x].req = run[x].req
                           /\ run'[x].elapsed = run[x].elapsed
                           /\ run'[x].pc = IF x = w THEN "verdict"
                                           ELSE run[x].pc
    BY <1>1, <2>1 DEF TypeOK, RunType
  <2>3. UNCHANGED <<status, age, msg, losses>> /\ run[w].pc = "sources"
    BY <1>6 DEF Fold, requestVars
  <2>4. QED
    BY <2>2, <2>3 DEF Steady
<1>7. CASE BootStep(w)
  <2>1. \A r \in Requests : /\ status'[r] = "processing" =>
                                 status[r] = "processing"
                            /\ age'[r] \in {0, age[r]}
    BY <1>1, <1>7 DEF BootStep, SweepReads, SweepCommits, BootUnswept,
       requestVars, TypeOK
  <2>2. run[w].pc \in {"down", "sweeping"} /\ msg' = msg /\ losses' = losses
    BY <1>7 DEF BootStep, SweepReads, SweepCommits, BootUnswept
  <2>3. \A x \in Workers :
          IF x = w THEN run'[x].pc \in {"idle", "sweeping"}
          ELSE /\ run'[x].pc = run[x].pc /\ run'[x].req = run[x].req
               /\ run'[x].elapsed = run[x].elapsed
    BY <1>1, <1>7, BootMoves
  <2>4. QED
    BY <2>1, <2>2, <2>3 DEF Steady
<1>8. QED
  BY <1>2, <1>3, <1>4, <1>5, <1>6, <1>7 DEF RunStep

(* Delivery: the request was not 'processing' while its message waited.    *)
LEMMA DeliverStaysLive ==
  ASSUME DeliveryInv, LiveInv, losses = 0, NEW w \in Workers,
         NEW r \in Requests, Deliver(w, r)
  PROVE  LiveInv'
<1>1. TypeOK /\ RefsOK /\ RunHoldsMessage
  BY DEF DeliveryInv
<1>2. /\ run'[w].pc = "claim" /\ run'[w].req = r
      /\ \A x \in Workers : x # w => run'[x] = run[x]
  BY <1>1 DEF Deliver, IdleRun, TypeOK
<1>3. /\ msg[r] = "ready" /\ msg'[r] = "unacked"
      /\ \A q \in Requests : q # r => msg'[q] = msg[q]
  BY <1>1 DEF Deliver, TypeOK
<1>4. status' = status /\ age' = age /\ ~Busy(w)
  BY DEF Deliver, requestVars, Busy
<1>5. RunsAreFresh /\ UnclaimedIsNotProcessing /\ UnackedIsRunning
  BY DEF LiveInv
<1>6. RunsAreFresh'
  BY <1>2, <1>4, <1>5 DEF RunsAreFresh, LivePcs
<1>7. UnclaimedIsNotProcessing'
  BY <1>2, <1>3, <1>4, <1>5 DEF UnclaimedIsNotProcessing
<1>8. UnackedIsRunning'
  BY <1>2, <1>3, <1>4, <1>5 DEF UnackedIsRunning, Busy
<1>9. QED
  BY <1>6, <1>7, <1>8 DEF LiveInv

(* A first claim stamps the request.                                       *)
LEMMA ClaimStaysLive ==
  ASSUME DeliveryInv, LiveInv, losses = 0, NEW w \in Workers, Claim(w)
  PROVE  LiveInv'
<1>1. TypeOK /\ RefsOK /\ RunHoldsMessage /\ NoDuplicateExecution
  BY DEF DeliveryInv
<1>2. RunsAreFresh /\ UnclaimedIsNotProcessing /\ UnackedIsRunning
  BY DEF LiveInv
<1>3. Busy(w) /\ run[w].req \in Requests /\ msg[run[w].req] = "unacked"
  BY <1>1 DEF Claim, Busy, RefsOK, RunHoldsMessage
<1>4. \A x \in Workers : /\ run'[x].pc = IF x = w THEN "tasks" ELSE run[x].pc
                         /\ run'[x].req = run[x].req
                         /\ run'[x].elapsed = run[x].elapsed
                         /\ run[x].elapsed \in Nat
  BY <1>1, TimeAssumption DEF Claim, RunTo, TypeOK, RunType
<1>5. /\ age'[run[w].req] = 0
      /\ \A q \in Requests : q # run[w].req => /\ age'[q] = age[q]
                                               /\ status'[q] = status[q]
  BY <1>1, <1>2, <1>3 DEF Claim, SetStatus, AgeAfterWrite, TypeOK,
     UnclaimedIsNotProcessing
<1>6. \A x \in Workers : Busy(x) /\ x # w => /\ run[x].req # run[w].req
                                             /\ run[x].req \in Requests
  BY <1>1, <1>3 DEF NoDuplicateExecution, RefsOK
<1>7. msg' = msg
  BY DEF Claim
<1>8. RunsAreFresh'
  BY <1>2, <1>4, <1>5, <1>6 DEF RunsAreFresh, LivePcs, Busy
<1>9. UnclaimedIsNotProcessing'
  BY <1>2, <1>3, <1>4, <1>5, <1>6, <1>7 DEF UnclaimedIsNotProcessing, Busy
<1>10. UnackedIsRunning'
  BY <1>2, <1>4, <1>7 DEF UnackedIsRunning, Busy, Claim
<1>11. QED
  BY <1>8, <1>9, <1>10 DEF LiveInv

(* An unacknowledged message is with a run, which ends before it expires.  *)
LEMMA NothingToRestore ==
  ASSUME DeliveryInv, LiveInv, losses = 0, NEW r \in Requests
  PROVE  ~Restore(r)
<1> SUFFICES ASSUME Restore(r)
             PROVE  FALSE
  OBVIOUS
<1>1. PICK w \in Workers : Busy(w) /\ run[w].req = r
  BY DEF Restore, LiveInv, UnackedIsRunning
<1>2. held[r] <= run[w].elapsed /\ run[w].elapsed \in 0 .. HardLimit
  BY <1>1 DEF DeliveryInv, RunHoldsMessage, TypeOK, RunType
<1>3. held[r] \in Nat /\ held[r] >= Visibility
  BY TimeAssumption DEF Restore, Expired, DeliveryInv, TypeOK
<1>4. QED
  BY <1>2, <1>3, TimeAssumption

(* A run and its request age together.                                     *)
LEMMA TickStaysLive ==
  ASSUME DeliveryInv, LiveInv, losses = 0, Tick
  PROVE  LiveInv'
<1>1. TypeOK /\ RefsOK
  BY DEF DeliveryInv
<1>2. RunsAreFresh /\ UnclaimedIsNotProcessing /\ UnackedIsRunning
  BY DEF LiveInv
<1>3. \A x \in Workers : /\ run'[x].pc = run[x].pc
                         /\ run'[x].req = run[x].req
                         /\ Busy(x) => run'[x].elapsed = run[x].elapsed + 1
                         /\ run[x].elapsed \in Nat
  BY <1>1, TimeAssumption DEF Tick, Busy, TypeOK, RunType
<1>4. \A q \in Requests : /\ age[q] \in Nat /\ age'[q] \in Nat
                          /\ age'[q] <= age[q] + 1
  BY <1>1, TimeAssumption DEF Tick, TypeOK
<1>5. msg' = msg /\ status' = status
  BY DEF Tick
<1>6. RunsAreFresh'
  <2> SUFFICES ASSUME NEW x \in Workers, run'[x].pc \in LivePcs
               PROVE  age'[run'[x].req] <= run'[x].elapsed
    BY DEF RunsAreFresh
  <2>1. /\ Busy(x) /\ run[x].pc \in LivePcs
        /\ run'[x].req = run[x].req
    BY <1>3 DEF Busy, LivePcs
  <2>2. run[x].req \in Requests /\ age[run[x].req] <= run[x].elapsed
    BY <1>1, <1>2, <2>1 DEF RefsOK, RunsAreFresh
  <2>3. QED
    BY <1>3, <1>4, <2>1, <2>2
<1>7. UnclaimedIsNotProcessing' /\ UnackedIsRunning'
  BY <1>2, <1>3, <1>5 DEF UnclaimedIsNotProcessing, UnackedIsRunning, Busy
<1>8. QED
  BY <1>6, <1>7 DEF LiveInv

LEMMA LiveInit == Init => LiveInv
<1> SUFFICES ASSUME Init
             PROVE  RunsAreFresh /\ UnclaimedIsNotProcessing /\ UnackedIsRunning
  BY DEF LiveInv
<1>1. RunsAreFresh
  BY DEF Init, IdleRun, LivePcs, RunsAreFresh
<1>2. UnclaimedIsNotProcessing
  BY DEF Init, IdleRun, UnclaimedIsNotProcessing
<1>3. UnackedIsRunning
  BY DEF Init, UnackedIsRunning
<1>4. QED
  BY <1>1, <1>2, <1>3

LEMMA LiveStep == DeliveryInv /\ LiveInv /\ [Next]_vars => LiveInv'
<1> SUFFICES ASSUME DeliveryInv, LiveInv, [Next]_vars
             PROVE  LiveInv'
  OBVIOUS
<1>1. TypeInv /\ TypeInv'
  BY TypeInvStep DEF DeliveryInv, TypeInv
<1>2. CASE losses' # 0
  BY <1>2 DEF LiveInv
<1>3. CASE losses' = 0 /\ ~(losses = 0)
  <2>1. losses \in Nat
    BY BoundAssumption DEF DeliveryInv, TypeOK
  <2>2. losses' = losses \/ losses' = losses + 1
    BY ZenonT(30) DEF Next, vars, CallStep, RunStep, Visit, TakeOver, Admit, Refuse,
       LoseInsertRace, Insert, Dispatch, DispatchRaises, MarkUndispatched,
       CallerDies, VisitFirst, VisitStale, VisitRefetch, Deliver, Claim,
       ClaimConflicts, CreateRequestTasks, RunRaises, StartSource,
       FinishSource, SkipSource, LoseSource, SetTask, Fold, Conclude,
       SoftTimeout, MarkFailed, MarkFailedRaises, Ack, HardKill, ChildLost,
       MachineLost, BootStep, SweepReads, SweepCommits, BootUnswept, Restore,
       Tick
  <2>3. QED
    BY <1>3, <2>1, <2>2
<1>4. CASE losses' = 0 /\ losses = 0
  <2>1. CASE UNCHANGED vars
    BY <1>1, <2>1, SteadyPreserves DEF vars, Steady, Busy
  <2>2. ASSUME NEW c \in Callers, CallStep(c) \/ CallerDies(c)
        PROVE  LiveInv'
    BY <1>1, <1>4, <2>2, CallerSteady, SteadyPreserves DEF CallerDies
  <2>3. ASSUME NEW c \in Callers, NEW p \in Parcels, Visit(c, p)
        PROVE  LiveInv'
    BY <1>1, <2>3, CallerSteady, SteadyPreserves
  <2>4. ASSUME NEW w \in Workers,
               RunStep(w) \/ ChildLost(w) \/ MachineLost(w) \/ BootStep(w)
        PROVE  LiveInv'
    <3>1. CASE Claim(w)
      BY <1>4, <3>1, ClaimStaysLive
    <3>2. CASE ChildLost(w) \/ MachineLost(w)
      BY <1>4, <3>2 DEF ChildLost, MachineLost
    <3>3. QED
      BY <1>1, <2>4, <3>1, <3>2, WorkerSteady, SteadyPreserves
  <2>5. ASSUME NEW w \in Workers, NEW r \in Requests, Deliver(w, r)
        PROVE  LiveInv'
    BY <1>4, <2>5, DeliverStaysLive
  <2>6. ASSUME NEW r \in Requests, Restore(r)
        PROVE  LiveInv'
    BY <1>4, <2>6, NothingToRestore
  <2>7. CASE Tick
    BY <1>4, <2>7, TickStaysLive
  <2>8. QED
    BY <2>1, <2>2, <2>3, <2>4, <2>5, <2>6, <2>7 DEF Next
<1>5. QED
  BY <1>2, <1>3, <1>4

LEMMA FreshIsNotStale ==
  ASSUME DeliveryInv, LiveInv
  PROVE  UnlostRunsAreFresh
<1> SUFFICES ASSUME losses = 0, NEW w \in Workers, run[w].pc \in LivePcs
             PROVE  ~(age[run[w].req] > StaleAfter)
  BY DEF UnlostRunsAreFresh, NoLiveRunIsStale, Stale
<1>1. Busy(w) /\ age[run[w].req] <= run[w].elapsed
  BY DEF Busy, LivePcs, LiveInv, RunsAreFresh
<1>2. run[w].req \in Requests /\ run[w].elapsed \in 0 .. HardLimit
  BY <1>1 DEF DeliveryInv, TypeOK, RunType, RefsOK
<1>3. age[run[w].req] \in Nat
  BY <1>2, TimeAssumption DEF DeliveryInv, TypeOK
<1>4. QED
  BY <1>1, <1>2, <1>3, TimeAssumption

(* Until a process is lost, no run between its claim and its verdict is    *)
(* mistaken for a lost one: _STALE_INFLIGHT is no shorter than the hard    *)
(* limit, and a claim stamps the request.  (After a loss the redelivered   *)
(* claim stamps nothing: the run LifecycleServedFailed begins like that.)  *)
THEOREM LiveRunsAreFresh == Spec => []UnlostRunsAreFresh
<1>1. Spec => []LiveInv
  BY DeliveryHolds, LiveInit, LiveStep, PTL DEF Spec
<1>2. DeliveryInv /\ LiveInv => UnlostRunsAreFresh
  BY FreshIsNotStale
<1>3. QED
  BY <1>1, <1>2, DeliveryHolds, PTL

-----------------------------------------------------------------------------
(* The verdict describes the run.  Most actions leave a run unmoved: its   *)
(* outcomes, what was swept of them and the rows of its request are as     *)
(* they were, unless it comes to an end.                                   *)

Unmoved(w) ==
  /\ run'[w].pc \in {"claim", "tasks"} =>
       /\ run[w].pc \in {"claim", "tasks"}
       /\ run'[w].outcome = run[w].outcome /\ run'[w].swept = run[w].swept
  /\ run'[w].pc = "sources" =>
       /\ run[w].pc = "sources" /\ run'[w].req = run[w].req
       /\ run'[w].outcome = run[w].outcome /\ run'[w].swept = run[w].swept
       /\ rows'[run[w].req] = rows[run[w].req]
  /\ run'[w].pc = "verdict" =>
       /\ run[w].pc = "verdict" /\ run'[w].req = run[w].req
       /\ run'[w].outcome = run[w].outcome /\ run'[w].swept = run[w].swept
       /\ run'[w].verdict = run[w].verdict
       /\ parcel'[run[w].req] = parcel[run[w].req]
       /\ declared'[run[w].req] = declared[run[w].req]

LEMMA UnmovedShows ==
  ASSUME NEW w \in Workers, RowsShow(w), Unmoved(w)
  PROVE  RowsShow(w)'
<1>1. CASE run'[w].pc \in {"claim", "tasks"}
  BY <1>1 DEF RowsShow, Unmoved
<1>2. CASE run'[w].pc = "sources"
  BY <1>2 DEF RowsShow, Unmoved
<1>3. CASE run'[w].pc = "verdict"
  <2>1. Scoped(run[w].req)' = Scoped(run[w].req)
    BY <1>3 DEF Unmoved, Scoped
  <2>2. QED
    BY <1>3, <2>1 DEF RowsShow, Unmoved, Scoped
<1>4. QED
  BY <1>1, <1>2, <1>3 DEF RowsShow

(* The scope of a request that is being run does not change.               *)
LEMMA ScopeStays ==
  ASSUME DeliveryInv, [Next]_vars, NEW w \in Workers, Busy(w)
  PROVE  /\ run[w].req \in Requests
         /\ parcel'[run[w].req] = parcel[run[w].req]
         /\ declared'[run[w].req] = declared[run[w].req]
<1>1. run[w].req \in Requests /\ status[run[w].req] # "none"
  BY DEF DeliveryInv, RefsOK, RunHoldsMessage, CreatedBeforeSent
<1>2. CASE \E c \in Callers : Insert(c)
  BY <1>1, <1>2 DEF Insert, DeliveryInv, TypeOK
<1>3. CASE ~\E c \in Callers : Insert(c)
  <2>1. ASSUME NEW c \in Callers,
               \/ CallStep(c) \/ CallerDies(c)
               \/ \E p \in Parcels : Visit(c, p)
        PROVE  UNCHANGED <<parcel, declared>>
    BY <1>3, <2>1 DEF requestVars, SetStatus, CallStep, Visit, TakeOver, Admit,
       Refuse, LoseInsertRace, Dispatch, DispatchRaises, MarkUndispatched,
       CallerDies, VisitFirst, VisitStale, VisitRefetch
  <2>2. ASSUME NEW x \in Workers, RunStep(x)
        PROVE  UNCHANGED <<parcel, declared>>
    BY <2>2 DEF requestVars, SetStatus, RunStep, Claim, ClaimConflicts,
       CreateRequestTasks, RunRaises, StartSource, FinishSource, SkipSource,
       LoseSource, SetTask, Fold, Conclude, SoftTimeout, MarkFailed,
       MarkFailedRaises, Ack, HardKill
  <2>3. ASSUME NEW x \in Workers,
               \/ ChildLost(x) \/ MachineLost(x) \/ BootStep(x)
               \/ \E r \in Requests : Deliver(x, r)
        PROVE  UNCHANGED <<parcel, declared>>
    BY <2>3 DEF requestVars, ChildLost, MachineLost, BootStep, SweepReads,
       SweepCommits, BootUnswept, Deliver
  <2>4. ASSUME UNCHANGED vars \/ Tick \/ \E r \in Requests : Restore(r)
        PROVE  UNCHANGED <<parcel, declared>>
    BY <2>4 DEF vars, requestVars, Tick, Restore
  <2>5. UNCHANGED <<parcel, declared>>
    BY <2>1, <2>2, <2>3, <2>4 DEF Next
  <2>6. QED
    BY <1>1, <2>5
<1>4. QED
  BY <1>2, <1>3

(* A run whose record and rows stay as they are.                           *)
LEMMA SameRunUnmoved ==
  ASSUME DeliveryInv, [Next]_vars, NEW w \in Workers, run'[w] = run[w],
         run[w].pc = "sources" => rows'[run[w].req] = rows[run[w].req]
  PROVE  Unmoved(w)
<1>1. CASE run[w].pc = "verdict"
  BY <1>1, ScopeStays DEF Unmoved, Busy
<1>2. CASE run[w].pc # "verdict"
  BY <1>2 DEF Unmoved
<1>3. QED
  BY <1>1, <1>2

(* What a run writes to the rows of its request no other run has there.    *)
LEMMA OthersUnmoved ==
  ASSUME DeliveryInv, [Next]_vars, NEW w \in Workers, Busy(w),
         NEW x \in Workers, x # w, run'[x] = run[x],
         \A r \in Requests : r # run[w].req => rows'[r] = rows[r]
  PROVE  Unmoved(x)
<1>1. run[x].pc = "sources" =>
        run[x].req \in Requests /\ run[x].req # run[w].req
  BY DEF DeliveryInv, RefsOK, NoDuplicateExecution, Busy
<1>2. QED
  BY <1>1, SameRunUnmoved

(* A worker's step other than a boot does not touch the other runs.        *)
LEMMA OthersStay ==
  ASSUME TypeOK, NEW w \in Workers,
         \/ RunStep(w) \/ ChildLost(w) \/ MachineLost(w)
         \/ \E r \in Requests : Deliver(w, r)
  PROVE  \A x \in Workers : x # w => run'[x] = run[x]
<1>1. PICK new : run' = [run EXCEPT ![w] = new]
  <2>1. CASE RunStep(w)
    BY <2>1 DEF RunStep, Claim, ClaimConflicts, CreateRequestTasks,
       RunRaises, StartSource, FinishSource, SkipSource, LoseSource, Fold,
       Conclude, SoftTimeout, MarkFailed, MarkFailedRaises, Ack, HardKill,
       RunTo
  <2>2. CASE ~RunStep(w)
    BY <2>2 DEF ChildLost, MachineLost, Deliver
  <2>3. QED
    BY <2>1, <2>2
<1>2. QED
  BY <1>1 DEF TypeOK

(* The steps that end a run, claim its request or touch no run at all.     *)
LEMMA WorkerUnmoved ==
  ASSUME DeliveryInv, [Next]_vars, NEW w \in Workers,
         \/ Claim(w) \/ ClaimConflicts(w) \/ RunRaises(w) \/ Conclude(w)
         \/ SoftTimeout(w) \/ MarkFailed(w) \/ MarkFailedRaises(w)
         \/ Ack(w) \/ HardKill(w) \/ ChildLost(w) \/ MachineLost(w)
         \/ SweepReads(w) \/ BootUnswept(w)
  PROVE  \A x \in Workers : Unmoved(x)
<1>1. TypeOK /\ rows' = rows
  BY DEF DeliveryInv, Claim, ClaimConflicts, RunRaises, Conclude, SoftTimeout,
     MarkFailed, MarkFailedRaises, Ack, HardKill, ChildLost, MachineLost,
     SweepReads, BootUnswept
<1>2. /\ \A x \in Workers : x # w => run'[x] = run[x]
      /\ \/ run'[w].pc \in {"failing", "ack", "idle", "down", "sweeping"}
         \/ /\ run[w].pc = "claim" /\ run'[w].pc = "tasks"
            /\ run'[w].outcome = run[w].outcome
            /\ run'[w].swept = run[w].swept
  <2>1. CASE SweepReads(w)
    <3>1. PICK sweep : run' = [run EXCEPT ![w].pc = "sweeping",
                                          ![w].sweep = sweep]
      BY <2>1 DEF SweepReads
    <3>2. QED
      BY <1>1, <3>1 DEF TypeOK, RunType
  <2>2. CASE ~SweepReads(w)
    <3>1. \/ \E pc \in {"failing", "ack"} : RunTo(w, pc)
          \/ run[w].pc = "claim" /\ RunTo(w, "tasks")
          \/ run' = [run EXCEPT ![w] = IdleRun]
          \/ run' = [run EXCEPT ![w] = [IdleRun EXCEPT !.pc = "down"]]
      BY <2>2 DEF Claim, ClaimConflicts, RunRaises, Conclude, SoftTimeout,
         MarkFailed, MarkFailedRaises, Ack, HardKill, ChildLost, MachineLost,
         BootUnswept
    <3>2. QED
      BY <1>1, <3>1 DEF RunTo, IdleRun, TypeOK, RunType
  <2>3. QED
    BY <2>1, <2>2
<1>3. Unmoved(w)
  BY <1>2 DEF Unmoved
<1>4. QED
  BY <1>1, <1>2, <1>3, SameRunUnmoved

(* A run that only begins has ended no source yet.                         *)
LEMMA DeliverShows ==
  ASSUME DeliveryInv, RowsShowOutcomes, [Next]_vars, NEW w \in Workers,
         NEW r \in Requests, Deliver(w, r)
  PROVE  RowsShowOutcomes'
<1>1. /\ run'[w].pc = "claim" /\ run'[w].outcome = NotStarted
      /\ run'[w].swept = {}
  BY DEF Deliver, IdleRun, DeliveryInv, TypeOK
<1>2. RowsShow(w)'
  BY <1>1 DEF RowsShow
<1>3. ASSUME NEW x \in Workers, x # w
      PROVE  RowsShow(x)'
  <2>1. run'[x] = run[x] /\ rows' = rows
    BY <1>3, OthersStay DEF Deliver, DeliveryInv
  <2>2. QED
    BY <2>1, SameRunUnmoved, UnmovedShows DEF RowsShowOutcomes
<1>4. QED
  BY <1>2, <1>3 DEF RowsShowOutcomes

LEMMA CreateRequestTasksShows ==
  ASSUME DeliveryInv, RowsShowOutcomes, [Next]_vars, NEW w \in Workers,
         CreateRequestTasks(w)
  PROVE  RowsShowOutcomes'
<1>1. TypeOK /\ Busy(w) /\ run[w].req \in Requests
  BY DEF CreateRequestTasks, Busy, DeliveryInv, RefsOK
<1>2. /\ run'[w].pc = "sources" /\ run'[w].outcome = NotStarted
      /\ run'[w].swept = {}
  BY <1>1 DEF CreateRequestTasks, RunTo, TypeOK, RunType, RowsShowOutcomes,
     RowsShow
<1>3. \A r \in Requests : r # run[w].req => rows'[r] = rows[r]
  BY <1>1 DEF CreateRequestTasks, TypeOK
<1>4. RowsShow(w)'
  <2>1. \A s \in Sources : run'[w].outcome[s] \notin TerminalTaskStatuses
    BY <1>2 DEF NotStarted, TerminalTaskStatuses
  <2>2. QED
    BY <1>2, <2>1 DEF RowsShow
<1>5. ASSUME NEW x \in Workers, x # w
      PROVE  RowsShow(x)'
  BY <1>1, <1>3, <1>5, OthersStay, OthersUnmoved, UnmovedShows
     DEF RunStep, RowsShowOutcomes
<1>6. QED
  BY <1>4, <1>5 DEF RowsShowOutcomes

(* A source's end is written to its row together with its outcome.         *)
LEMMA SourceShows ==
  ASSUME DeliveryInv, RowsShowOutcomes, [Next]_vars, NEW w \in Workers,
         NEW s \in Sources,
         \/ StartSource(w, s) \/ FinishSource(w, s)
         \/ SkipSource(w, s) \/ LoseSource(w, s)
  PROVE  RowsShowOutcomes'
<1>1. /\ TypeOK /\ Busy(w) /\ run[w].req \in Requests
      /\ run[w].pc = "sources" /\ run[w].outcome[s] \in {"todo", "running"}
  BY DEF StartSource, FinishSource, SkipSource, LoseSource, Busy,
     DeliveryInv, RefsOK
<1>2. PICK o :
        /\ run' = [run EXCEPT ![w].outcome[s] = o]
        /\ \/ rows' = [rows EXCEPT ![run[w].req][s] = o]
           \/ /\ rows' = [rows EXCEPT ![run[w].req][s] = "processing"]
              /\ o = "running"
           \/ rows' = rows /\ o = "lost"
  BY Zenon DEF StartSource, FinishSource, SkipSource, LoseSource, SetTask
<1>3. /\ run'[w].pc = "sources" /\ run'[w].req = run[w].req
      /\ run'[w].swept = run[w].swept
      /\ \A q \in Sources :
           run'[w].outcome[q] = IF q = s THEN o ELSE run[w].outcome[q]
  BY <1>1, <1>2 DEF TypeOK, RunType
<1>4. /\ \A r \in Requests : r # run[w].req => rows'[r] = rows[r]
      /\ \A q \in Sources : q # s =>
           rows'[run[w].req][q] = rows[run[w].req][q]
      /\ o \in TerminalTaskStatuses => rows'[run[w].req][s] = o
  <2>1. "running" \notin TerminalTaskStatuses
        /\ "lost" \notin TerminalTaskStatuses
    BY DEF TerminalTaskStatuses
  <2>2. QED
    BY <1>1, <1>2, <2>1 DEF TypeOK
<1>5. s \notin run[w].swept
  BY <1>1 DEF RowsShowOutcomes, RowsShow, TerminalTaskStatuses
<1>6. \A q \in Sources :
        IF run'[w].outcome[q] \in TerminalTaskStatuses
        THEN rows'[run'[w].req][q] =
               IF q \in run'[w].swept THEN "failed" ELSE run'[w].outcome[q]
        ELSE q \notin run'[w].swept
  BY <1>1, <1>3, <1>4, <1>5 DEF RowsShowOutcomes, RowsShow
<1>7. RowsShow(w)'
  BY <1>3, <1>6 DEF RowsShow
<1>8. ASSUME NEW x \in Workers, x # w
      PROVE  RowsShow(x)'
  <2>1. run'[x] = run[x]
    BY <1>1, <1>2, <1>8 DEF TypeOK
  <2>2. QED
    BY <1>1, <1>4, <1>8, <2>1, OthersUnmoved, UnmovedShows
       DEF RowsShowOutcomes
<1>9. QED
  BY <1>7, <1>8 DEF RowsShowOutcomes

(* The fold hides no row's failure, and needs all of them to fail.         *)
LEMMA AggregateIsHonest ==
  ASSUME NEW f, NEW s \in DOMAIN f, f[s] \in TerminalTaskStatuses
  PROVE  /\ AggregateRequestStatus(f) = "complete" =>
              f[s] \notin {"failed", "partial"}
         /\ AggregateRequestStatus(f) = "failed" => f[s] = "failed"
  BY DEF AggregateRequestStatus, TerminalTaskStatuses

(* What is folded are the outcomes, but for those that were swept.         *)
LEMMA FoldShows ==
  ASSUME DeliveryInv, RowsShowOutcomes, [Next]_vars, NEW w \in Workers,
         Fold(w)
  PROVE  RowsShowOutcomes'
<1> DEFINE r == run[w].req
           f == rows[run[w].req]
<1>1. /\ TypeOK /\ Busy(w) /\ r \in Requests /\ run[w].pc = "sources"
      /\ rows' = rows /\ parcel' = parcel /\ declared' = declared
  BY DEF Fold, Busy, DeliveryInv, RefsOK, requestVars
<1>2. run' = [run EXCEPT ![w].pc = "verdict",
                         ![w].verdict = AggregateRequestStatus(f)]
  BY DEF Fold
<1>3. /\ run'[w].pc = "verdict" /\ run'[w].req = r
      /\ run'[w].verdict = AggregateRequestStatus(f)
      /\ run'[w].outcome = run[w].outcome /\ run'[w].swept = run[w].swept
  BY <1>1, <1>2 DEF TypeOK, RunType
<1>4. \A s \in Scoped(r) : s \in Sources /\ s \in DOMAIN f
  BY <1>1 DEF Scoped, TypeOK
<1>5. ASSUME NEW s \in Scoped(r), AggregateRequestStatus(f) = "complete"
      PROVE  run[w].outcome[s] \notin {"failed", "partial"}
  <2> SUFFICES ASSUME run[w].outcome[s] \in {"failed", "partial"}
               PROVE  FALSE
    OBVIOUS
  <2>1. run[w].outcome[s] \in TerminalTaskStatuses
    BY DEF TerminalTaskStatuses
  <2>2. f[s] \in {"failed", "partial"}
    BY <1>1, <1>4, <2>1 DEF RowsShowOutcomes, RowsShow
  <2>3. QED
    BY <1>4, <1>5, <2>2, AggregateIsHonest DEF TerminalTaskStatuses
<1>6. ASSUME NEW s \in Scoped(r), AggregateRequestStatus(f) = "failed",
             run[w].outcome[s] \in Serving
      PROVE  s \in run[w].swept
  <2> SUFFICES ASSUME s \notin run[w].swept
               PROVE  FALSE
    OBVIOUS
  <2>1. run[w].outcome[s] \in TerminalTaskStatuses
    BY <1>6 DEF Serving, TerminalTaskStatuses
  <2>2. f[s] = run[w].outcome[s]
    BY <1>1, <1>4, <2>1 DEF RowsShowOutcomes, RowsShow
  <2>3. QED
    BY <1>4, <1>6, <2>1, <2>2, AggregateIsHonest DEF Serving
<1>7. Scoped(run[w].req)' = Scoped(run[w].req)
  BY <1>1, <1>3 DEF Scoped
<1>8. RowsShow(w)'
  BY <1>3, <1>5, <1>6, <1>7 DEF RowsShow
<1>9. ASSUME NEW x \in Workers, x # w
      PROVE  RowsShow(x)'
  BY <1>1, <1>9, OthersStay, SameRunUnmoved, UnmovedShows
     DEF RunStep, RowsShowOutcomes
<1>10. QED
  BY <1>8, <1>9 DEF RowsShowOutcomes

(* A row a sweep writes over is recorded with the run whose source had     *)
(* ended.                                                                  *)
LEMMA SweepCommitsShows ==
  ASSUME DeliveryInv, RowsShowOutcomes, [Next]_vars, NEW w \in Workers,
         SweepCommits(w)
  PROVE  RowsShowOutcomes'
<1> DEFINE swept == run[w].sweep.rows
<1>1. TypeOK
  BY DEF DeliveryInv
<1>2. /\ run'[w] = IdleRun
      /\ \A x \in Workers : x # w =>
           run'[x] = [run[x] EXCEPT !.swept = @ \cup EndedAmong(x, swept)]
  BY DEF SweepCommits
<1>3. RowsShow(w)'
  BY <1>2 DEF RowsShow, IdleRun
<1>4. ASSUME NEW x \in Workers, x # w
      PROVE  RowsShow(x)'
  <2>1. /\ run'[x].pc = run[x].pc /\ run'[x].req = run[x].req
        /\ run'[x].outcome = run[x].outcome
        /\ run'[x].verdict = run[x].verdict
        /\ run'[x].swept = run[x].swept \cup EndedAmong(x, swept)
    <3>1. run[x] \in RunType
      BY <1>1 DEF TypeOK
    <3>2. run'[x] = [run[x] EXCEPT !.swept = @ \cup EndedAmong(x, swept)]
      BY <1>2, <1>4
    <3>3. QED
      BY <3>1, <3>2 DEF RunType
  <2>2. CASE run[x].pc # "sources"
    <3>1. run'[x].swept = run[x].swept
      BY <2>1, <2>2 DEF EndedAmong
    <3>2. run[x].pc = "verdict" =>
            /\ parcel'[run[x].req] = parcel[run[x].req]
            /\ declared'[run[x].req] = declared[run[x].req]
      BY ScopeStays DEF Busy
    <3>3. Unmoved(x)
      BY <2>1, <2>2, <3>1, <3>2 DEF Unmoved
    <3>4. QED
      BY <3>3, UnmovedShows DEF RowsShowOutcomes
  <2>3. CASE run[x].pc = "sources"
    <3>1. run[x].req \in Requests
      BY <2>3 DEF DeliveryInv, RefsOK, Busy
    <3>2. ASSUME NEW s \in Sources
          PROVE  IF run'[x].outcome[s] \in TerminalTaskStatuses
                 THEN rows'[run'[x].req][s] =
                        IF s \in run'[x].swept THEN "failed"
                        ELSE run'[x].outcome[s]
                 ELSE s \notin run'[x].swept
      <4>1. rows'[run[x].req][s] = IF <<run[x].req, s>> \in swept
                                   THEN "failed" ELSE rows[run[x].req][s]
        BY <3>1 DEF SweepCommits
      <4>2. s \in EndedAmong(x, swept) <=>
              /\ <<run[x].req, s>> \in swept
              /\ run[x].outcome[s] \in TerminalTaskStatuses
        BY <2>3 DEF EndedAmong
      <4>3. IF run[x].outcome[s] \in TerminalTaskStatuses
            THEN rows[run[x].req][s] =
                   IF s \in run[x].swept THEN "failed" ELSE run[x].outcome[s]
            ELSE s \notin run[x].swept
        BY <2>3 DEF RowsShowOutcomes, RowsShow
      <4>4. QED
        BY <2>1, <4>1, <4>2, <4>3
    <3>3. QED
      BY <2>1, <2>3, <3>2 DEF RowsShow
  <2>4. QED
    BY <2>2, <2>3
<1>5. QED
  BY <1>3, <1>4 DEF RowsShowOutcomes

LEMMA ShowStep ==
  DeliveryInv /\ RowsShowOutcomes /\ [Next]_vars => RowsShowOutcomes'
<1> SUFFICES ASSUME DeliveryInv, RowsShowOutcomes, [Next]_vars
             PROVE  RowsShowOutcomes'
  OBVIOUS
<1>1. TypeOK
  BY DEF DeliveryInv
<1>2. ASSUME run' = run, rows' = rows
      PROVE  RowsShowOutcomes'
  BY <1>2, SameRunUnmoved, UnmovedShows DEF RowsShowOutcomes
<1>3. ASSUME NEW c \in Callers,
             \/ CallStep(c) \/ CallerDies(c) \/ \E p \in Parcels : Visit(c, p)
      PROVE  RowsShowOutcomes'
  <2>1. run' = run /\ rows' = rows
    BY <1>3 DEF CallStep, TakeOver, Admit, Refuse, LoseInsertRace, Insert,
       Dispatch, DispatchRaises, MarkUndispatched, CallerDies, Visit,
       VisitFirst, VisitStale, VisitRefetch
  <2>2. QED
    BY <1>2, <2>1
<1>4. ASSUME NEW w \in Workers,
             RunStep(w) \/ ChildLost(w) \/ MachineLost(w) \/ BootStep(w)
      PROVE  RowsShowOutcomes'
  <2>1. ASSUME \A x \in Workers : Unmoved(x)
        PROVE  RowsShowOutcomes'
    BY <2>1, UnmovedShows DEF RowsShowOutcomes
  <2>2. QED
    BY <1>4, <2>1, WorkerUnmoved, CreateRequestTasksShows, SourceShows,
       FoldShows, SweepCommitsShows DEF RunStep, BootStep
<1>5. ASSUME NEW w \in Workers, NEW r \in Requests, Deliver(w, r)
      PROVE  RowsShowOutcomes'
  BY <1>5, DeliverShows
<1>6. CASE Tick
  <2>1. rows' = rows /\ parcel' = parcel /\ declared' = declared
    BY <1>6 DEF Tick
  <2>2. \A w \in Workers :
          /\ run'[w].pc = run[w].pc /\ run'[w].req = run[w].req
          /\ run'[w].outcome = run[w].outcome
          /\ run'[w].swept = run[w].swept /\ run'[w].verdict = run[w].verdict
    BY <1>1, <1>6 DEF Tick, TypeOK, RunType
  <2>3. \A w \in Workers : Unmoved(w)
    BY <2>1, <2>2 DEF Unmoved
  <2>4. QED
    BY <2>3, UnmovedShows DEF RowsShowOutcomes
<1>7. CASE UNCHANGED vars \/ \E r \in Requests : Restore(r)
  BY <1>2, <1>7 DEF vars, Restore
<1>8. QED
  BY <1>3, <1>4, <1>5, <1>6, <1>7 DEF Next

(* Only the write of the verdict takes a run from there to its ack.        *)
LEMMA OnlyConcludeAcks ==
  ASSUME TypeOK, [Next]_vars, NEW w \in Workers, run[w].pc = "verdict",
         run'[w].pc = "ack"
  PROVE  Conclude(w)
<1>1. \A x \in Workers : run[x] \in RunType
  BY DEF TypeOK
<1>2. run' # run
  OBVIOUS
<1>3. PICK x \in Workers :
        \/ RunStep(x) \/ ChildLost(x) \/ MachineLost(x) \/ BootStep(x)
        \/ (\E r \in Requests : Deliver(x, r)) \/ Tick
  BY <1>2 DEF Next, vars, CallStep, TakeOver, Admit, Refuse, LoseInsertRace,
     Insert, Dispatch, DispatchRaises, MarkUndispatched, CallerDies, Visit,
     VisitFirst, VisitStale, VisitRefetch, Restore
<1>4. ~Tick
  BY <1>1 DEF Tick, RunType
<1>5. x = w
  BY <1>3, <1>4, OthersStay, BootMoves
<1>6. ~(\E r \in Requests : Deliver(w, r)) /\ ~BootStep(w)
  BY DEF Deliver, BootStep, SweepReads, SweepCommits, BootUnswept
<1>7. ~ChildLost(w) /\ ~MachineLost(w) /\ ~HardKill(w)
  <2>1. run' # [run EXCEPT ![w] = IdleRun]
    BY DEF IdleRun, TypeOK
  <2>2. run' # [run EXCEPT ![w] = [IdleRun EXCEPT !.pc = "down"]]
    BY DEF IdleRun, TypeOK
  <2>3. QED
    BY <2>1, <2>2 DEF ChildLost, MachineLost, HardKill
<1>8. RunStep(w)
  BY <1>3, <1>4, <1>5, <1>6, <1>7
<1>9. ~Claim(w) /\ ~ClaimConflicts(w) /\ ~CreateRequestTasks(w)
      /\ ~MarkFailed(w) /\ ~MarkFailedRaises(w) /\ ~Ack(w) /\ ~Fold(w)
  BY DEF Claim, ClaimConflicts, CreateRequestTasks, MarkFailed,
     MarkFailedRaises, Ack, Fold
<1>10. ~RunRaises(w) /\ ~SoftTimeout(w)
  <2>1. run' # [run EXCEPT ![w].pc = "failing"]
    BY DEF TypeOK, RunType
  <2>2. QED
    BY <2>1 DEF RunRaises, SoftTimeout, RunTo
<1>11. ASSUME NEW s \in Sources,
              \/ StartSource(w, s) \/ FinishSource(w, s)
              \/ SkipSource(w, s) \/ LoseSource(w, s)
       PROVE  FALSE
  BY <1>11 DEF StartSource, FinishSource, SkipSource, LoseSource
<1>12. QED
  BY <1>8, <1>7, <1>9, <1>10, <1>11 DEF RunStep

(* The verdict a run writes hides none of the failures its own sources     *)
(* ended with, and a run that served something is called failed only when  *)
(* a sweep wrote over every source that served: nothing else that may      *)
(* interleave, takeovers, redeliveries, earlier attempts, has that effect. *)
THEOREM VerdictDescribesRun == Spec => VerdictReflectsRun
<1> DEFINE Honest ==
      \A w \in Workers :
        LET r == run[w].req
            ended(S) == {s \in Scoped(r) : run[w].outcome[s] \in S}
        IN  run[w].pc = "verdict" /\ run'[w].pc = "ack" =>
              /\ status'[r] = "complete" => ended({"failed", "partial"}) = {}
              /\ status'[r] = "failed" => ended(Serving) \subseteq run[w].swept
<1>1. Spec => []RowsShowOutcomes
  <2>1. Init => RowsShowOutcomes
    BY DEF Init, IdleRun, RowsShowOutcomes, RowsShow
  <2>2. QED
    BY <2>1, ShowStep, DeliveryHolds, PTL DEF Spec
<1>2. DeliveryInv /\ RowsShowOutcomes /\ [Next]_vars => [Honest]_vars
  <2> SUFFICES ASSUME DeliveryInv, RowsShowOutcomes, [Next]_vars
               PROVE  Honest
    OBVIOUS
  <2> SUFFICES ASSUME NEW w \in Workers,
                      run[w].pc = "verdict", run'[w].pc = "ack"
               PROVE  LET r == run[w].req
                          ended(S) == {s \in Scoped(r) : run[w].outcome[s] \in S}
                      IN  /\ status'[r] = "complete" =>
                               ended({"failed", "partial"}) = {}
                          /\ status'[r] = "failed" =>
                               ended(Serving) \subseteq run[w].swept
    OBVIOUS
  <2>1. TypeOK /\ run[w].req \in Requests
    BY DEF DeliveryInv, RefsOK, Busy
  <2>2. Conclude(w)
    BY <2>1, OnlyConcludeAcks
  <2>3. status'[run[w].req] = run[w].verdict
    BY <2>1, <2>2 DEF Conclude, SetStatus, TypeOK
  <2>4. RowsShow(w)
    BY DEF RowsShowOutcomes
  <2>5. QED
    BY <2>3, <2>4 DEF RowsShow
<1>3. QED
  BY <1>1, <1>2, DeliveryHolds, PTL DEF Spec, VerdictReflectsRun

-----------------------------------------------------------------------------
(* The lifecycle implements RequestBoard.  A step either leaves the runs   *)
(* that execute as they are, or one run begins, or one ends.               *)

SameRuns ==
  \A x \in Workers :
    /\ run'[x].pc \in LivePcs <=> run[x].pc \in LivePcs
    /\ run[x].pc \in LivePcs => run'[x].req = run[x].req

LEMMA SameExecuting ==
  ASSUME SameRuns
  PROVE  Executing' = Executing
  BY DEF SameRuns, Executing, LivePcs

LEMMA RunsAreBusy ==
  ASSUME NEW w \in Workers, run[w].pc \in LivePcs
  PROVE  Busy(w) /\ run[w].req \in Executing
  BY DEF LivePcs, Busy, Executing

(* A run that ends, in whatever way, takes its request off the executing.  *)
LEMMA OneRunEnds ==
  ASSUME DeliveryInv, NEW w \in Workers, run[w].pc \in LivePcs,
         run'[w].pc \notin LivePcs,
         \A x \in Workers \ {w} : run'[x] = run[x]
  PROVE  /\ run[w].req \in Requests
         /\ run[w].req \in Executing
         /\ Executing' = Executing \ {run[w].req}
<1>1. Busy(w) /\ run[w].req \in Executing
  BY RunsAreBusy
<1>2. run[w].req \in Requests
  BY <1>1 DEF DeliveryInv, RefsOK
<1>3. \A x \in Workers :
        run[x].pc \in LivePcs /\ run[x].req = run[w].req => x = w
  BY <1>1, RunsAreBusy DEF DeliveryInv, NoDuplicateExecution
<1>4. QED
  BY <1>1, <1>2, <1>3 DEF Executing, LivePcs

LEMMA LeavesOrStays ==
  ASSUME DeliveryInv, NEW w \in Workers, run'[w].pc \notin LivePcs,
         \A x \in Workers \ {w} : run'[x] = run[x],
         UNCHANGED <<status, parcel, declared>>
  PROVE  [Board!Next]_<<status, parcel, declared, Executing>>
<1>1. CASE run[w].pc \in LivePcs
  <2>1. Board!Leave(run[w].req)
    BY <1>1, OneRunEnds DEF Board!Leave
  <2>2. QED
    BY <1>1, <2>1, OneRunEnds DEF Board!Next
<1>2. CASE run[w].pc \notin LivePcs
  <2>1. SameRuns
    BY <1>2 DEF SameRuns
  <2>2. QED
    BY <2>1, SameExecuting
<1>3. QED
  BY <1>1, <1>2

(* A request on the board that is failed by whoever.                       *)
LEMMA SetFailedFails ==
  ASSUME NEW r \in Requests, status[r] # "none", SetStatus(r, "failed"),
         SameRuns
  PROVE  Board!Next
<1>1. Board!Fail(r)
  BY SameExecuting DEF SetStatus, Board!Fail
<1>2. QED
  BY <1>1 DEF Board!Next

LEMMA CallerKeepsBoard ==
  ASSUME DeliveryInv, BoardInv, NEW c \in Callers,
         CallStep(c) \/ CallerDies(c) \/ \E p \in Parcels : Visit(c, p)
  PROVE  [Board!Next]_<<status, parcel, declared, Executing>>
<1>1. SameRuns
  BY DEF CallStep, CallerDies, Visit, TakeOver, Admit, Refuse,
     LoseInsertRace, Insert, Dispatch, DispatchRaises, MarkUndispatched,
     VisitFirst, VisitStale, VisitRefetch, SameRuns
<1>2. CASE TakeOver(c)
  <2>1. call[c].req \in Requests /\ status[call[c].req] # "none"
    BY <1>2 DEF TakeOver, DeliveryInv, RefsOK, BoardInv
  <2>2. QED
    BY <1>1, <1>2, <2>1, SetFailedFails DEF TakeOver
<1>3. CASE MarkUndispatched(c)
  <2>1. call[c].req \in Requests /\ status[call[c].req] # "none"
    BY <1>3 DEF MarkUndispatched, DeliveryInv, RefsOK, BoardInv
  <2>2. QED
    BY <1>1, <1>3, <2>1, SetFailedFails DEF MarkUndispatched
<1>4. CASE Insert(c)
  <2>1. PICK r \in Requests :
          /\ status[r] = "none"
          /\ \A q \in Requests : q < r => status[q] # "none"
          /\ status' = [status EXCEPT ![r] = "queued"]
          /\ parcel' = [parcel EXCEPT ![r] = call[c].parcel]
          /\ declared' = [declared EXCEPT ![r] = call[c].scope]
    BY <1>4 DEF Insert
  <2>2. call[c].parcel \in Parcels
    BY <1>4 DEF Insert, BoardInv
  <2>3. call[c].scope \in SUBSET Sources
    BY DEF DeliveryInv, TypeOK, CallType
  <2>4. Board!OthersClosed(r, call[c].parcel)
    BY <1>4 DEF Insert, InflightOf, Inflight, Board!OthersClosed, Board!Open,
       InflightStatuses, Board!InflightStatuses
  <2>5. Board!Create(r, call[c].parcel, call[c].scope)
    BY <1>1, <2>1, <2>4, SameExecuting DEF Board!Create
  <2>6. QED
    BY <2>2, <2>3, <2>5 DEF Board!Next
<1>5. CASE UNCHANGED <<status, parcel, declared>>
  BY <1>1, <1>5, SameExecuting
<1>6. QED
  BY <1>2, <1>3, <1>4, <1>5
     DEF CallStep, CallerDies, Visit, Admit, Refuse, LoseInsertRace, Dispatch,
     DispatchRaises, VisitFirst, VisitStale, VisitRefetch, requestVars

(* A claim begins: the slot is free and nobody else runs the request.      *)
LEMMA ClaimBegins ==
  ASSUME DeliveryInv, NEW w \in Workers, Claim(w)
  PROVE  Board!Begin(run[w].req) /\ run[w].req \in Requests
<1> DEFINE r == run[w].req
<1>1. Busy(w) /\ r \in Requests /\ run[w].pc \notin LivePcs
  BY DEF Claim, Busy, DeliveryInv, RefsOK, LivePcs
<1>2. status[r] # "none"
  BY <1>1 DEF DeliveryInv, RunHoldsMessage, CreatedBeforeSent
<1>3. r \notin Executing
  BY <1>1, RunsAreBusy
     DEF DeliveryInv, NoDuplicateExecution, Executing, LivePcs
<1>4. Board!OthersClosed(r, parcel[r])
  BY <1>1 DEF Claim, SlotFree, InflightOf, Inflight, Board!OthersClosed,
     Board!Open, InflightStatuses, Board!InflightStatuses
<1>5. run' = [run EXCEPT ![w].pc = "tasks"]
  BY DEF Claim, RunTo
<1>6. Executing' = Executing \cup {r}
  BY <1>1, <1>5 DEF Executing, LivePcs, DeliveryInv, TypeOK, RunType
<1>7. status' = [status EXCEPT ![r] = "processing"]
        /\ UNCHANGED <<parcel, declared>>
  BY DEF Claim, SetStatus
<1>8. QED
  BY <1>1, <1>2, <1>3, <1>4, <1>6, <1>7 DEF Board!Begin

LEMMA ConcludeConcludes ==
  ASSUME DeliveryInv, NEW w \in Workers, Conclude(w)
  PROVE  Board!Conclude(run[w].req) /\ run[w].req \in Requests
<1> DEFINE r == run[w].req
<1>1. run' = [run EXCEPT ![w].pc = "ack"] /\ run[w].pc \in LivePcs
  BY DEF Conclude, RunTo, LivePcs
<1>2. /\ run'[w].pc \notin LivePcs
      /\ \A x \in Workers \ {w} : run'[x] = run[x]
  BY <1>1 DEF LivePcs, DeliveryInv, TypeOK, RunType
<1>3. /\ r \in Requests /\ r \in Executing
      /\ Executing' = Executing \ {r}
  BY <1>1, <1>2, OneRunEnds
<1>4. run[w].verdict \in TerminalRequestStatuses
  BY DEF Conclude, DeliveryInv, RefsOK
<1>5. status' = [status EXCEPT ![r] = run[w].verdict]
        /\ UNCHANGED <<parcel, declared>>
  BY DEF Conclude, SetStatus
<1>6. QED
  BY <1>3, <1>4, <1>5
     DEF Board!Conclude, TerminalRequestStatuses,
     Board!TerminalRequestStatuses

LEMMA WorkerKeepsBoard ==
  ASSUME DeliveryInv, BoardInv, NEW w \in Workers,
         RunStep(w) \/ ChildLost(w) \/ MachineLost(w) \/ BootStep(w)
  PROVE  [Board!Next]_<<status, parcel, declared, Executing>>
<1> DEFINE kept == UNCHANGED <<status, parcel, declared>>
<1>1. CASE Claim(w)
  BY <1>1, ClaimBegins DEF Board!Next
<1>2. CASE Conclude(w)
  BY <1>2, ConcludeConcludes DEF Board!Next
<1>3. ASSUME \/ CreateRequestTasks(w) \/ Fold(w)
             \/ SweepReads(w) \/ BootUnswept(w)
             \/ \E s \in Sources : \/ StartSource(w, s) \/ FinishSource(w, s)
                                   \/ SkipSource(w, s) \/ LoseSource(w, s)
      PROVE  kept /\ SameRuns
  <2>1. kept
    BY <1>3 DEF CreateRequestTasks, Fold, SweepReads, BootUnswept,
       StartSource, FinishSource, SkipSource, LoseSource, SetTask, requestVars
  <2>2. run \in [Workers -> RunType]
    BY DEF DeliveryInv, TypeOK
  <2>3. CASE CreateRequestTasks(w)
    <3>1. run[w].pc = "tasks" /\ run' = [run EXCEPT ![w].pc = "sources"]
      BY <2>3 DEF CreateRequestTasks, RunTo
    <3>2. QED
      BY <2>1, <2>2, <3>1 DEF SameRuns, LivePcs, RunType
  <2>4. CASE SweepReads(w) \/ BootUnswept(w)
    <3>1. run[w].pc \in {"down", "sweeping"}
      BY <2>4 DEF SweepReads, BootUnswept
    <3>2. BootStep(w) /\ TypeOK
      BY <2>4 DEF BootStep, DeliveryInv
    <3>3. QED
      BY <2>1, <3>1, <3>2, BootMoves DEF SameRuns, LivePcs
  <2>7. CASE Fold(w)
    <3>1. PICK verdict : run' = [run EXCEPT ![w].pc = "verdict",
                                            ![w].verdict = verdict]
      BY <2>7 DEF Fold
    <3>2. \A x \in Workers : /\ run'[x].req = run[x].req
                             /\ run'[x].pc = IF x = w THEN "verdict"
                                             ELSE run[x].pc
      BY <2>2, <3>1 DEF RunType
    <3>3. run[w].pc = "sources"
      BY <2>7 DEF Fold
    <3>4. QED
      BY <2>1, <3>2, <3>3 DEF SameRuns, LivePcs
  <2>5. ASSUME NEW s \in Sources, StartSource(w, s) \/ FinishSource(w, s)
                 \/ SkipSource(w, s) \/ LoseSource(w, s)
        PROVE  SameRuns
    <3>1. PICK o : run' = [run EXCEPT ![w].outcome[s] = o]
      BY <2>5, Zenon DEF StartSource, FinishSource, SkipSource, LoseSource
    <3>2. QED
      BY <2>2, <3>1 DEF SameRuns, RunType
  <2>6. QED
    BY <1>3, <2>1, <2>3, <2>4, <2>5, <2>7
<1>4. ASSUME \/ ClaimConflicts(w) \/ RunRaises(w) \/ SoftTimeout(w)
             \/ MarkFailedRaises(w) \/ Ack(w) \/ HardKill(w)
             \/ ChildLost(w) \/ MachineLost(w)
      PROVE  [Board!Next]_<<status, parcel, declared, Executing>>
  <2>1. kept
    BY <1>4 DEF ClaimConflicts, RunRaises, SoftTimeout, MarkFailedRaises,
       Ack, HardKill, ChildLost, MachineLost, requestVars
  <2>2. /\ run'[w].pc \notin LivePcs
        /\ \A x \in Workers \ {w} : run'[x] = run[x]
    BY <1>4 DEF ClaimConflicts, RunRaises, SoftTimeout, MarkFailedRaises,
       Ack, HardKill, ChildLost, MachineLost, RunTo, IdleRun, LivePcs,
       DeliveryInv, TypeOK, RunType
  <2>3. QED
    BY <2>1, <2>2, LeavesOrStays
<1>5. CASE MarkFailed(w)
  <2>1. Busy(w) /\ run[w].req \in Requests
    BY <1>5 DEF MarkFailed, Busy, DeliveryInv, RefsOK
  <2>2. status[run[w].req] # "none"
    BY <2>1 DEF DeliveryInv, RunHoldsMessage, CreatedBeforeSent
  <2>3. SameRuns
    BY <1>5 DEF MarkFailed, RunTo, SameRuns, LivePcs, DeliveryInv, TypeOK,
       RunType
  <2>4. QED
    BY <1>5, <2>1, <2>2, <2>3, SetFailedFails DEF MarkFailed
<1>6. CASE SweepCommits(w)
  <2> DEFINE lost == run[w].sweep.lost
  <2>1. SameRuns
    <3>1. run[w].pc = "sweeping"
      BY <1>6 DEF SweepCommits
    <3>2. QED
      BY <1>6, <3>1, BootMoves DEF BootStep, SameRuns, LivePcs, DeliveryInv
  <2>2. \A r \in lost : r \in Requests /\ Board!Open(r)
    BY DEF BoardInv, Inflight, Board!Open, InflightStatuses,
       Board!InflightStatuses, DeliveryInv, TypeOK, RunType, SweepType
  <2>3. /\ status' = [r \in Requests |-> IF r \in lost THEN "failed"
                                          ELSE status[r]]
        /\ UNCHANGED <<parcel, declared>>
    BY <1>6 DEF SweepCommits
  <2>4. Board!FailOpen(lost)
    BY <2>1, <2>2, <2>3, SameExecuting DEF Board!FailOpen
  <2>5. lost \in SUBSET Requests
    BY <2>2
  <2>6. QED
    BY <2>4, <2>5 DEF Board!Next
<1>7. QED
  BY <1>1, <1>2, <1>3, <1>4, <1>5, <1>6, SameExecuting DEF RunStep, BootStep

LEMMA OthersKeepBoard ==
  ASSUME DeliveryInv,
         \/ UNCHANGED vars \/ Tick \/ \E r \in Requests : Restore(r)
         \/ \E w \in Workers, r \in Requests : Deliver(w, r)
  PROVE  UNCHANGED <<status, parcel, declared, Executing>>
<1>1. UNCHANGED <<status, parcel, declared>>
  BY DEF vars, Tick, Restore, Deliver, requestVars
<1>2. CASE UNCHANGED vars \/ \E r \in Requests : Restore(r)
  BY <1>2, SameExecuting DEF vars, Restore, requestVars, SameRuns
<1>3. CASE Tick
  <2>1. SameRuns
    BY <1>3 DEF Tick, SameRuns, DeliveryInv, TypeOK, RunType
  <2>2. QED
    BY <1>1, <2>1, SameExecuting
<1>4. ASSUME NEW w \in Workers, NEW r \in Requests, Deliver(w, r)
      PROVE  SameRuns
  <2>1. run[w].pc = "idle" /\ run'[w].pc = "claim"
        /\ \A x \in Workers : x # w => run'[x] = run[x]
    BY ZenonT(30), <1>4 DEF Deliver, IdleRun, DeliveryInv, TypeOK
  <2>2. QED
    BY <2>1 DEF SameRuns, LivePcs
<1>5. QED
  BY <1>1, <1>2, <1>3, <1>4, SameExecuting

-----------------------------------------------------------------------------
(* BoardInv is kept: nothing goes back to `none' or `queued'.              *)

Begun == {"processing"} \cup TerminalRequestStatuses

LEMMA NothingIsUndone ==
  ASSUME DeliveryInv, [Next]_vars
  PROVE  \A r \in Requests :
           /\ status[r] # "none" => status'[r] # "none"
           /\ status[r] \in Begun => status'[r] \in Begun
<1>1. CASE UNCHANGED status
  BY <1>1
<1>2. ASSUME NEW r, NEW s \in Begun, SetStatus(r, s)
      PROVE  \A q \in Requests :
               /\ status[q] # "none" => status'[q] # "none"
               /\ status[q] \in Begun => status'[q] \in Begun
  BY <1>2 DEF SetStatus, Begun, TerminalRequestStatuses, DeliveryInv, TypeOK
<1>3. "failed" \in Begun /\ "processing" \in Begun
  BY DEF Begun, TerminalRequestStatuses
<1>4. ASSUME NEW c \in Callers, CallStep(c) \/ CallerDies(c)
      PROVE  \A r \in Requests :
               /\ status[r] # "none" => status'[r] # "none"
               /\ status[r] \in Begun => status'[r] \in Begun
  <2>1. CASE Insert(c)
    BY <2>1 DEF Insert, Begun, TerminalRequestStatuses, DeliveryInv, TypeOK
  <2>2. QED
    BY <1>1, <1>2, <1>3, <1>4, <2>1
       DEF CallStep, CallerDies, TakeOver, MarkUndispatched, Admit, Refuse,
       LoseInsertRace, Dispatch, DispatchRaises, requestVars
<1>5. ASSUME NEW w \in Workers,
             RunStep(w) \/ ChildLost(w) \/ MachineLost(w) \/ BootStep(w)
      PROVE  \A r \in Requests :
               /\ status[r] # "none" => status'[r] # "none"
               /\ status[r] \in Begun => status'[r] \in Begun
  <2>1. CASE SweepCommits(w)
    BY <2>1 DEF SweepCommits, Begun, TerminalRequestStatuses
  <2>2. CASE Conclude(w)
    <3>1. run[w].verdict \in Begun
      BY <2>2 DEF Conclude, DeliveryInv, RefsOK, Begun
    <3>2. QED
      BY <2>2, <3>1, <1>2 DEF Conclude
  <2>3. CASE Claim(w) \/ MarkFailed(w)
    BY <2>3, <1>2, <1>3 DEF Claim, MarkFailed
  <2>4. QED
    BY <1>1, <1>5, <2>1, <2>2, <2>3
       DEF RunStep, ClaimConflicts, CreateRequestTasks, RunRaises,
       StartSource, FinishSource, SkipSource, LoseSource, SetTask,
       Fold, SoftTimeout, MarkFailedRaises, Ack, HardKill, ChildLost,
       MachineLost, BootStep, SweepReads, BootUnswept, requestVars
<1>6. QED
  BY <1>1, <1>4, <1>5
     DEF Next, vars, Visit, VisitFirst, VisitStale, VisitRefetch, Deliver,
     Restore, Tick, requestVars

LEMMA BoardCallers ==
  ASSUME DeliveryInv, BoardInv, [Next]_vars, NEW c \in Callers
  PROVE  /\ call'[c].pc \in {"takeover", "undispatched"} =>
              (status[call[c].req] # "none")'
         /\ call'[c].pc \in {"takeover", "admit", "insert"} =>
              call'[c].parcel \in Parcels
<1>1. call \in [Callers -> CallType] /\ RefsOK
  BY DEF DeliveryInv, TypeOK
<1>2. CASE call'[c] = call[c]
  BY <1>1, <1>2, NothingIsUndone DEF BoardInv, RefsOK
<1>3. ASSUME NEW d \in Callers, CallStep(d) \/ CallerDies(d), call'[c] # call[c]
      PROVE  /\ d = c
             /\ call'[c].pc = "undispatched" =>
                  call[c].pc = "dispatch" /\ call'[c].req = call[c].req
             /\ call'[c].pc # "takeover"
             /\ call'[c].pc \in {"admit", "insert"} =>
                  /\ call[c].pc \in {"takeover", "admit"}
                  /\ call'[c].parcel = call[c].parcel
  <2>1. CASE TakeOver(d) \/ Admit(d) \/ DispatchRaises(d)
    BY <1>1, <1>3, <2>1 DEF TakeOver, Admit, DispatchRaises, GoTo, CallType
  <2>2. CASE Insert(d)
    BY <1>1, <1>3, <2>2 DEF Insert, CallType
  <2>3. QED
    BY <1>1, <1>3, <2>1, <2>2
       DEF CallStep, CallerDies, Refuse, LoseInsertRace, Dispatch,
       MarkUndispatched, Return, IdleCall
<1>4. ASSUME NEW d \in Callers, NEW p \in Parcels, Visit(d, p),
             call'[c] # call[c]
      PROVE  /\ call'[c].parcel = p
             /\ call'[c].pc \in {"admit", "takeover"}
             /\ call'[c].pc = "takeover" =>
                  /\ call'[c].req \in Requests
                  /\ status[call'[c].req] # "none"
  <2>1. CASE VisitStale(d, p)
    <3>1. PICK r \in Requests :
            /\ Stale(r)
            /\ call' = [call EXCEPT ![d] = [pc |-> "takeover", parcel |-> p,
                          req |-> r, scope |-> Sources, origin |-> "user"]]
      BY <2>1 DEF VisitStale
    <3>2. status[r] # "none"
      BY <3>1 DEF Stale, Inflight, InflightStatuses
    <3>3. QED
      BY <1>1, <1>4, <3>1, <3>2
  <2>2. QED
    BY <1>1, <1>4, <2>1 DEF Visit, VisitFirst, VisitRefetch, BeginCreate
<1>5. CASE call'[c] # call[c]
  <2>1. CASE \E d \in Callers : CallStep(d) \/ CallerDies(d)
    BY <1>1, <1>3, <1>5, <2>1, NothingIsUndone
       DEF BoardInv, RefsOK, DeliveryInv, DispatchesOnce
  <2>2. CASE \E d \in Callers, p \in Parcels : Visit(d, p)
    BY <1>1, <1>4, <1>5, <2>2, NothingIsUndone
  <2>3. ASSUME \/ UNCHANGED vars \/ Tick \/ \E r \in Requests : Restore(r)
               \/ \E w \in Workers, r \in Requests : Deliver(w, r)
        PROVE  FALSE
    BY <1>5, <2>3 DEF vars, Tick, Restore, Deliver
  <2>4. ASSUME NEW w \in Workers,
               RunStep(w) \/ ChildLost(w) \/ MachineLost(w) \/ BootStep(w)
        PROVE  FALSE
    BY <1>5, <2>4
       DEF RunStep, Claim, ClaimConflicts, CreateRequestTasks, RunRaises,
       StartSource, FinishSource, SkipSource, LoseSource, SetTask, Fold,
       Conclude, SoftTimeout, MarkFailed, MarkFailedRaises, Ack, HardKill,
       ChildLost, MachineLost, BootStep, SweepReads, SweepCommits, BootUnswept
  <2>5. QED
    BY <2>1, <2>2, <2>3, <2>4 DEF Next
<1>6. QED
  BY <1>2, <1>5

LEMMA BoardRuns ==
  ASSUME DeliveryInv, BoardInv, [Next]_vars, NEW w \in Workers,
         run'[w].pc \in LivePcs
  PROVE  (status[run[w].req])' \in Begun
<1>1. run \in [Workers -> RunType] /\ status \in [Requests -> RequestStatuses]
  BY DEF DeliveryInv, TypeOK
<1>2. CASE run[w].pc \in LivePcs /\ run'[w].req = run[w].req
  <2>1. run[w].req \in Requests
    BY <1>2, RunsAreBusy DEF DeliveryInv, RefsOK
  <2>2. status[run[w].req] \in Begun
    BY <1>1, <1>2, <2>1
       DEF BoardInv, LivePcs, RequestStatuses, InflightStatuses, Begun
  <2>3. QED
    BY <1>2, <2>1, <2>2, NothingIsUndone
<1>3. ASSUME NEW x \in Workers, Claim(x)
      PROVE  (status[run[x].req])' = "processing"
  <2>1. run[x].req \in Requests
    BY <1>3, ClaimBegins
  <2>2. QED
    BY <1>1, <1>3, <2>1 DEF Claim, RunTo, SetStatus
<1>4. ASSUME NEW x \in Workers, Claim(x), x # w
      PROVE  run'[w] = run[w]
  BY <1>1, <1>4 DEF Claim, RunTo
<1>5. ASSUME \A x \in Workers : ~Claim(x)
      PROVE  run[w].pc \in LivePcs /\ run'[w].req = run[w].req
  <2>1. CASE \E c \in Callers : \/ CallStep(c) \/ CallerDies(c)
                                \/ \E p \in Parcels : Visit(c, p)
    BY <2>1
       DEF CallStep, CallerDies, Visit, TakeOver, Admit, Refuse,
       LoseInsertRace, Insert, Dispatch, DispatchRaises, MarkUndispatched,
       VisitFirst, VisitStale, VisitRefetch
  <2>2. CASE UNCHANGED vars \/ \E r \in Requests : Restore(r)
    BY <2>2 DEF vars, Restore
  <2>3. CASE Tick
    BY <1>1, <2>3 DEF Tick, RunType
  <2>4. ASSUME NEW x \in Workers, NEW r \in Requests, Deliver(x, r)
        PROVE  run[w].pc \in LivePcs /\ run'[w].req = run[w].req
    BY <1>1, <2>4 DEF Deliver, LivePcs
  <2>5. ASSUME NEW x \in Workers,
               \/ RunStep(x) \/ ChildLost(x) \/ MachineLost(x) \/ BootStep(x)
        PROVE  run[w].pc \in LivePcs /\ run'[w].req = run[w].req
    <3>1. CASE CreateRequestTasks(x)
      <4>1. run[x].pc = "tasks" /\ run' = [run EXCEPT ![x].pc = "sources"]
        BY <3>1 DEF CreateRequestTasks, RunTo
      <4>2. QED
        BY <1>1, <4>1 DEF LivePcs, RunType
    <3>2. ASSUME NEW s \in Sources, StartSource(x, s) \/ FinishSource(x, s)
                   \/ SkipSource(x, s) \/ LoseSource(x, s)
          PROVE  run[w].pc \in LivePcs /\ run'[w].req = run[w].req
      <4>1. PICK o : run' = [run EXCEPT ![x].outcome[s] = o]
        BY <3>2, Zenon DEF StartSource, FinishSource, SkipSource, LoseSource
      <4>2. QED
        BY <1>1, <4>1 DEF RunType
    <3>3. ASSUME \/ ClaimConflicts(x) \/ RunRaises(x) \/ Conclude(x)
                 \/ SoftTimeout(x) \/ MarkFailed(x) \/ MarkFailedRaises(x)
                 \/ Ack(x) \/ HardKill(x) \/ ChildLost(x) \/ MachineLost(x)
          PROVE  run[w].pc \in LivePcs /\ run'[w].req = run[w].req
      <4>1. PICK new : run' = [run EXCEPT ![x] = new] /\ new.pc \notin LivePcs
        BY <1>1, <3>3
           DEF ClaimConflicts, RunRaises, Conclude, SoftTimeout, MarkFailed,
           MarkFailedRaises, Ack, HardKill, ChildLost, MachineLost, RunTo,
           IdleRun, LivePcs, RunType
      <4>2. QED
        BY <1>1, <4>1
    <3>4. CASE BootStep(x)
      <4>1. run[x].pc \in {"down", "sweeping"}
        BY <3>4 DEF BootStep, SweepReads, SweepCommits, BootUnswept
      <4>2. QED
        BY <3>4, <4>1, BootMoves DEF LivePcs, DeliveryInv
    <3>5. CASE Fold(x)
      <4>1. PICK verdict : run' = [run EXCEPT ![x].pc = "verdict",
                                              ![x].verdict = verdict]
        BY <3>5 DEF Fold
      <4>2. QED
        BY <1>1, <3>5, <4>1 DEF Fold, LivePcs, RunType
    <3>6. QED
      BY <1>5, <2>5, <3>1, <3>2, <3>3, <3>4, <3>5 DEF RunStep
  <2>6. QED
    BY <2>1, <2>2, <2>3, <2>4, <2>5 DEF Next
<1>6. CASE \E x \in Workers : Claim(x)
  <2>1. PICK x \in Workers : Claim(x)
    BY <1>6
  <2>2. CASE x = w
    <3>1. run' = [run EXCEPT ![w].pc = "tasks"]
      BY <2>1, <2>2 DEF Claim, RunTo
    <3>2. run'[w].req = run[w].req
      BY <1>1, <3>1 DEF RunType
    <3>3. QED
      BY <1>3, <2>1, <2>2, <3>2 DEF Begun
  <2>3. QED
    BY <1>2, <1>4, <2>1, <2>2
<1>7. QED
  BY <1>2, <1>5, <1>6

(* Nobody but the sweep itself writes to a request it has locked.          *)
LEMMA LockedStaysInflight ==
  ASSUME DeliveryInv, BoardInv, [Next]_vars, NEW x \in Workers,
         run'[x].pc = "sweeping", NEW r \in run[x].sweep.locked
  PROVE  Inflight(r)'
<1>1. /\ r \in Requests /\ Inflight(r) /\ ~Unlocked(r)
      /\ run[x].pc = "sweeping"
  BY DEF BoardInv, Unlocked, DeliveryInv, TypeOK, RunType, SweepType
<1>2. ASSUME NEW q, NEW s, SetStatus(q, s), Unlocked(q)
      PROVE  status'[r] = status[r]
  BY <1>1, <1>2 DEF SetStatus, DeliveryInv, TypeOK
<1>3. ASSUME NEW c \in Callers, Insert(c)
      PROVE  status'[r] = status[r]
  BY <1>1, <1>3 DEF Insert, Inflight, InflightStatuses, DeliveryInv, TypeOK
<1>4. ASSUME NEW w \in Workers, SweepCommits(w)
      PROVE  status'[r] = status[r]
  <2>1. w # x
    BY <1>4 DEF SweepCommits, IdleRun
  <2>2. r \notin run[w].sweep.lost
    BY <2>1 DEF BoardInv
  <2>3. QED
    BY <1>1, <1>4, <2>2 DEF SweepCommits
<1>5. status'[r] = status[r]
  BY ZenonT(30), <1>2, <1>3, <1>4
     DEF Next, vars, requestVars, CallStep, RunStep, Visit, TakeOver, Admit,
     Refuse, LoseInsertRace, Dispatch, DispatchRaises, MarkUndispatched,
     CallerDies, VisitFirst, VisitStale, VisitRefetch, Deliver, Claim,
     ClaimConflicts, CreateRequestTasks, RunRaises, StartSource,
     FinishSource, SkipSource, LoseSource, SetTask, Fold, Conclude,
     SoftTimeout, MarkFailed, MarkFailedRaises, Ack, HardKill, ChildLost,
     MachineLost, BootStep, SweepReads, BootUnswept, Restore, Tick
<1>6. QED
  BY <1>1, <1>5 DEF Inflight

(* A sweep begins with its reads, and until it ends holds what it has read.*)
HoldsNothing(x) == run'[x].sweep.locked = {} /\ run'[x].sweep.lost = {}
SweepStays(x) == run'[x].pc = run[x].pc /\ run'[x].sweep = run[x].sweep

LEMMA SweepsMove ==
  ASSUME DeliveryInv, BoardInv, [Next]_vars, NEW x \in Workers,
         ~SweepReads(x)
  PROVE  HoldsNothing(x) \/ SweepStays(x)
<1>1. TypeOK
  BY DEF DeliveryInv
<1>2. ASSUME run[x].pc # "sweeping", run'[x].sweep = run[x].sweep
      PROVE  HoldsNothing(x)
  BY <1>2 DEF BoardInv, HoldsNothing
<1>3. ASSUME run'[x].sweep = NoSweep
      PROVE  HoldsNothing(x)
  BY <1>3 DEF NoSweep, HoldsNothing
<1>4. CASE run' = run
  BY <1>4 DEF SweepStays
<1>5. CASE Tick
  BY <1>1, <1>5 DEF Tick, SweepStays, TypeOK, RunType
<1>6. ASSUME NEW w \in Workers, w # x,
             \/ RunStep(w) \/ ChildLost(w) \/ MachineLost(w) \/ BootStep(w)
             \/ \E r \in Requests : Deliver(w, r)
      PROVE  SweepStays(x)
  BY <1>1, <1>6, OthersStay, BootMoves DEF SweepStays
<1>7. CASE \/ SweepCommits(x) \/ BootUnswept(x) \/ Ack(x) \/ HardKill(x)
           \/ ChildLost(x) \/ MachineLost(x)
           \/ \E r \in Requests : Deliver(x, r)
  <2>1. run'[x].sweep = NoSweep
    <3>1. CASE SweepCommits(x)
      BY <3>1 DEF SweepCommits, IdleRun
    <3>2. CASE ~SweepCommits(x)
      <4>1. \/ run' = [run EXCEPT ![x] = IdleRun]
            \/ run' = [run EXCEPT ![x] = [IdleRun EXCEPT !.pc = "down"]]
            \/ \E r : run' = [run EXCEPT ![x] = [IdleRun EXCEPT !.pc = "claim",
                                                              !.req = r]]
        BY <1>7, <3>2 DEF BootUnswept, Ack, HardKill, ChildLost, MachineLost,
           Deliver
      <4>2. \/ run'[x] = IdleRun
            \/ run'[x] = [IdleRun EXCEPT !.pc = "down"]
            \/ \E r : run'[x] = [IdleRun EXCEPT !.pc = "claim", !.req = r]
        BY <1>1, <4>1 DEF TypeOK
      <4>3. IdleRun.sweep = NoSweep
            /\ [IdleRun EXCEPT !.pc = "down"].sweep = NoSweep
        BY DEF IdleRun
      <4>4. \A r : [IdleRun EXCEPT !.pc = "claim", !.req = r].sweep = NoSweep
        BY DEF IdleRun
      <4>5. QED
        BY <4>2, <4>3, <4>4
    <3>3. QED
      BY <3>1, <3>2
  <2>2. QED
    BY <1>3, <2>1
<1>8. CASE RunStep(x) /\ ~Ack(x) /\ ~HardKill(x)
  <2>1. run[x].pc # "sweeping"
    BY <1>8 DEF RunStep, Claim, ClaimConflicts, CreateRequestTasks,
       RunRaises, StartSource, FinishSource, SkipSource, LoseSource, Fold,
       Conclude, SoftTimeout, MarkFailed, MarkFailedRaises, LivePcs
  <2>2. run'[x].sweep = run[x].sweep
    <3>1. CASE \E s \in Sources : \/ StartSource(x, s) \/ FinishSource(x, s)
                                  \/ SkipSource(x, s) \/ LoseSource(x, s)
      <4>1. PICK s \in Sources :
              \E o : run' = [run EXCEPT ![x].outcome[s] = o]
        BY <3>1, Zenon DEF StartSource, FinishSource, SkipSource, LoseSource
      <4>2. QED
        BY <1>1, <4>1 DEF TypeOK, RunType
    <3>2. CASE Fold(x)
      <4>1. PICK verdict : run' = [run EXCEPT ![x].pc = "verdict",
                                              ![x].verdict = verdict]
        BY <3>2 DEF Fold
      <4>2. QED
        BY <1>1, <4>1 DEF TypeOK, RunType
    <3>3. ASSUME NEW pc, RunTo(x, pc)
          PROVE  run'[x].sweep = run[x].sweep
      BY <1>1, <3>3 DEF RunTo, TypeOK, RunType
    <3>4. QED
      BY <1>8, <3>1, <3>2, <3>3
         DEF RunStep, Claim, ClaimConflicts, CreateRequestTasks, RunRaises,
         Conclude, SoftTimeout, MarkFailed, MarkFailedRaises
  <2>3. QED
    BY <1>2, <2>1, <2>2
<1>9. CASE \/ UNCHANGED vars \/ \E r \in Requests : Restore(r)
           \/ \E c \in Callers : \/ CallStep(c) \/ CallerDies(c)
                                 \/ \E p \in Parcels : Visit(c, p)
  <2>1. run' = run
    BY <1>9 DEF vars, Restore, CallStep, TakeOver, Admit, Refuse,
       LoseInsertRace, Insert, Dispatch, DispatchRaises, MarkUndispatched,
       CallerDies, Visit, VisitFirst, VisitStale, VisitRefetch
  <2>2. QED
    BY <1>4, <2>1
<1>10. QED
  BY <1>5, <1>6, <1>7, <1>8, <1>9 DEF Next, BootStep

LEMMA BoardSweeps ==
  ASSUME DeliveryInv, BoardInv, [Next]_vars
  PROVE  /\ \A x \in Workers :
              /\ run'[x].pc # "sweeping" => run'[x].sweep.locked = {}
              /\ run'[x].sweep.lost \subseteq run'[x].sweep.locked
              /\ \A r \in run'[x].sweep.locked : Inflight(r)'
         /\ \A x, y \in Workers :
              run'[x].sweep.locked \cap run'[y].sweep.locked # {} => x = y
<1>1. TypeOK
  BY DEF DeliveryInv
<1>2. CASE \E w \in Workers : SweepReads(w)
  <2>0. PICK w \in Workers : SweepReads(w)
    BY <1>2
  <2>1. PICK locked \in SUBSET Requests :
          \E rs :
          /\ run[w].pc = "down" /\ status' = status
          /\ locked \subseteq {r \in Requests : Inflight(r) /\ Unlocked(r)}
          /\ run' = [run EXCEPT ![w].pc = "sweeping",
                        ![w].sweep = [locked |-> locked,
                                      lost |-> {r \in locked : Stale(r)},
                                      rows |-> rs]]
    BY <2>0 DEF SweepReads, requestVars
  <2>2. /\ run'[w].pc = "sweeping" /\ run'[w].sweep.locked = locked
        /\ run'[w].sweep.lost = {r \in locked : Stale(r)}
        /\ \A x \in Workers : x # w => run'[x] = run[x]
    BY <1>1, <2>1 DEF TypeOK, RunType
  <2>3. \A r \in Requests : Inflight(r) => Inflight(r)'
    BY <2>1 DEF Inflight
  <2>4. \A x \in Workers : x # w => locked \cap run[x].sweep.locked = {}
    BY <2>1 DEF Unlocked
  <2>5. \A x \in Workers : run[x].sweep.locked \in SUBSET Requests
    BY <1>1 DEF TypeOK, RunType, SweepType
  <2>6. QED
    BY ZenonT(30), <2>1, <2>2, <2>3, <2>4, <2>5 DEF BoardInv
<1>3. CASE \A w \in Workers : ~SweepReads(w)
  <2>1. \A x \in Workers : HoldsNothing(x) \/ SweepStays(x)
    BY <1>3, SweepsMove
  <2>2. ASSUME NEW x \in Workers, SweepStays(x),
               NEW r \in run'[x].sweep.locked
        PROVE  Inflight(r)'
    <3>1. r \in run[x].sweep.locked /\ run'[x].pc = "sweeping"
      BY <2>2 DEF SweepStays, BoardInv
    <3>2. QED
      BY <3>1, LockedStaysInflight
  <2>3. QED
    BY <2>1, <2>2 DEF HoldsNothing, SweepStays, BoardInv
<1>4. QED
  BY <1>2, <1>3

LEMMA BoardStep == DeliveryInv /\ BoardInv /\ [Next]_vars => BoardInv'
<1> SUFFICES ASSUME DeliveryInv, BoardInv, [Next]_vars
             PROVE  BoardInv'
  OBVIOUS
<1>1. ASSUME NEW w \in Workers, run'[w].pc \in LivePcs
      PROVE  (status[run[w].req])' \notin {"none", "queued"}
  BY <1>1, BoardRuns DEF Begun, TerminalRequestStatuses
<1>2. QED
  BY <1>1, BoardCallers, BoardSweeps DEF BoardInv

(* The lifecycle implements RequestBoard, for every number of parcels,     *)
(* workers, callers, requests and losses: only the one run that executes a *)
(* request calls it complete or partial, whatever is redelivered, taken    *)
(* over, swept or killed, and no request is dropped, moved or queued twice.*)
THEOREM LifecycleKeepsBoard == Spec => KeepsBoard
<1>1. Init => Board!Init
  BY DEF Init, IdleRun, LivePcs, Executing, Board!Init
<1>2. Init => BoardInv
  BY DEF Init, IdleRun, NoSweep, IdleCall, LivePcs, BoardInv
<1>3. DeliveryInv /\ BoardInv /\ [Next]_vars =>
        [Board!Next]_<<status, parcel, declared, Executing>>
  BY CallerKeepsBoard, WorkerKeepsBoard, OthersKeepBoard DEF Next
<1>4. QED
  BY <1>1, <1>2, <1>3, DeliveryInit, DeliveryStep, BoardStep, PTL
     DEF Spec, KeepsBoard, Board!Spec, Board!boardVars

=============================================================================
