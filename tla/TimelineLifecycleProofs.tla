---------------------- MODULE TimelineLifecycleProofs ----------------------
(***************************************************************************)
(* Proofs about TimelineLifecycle, for every set of parcels, workers and   *)
(* callers and every value of the limits with HardLimit < Visibility.      *)
(***************************************************************************)
EXTENDS TimelineLifecycle, TLAPS

TypeInv == TypeOK /\ RefsOK

-----------------------------------------------------------------------------
(* What the writes the actions share preserve.                             *)

(* The fold of task rows always yields a terminal request status.          *)
LEMMA AggregateTerminal ==
  ASSUME NEW f
  PROVE  AggregateRequestStatus(f) \in TerminalRequestStatuses
  BY DEF AggregateRequestStatus, TerminalRequestStatuses

(* Writing a known status over a request keeps the request columns typed.  *)
LEMMA SetStatusTyped ==
  ASSUME TypeOK, NEW r \in Requests, NEW s \in RequestStatuses, SetStatus(r, s)
  PROVE  /\ status' \in [Requests -> RequestStatuses]
         /\ age' \in [Requests -> 0 .. StaleAfter + 1]
         /\ parcel' = parcel /\ declared' = declared
  BY TimeAssumption DEF TypeOK, SetStatus, AgeAfterWrite

(* A worker's program counter moves among the known ones.                  *)
LEMMA RunToTyped ==
  ASSUME TypeOK, NEW w \in Workers, NEW pc \in RunPcs, RunTo(w, pc)
  PROVE  run' \in [Workers -> RunType]
  BY ZenonT(30) DEF TypeOK, RunTo, RunType

(* A source's outcome is recorded among the known ones.                    *)
LEMMA OutcomeTyped ==
  ASSUME TypeOK, NEW w \in Workers, NEW s \in Sources, NEW o \in Outcomes,
         run' = [run EXCEPT ![w].outcome[s] = o]
  PROVE  run' \in [Workers -> RunType]
  BY ZenonT(30) DEF TypeOK, RunType

(* Writing a task row keeps the rows typed and every other column alone.   *)
LEMMA SetTaskTyped ==
  ASSUME TypeOK, NEW w \in Workers, run[w].req \in Requests,
         NEW s \in Sources, NEW o \in TaskStatuses, SetTask(w, s, o),
         run' \in [Workers -> RunType]
  PROVE  TypeOK'
<1>1. rows' \in [Requests -> [Sources -> TaskStatuses]]
  BY DEF TypeOK, SetTask
<1>2. QED
  BY <1>1 DEF TypeOK, SetTask, requestVars

(* Idle records are well typed.                                            *)
LEMMA IdleTyped == IdleRun \in RunType /\ IdleCall \in CallType
<1>1. NoSweep \in SweepType
  BY DEF NoSweep, SweepType
<1>2. IdleRun \in RunType
  BY <1>1, TimeAssumption DEF IdleRun, RunType, RunPcs, NotStarted, Outcomes
<1>3. IdleCall \in CallType
  BY DEF IdleCall, CallType, CallPcs
<1>4. QED
  BY <1>2, <1>3

(* The record of one worker alone is rewritten, among the known ones.      *)
LEMMA RecordTyped ==
  ASSUME TypeOK, NEW w \in Workers, NEW record \in RunType,
         run' = [run EXCEPT ![w] = record]
  PROVE  run' \in [Workers -> RunType]
  BY DEF TypeOK

(* A caller's program counter moves among the known ones, or it returns.   *)
LEMMA GoToTyped ==
  ASSUME TypeOK, NEW c \in Callers, NEW pc \in CallPcs, GoTo(c, pc)
  PROVE  call' \in [Callers -> CallType]
  BY ZenonT(30) DEF TypeOK, GoTo, CallType

LEMMA ReturnTyped ==
  ASSUME TypeOK, NEW c \in Callers, Return(c)
  PROVE  call' \in [Callers -> CallType]
  BY IdleTyped DEF TypeOK, Return

(* Acknowledging keeps the message states typed.                           *)
LEMMA AckTyped ==
  ASSUME TypeOK, NEW r \in Requests, AckMessage(r)
  PROVE  msg' \in [Requests -> {"unsent", "ready", "unacked", "gone"}]
  BY DEF TypeOK, AckMessage

-----------------------------------------------------------------------------
(* Type correctness, one step per action.                                  *)

LEMMA CallerTyped ==
  ASSUME TypeInv, NEW c \in Callers, CallStep(c) \/ CallerDies(c)
  PROVE  TypeInv'
<1>1. CASE TakeOver(c)
  <2>1. call[c].req \in Requests
    BY <1>1 DEF TakeOver, TypeInv, RefsOK, Busy
  <2>2. "failed" \in RequestStatuses
    BY DEF RequestStatuses, TerminalRequestStatuses, InflightStatuses
  <2>3. SetStatus(call[c].req, "failed")
    BY <1>1 DEF TakeOver
  <2>4. /\ status' \in [Requests -> RequestStatuses]
        /\ age' \in [Requests -> 0 .. StaleAfter + 1]
        /\ parcel' = parcel /\ declared' = declared
    BY <2>1, <2>2, <2>3, SetStatusTyped DEF TypeInv
  <2>5. call' \in [Callers -> CallType]
    BY <1>1, GoToTyped, "admit" \in CallPcs DEF TakeOver, CallPcs, TypeInv
  <2>6. TypeOK'
    BY <1>1, <2>4, <2>5 DEF TakeOver, TypeInv, TypeOK
  <2>7. RefsOK'
    BY <1>1 DEF TakeOver, GoTo, TypeInv, TypeOK, RefsOK, Busy
  <2>8. QED
    BY <2>6, <2>7 DEF TypeInv
<1>2. CASE Admit(c)
  <2>1. call' \in [Callers -> CallType]
    BY <1>2, GoToTyped, "insert" \in CallPcs DEF Admit, CallPcs, TypeInv
  <2>2. TypeOK'
    BY <1>2, <2>1 DEF Admit, requestVars, TypeInv, TypeOK
  <2>3. RefsOK'
    BY <1>2 DEF Admit, GoTo, TypeInv, TypeOK, RefsOK, Busy
  <2>4. QED
    BY <2>2, <2>3 DEF TypeInv
<1>3. CASE Refuse(c)
  <2>1. call' \in [Callers -> CallType]
    BY <1>3, ReturnTyped DEF Refuse, TypeInv
  <2>2. TypeOK'
    BY <1>3, <2>1 DEF Refuse, requestVars, TypeInv, TypeOK
  <2>3. RefsOK'
    BY <1>3 DEF Refuse, Return, IdleCall, TypeInv, TypeOK, RefsOK, Busy
  <2>4. QED
    BY <2>2, <2>3 DEF TypeInv
<1>4. CASE LoseInsertRace(c)
  <2>1. call' \in [Callers -> CallType]
    BY <1>4, ReturnTyped DEF LoseInsertRace, TypeInv
  <2>2. TypeOK'
    BY <1>4, <2>1 DEF LoseInsertRace, requestVars, TypeInv, TypeOK
  <2>3. RefsOK'
    BY <1>4 DEF LoseInsertRace, Return, IdleCall, TypeInv, TypeOK, RefsOK, Busy
  <2>4. QED
    BY <2>2, <2>3 DEF TypeInv
<1>5. CASE Insert(c)
  <2>1. PICK r \in Requests :
          call' = [call EXCEPT ![c] = [@ EXCEPT !.pc = "dispatch",
                                                !.req = r]]
    BY <1>5 DEF Insert
  <2>2. [call[c] EXCEPT !.pc = "dispatch", !.req = r] \in CallType
    BY <2>1 DEF CallType, CallPcs, TypeInv, TypeOK
  <2>3. call' \in [Callers -> CallType]
    BY <2>1, <2>2 DEF TypeInv, TypeOK
  <2>4. /\ declared' \in [Requests -> SUBSET Sources]
        /\ parcel' \in [Requests -> Parcels \cup {NoParcel}]
    BY <1>5 DEF Insert, CallType, TypeInv, TypeOK
  <2>5. TypeOK'
    BY <1>5, <2>1, <2>2, <2>3, <2>4, TimeAssumption DEF Insert,
       RequestStatuses, InflightStatuses, TypeInv, TypeOK
  <2>6. RefsOK'
    BY <1>5 DEF Insert, CallType, TypeInv, TypeOK, RefsOK, Busy
  <2>7. QED
    BY <2>5, <2>6 DEF TypeInv
<1>6. CASE Dispatch(c)
  <2>1. call' \in [Callers -> CallType]
    BY <1>6, ReturnTyped DEF Dispatch, TypeInv
  <2>2. TypeOK'
    BY <1>6, <2>1 DEF Dispatch, requestVars, TypeInv, TypeOK
  <2>3. RefsOK'
    BY <1>6 DEF Dispatch, Return, IdleCall, TypeInv, TypeOK, RefsOK, Busy
  <2>4. QED
    BY <2>2, <2>3 DEF TypeInv
<1>7. CASE DispatchRaises(c)
  <2>1. call' \in [Callers -> CallType]
    BY <1>7, GoToTyped, "undispatched" \in CallPcs DEF DispatchRaises, CallPcs,
       TypeInv
  <2>2. TypeOK'
    BY <1>7, <2>1 DEF DispatchRaises, requestVars, TypeInv, TypeOK
  <2>3. RefsOK'
    BY <1>7 DEF DispatchRaises, GoTo, TypeInv, TypeOK, RefsOK, Busy
  <2>4. QED
    BY <2>2, <2>3 DEF TypeInv
<1>8. CASE MarkUndispatched(c)
  <2>1. call[c].req \in Requests
    BY <1>8 DEF MarkUndispatched, TypeInv, RefsOK, Busy
  <2>2. "failed" \in RequestStatuses
    BY DEF RequestStatuses, TerminalRequestStatuses, InflightStatuses
  <2>3. SetStatus(call[c].req, "failed")
    BY <1>8 DEF MarkUndispatched
  <2>4. /\ status' \in [Requests -> RequestStatuses]
        /\ age' \in [Requests -> 0 .. StaleAfter + 1]
        /\ parcel' = parcel /\ declared' = declared
    BY <2>1, <2>2, <2>3, SetStatusTyped DEF TypeInv
  <2>5. call' \in [Callers -> CallType]
    BY <1>8, ReturnTyped DEF MarkUndispatched, TypeInv
  <2>6. TypeOK'
    BY <1>8, <2>4, <2>5 DEF MarkUndispatched, TypeInv, TypeOK
  <2>7. RefsOK'
    BY <1>8 DEF MarkUndispatched, Return, IdleCall, TypeInv, TypeOK, RefsOK,
       Busy
  <2>8. QED
    BY <2>6, <2>7 DEF TypeInv
<1>9. CASE CallerDies(c)
  <2>1. call' \in [Callers -> CallType]
    BY <1>9, ReturnTyped DEF CallerDies, TypeInv
  <2>2. TypeOK'
    BY <1>9, <2>1, BoundAssumption DEF CallerDies, requestVars, RefsOK,
       TypeInv, TypeOK
  <2>3. RefsOK'
    BY <1>9 DEF CallerDies, Return, IdleCall, TypeInv, TypeOK, RefsOK, Busy
  <2>4. QED
    BY <2>2, <2>3 DEF TypeInv
<1>10. QED
  BY <1>1, <1>2, <1>3, <1>4, <1>5, <1>6, <1>7, <1>8, <1>9 DEF CallStep

LEMMA VisitTyped ==
  ASSUME TypeInv, NEW c \in Callers, NEW p \in Parcels, Visit(c, p)
  PROVE  TypeInv'
<1>1. CASE VisitFirst(c, p)
  <2>1. call' \in [Callers -> CallType]
    BY <1>1 DEF VisitFirst, BeginCreate, CallType, CallPcs, TypeInv, TypeOK
  <2>2. TypeOK'
    BY <1>1, <2>1 DEF VisitFirst, requestVars, TypeInv, TypeOK
  <2>3. RefsOK'
    BY <1>1 DEF VisitFirst, BeginCreate, TypeInv, TypeOK, RefsOK, Busy
  <2>4. QED
    BY <2>2, <2>3 DEF TypeInv
<1>2. CASE VisitStale(c, p)
  <2>1. call' \in [Callers -> CallType]
    BY <1>2 DEF VisitStale, CallType, CallPcs, TypeInv, TypeOK
  <2>2. TypeOK'
    BY <1>2, <2>1 DEF VisitStale, requestVars, TypeInv, TypeOK
  <2>3. RefsOK'
    BY <1>2 DEF VisitStale, CallType, TypeInv, TypeOK, RefsOK, Busy
  <2>4. QED
    BY <2>2, <2>3 DEF TypeInv
<1>3. CASE VisitRefetch(c, p)
  <2>1. call' \in [Callers -> CallType]
    BY <1>3 DEF VisitRefetch, BeginCreate, CallType, CallPcs, TypeInv, TypeOK
  <2>2. TypeOK'
    BY <1>3, <2>1 DEF VisitRefetch, requestVars, TypeInv, TypeOK
  <2>3. RefsOK'
    BY <1>3 DEF VisitRefetch, BeginCreate, TypeInv, TypeOK, RefsOK, Busy
  <2>4. QED
    BY <2>2, <2>3 DEF TypeInv
<1>4. QED
  BY <1>1, <1>2, <1>3 DEF Visit

LEMMA WorkerTyped ==
  ASSUME TypeInv, NEW w \in Workers, RunStep(w)
  PROVE  TypeInv'
<1>1. CASE Claim(w)
  <2>1. run[w].req \in Requests
    BY <1>1 DEF Claim, TypeInv, RefsOK, Busy
  <2>2. "processing" \in RequestStatuses
    BY DEF RequestStatuses, TerminalRequestStatuses, InflightStatuses
  <2>3. SetStatus(run[w].req, "processing")
    BY <1>1 DEF Claim
  <2>4. /\ status' \in [Requests -> RequestStatuses]
        /\ age' \in [Requests -> 0 .. StaleAfter + 1]
        /\ parcel' = parcel /\ declared' = declared
    BY <2>1, <2>2, <2>3, SetStatusTyped DEF TypeInv
  <2>5. run' \in [Workers -> RunType]
    BY <1>1, RunToTyped DEF Claim, RunPcs, TypeInv
  <2>6. TypeOK'
    BY <1>1, <2>4, <2>5 DEF Claim, TypeInv, TypeOK
  <2>7. RefsOK'
    BY <1>1 DEF Claim, RunTo, TypeInv, TypeOK, RefsOK, Busy
  <2>8. QED
    BY <2>6, <2>7 DEF TypeInv
<1>2. CASE ClaimConflicts(w)
  <2>1. run' \in [Workers -> RunType]
    BY <1>2, RunToTyped DEF ClaimConflicts, RunPcs, TypeInv
  <2>2. TypeOK'
    BY <1>2, <2>1 DEF ClaimConflicts, requestVars, TypeInv, TypeOK
  <2>3. RefsOK'
    BY <1>2 DEF ClaimConflicts, RunTo, TypeInv, TypeOK, RefsOK, Busy
  <2>4. QED
    BY <2>2, <2>3 DEF TypeInv
<1>3. CASE CreateRequestTasks(w)
  <2>1. run' \in [Workers -> RunType]
    BY <1>3, RunToTyped DEF CreateRequestTasks, RunPcs, TypeInv
  <2>2. TypeOK'
    BY <1>3, <2>1 DEF CreateRequestTasks, requestVars, TaskStatuses,
       InflightStatuses, TypeInv, TypeOK
  <2>3. RefsOK'
    BY <1>3 DEF CreateRequestTasks, RunTo, TypeInv, TypeOK, RefsOK, Busy
  <2>4. QED
    BY <2>2, <2>3 DEF TypeInv
<1>4. CASE RunRaises(w)
  <2>1. run' \in [Workers -> RunType]
    BY <1>4, RunToTyped DEF RunRaises, RunPcs, TypeInv
  <2>2. TypeOK'
    BY <1>4, <2>1 DEF RunRaises, requestVars, TypeInv, TypeOK
  <2>3. RefsOK'
    BY <1>4 DEF RunRaises, LivePcs, RunTo, TypeInv, TypeOK, RefsOK, Busy
  <2>4. QED
    BY <2>2, <2>3 DEF TypeInv
<1>5. ASSUME NEW s \in Sources, StartSource(w, s)
      PROVE  TypeInv'
  <2>1. run[w].req \in Requests
    BY <1>5 DEF StartSource, TypeInv, RefsOK, Busy
  <2>2. run' \in [Workers -> RunType]
    BY <1>5, OutcomeTyped, "running" \in Outcomes
       DEF StartSource, Outcomes, TerminalTaskStatuses, TypeInv
  <2>3. TypeOK'
    BY <1>5, <2>1, <2>2, SetTaskTyped, "processing" \in TaskStatuses
       DEF StartSource, TaskStatuses, InflightStatuses, TerminalTaskStatuses,
          TypeInv
  <2>4. RefsOK'
    BY <1>5 DEF StartSource, SetTask, TypeInv, TypeOK, RefsOK, Busy
  <2>5. QED
    BY <2>3, <2>4 DEF TypeInv
<1>6. ASSUME NEW s \in Sources, FinishSource(w, s)
      PROVE  TypeInv'
  <2>1. run[w].req \in Requests
    BY <1>6 DEF FinishSource, TypeInv, RefsOK, Busy
  <2>2. PICK o \in TaskVerdicts(s) :
          run' = [run EXCEPT ![w].outcome[s] = o] /\ SetTask(w, s, o)
    BY <1>6 DEF FinishSource
  <2>3. o \in Outcomes /\ o \in TaskStatuses
    BY <2>2 DEF TaskVerdicts, Outcomes, TaskStatuses, TerminalTaskStatuses
  <2>4. run' \in [Workers -> RunType]
    BY <2>2, <2>3, OutcomeTyped DEF TypeInv
  <2>5. TypeOK'
    BY <2>1, <2>2, <2>3, <2>4, SetTaskTyped DEF TypeInv
  <2>6. RefsOK'
    BY <2>2 DEF SetTask, TypeInv, TypeOK, RefsOK, Busy
  <2>7. QED
    BY <2>5, <2>6 DEF TypeInv
<1>7. ASSUME NEW s \in Sources, SkipSource(w, s)
      PROVE  TypeInv'
  <2>1. run[w].req \in Requests
    BY <1>7 DEF SkipSource, TypeInv, RefsOK, Busy
  <2>2. run' \in [Workers -> RunType]
    BY <1>7, OutcomeTyped, "skipped" \in Outcomes
       DEF SkipSource, Outcomes, TerminalTaskStatuses, TypeInv
  <2>3. TypeOK'
    BY <1>7, <2>1, <2>2, SetTaskTyped, "skipped" \in TaskStatuses
       DEF SkipSource, TaskStatuses, InflightStatuses, TerminalTaskStatuses,
          TypeInv
  <2>4. RefsOK'
    BY <1>7 DEF SkipSource, SetTask, TypeInv, TypeOK, RefsOK, Busy
  <2>5. QED
    BY <2>3, <2>4 DEF TypeInv
<1>8. ASSUME NEW s \in Sources, LoseSource(w, s)
      PROVE  TypeInv'
  <2>1. run' \in [Workers -> RunType]
    BY <1>8, OutcomeTyped, "lost" \in Outcomes DEF LoseSource, Outcomes,
       TypeInv
  <2>2. TypeOK'
    BY <1>8, <2>1 DEF LoseSource, requestVars, TypeInv, TypeOK
  <2>3. RefsOK'
    BY <1>8 DEF LoseSource, requestVars, TypeInv, TypeOK, RefsOK, Busy
  <2>4. QED
    BY <2>2, <2>3 DEF TypeInv
<1>9. CASE Conclude(w)
  <2>1. run[w].req \in Requests
    BY <1>9 DEF Conclude, TypeInv, RefsOK, Busy
  <2>2. run[w].verdict \in TerminalRequestStatuses \cup {"none"}
    BY DEF TypeInv, TypeOK, RunType
  <2>3. run[w].verdict \in RequestStatuses
    BY <2>2 DEF RequestStatuses
  <2>4. SetStatus(run[w].req, run[w].verdict)
    BY <1>9 DEF Conclude
  <2>5. /\ status' \in [Requests -> RequestStatuses]
        /\ age' \in [Requests -> 0 .. StaleAfter + 1]
        /\ parcel' = parcel /\ declared' = declared
    BY <2>1, <2>3, <2>4, SetStatusTyped DEF TypeInv
  <2>6. run' \in [Workers -> RunType]
    BY <1>9, RunToTyped DEF Conclude, RunPcs, TypeInv
  <2>7. TypeOK'
    BY <1>9, <2>5, <2>6 DEF Conclude, TypeInv, TypeOK
  <2>8. RefsOK'
    BY <1>9 DEF Conclude, RunTo, TypeInv, TypeOK, RefsOK, Busy
  <2>9. QED
    BY <2>7, <2>8 DEF TypeInv
<1>16. CASE Fold(w)
  <2>1. PICK verdict \in TerminalRequestStatuses :
          run' = [run EXCEPT ![w].pc = "verdict", ![w].verdict = verdict]
    BY <1>16, AggregateTerminal DEF Fold
  <2>2. run[w] \in RunType
    BY DEF TypeInv, TypeOK
  <2>3. [run[w] EXCEPT !.pc = "verdict", !.verdict = verdict] \in RunType
    BY <2>2 DEF RunType, RunPcs
  <2>4. run' = [run EXCEPT ![w] = [run[w] EXCEPT !.pc = "verdict",
                                                 !.verdict = verdict]]
    BY <2>1 DEF TypeInv, TypeOK
  <2>5. run' \in [Workers -> RunType]
    BY <2>3, <2>4, RecordTyped DEF TypeInv
  <2>6. TypeOK'
    BY <1>16, <2>5 DEF Fold, requestVars, TypeInv, TypeOK
  <2>7. RefsOK'
    <3>1. /\ run'[w].verdict = verdict /\ run'[w].req = run[w].req
          /\ \A x \in Workers : x # w => run'[x] = run[x]
      BY <2>2, <2>4 DEF RunType, TypeInv, TypeOK
    <3>2. QED
      BY <1>16, <3>1 DEF Fold, TypeInv, RefsOK, Busy
  <2>8. QED
    BY <2>6, <2>7 DEF TypeInv
<1>10. CASE SoftTimeout(w)
  <2>1. run' \in [Workers -> RunType]
    BY <1>10, RunToTyped DEF SoftTimeout, RunPcs, TypeInv
  <2>2. TypeOK'
    BY <1>10, <2>1 DEF SoftTimeout, requestVars, TypeInv, TypeOK
  <2>3. RefsOK'
    BY <1>10 DEF SoftTimeout, LivePcs, RunTo, TypeInv, TypeOK, RefsOK, Busy
  <2>4. QED
    BY <2>2, <2>3 DEF TypeInv
<1>11. CASE MarkFailed(w)
  <2>1. run[w].req \in Requests
    BY <1>11 DEF MarkFailed, TypeInv, RefsOK, Busy
  <2>2. "failed" \in RequestStatuses
    BY DEF RequestStatuses, TerminalRequestStatuses, InflightStatuses
  <2>3. SetStatus(run[w].req, "failed")
    BY <1>11 DEF MarkFailed
  <2>4. /\ status' \in [Requests -> RequestStatuses]
        /\ age' \in [Requests -> 0 .. StaleAfter + 1]
        /\ parcel' = parcel /\ declared' = declared
    BY <2>1, <2>2, <2>3, SetStatusTyped DEF TypeInv
  <2>5. run' \in [Workers -> RunType]
    BY <1>11, RunToTyped DEF MarkFailed, RunPcs, TypeInv
  <2>6. TypeOK'
    BY <1>11, <2>4, <2>5 DEF MarkFailed, TypeInv, TypeOK
  <2>7. RefsOK'
    BY <1>11 DEF MarkFailed, RunTo, TypeInv, TypeOK, RefsOK, Busy
  <2>8. QED
    BY <2>6, <2>7 DEF TypeInv
<1>12. CASE MarkFailedRaises(w)
  <2>1. run' \in [Workers -> RunType]
    BY <1>12, RunToTyped DEF MarkFailedRaises, RunPcs, TypeInv
  <2>2. run[w].req \in Requests
    BY <1>12 DEF MarkFailedRaises, TypeInv, RefsOK, Busy
  <2>3. TypeOK'
    BY <1>12, <2>1, <2>2 DEF MarkFailedRaises, requestVars, TypeInv, TypeOK
  <2>4. RefsOK'
    BY <1>12 DEF MarkFailedRaises, RunTo, TypeInv, TypeOK, RefsOK, Busy
  <2>5. QED
    BY <2>3, <2>4 DEF TypeInv
<1>13. CASE Ack(w)
  <2>1. run' \in [Workers -> RunType]
    BY <1>13, IdleTyped DEF Ack, TypeInv, TypeOK
  <2>2. run[w].req \in Requests
    BY <1>13 DEF Ack, TypeInv, RefsOK, Busy
  <2>3. msg' \in [Requests -> {"unsent", "ready", "unacked", "gone"}]
    BY <1>13, <2>2, AckTyped DEF Ack, TypeInv
  <2>4. TypeOK'
    BY <1>13, <2>1, <2>2, <2>3 DEF Ack, requestVars, TypeInv, TypeOK
  <2>5. RefsOK'
    BY <1>13 DEF Ack, IdleRun, TypeInv, TypeOK, RefsOK, Busy
  <2>6. QED
    BY <2>4, <2>5 DEF TypeInv
<1>14. CASE HardKill(w)
  <2>1. run' \in [Workers -> RunType]
    BY <1>14, IdleTyped DEF HardKill, TypeInv, TypeOK
  <2>2. run[w].req \in Requests
    BY <1>14 DEF HardKill, TypeInv, RefsOK, Busy
  <2>3. msg' \in [Requests -> {"unsent", "ready", "unacked", "gone"}]
    BY <1>14, <2>2, AckTyped DEF HardKill, TypeInv
  <2>4. TypeOK'
    BY <1>14, <2>1, <2>2, <2>3 DEF HardKill, requestVars, TypeInv, TypeOK
  <2>5. RefsOK'
    BY <1>14 DEF HardKill, IdleRun, TypeInv, TypeOK, RefsOK, Busy
  <2>6. QED
    BY <2>4, <2>5 DEF TypeInv
<1>15. QED
  BY <1>1, <1>2, <1>3, <1>4, <1>5, <1>6, <1>7, <1>8, <1>9, <1>10, <1>11,
     <1>12, <1>13, <1>14, <1>16 DEF RunStep

LEMMA OtherTyped ==
  ASSUME TypeInv,
         \/ \E w \in Workers, r \in Requests : Deliver(w, r)
         \/ \E w \in Workers : ChildLost(w) \/ MachineLost(w)
         \/ \E w \in Workers : BootStep(w)
         \/ \E r \in Requests : Restore(r)
         \/ Tick
  PROVE  TypeInv'
<1>1. ASSUME NEW w \in Workers, NEW r \in Requests, Deliver(w, r)
      PROVE  TypeInv'
  <2>0. [IdleRun EXCEPT !.pc = "claim", !.req = r] \in RunType
    BY IdleTyped DEF RunType, RunPcs
  <2>1. run' \in [Workers -> RunType]
    BY <1>1, <2>0, RecordTyped DEF Deliver, TypeInv
  <2>2. TypeOK'
    <3>0. 0 \in 0 .. Visibility
      BY TimeAssumption
    <3>1. held' \in [Requests -> 0 .. Visibility]
      <4>1. held' = [held EXCEPT ![r] = 0]
        BY <1>1 DEF Deliver
      <4>2. held \in [Requests -> 0 .. Visibility]
        BY DEF TypeInv, TypeOK
      <4>3. QED
        BY <3>0, <4>1, <4>2
    <3>2. msg' \in [Requests -> {"unsent", "ready", "unacked", "gone"}]
      BY <1>1 DEF Deliver, TypeInv, TypeOK
    <3>3. QED
      BY <1>1, <2>1, <3>1, <3>2 DEF Deliver, requestVars, TypeInv, TypeOK
  <2>3. RefsOK'
    BY <1>1 DEF Deliver, IdleRun, TypeInv, TypeOK, RefsOK, Busy
  <2>4. QED
    BY <2>2, <2>3 DEF TypeInv
<1>2. ASSUME NEW w \in Workers, ChildLost(w)
      PROVE  TypeInv'
  <2>1. run' \in [Workers -> RunType]
    BY <1>2, IdleTyped DEF ChildLost, RequeuedOnLoss, TypeInv, TypeOK
  <2>2. run[w].req \in Requests
    BY <1>2 DEF ChildLost, RequeuedOnLoss, TypeInv, RefsOK, Busy
  <2>3. TypeOK'
    BY <1>2, <2>1, <2>2, BoundAssumption DEF ChildLost, RequeuedOnLoss,
       requestVars, TypeInv, TypeOK
  <2>4. RefsOK'
    BY <1>2 DEF ChildLost, RequeuedOnLoss, IdleRun, TypeInv, TypeOK, RefsOK,
       Busy
  <2>5. QED
    BY <2>3, <2>4 DEF TypeInv
<1>3. ASSUME NEW w \in Workers, MachineLost(w)
      PROVE  TypeInv'
  <2>1. [IdleRun EXCEPT !.pc = "down"] \in RunType
    BY IdleTyped DEF RunType, RunPcs
  <2>2. run' \in [Workers -> RunType]
    BY <1>3, <2>1 DEF MachineLost, TypeInv, TypeOK
  <2>3. TypeOK'
    BY <1>3, <2>1, <2>2, BoundAssumption DEF MachineLost, requestVars, TypeInv,
       TypeOK
  <2>4. RefsOK'
    BY <1>3 DEF MachineLost, IdleRun, TypeInv, TypeOK, RefsOK, Busy
  <2>5. QED
    BY <2>3, <2>4 DEF TypeInv
<1>4. ASSUME NEW w \in Workers, SweepReads(w)
      PROVE  TypeInv'
  <2>1. PICK locked \in SUBSET Requests :
          run' = [run EXCEPT ![w].pc = "sweeping",
                    ![w].sweep =
                      [locked |-> locked, lost |-> {r \in locked : Stale(r)},
                       rows |-> OpenRowsOf({r \in locked : Stale(r)}
                                  \cup {r \in Requests : Orphaned(r)})]]
    BY <1>4 DEF SweepReads
  <2>2. PICK sweep \in SweepType :
          run' = [run EXCEPT ![w].pc = "sweeping", ![w].sweep = sweep]
    BY <2>1 DEF SweepType, OpenRowsOf
  <2>3. run[w] \in RunType
    BY DEF TypeInv, TypeOK
  <2>4. [run[w] EXCEPT !.pc = "sweeping", !.sweep = sweep] \in RunType
    BY <2>3 DEF RunType, RunPcs
  <2>5. run' = [run EXCEPT ![w] = [run[w] EXCEPT !.pc = "sweeping",
                                                 !.sweep = sweep]]
    BY <2>2 DEF TypeInv, TypeOK
  <2>6. run' \in [Workers -> RunType]
    BY <2>4, <2>5, RecordTyped DEF TypeInv
  <2>7. TypeOK'
    BY <1>4, <2>6 DEF SweepReads, requestVars, TypeInv, TypeOK
  <2>8. RefsOK'
    BY <1>4, <2>2 DEF SweepReads, requestVars, TypeInv, TypeOK, RefsOK, Busy
  <2>9. QED
    BY <2>7, <2>8 DEF TypeInv
<1>9. ASSUME NEW w \in Workers, SweepCommits(w)
      PROVE  TypeInv'
  <2>1. ASSUME NEW x \in Workers, x # w
        PROVE  [run[x] EXCEPT !.swept = @ \cup EndedAmong(x, run[w].sweep.rows)]
                 \in RunType
    BY ZenonT(30) DEF EndedAmong, RunType, TypeInv, TypeOK
  <2>2. run' \in [Workers -> RunType]
    BY <1>9, <2>1, IdleTyped DEF SweepCommits
  <2>3. age' \in [Requests -> 0 .. StaleAfter + 1]
    BY <1>9, TimeAssumption DEF SweepCommits, TypeInv, TypeOK
  <2>4. status' \in [Requests -> RequestStatuses]
    BY <1>9 DEF SweepCommits, RequestStatuses, TerminalRequestStatuses,
       TypeInv, TypeOK
  <2>5. rows' \in [Requests -> [Sources -> TaskStatuses]]
    BY <1>9 DEF SweepCommits, TaskStatuses, TerminalTaskStatuses, TypeInv,
       TypeOK
  <2>6. TypeOK'
    BY <1>9, <2>2, <2>3, <2>4, <2>5 DEF SweepCommits, TypeInv, TypeOK
  <2>7. \A x \in Workers :
          IF x = w THEN run'[x].pc = "idle"
          ELSE /\ run'[x].pc = run[x].pc /\ run'[x].req = run[x].req
               /\ run'[x].verdict = run[x].verdict
    BY <1>9 DEF SweepCommits, IdleRun, RunType, TypeInv, TypeOK
  <2>8. RefsOK'
    BY <1>9, <2>7 DEF SweepCommits, TypeInv, RefsOK, Busy
  <2>9. QED
    BY <2>6, <2>8 DEF TypeInv
<1>5. ASSUME NEW w \in Workers, BootUnswept(w)
      PROVE  TypeInv'
  <2>1. run' \in [Workers -> RunType]
    BY <1>5, IdleTyped, RecordTyped DEF BootUnswept, TypeInv
  <2>2. TypeOK'
    BY <1>5, <2>1 DEF BootUnswept, requestVars, TypeInv, TypeOK
  <2>3. RefsOK'
    BY <1>5 DEF BootUnswept, IdleRun, TypeInv, TypeOK, RefsOK, Busy
  <2>4. QED
    BY <2>2, <2>3 DEF TypeInv
<1>6. ASSUME NEW r \in Requests, Restore(r)
      PROVE  TypeInv'
  <2>1. TypeOK'
    BY <1>6 DEF Restore, Expired, requestVars, TypeInv, TypeOK
  <2>2. RefsOK'
    BY <1>6 DEF Restore, Expired, requestVars, TypeInv, TypeOK, RefsOK, Busy
  <2>3. QED
    BY <2>1, <2>2 DEF TypeInv
<1>7. CASE Tick
  <2>1. age' \in [Requests -> 0 .. StaleAfter + 1]
    BY <1>7, TimeAssumption DEF Tick, WithinLimit, TypeInv, TypeOK
  <2>2. held' \in [Requests -> 0 .. Visibility]
    BY <1>7, TimeAssumption DEF Tick, WithinLimit, TypeInv, TypeOK
  <2>3. ASSUME NEW w \in Workers, Busy(w)
        PROVE  [run[w] EXCEPT !.elapsed = @ + 1] \in RunType
    <3>1. run[w] \in RunType /\ run[w].elapsed < HardLimit
      BY <1>7, <2>3 DEF Tick, WithinLimit, TypeInv, TypeOK
    <3>2. run[w].elapsed + 1 \in 0 .. HardLimit
      BY <3>1, TimeAssumption DEF RunType
    <3>3. QED
      BY <3>1, <3>2 DEF RunType
  <2>4. run' \in [Workers -> RunType]
    BY <1>7, <2>3 DEF Tick, WithinLimit, TypeInv, TypeOK
  <2>5. TypeOK'
    BY <1>7, <2>1, <2>2, <2>3, <2>4 DEF Tick, WithinLimit, TypeInv, TypeOK
  <2>6. RefsOK'
    <3>1. \A w \in Workers : run'[w].pc = run[w].pc /\ run'[w].req = run[w].req
      BY <1>7 DEF Tick, RunType, TypeInv, TypeOK
    <3>2. QED
      BY <1>7, <3>1 DEF Tick, TypeInv, RefsOK, Busy
  <2>7. QED
    BY <2>5, <2>6 DEF TypeInv
<1>8. QED
  BY <1>1, <1>2, <1>3, <1>4, <1>5, <1>6, <1>7, <1>9 DEF BootStep

LEMMA TypeInvInit == Init => TypeInv
<1> SUFFICES ASSUME Init
             PROVE  TypeInv
  OBVIOUS
<1>1. run \in [Workers -> RunType] /\ call \in [Callers -> CallType]
  BY IdleTyped DEF Init
<1>2. TypeOK
  BY <1>1, TimeAssumption, BoundAssumption
     DEF Init, TypeOK, RequestStatuses, TaskStatuses
<1>3. RefsOK
  BY DEF Init, RefsOK, Busy, IdleRun, IdleCall
<1>4. QED
  BY <1>2, <1>3 DEF TypeInv

LEMMA TypeInvStep == TypeInv /\ [Next]_vars => TypeInv'
<1> SUFFICES ASSUME TypeInv, [Next]_vars
             PROVE  TypeInv'
  OBVIOUS
<1>1. CASE UNCHANGED vars
  BY <1>1 DEF vars, TypeInv, TypeOK, RefsOK, Busy
<1>2. CASE Next
  BY <1>2, CallerTyped, VisitTyped, WorkerTyped, OtherTyped DEF Next
<1>3. QED
  BY <1>1, <1>2

(* Every reachable state is well typed, for all values of the constants.   *)
THEOREM TypeCorrect == Spec => []TypeOK
<1>1. Spec => []TypeInv
  BY TypeInvInit, TypeInvStep, PTL DEF Spec
<1>2. TypeInv => TypeOK
  BY DEF TypeInv
<1>3. QED
  BY <1>1, <1>2, PTL

=============================================================================
