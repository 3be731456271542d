------------------------- MODULE TimelineLifecycle -------------------------
(***************************************************************************)
(* The life of timeline requests: visitors of the API create, reuse, take  *)
(* over and dispatch them; the Redis broker delivers them to Celery        *)
(* workers with late acknowledgement; a worker claims its request, creates *)
(* the task rows, runs the sources and folds the rows into a verdict; a    *)
(* booting worker sweeps what dead workers left.                           *)
(*                                                                         *)
(* One action per database transaction or broker operation, so that every  *)
(* interleaving of two commits is a behaviour; two for a transaction that  *)
(* writes what it read without a lock.  Time is counted in ticks:          *)
(* only the order HardLimit < Visibility and HardLimit <= StaleAfter       *)
(* matters (35, 45 and 60 minutes in the code).                            *)
(***************************************************************************)
EXTENDS TimelineStatus, FiniteSets

CONSTANTS
  Parcels,      (* parcels that are visited                               *)
  Sources,      (* the sources a full-scope request declares              *)
  Eligible,     (* Eligible[p]: sources parcel p is eligible for          *)
  Workers,      (* Celery pool children                                   *)
  Callers,      (* API request threads                                    *)
  NoParcel,     (* parcel of an unused request id                         *)
  Cap, Reserve, (* max_inflight_timeline_requests, user_admission_reserve *)
  HardLimit,    (* hard time limit of the task                            *)
  StaleAfter,   (* _STALE_INFLIGHT                                        *)
  Visibility,   (* the broker's visibility timeout                        *)
  MaxRequests,  (* bound: request rows ever created                       *)
  MaxLosses     (* bound: processes lost                                  *)

ASSUME ScopeAssumption ==
  /\ Sources \subseteq FULL_SCOPE
  /\ Eligible \in [Parcels -> SUBSET Sources]
  /\ NoParcel \notin Parcels
ASSUME BoundAssumption ==
  MaxRequests \in Nat /\ MaxLosses \in Nat /\ Cap \in Nat /\ Reserve \in Nat
ASSUME TimeAssumption ==
  /\ HardLimit \in Nat /\ StaleAfter \in Nat /\ Visibility \in Nat
  /\ HardLimit <= StaleAfter
  /\ HardLimit < Visibility

(* Request ids in creation order, so that id order is created_at order.    *)
Requests == 1 .. MaxRequests
NoRequest == 0

VARIABLES
  status,    (* status[r]: timeline_requests.status, "none" if no row yet  *)
  parcel,    (* parcel[r]: its parcel                                      *)
  declared,  (* declared[r]: its declared scope                            *)
  rows,      (* rows[r][s]: status of its task row for source s            *)
  age,       (* age[r]: ticks since updated_at, capped just past stale     *)
  msg,       (* msg[r]: where the broker has its message                   *)
  held,      (* held[r]: ticks since that message was last delivered       *)
  run,       (* run[w]: what worker w is doing                             *)
  call,      (* call[c]: what caller c is doing                            *)
  stranded,  (* history: requests left with nobody to write their verdict  *)
  losses     (* processes lost so far                                      *)

requestVars == <<status, parcel, declared, age>>
vars == <<status, parcel, declared, rows, age, msg, held, run, call,
          stranded, losses>>

NotStarted == [s \in Sources |-> "todo"]
NoSweep == [locked |-> {}, lost |-> {}, rows |-> {}]
IdleRun == [pc |-> "idle", req |-> NoRequest, elapsed |-> 0,
            outcome |-> NotStarted, swept |-> {}, verdict |-> "none",
            sweep |-> NoSweep]
IdleCall == [pc |-> "idle", parcel |-> NoParcel, req |-> NoRequest,
             scope |-> {}, origin |-> "user"]

RunPcs == {"down", "sweeping", "idle", "claim", "tasks", "sources", "verdict",
           "failing", "ack"}
LivePcs == {"tasks", "sources", "verdict"}   (* from the claim to the verdict *)
CallPcs == {"idle", "takeover", "admit", "insert", "dispatch", "undispatched"}
Outcomes == {"todo", "running", "lost"} \cup TerminalTaskStatuses

(* What a sweep holds between its reads and its commit: the request rows   *)
(* it locked, those of them it takes for lost, and the task rows it read.  *)
SweepType == [locked : SUBSET Requests, lost : SUBSET Requests,
              rows : SUBSET (Requests \X Sources)]
RunType ==
  [pc : RunPcs, req : Requests \cup {NoRequest}, elapsed : 0 .. HardLimit,
   outcome : [Sources -> Outcomes],
   swept : SUBSET Sources,   (* history: ended rows of its own that a sweep *)
                             (* wrote over                                  *)
   verdict : TerminalRequestStatuses \cup {"none"},   (* folded, not written *)
   sweep : SweepType]
CallType == [pc : CallPcs, parcel : Parcels \cup {NoParcel},
             req : Requests \cup {NoRequest}, scope : SUBSET Sources,
             origin : {"user", "backfill"}]

TypeOK ==
  /\ status \in [Requests -> RequestStatuses]
  /\ parcel \in [Requests -> Parcels \cup {NoParcel}]
  /\ declared \in [Requests -> SUBSET Sources]
  /\ rows \in [Requests -> [Sources -> TaskStatuses]]
  /\ age \in [Requests -> 0 .. StaleAfter + 1]
  /\ msg \in [Requests -> {"unsent", "ready", "unacked", "gone"}]
  /\ held \in [Requests -> 0 .. Visibility]
  /\ run \in [Workers -> RunType]
  /\ call \in [Callers -> CallType]
  /\ stranded \in SUBSET Requests
  /\ losses \in 0 .. MaxLosses

Init ==
  /\ status = [r \in Requests |-> "none"]
  /\ parcel = [r \in Requests |-> NoParcel]
  /\ declared = [r \in Requests |-> {}]
  /\ rows = [r \in Requests |-> [s \in Sources |-> "none"]]
  /\ age = [r \in Requests |-> 0]
  /\ msg = [r \in Requests |-> "unsent"]
  /\ held = [r \in Requests |-> 0]
  /\ run = [w \in Workers |-> IdleRun]
  /\ call = [c \in Callers |-> IdleCall]
  /\ stranded = {}
  /\ losses = 0

-----------------------------------------------------------------------------
(* Reads of the database.                                                  *)

Inflight(r) == status[r] \in InflightStatuses

(* Mutant: only a request nobody picked up counts as lost. *)
StaleQueued(r) == status[r] = "queued" /\ age[r] > StaleAfter
Stale(r) == Inflight(r) /\ age[r] > StaleAfter

InflightOf(p) == {r \in Requests : parcel[r] = p /\ Inflight(r)}
Depth == Cardinality({r \in Requests : Inflight(r)})

(* Full-scope requests a visit may reuse; the visit takes the latest.      *)
ReusableOf(p) ==
  {r \in Requests : /\ parcel[r] = p
                    /\ status[r] \in ReusableStatuses
                    /\ declared[r] = Sources}
IsCurrent(r, p) ==
  r \in ReusableOf(p) /\ \A q \in ReusableOf(p) : q <= r

Scoped(r) ==
  IF parcel[r] \in Parcels THEN declared[r] \cap Eligible[parcel[r]] ELSE {}

Busy(w) == run[w].pc \notin {"down", "idle", "sweeping"}

(* No sweep has the request's row locked; a write to the row waits for it. *)
Unlocked(r) == \A w \in Workers : r \notin run[w].sweep.locked

(* A transaction that writes the request's row may be under way.           *)
BeingWritten(r) ==
  \/ \E w \in Workers :
       run[w].req = r /\ run[w].pc \in {"claim", "tasks", "verdict", "failing"}
  \/ \E c \in Callers :
       call[c].req = r /\ call[c].pc \in {"takeover", "undispatched"}

(***************************************************************************)
(* Writing a status.  updated_at has an onupdate, which fires when the ORM *)
(* emits an UPDATE: rewriting 'processing' over 'processing' changes no    *)
(* column and emits none, while a terminal status also sets completed_at.  *)
(***************************************************************************)
(* Mutant: updated_at is set on creation only. *)
NeverTouched(r, s) == age[r]
AgeAfterWrite(r, s) ==
  IF s = status[r] /\ s \notin TerminalRequestStatuses THEN age[r] ELSE 0

SetStatus(r, s) ==
  /\ status' = [status EXCEPT ![r] = s]
  /\ age' = [age EXCEPT ![r] = AgeAfterWrite(r, s)]
  /\ UNCHANGED <<parcel, declared>>

-----------------------------------------------------------------------------
(* Callers: POST /geocode and POST /parcels/{id}/timeline.                 *)

GoTo(c, pc) == call' = [call EXCEPT ![c].pc = pc]
Return(c) == call' = [call EXCEPT ![c] = IdleCall]
BeginCreate(c, p, scope, origin) ==
  call' = [call EXCEPT ![c] = [pc |-> "admit", parcel |-> p,
             req |-> NoRequest, scope |-> scope, origin |-> origin]]

(* No reusable request: go on to create a full one.                        *)
VisitFirst(c, p) ==
  /\ call[c].pc = "idle"
  /\ ReusableOf(p) = {}
  /\ BeginCreate(c, p, Sources, "user")
  /\ UNCHANGED <<requestVars, rows, msg, held, run, stranded, losses>>

(* The reusable request looks lost: decide to take it over.  The decision  *)
(* rests on what was read here; the write is a later transaction.          *)
VisitStale(c, p) ==
  /\ call[c].pc = "idle"
  /\ \E r \in Requests :
       /\ IsCurrent(r, p)
       /\ Stale(r)
       /\ call' = [call EXCEPT ![c] = [pc |-> "takeover", parcel |-> p,
                     req |-> r, scope |-> Sources, origin |-> "user"]]
  /\ UNCHANGED <<requestVars, rows, msg, held, run, stranded, losses>>

(* The reusable request is served, and maybe_refetch_for_backfill asks for *)
(* a replacement: the whole scope, or the sources with retryable groups.   *)
VisitRefetch(c, p) ==
  /\ call[c].pc = "idle"
  /\ \E r \in Requests :
       IsCurrent(r, p) /\ status[r] \in {"complete", "partial"}
  /\ \E scope \in (SUBSET Sources) \ {{}} : BeginCreate(c, p, scope, "backfill")
  /\ UNCHANGED <<requestVars, rows, msg, held, run, stranded, losses>>

TakeOver(c) ==
  /\ call[c].pc = "takeover"
  /\ Unlocked(call[c].req)
  /\ SetStatus(call[c].req, "failed")
  /\ GoTo(c, "admit")
  /\ UNCHANGED <<rows, msg, held, run, stranded, losses>>

(* Bound on request rows, counting the inserts already admitted.           *)
RoomToCreate ==
  Cardinality({r \in Requests : status[r] # "none"})
    + Cardinality({c \in Callers : call[c].pc = "insert"}) < MaxRequests

(* ensure_admission counts the in-flight rows; the insert comes later.     *)
Admit(c) ==
  /\ call[c].pc = "admit"
  /\ Depth < EffectiveCap(Cap, Reserve, call[c].origin)
  /\ RoomToCreate
  /\ GoTo(c, "insert")
  /\ UNCHANGED <<requestVars, rows, msg, held, run, stranded, losses>>

(* AdmissionRefused: the queue is full, or the kill switch is on.          *)
Refuse(c) ==
  /\ call[c].pc = "admit"
  /\ Return(c)
  /\ UNCHANGED <<requestVars, rows, msg, held, run, stranded, losses>>

(* The partial unique index refuses a second in-flight request: the winner *)
(* is returned and nothing is dispatched.                                  *)
LoseInsertRace(c) ==
  /\ call[c].pc = "insert"
  /\ InflightOf(call[c].parcel) # {}
  /\ Return(c)
  /\ UNCHANGED <<requestVars, rows, msg, held, run, stranded, losses>>

Insert(c) ==
  /\ call[c].pc = "insert"
  /\ InflightOf(call[c].parcel) = {}
  /\ \E r \in Requests :
       /\ status[r] = "none"
       /\ \A q \in Requests : q < r => status[q] # "none"
       /\ status' = [status EXCEPT ![r] = "queued"]
       /\ parcel' = [parcel EXCEPT ![r] = call[c].parcel]
       /\ declared' = [declared EXCEPT ![r] = call[c].scope]
       /\ age' = [age EXCEPT ![r] = 0]
       /\ call' = [call EXCEPT ![c] = [@ EXCEPT !.pc = "dispatch", !.req = r]]
  /\ UNCHANGED <<rows, msg, held, run, stranded, losses>>

Dispatch(c) ==
  /\ call[c].pc = "dispatch"
  /\ msg' = [msg EXCEPT ![call[c].req] = "ready"]
  /\ Return(c)
  /\ UNCHANGED <<requestVars, rows, held, run, stranded, losses>>

(* The broker call raises.  Either nothing was published, or it was and    *)
(* only the reply was lost.                                                *)
DispatchRaises(c) ==
  /\ call[c].pc = "dispatch"
  /\ \E m \in {"unsent", "ready"} : msg' = [msg EXCEPT ![call[c].req] = m]
  /\ GoTo(c, "undispatched")
  /\ UNCHANGED <<requestVars, rows, held, run, stranded, losses>>

MarkUndispatched(c) ==
  /\ call[c].pc = "undispatched"
  /\ Unlocked(call[c].req)
  /\ SetStatus(call[c].req, "failed")
  /\ Return(c)
  /\ UNCHANGED <<rows, msg, held, run, stranded, losses>>

(* The API process dies between two of its transactions.                   *)
CallerDies(c) ==
  /\ call[c].pc # "idle"
  /\ losses < MaxLosses
  /\ losses' = losses + 1
  /\ stranded' = IF call[c].pc \in {"dispatch", "undispatched"}
                 THEN stranded \cup {call[c].req} ELSE stranded
  /\ Return(c)
  /\ UNCHANGED <<requestVars, rows, msg, held, run>>

-----------------------------------------------------------------------------
(* Workers: the Celery task and its orchestrator.                          *)

Deliver(w, r) ==
  /\ run[w].pc = "idle"
  /\ msg[r] = "ready"
  /\ msg' = [msg EXCEPT ![r] = "unacked"]
  /\ held' = [held EXCEPT ![r] = 0]
  /\ run' = [run EXCEPT ![w] = [IdleRun EXCEPT !.pc = "claim", !.req = r]]
  /\ UNCHANGED <<requestVars, rows, call, stranded, losses>>

RunTo(w, pc) == run' = [run EXCEPT ![w].pc = pc]

(* The parcel's in-flight slot is free for r, or r already holds it.       *)
(* Mutant: no partial unique index.                                        *)
SlotUnchecked(r) == TRUE
SlotFree(r) == InflightOf(parcel[r]) \subseteq {r}

(* Mutant: a closed request is run as it stands.                           *)
ClaimClosed(w) ==
  LET r == run[w].req IN
  /\ run[w].pc = "claim"
  /\ Unlocked(r)
  /\ Inflight(r) => SlotFree(r)
  /\ SetStatus(r, IF Inflight(r) THEN "processing" ELSE status[r])
  /\ RunTo(w, "tasks")
  /\ UNCHANGED <<rows, msg, held, call, stranded, losses>>

(* The row is locked and set to 'processing', whatever status it has.      *)
Claim(w) ==
  LET r == run[w].req IN
  /\ run[w].pc = "claim"
  /\ Unlocked(r)
  /\ SlotFree(r)
  /\ SetStatus(r, "processing")
  /\ RunTo(w, "tasks")
  /\ UNCHANGED <<rows, msg, held, call, stranded, losses>>

(* A terminal request cannot go back in flight over another one.           *)
ClaimConflicts(w) ==
  /\ run[w].pc = "claim"
  /\ Unlocked(run[w].req)
  /\ ~SlotFree(run[w].req)
  /\ RunTo(w, "failing")
  /\ UNCHANGED <<requestVars, rows, msg, held, call, stranded, losses>>

(* The insert of a row locks the request it refers to; an update does not. *)
CreateRequestTasks(w) ==
  LET r == run[w].req IN
  /\ run[w].pc = "tasks"
  /\ (\E s \in Scoped(r) : rows[r][s] = "none") => Unlocked(r)
  /\ rows' = [rows EXCEPT ![r] =
                [s \in Sources |-> IF s \in Scoped(r) THEN "queued" ELSE @[s]]]
  /\ RunTo(w, "sources")
  /\ UNCHANGED <<requestVars, msg, held, call, stranded, losses>>

SourcesDone(w) ==
  \A s \in Scoped(run[w].req) : run[w].outcome[s] \notin {"todo", "running"}

(* Mutant: the task body has no handler of its own.                        *)
RunRaisesUnhandled(w) ==
  /\ run[w].pc \in {"claim"} \cup LivePcs
  /\ run[w].pc = "sources" => SourcesDone(w)
  /\ RunTo(w, "ack")
  /\ UNCHANGED <<requestVars, rows, msg, held, call, stranded, losses>>

(* A database error escapes the orchestrator: the task's handler catches.  *)
RunRaises(w) ==
  /\ run[w].pc \in {"claim"} \cup LivePcs
  /\ run[w].pc = "sources" => SourcesDone(w)
  /\ RunTo(w, "failing")
  /\ UNCHANGED <<requestVars, rows, msg, held, call, stranded, losses>>

SetTask(w, s, o) ==
  /\ rows' = [rows EXCEPT ![run[w].req][s] = o]
  /\ UNCHANGED <<requestVars, msg, held, call, stranded, losses>>

StartSource(w, s) ==
  /\ run[w].pc = "sources"
  /\ s \in Scoped(run[w].req)
  /\ run[w].outcome[s] = "todo"
  /\ run' = [run EXCEPT ![w].outcome[s] = "running"]
  /\ SetTask(w, s, "processing")

FinishSource(w, s) ==
  /\ run[w].pc = "sources"
  /\ run[w].outcome[s] = "running"
  /\ \E o \in TaskVerdicts(s) :
       /\ run' = [run EXCEPT ![w].outcome[s] = o]
       /\ SetTask(w, s, o)

SkipSource(w, s) ==
  /\ run[w].pc = "sources"
  /\ s \in Scoped(run[w].req)
  /\ MaySkip(s)
  /\ run[w].outcome[s] = "todo"
  /\ run' = [run EXCEPT ![w].outcome[s] = "skipped"]
  /\ SetTask(w, s, "skipped")

(* The coroutine raises out of its own error handling (the status write    *)
(* itself failed): gather() collects the exception, the row stays as it is.*)
LoseSource(w, s) ==
  /\ run[w].pc = "sources"
  /\ s \in Scoped(run[w].req)
  /\ run[w].outcome[s] \in {"todo", "running"}
  /\ run' = [run EXCEPT ![w].outcome[s] = "lost"]
  /\ UNCHANGED <<requestVars, rows, msg, held, call, stranded, losses>>

(* The task rows are read and folded without a lock; the verdict is        *)
(* written when the request's row can be.                                  *)
Fold(w) ==
  /\ run[w].pc = "sources"
  /\ SourcesDone(w)
  /\ run' = [run EXCEPT ![w].pc = "verdict",
                        ![w].verdict = AggregateRequestStatus(rows[run[w].req])]
  /\ UNCHANGED <<requestVars, rows, msg, held, call, stranded, losses>>

Conclude(w) ==
  /\ run[w].pc = "verdict"
  /\ Unlocked(run[w].req)
  /\ SetStatus(run[w].req, run[w].verdict)
  /\ RunTo(w, "ack")
  /\ UNCHANGED <<rows, msg, held, call, stranded, losses>>

(* SoftTimeLimitExceeded reaches the task's handler.                       *)
SoftTimeout(w) ==
  /\ run[w].pc \in {"claim"} \cup LivePcs
  /\ run[w].elapsed = HardLimit
  /\ RunTo(w, "failing")
  /\ UNCHANGED <<requestVars, rows, msg, held, call, stranded, losses>>

MarkFailed(w) ==
  /\ run[w].pc = "failing"
  /\ Unlocked(run[w].req)
  /\ SetStatus(run[w].req, "failed")
  /\ RunTo(w, "ack")
  /\ UNCHANGED <<rows, msg, held, call, stranded, losses>>

(* The handler's own write fails; the exception is swallowed.              *)
MarkFailedRaises(w) ==
  /\ run[w].pc = "failing"
  /\ stranded' = stranded \cup {run[w].req}
  /\ RunTo(w, "ack")
  /\ UNCHANGED <<requestVars, rows, msg, held, call, losses>>

(* Late acknowledgement; it drops the message unless it was restored.      *)
AckMessage(r) ==
  msg' = [msg EXCEPT ![r] = IF @ = "unacked" THEN "gone" ELSE @]

Ack(w) ==
  /\ run[w].pc = "ack"
  /\ AckMessage(run[w].req)
  /\ run' = [run EXCEPT ![w] = IdleRun]
  /\ UNCHANGED <<requestVars, rows, held, call, stranded, losses>>

(* The hard limit kills the child; Celery acknowledges a timed-out task.   *)
HardKill(w) ==
  /\ Busy(w)
  /\ run[w].elapsed = HardLimit
  /\ AckMessage(run[w].req)
  /\ stranded' = IF run[w].pc = "ack" THEN stranded
                 ELSE stranded \cup {run[w].req}
  /\ run' = [run EXCEPT ![w] = IdleRun]
  /\ UNCHANGED <<requestVars, rows, held, call, losses>>

(* Mutant: a lost child's message is acknowledged.                         *)
AckedOnLoss(m) == IF m = "unacked" THEN "gone" ELSE m
RequeuedOnLoss(m) == IF m = "unacked" THEN "ready" ELSE m

(* The child dies (OOM): task_reject_on_worker_lost requeues its message.  *)
ChildLost(w) ==
  LET r == run[w].req IN
  /\ Busy(w)
  /\ losses < MaxLosses
  /\ losses' = losses + 1
  /\ msg' = [msg EXCEPT ![r] = RequeuedOnLoss(@)]
  /\ run' = [run EXCEPT ![w] = IdleRun]
  /\ UNCHANGED <<requestVars, rows, held, call, stranded>>

(* The machine dies: nobody is left to acknowledge or to reject.           *)
MachineLost(w) ==
  /\ run[w].pc # "down"
  /\ losses < MaxLosses
  /\ losses' = losses + 1
  /\ run' = [run EXCEPT ![w] = [IdleRun EXCEPT !.pc = "down"]]
  /\ UNCHANGED <<requestVars, rows, msg, held, call, stranded>>

(***************************************************************************)
(* worker_ready: sweep_stranded_work.  It locks the in-flight requests,    *)
(* skipping those another transaction has locked, and reads, with no lock, *)
(* the open task rows of the stale ones and of requests long terminal.     *)
(* What it read it writes when it commits, whatever runs wrote meanwhile.  *)
(***************************************************************************)
OpenRowsOf(found) ==
  {p \in found \X Sources : rows[p[1]][p[2]] \in InflightStatuses}
Orphaned(r) == status[r] \in TerminalRequestStatuses /\ age[r] > StaleAfter

SweepReads(w) ==
  /\ run[w].pc = "down"
  /\ \E locked \in SUBSET {r \in Requests : Inflight(r) /\ Unlocked(r)} :
       LET lost == {r \in locked : Stale(r)}
           orphans == {r \in Requests : Orphaned(r)}
       IN  /\ \A r \in Requests :
                Inflight(r) /\ Unlocked(r) /\ ~BeingWritten(r) => r \in locked
           /\ run' = [run EXCEPT ![w].pc = "sweeping",
                        ![w].sweep = [locked |-> locked, lost |-> lost,
                                      rows |-> OpenRowsOf(lost \cup orphans)]]
  /\ UNCHANGED <<requestVars, rows, msg, held, call, stranded, losses>>

(* The sources of a run that have ended, of those a sweep writes over.     *)
EndedAmong(x, swept) ==
  {s \in Sources : /\ run[x].pc = "sources"
                   /\ <<run[x].req, s>> \in swept
                   /\ run[x].outcome[s] \in TerminalTaskStatuses}

SweepCommits(w) ==
  LET lost == run[w].sweep.lost
      swept == run[w].sweep.rows
  IN  /\ run[w].pc = "sweeping"
      /\ status' = [r \in Requests |-> IF r \in lost THEN "failed" ELSE status[r]]
      /\ age' = [r \in Requests |-> IF r \in lost THEN 0 ELSE age[r]]
      /\ rows' = [r \in Requests |-> [s \in Sources |->
                    IF <<r, s>> \in swept THEN "failed" ELSE rows[r][s]]]
      /\ run' = [x \in Workers |->
                   IF x = w THEN IdleRun
                   ELSE [run[x] EXCEPT !.swept = @ \cup EndedAmong(x, swept)]]
      /\ UNCHANGED <<parcel, declared, msg, held, call, stranded, losses>>

(* The sweep hit a database error; the worker starts all the same.         *)
BootUnswept(w) ==
  /\ run[w].pc \in {"down", "sweeping"}
  /\ run' = [run EXCEPT ![w] = IdleRun]
  /\ UNCHANGED <<requestVars, rows, msg, held, call, stranded, losses>>

-----------------------------------------------------------------------------
(* The broker and the clock.                                               *)

(* Mutant: the visibility timeout is lowered to the time limit.            *)
ExpiresAtHardLimit(r) == held[r] >= HardLimit
Expired(r) == held[r] >= Visibility

(* An unacknowledged message outlives the visibility timeout.              *)
Restore(r) ==
  /\ msg[r] = "unacked"
  /\ Expired(r)
  /\ msg' = [msg EXCEPT ![r] = "ready"]
  /\ UNCHANGED <<requestVars, rows, held, run, call, stranded, losses>>

(* Mutant: the task declares no time limit.                                *)
NoLimit == TRUE
(* No run outlives the hard limit, so time waits for HardKill at the limit.*)
WithinLimit == \A w \in Workers : Busy(w) => run[w].elapsed < HardLimit

Tick ==
  /\ WithinLimit
  /\ age' = [r \in Requests |->
       IF status[r] # "none" /\ age[r] <= StaleAfter
       THEN age[r] + 1 ELSE age[r]]
  /\ held' = [r \in Requests |->
       IF msg[r] = "unacked" /\ held[r] < Visibility
       THEN held[r] + 1 ELSE held[r]]
  /\ run' = [w \in Workers |->
       IF Busy(w) THEN [run[w] EXCEPT !.elapsed = @ + 1] ELSE run[w]]
  /\ UNCHANGED <<status, parcel, declared, rows, msg, call, stranded, losses>>

-----------------------------------------------------------------------------
CallStep(c) ==
  \/ TakeOver(c) \/ Admit(c) \/ Refuse(c) \/ LoseInsertRace(c) \/ Insert(c)
  \/ Dispatch(c) \/ DispatchRaises(c) \/ MarkUndispatched(c)

Visit(c, p) == VisitFirst(c, p) \/ VisitStale(c, p) \/ VisitRefetch(c, p)

RunStep(w) ==
  \/ Claim(w) \/ ClaimConflicts(w) \/ CreateRequestTasks(w) \/ RunRaises(w)
  \/ \E s \in Sources : \/ StartSource(w, s) \/ FinishSource(w, s)
                        \/ SkipSource(w, s) \/ LoseSource(w, s)
  \/ Fold(w) \/ Conclude(w) \/ SoftTimeout(w) \/ MarkFailed(w) \/ MarkFailedRaises(w)
  \/ Ack(w) \/ HardKill(w)

BootStep(w) == SweepReads(w) \/ SweepCommits(w) \/ BootUnswept(w)

Next ==
  \/ \E c \in Callers : CallStep(c) \/ CallerDies(c)
  \/ \E c \in Callers, p \in Parcels : Visit(c, p)
  \/ \E w \in Workers, r \in Requests : Deliver(w, r)
  \/ \E w \in Workers : RunStep(w) \/ ChildLost(w) \/ MachineLost(w)
  \/ \E w \in Workers : BootStep(w)
  \/ \E r \in Requests : Restore(r)
  \/ Tick

Spec == Init /\ [][Next]_vars

-----------------------------------------------------------------------------
(* Safety.                                                                 *)

(* No request is executed by two workers at once, whatever is redelivered: *)
(* the coupling of time_limit and visibility_timeout noted over the task.  *)
NoDuplicateExecution ==
  \A w, x \in Workers :
    Busy(w) /\ Busy(x) /\ run[w].req = run[x].req => w = x

(* At most one request of a parcel is in flight, across creation races,    *)
(* takeovers and redelivered messages that put old requests back in flight.*)
OneInflightPerParcel ==
  \A p \in Parcels : \A q, r \in InflightOf(p) : q = r

(* An in-flight request has a caller about to dispatch it or a message the *)
(* broker will deliver (again), except when a process died or was killed   *)
(* holding it, or when the error handler could not write: late             *)
(* acknowledgement loses no work by itself.                                *)
InflightHasOwner ==
  \A r \in Requests :
    Inflight(r) => \/ msg[r] \in {"ready", "unacked"}
                   \/ \E c \in Callers : /\ call[c].req = r
                        /\ call[c].pc \in {"dispatch", "undispatched"}
                   \/ r \in stranded

(* A run between its claim and its verdict is never mistaken for a lost    *)
(* one: _STALE_INFLIGHT exceeds the hard time limit.                       *)
NoLiveRunIsStale ==
  \A w \in Workers :
    run[w].pc \in LivePcs => ~Stale(run[w].req)

(* It holds while no process is lost: a redelivered run inherits the age   *)
(* of the claim before it.                                                 *)
UnlostRunsAreFresh == losses = 0 => NoLiveRunIsStale

(* The verdict a run writes hides none of the failures its own sources     *)
(* ended with, and calls a run that served something failed only when a    *)
(* sweep wrote over the row of every source that did: what the fold of     *)
(* _run_timeline says of a run, beside janitors and earlier attempts.      *)
Serving == {"complete", "partial", "skipped"}
VerdictReflectsRun ==
  [][\A w \in Workers :
       LET r == run[w].req
           ended(S) == {s \in Scoped(r) : run[w].outcome[s] \in S}
       IN  run[w].pc = "verdict" /\ run'[w].pc = "ack" =>
             /\ status'[r] = "complete" => ended({"failed", "partial"}) = {}
             /\ status'[r] = "failed" => ended(Serving) \subseteq run[w].swept]_vars

(* A run is called failed only when no source of it delivered: "every task *)
(* failed", as the docstring of aggregate_request_status has it.           *)
NoServedRunIsCalledFailed ==
  [][\A w \in Workers :
       run[w].pc = "verdict" /\ run'[w].pc = "ack"
           /\ status'[run[w].req] = "failed" =>
         \A s \in Scoped(run[w].req) : run[w].outcome[s] \notin {"complete", "partial"}]_vars

(***************************************************************************)
(* The inductive strengthening of the three delivery invariants above.     *)
(***************************************************************************)

(* A busy worker and a caller past its first write hold a real request id, *)
(* and a run that has folded its rows a verdict.                           *)
RefsOK ==
  /\ \A w \in Workers :
       /\ Busy(w) => run[w].req \in Requests
       /\ run[w].pc = "verdict" => run[w].verdict \in TerminalRequestStatuses
  /\ \A c \in Callers :
       call[c].pc \in {"takeover", "dispatch", "undispatched"} =>
         call[c].req \in Requests

(* A running request's message is with its worker, delivered no earlier    *)
(* than the run began.                                                     *)
RunHoldsMessage ==
  \A w \in Workers :
    Busy(w) => /\ msg[run[w].req] = "unacked"
               /\ held[run[w].req] <= run[w].elapsed

(* A caller about to dispatch is the only one, and nothing was sent yet.   *)
DispatchesOnce ==
  /\ \A c \in Callers :
       call[c].pc = "dispatch" =>
         msg[call[c].req] = "unsent" /\ status[call[c].req] # "none"
  /\ \A c, d \in Callers :
       /\ call[c].pc = "dispatch"
       /\ call[d].pc = "dispatch"
       /\ call[c].req = call[d].req
       => c = d

CreatedBeforeSent ==
  \A r \in Requests : msg[r] # "unsent" => status[r] # "none"

(* Whoever is about to acknowledge has written a verdict, or never could.  *)
VerdictBeforeAck ==
  \A w \in Workers :
    run[w].pc = "ack" => ~Inflight(run[w].req) \/ run[w].req \in stranded

DeliveryInv ==
  /\ TypeOK
  /\ RefsOK
  /\ NoDuplicateExecution
  /\ RunHoldsMessage
  /\ DispatchesOnce
  /\ CreatedBeforeSent
  /\ VerdictBeforeAck
  /\ InflightHasOwner
  /\ OneInflightPerParcel

(***************************************************************************)
(* The inductive strengthening of NoLiveRunIsStale, which a lost process   *)
(* voids: a requeued message runs a request already 'processing', whose    *)
(* updated_at the second claim does not move.                              *)
(***************************************************************************)

(* A claimed request is no older than its run.                             *)
RunsAreFresh ==
  \A w \in Workers :
    run[w].pc \in LivePcs => age[run[w].req] <= run[w].elapsed

(* Before its first claim a request is not 'processing'.                   *)
UnclaimedIsNotProcessing ==
  /\ \A r \in Requests :
       msg[r] \in {"unsent", "ready"} => status[r] # "processing"
  /\ \A w \in Workers :
       run[w].pc = "claim" => status[run[w].req] # "processing"

(* An unacknowledged message is with a worker that is running it.          *)
UnackedIsRunning ==
  \A r \in Requests :
    msg[r] = "unacked" => \E w \in Workers : Busy(w) /\ run[w].req = r

LiveInv ==
  losses = 0 => RunsAreFresh /\ UnclaimedIsNotProcessing /\ UnackedIsRunning

(***************************************************************************)
(* The inductive strengthening of VerdictReflectsRun: beside its run, only *)
(* a sweep's commit writes the row of a source, and then it fails it.      *)
(***************************************************************************)
RowsShow(w) ==
  /\ run[w].pc \in {"claim", "tasks"} =>
       run[w].outcome = NotStarted /\ run[w].swept = {}
  /\ run[w].pc = "sources" =>
       \A s \in Sources :
         IF run[w].outcome[s] \in TerminalTaskStatuses
         THEN rows[run[w].req][s] =
                IF s \in run[w].swept THEN "failed" ELSE run[w].outcome[s]
         ELSE s \notin run[w].swept
  /\ run[w].pc = "verdict" =>
       LET ended(S) == {s \in Scoped(run[w].req) : run[w].outcome[s] \in S}
       IN  /\ run[w].verdict = "complete" => ended({"failed", "partial"}) = {}
           /\ run[w].verdict = "failed" => ended(Serving) \subseteq run[w].swept
RowsShowOutcomes == \A w \in Workers : RowsShow(w)

(***************************************************************************)
(* The promise: what the database shows of requests is what RequestBoard   *)
(* allows, a request being executed from its claim to its verdict.         *)
(***************************************************************************)
Executing ==
  {run[w].req : w \in {x \in Workers : run[x].pc \in LivePcs}}

(* Only the one run of a request calls it complete or partial, and never   *)
(* before a claim; nobody queues it again, drops it or moves it; one       *)
(* request of a parcel is open, over races, redeliveries and losses.       *)
Board == INSTANCE RequestBoard WITH executing <- Executing
KeepsBoard == Board!Spec

(* Its inductive strengthening: what a caller is about to fail exists,     *)
(* what a run has claimed is not back in the queue, and what a sweep is    *)
(* about to fail is in flight, for nobody else writes what it has locked.  *)
BoardInv ==
  /\ \A c \in Callers :
       /\ call[c].pc \in {"takeover", "undispatched"} =>
            status[call[c].req] # "none"
       /\ call[c].pc \in {"takeover", "admit", "insert"} =>
            call[c].parcel \in Parcels
  /\ \A w \in Workers :
       run[w].pc \in LivePcs => status[run[w].req] \notin {"none", "queued"}
  /\ \A w \in Workers :
       /\ run[w].pc # "sweeping" => run[w].sweep.locked = {}
       /\ run[w].sweep.lost \subseteq run[w].sweep.locked
       /\ \A r \in run[w].sweep.locked : Inflight(r)
  /\ \A w, x \in Workers :
       run[w].sweep.locked \cap run[x].sweep.locked # {} => w = x

(***************************************************************************)
(* Liveness.  API threads, workers, the broker and the clock keep going;   *)
(* deliveries are FIFO, so a ready message is not overtaken for ever; a    *)
(* parcel whose current request is stale keeps being visited; a machine    *)
(* that went down comes back, but its boot-time sweep may fail, and no     *)
(* machine is assumed to go down so that one can sweep.                    *)
(***************************************************************************)
Fairness ==
  /\ \A c \in Callers : WF_vars(CallStep(c))
  /\ \A w \in Workers : /\ WF_vars(RunStep(w))
                         /\ WF_vars(BootStep(w))
  /\ \A r \in Requests : /\ SF_vars(\E w \in Workers : Deliver(w, r))
                          /\ WF_vars(Restore(r))
  /\ \A p \in Parcels : SF_vars(\E c \in Callers : VisitStale(c, p))
  /\ WF_vars(Tick)

FairSpec == Spec /\ Fairness

(* The request a visitor of a parcel is shown does not stay in flight.     *)
CurrentRequestResolves ==
  \A r \in Requests :
    (Inflight(r) /\ \E p \in Parcels : IsCurrent(r, p))
      ~> ~(Inflight(r) /\ \E p \in Parcels : IsCurrent(r, p))

=============================================================================
