------------------------------ MODULE SourceRun ------------------------------
(***************************************************************************)
(* One imagery source of one parcel, as the worker's source tasks run it:  *)
(* search the catalogue year by year or in one query, classify every year, *)
(* select and validate, then persist: served scenes and ledger rows in one *)
(* database transaction, a second one for years without a verdict, a third *)
(* for the task row.  A run may raise anywhere, its process may be lost    *)
(* between any two steps, and its message may be redelivered.              *)
(*                                                                         *)
(* Each run is the source task of a different request of the parcel; the   *)
(* runs share only parcel_scenes.                                          *)
(***************************************************************************)
EXTENDS Naturals

CONSTANTS
  Runs,      (* the source's tasks, one per request of the parcel          *)
  Years,     (* bound: groups the run attempts                             *)
  Scenes,    (* what a group may be served by: an item with its mosaic     *)
  Nothing,   (* no scene, no verdict                                       *)
  Chunked,   (* search and validate per year (Landsat, Sentinel-2), or one *)
             (* query and the point-coverage gate (NAIP)                   *)
  Overlap,   (* whether two requests' runs may be executing at once        *)
  MaxLosses  (* bound: processes lost                                      *)

Outcomes == {"ok", "failed", "absent", "suppressed", "indeterminate"}

ASSUME SourceAssumption ==
  /\ Years \in Nat \ {0}
  /\ MaxLosses \in Nat
  /\ Chunked \in BOOLEAN
  /\ Overlap \in BOOLEAN
  /\ Nothing \notin Scenes \cup Outcomes

Groups == 1 .. Years

VARIABLES
  task,     (* task[r]: status of the task row                             *)
  ledger,   (* ledger[r][g]: outcome in timeline_task_years, committed     *)
  served,   (* served[g]: scene of the parcel_scenes row of group g        *)
  work,     (* work[r]: the coroutine of run r                             *)
  losses    (* processes lost so far                                       *)

vars == <<task, ledger, served, work, losses>>

Blank == [g \in Groups |-> Nothing]

Pcs == {"ready", "search", "select", "flush", "open", "publish", "fill",
        "finish", "failing", "done", "lost"}
Waiting == {"ready", "done", "lost"}

(* At a program counter, nothing found yet.                                *)
FreshWork(pc) ==
  [pc |-> pc, year |-> 1, found |-> {}, truncated |-> FALSE,
   staged |-> Blank, chosen |-> Blank, named |-> [g \in Groups |-> {}],
   uncogged |-> {}, seen |-> Blank]

WorkType ==
  [pc : Pcs,
   year : 1 .. Years + 1,                      (* next year to search      *)
   found : SUBSET Groups,                      (* raw_by_key > 0           *)
   truncated : BOOLEAN,
   staged : [Groups -> Outcomes \cup {Nothing}],  (* the YearOutcomeLog    *)
   chosen : [Groups -> Scenes \cup {Nothing}],    (* selected_groups       *)
   named : [Groups -> SUBSET Scenes],             (* suppressed_items      *)
   uncogged : SUBSET Groups,                   (* no COG asset             *)
   seen : [Groups -> Scenes \cup {Nothing}]]      (* parcel_scenes as read *)

(* Types.                                                                  *)
TypeOK ==
  /\ task \in [Runs -> {"queued", "processing", "complete", "failed"}]
  /\ ledger \in [Runs -> [Groups -> Outcomes \cup {Nothing}]]
  /\ served \in [Groups -> Scenes \cup {Nothing}]
  /\ work \in [Runs -> WorkType]
  /\ losses \in 0 .. MaxLosses

Init ==
  /\ task = [r \in Runs |-> "queued"]
  /\ ledger = [r \in Runs |-> Blank]
  /\ served = Blank
  /\ work = [r \in Runs |-> FreshWork("ready")]
  /\ losses = 0

-----------------------------------------------------------------------------
Executing(r) == work[r].pc \notin Waiting
At(r, pc) == work[r].pc = pc
GoTo(r, pc) == work' = [work EXCEPT ![r].pc = pc]
SetTask(r, status) == task' = [task EXCEPT ![r] = status]

StartSource(r) ==
  /\ At(r, "ready")
  /\ Overlap \/ \A q \in Runs : ~Executing(q)
  /\ SetTask(r, "processing")
  /\ GoTo(r, "search")
  /\ UNCHANGED <<ledger, served, losses>>

(* The write of 'processing' is outside the coroutine's error handling:    *)
(* its failure ends the coroutine with the row still queued.               *)
StartRaises(r) ==
  /\ At(r, "ready")
  /\ Overlap \/ \A q \in Runs : ~Executing(q)
  /\ work' = [work EXCEPT ![r] = FreshWork("done")]
  /\ UNCHANGED <<task, ledger, served, losses>>

(***************************************************************************)
(* Search.  A year that still fails after the retries is staged and        *)
(* skipped; an empty year is probed once without the cloud filter, which   *)
(* tells absent from undecidable.                                          *)
(***************************************************************************)
(* Mutant: one year too many.                                              *)
OneYearMore(r) == work[r].year <= Years + 1
YearsLeft(r) == work[r].year <= Years

SearchYear(r) ==
  LET y == work[r].year
  IN  /\ Chunked /\ At(r, "search") /\ YearsLeft(r)
      /\ \/ \E outcome \in {"failed", "absent", "indeterminate"} :
              work' = [work EXCEPT ![r].year = y + 1,
                                   ![r].staged[y] = outcome]
         \/ work' = [work EXCEPT ![r].year = y + 1,
                                 ![r].found = @ \cup {y}]
      /\ UNCHANGED <<task, ledger, served, losses>>

EveryYearFailed(r) == \A g \in Groups : work[r].staged[g] = "failed"

SearchedYears(r) ==
  /\ Chunked /\ At(r, "search") /\ ~YearsLeft(r)
  /\ GoTo(r, IF EveryYearFailed(r) THEN "flush" ELSE "select")
  /\ UNCHANGED <<task, ledger, served, losses>>

(* The query for all years at once, which the item cap may truncate.       *)
SearchWhole(r) ==
  /\ ~Chunked /\ At(r, "search")
  /\ \/ work' = [work EXCEPT ![r].pc = "flush",
                             ![r].staged = [g \in Groups |-> "failed"]]
     \/ \E found \in SUBSET Groups, truncated \in BOOLEAN :
          /\ truncated => found # {}
          /\ work' = [work EXCEPT ![r].pc = "select", ![r].found = found,
                                  ![r].truncated = truncated]
  /\ UNCHANGED <<task, ledger, served, losses>>

(* A source that lost every year records them before it raises.            *)
FlushLedger(r) ==
  /\ At(r, "flush")
  /\ ledger' = [ledger EXCEPT ![r] = work[r].staged]
  /\ GoTo(r, "failing")
  /\ UNCHANGED <<task, served, losses>>

-----------------------------------------------------------------------------
(***************************************************************************)
(* Classification and selection.  `surviving' are the groups the spatial   *)
(* filter left an item; `dropped' those whose validation walk found        *)
(* nothing servable (failed), or whose tiles miss the parcel (suppressed,  *)
(* and every tile is named).                                               *)
(***************************************************************************)
Classified(w, surviving, g) ==
  IF w.staged[g] # Nothing \/ g \in surviving THEN w.staged[g]
  ELSE IF g \notin w.found /\ w.truncated THEN "indeterminate"
  ELSE "absent"

Select(r) ==
  /\ At(r, "select")
  /\ \E surviving \in SUBSET work[r].found :
     \E dropped \in SUBSET surviving :
     \E pick \in [surviving -> Scenes],
        tiles \in [dropped -> (SUBSET Scenes) \ {{}}] :
       work' = [work EXCEPT
         ![r].pc = "open",
         ![r].staged = [g \in Groups |->
            IF g \notin dropped THEN Classified(work[r], surviving, g)
            ELSE IF Chunked THEN "failed" ELSE "suppressed"],
         ![r].chosen = [g \in Groups |->
            IF g \in surviving \ dropped THEN pick[g] ELSE Nothing],
         ![r].named = [g \in Groups |->
            IF g \in dropped /\ ~Chunked THEN tiles[g] ELSE {}]]
  /\ UNCHANGED <<task, ledger, served, losses>>

Picked(w) == {g \in Groups : w.chosen[g] # Nothing}

(* The persist session: selected items without a COG asset are put aside,  *)
(* and the parcel's served rows are read.                                  *)
OpenSession(r) ==
  /\ At(r, "open")
  /\ \E uncogged \in SUBSET Picked(work[r]) :
       work' = [work EXCEPT
         ![r].pc = "publish",
         ![r].uncogged = uncogged,
         ![r].named = [g \in Groups |->
            IF g \in uncogged THEN {work[r].chosen[g]} ELSE @[g]],
         ![r].chosen = [g \in Groups |->
            IF g \in uncogged THEN Nothing ELSE @[g]],
         ![r].seen = served]
  /\ UNCHANGED <<task, ledger, served, losses>>

-----------------------------------------------------------------------------
(***************************************************************************)
(* reconcile_source_snapshots.  It returns without a commit when nothing   *)
(* was selected and no served row is condemned.                            *)
(***************************************************************************)

(* Mutant: a group this run did not select is not served any more.         *)
AbsentCondemned(w) == {g \in Groups \ Picked(w) : w.seen[g] # Nothing}
Condemned(w) == {g \in Groups \ Picked(w) : w.seen[g] \in w.named[g]}

NothingToWrite(w) == Picked(w) = {} /\ Condemned(w) = {}

(* Another run inserted a group this one read as absent: unique key.       *)
InsertConflict(w) ==
  \E g \in Picked(w) : w.seen[g] = Nothing /\ served[g] # Nothing

(* An unchanged selection writes nothing; a changed one updates the row it *)
(* read, if it is still there; the delete names the scene it condemns.     *)
Upserted(w, g) ==
  IF w.seen[g] = w.chosen[g] \/ (w.seen[g] # Nothing /\ served[g] = Nothing)
  THEN served[g] ELSE w.chosen[g]

(* Mutant: the delete names the group, not the scene.                      *)
DeletedGroup(w, g) == Nothing
Deleted(w, g) == IF served[g] = w.seen[g] THEN Nothing ELSE served[g]

Reconciled(w) ==
  [g \in Groups |-> IF g \in Picked(w) THEN Upserted(w, g)
                    ELSE IF g \in Condemned(w) THEN Deleted(w, g)
                    ELSE served[g]]

(* Mutant: `ok' is staged before the check for a COG asset.                *)
RecordedEarly(w) ==
  [g \in Groups |-> IF g \in Picked(w) \cup w.uncogged THEN "ok"
                    ELSE w.staged[g]]
Recorded(w) ==
  [g \in Groups |-> IF g \in Picked(w) THEN "ok"
                    ELSE IF g \in w.uncogged THEN "suppressed"
                    ELSE w.staged[g]]

Reconcile(r) ==
  /\ At(r, "publish")
  /\ ~NothingToWrite(work[r])
  /\ ~InsertConflict(work[r])
  /\ served' = Reconciled(work[r])
  /\ ledger' = [ledger EXCEPT ![r] = Recorded(work[r])]
  /\ GoTo(r, "fill")
  /\ UNCHANGED <<task, losses>>

ReconcileNothing(r) ==
  /\ At(r, "publish")
  /\ NothingToWrite(work[r])
  /\ GoTo(r, "fill")
  /\ UNCHANGED <<task, ledger, served, losses>>

ReconcileConflicts(r) ==
  /\ At(r, "publish")
  /\ InsertConflict(work[r])
  /\ GoTo(r, "failing")
  /\ UNCHANGED <<task, ledger, served, losses>>

(* Mutant: the last loop is lost, and the commit with it.                  *)
UnfilledGaps(r) == ledger[r]

(* The last loop gives `indeterminate' to every attempted group that is    *)
(* neither in the log nor persisted, then commits what is still staged.    *)
FilledGaps(r) ==
  [g \in Groups |-> IF g \in Picked(work[r]) THEN "ok"
                    ELSE IF work[r].staged[g] # Nothing THEN work[r].staged[g]
                    ELSE "indeterminate"]

FillGaps(r) ==
  /\ At(r, "fill")
  /\ ledger' = [ledger EXCEPT ![r] = FilledGaps(r)]
  /\ GoTo(r, "finish")
  /\ UNCHANGED <<task, served, losses>>

Complete(r) ==
  /\ At(r, "finish")
  /\ SetTask(r, "complete")
  /\ work' = [work EXCEPT ![r] = FreshWork("done")]
  /\ UNCHANGED <<ledger, served, losses>>

-----------------------------------------------------------------------------
(* Any exception inside the source, the soft time limit included, marks    *)
(* the task failed; the write that says so may fail too.                   *)
Raise(r) ==
  /\ Executing(r) /\ ~At(r, "failing")
  /\ GoTo(r, "failing")
  /\ UNCHANGED <<task, ledger, served, losses>>

MarkFailed(r) ==
  /\ At(r, "failing")
  /\ SetTask(r, "failed")
  /\ work' = [work EXCEPT ![r] = FreshWork("done")]
  /\ UNCHANGED <<ledger, served, losses>>

MarkFailedRaises(r) ==
  /\ At(r, "failing")
  /\ work' = [work EXCEPT ![r] = FreshWork("done")]
  /\ UNCHANGED <<task, ledger, served, losses>>

(* The process dies before the message is acknowledged, which is after the *)
(* other sources ended too; its open transaction is rolled back.           *)
LoseProcess(r) ==
  /\ ~At(r, "lost") /\ ~At(r, "ready")
  /\ losses < MaxLosses
  /\ losses' = losses + 1
  /\ work' = [work EXCEPT ![r] = FreshWork("lost")]
  /\ UNCHANGED <<task, ledger, served>>

(* Mutant: a redelivery keeps the year rows of the attempt that died.      *)
KeptYears(r) == ledger[r]
ClearedYears(r) == Blank

(* The redelivered message's create_request_tasks resets the row and drops *)
(* its year rows in one transaction.                                       *)
Redeliver(r) ==
  /\ At(r, "lost")
  /\ SetTask(r, "queued")
  /\ ledger' = [ledger EXCEPT ![r] = ClearedYears(r)]
  /\ GoTo(r, "ready")
  /\ UNCHANGED <<served, losses>>

-----------------------------------------------------------------------------
Run(r) ==
  \/ StartSource(r) \/ StartRaises(r)
  \/ SearchYear(r) \/ SearchedYears(r) \/ SearchWhole(r) \/ FlushLedger(r)
  \/ Select(r) \/ OpenSession(r)
  \/ Reconcile(r) \/ ReconcileNothing(r) \/ ReconcileConflicts(r)
  \/ FillGaps(r) \/ Complete(r)
  \/ Raise(r) \/ MarkFailed(r) \/ MarkFailedRaises(r)
  \/ Redeliver(r)

Next == \E r \in Runs : Run(r) \/ LoseProcess(r)

Spec == Init /\ [][Next]_vars

-----------------------------------------------------------------------------
(* Properties.                                                             *)

(* A task that reads complete has a verdict for every group it attempted,  *)
(* also when nothing was selected, when reconciliation had nothing to      *)
(* write, or when the run is the second attempt of a lost one.             *)
CompleteIsAccounted ==
  \A r \in Runs : task[r] = "complete" =>
    \A g \in Groups : ledger[r][g] # Nothing

(* Until a run commits, its ledger is empty: no row of an attempt that     *)
(* died is ever read as a verdict of the attempt that replaces it.         *)
NoStaleVerdicts ==
  \A r \in Runs :
    work[r].pc \in {"ready", "search", "select", "flush", "open", "publish"}
      => ledger[r] = Blank

(* A served scene disappears only in a transaction whose run condemned     *)
(* that very scene and records its group as suppressed, also when another  *)
(* run replaced it since it was read: never because a search failed, came  *)
(* back empty or was cut short.                                            *)
OnlyCondemnedVanish ==
  [][\A g \in Groups : served[g] # Nothing /\ served'[g] = Nothing =>
       \E r \in Runs : /\ served[g] \in work[r].named[g]
                       /\ ledger'[r][g] = "suppressed"]_vars

(* What happens to the scenes and to the ledger is what ServedTimeline     *)
(* promises.                                                               *)
Promise == INSTANCE ServedTimeline WITH verdict <- ledger
KeepsPromise == Promise!Spec

=============================================================================
