----------------------------- MODULE PropertyRun -----------------------------
(***************************************************************************)
(* The property task of a parcel: ask every query of the county's adapter, *)
(* keep the rows that are about this address, store them one commit each,  *)
(* and report how many of the queries answered.  A visit asks again when   *)
(* the report says the history may be thin.                                *)
(*                                                                         *)
(* Between runs the portals list new rows; a process may be lost after any *)
(* commit and its message redelivered, which resets the task row but not   *)
(* the counts of the attempt that died.                                    *)
(***************************************************************************)
EXTENDS CountyRecords

CONSTANTS
  Places,    (* where the parcel may be: [county, city, address]          *)
  Portals,   (* what a portal may come to list: sets of rows              *)
  MaxRuns,   (* bound: deliveries of the task                             *)
  MaxChanges (* bound: changes of the portal                              *)

(* An address is a sequence of words, the parcel's as a portal's.          *)
ASSUME AddressAssumption ==
  /\ \A p \in Places : p.address \in Seq(STRING)
  /\ \A rows \in Portals : \A r \in rows : r.situs \in Seq(STRING)

ASSUME PropertyBound == MaxRuns \in Nat \ {0} /\ MaxChanges \in Nat

VARIABLES
  place,     (* constant: county, city and address of the parcel          *)
  portal,    (* the rows listed now                                       *)
  row,       (* the task row: status, coverage and counts                 *)
  events,    (* property_events of the parcel                             *)
  lookup,    (* the coroutine                                             *)
  heard,     (* history: what the last run that finished was answered     *)
  runs, changes

propertyVars == <<place, portal, row, events, lookup, heard, runs, changes>>

NoCoverage == "null"
NewRow == [status |-> "queued", coverage |-> NoCoverage, run |-> 0, failed |-> 0,
           items |-> 0]
Idle == [pc |-> "idle", todo |-> {}, rows |-> {}, failed |-> 0, whole |-> TRUE]

Terms == ExtractSearchTerms(place.address)
Asked == Queries[place.county]
HasAdapter == place.county \in Counties

PropertyTypeOK ==
  /\ place \in Places
  /\ portal \in Portals
  /\ row \in [status : {"queued", "processing", "complete", "partial",
                        "skipped", "failed"},
              coverage : {NoCoverage, "no_adapter", "not_covered", "covered"},
              run : 0 .. 8, failed : 0 .. 8, items : 0 .. Cardinality(events)]
  /\ lookup.pc \in {"idle", "start", "gather", "store", "failing", "lost"}
  /\ runs \in 0 .. MaxRuns /\ changes \in 0 .. MaxChanges

PropertyInit ==
  /\ place \in Places
  /\ portal \in Portals
  /\ row = NewRow
  /\ events = {}
  /\ lookup = [Idle EXCEPT !.pc = "start"]
  /\ heard = [rows |-> {}, whole |-> TRUE]
  /\ runs = 1 /\ changes = 0

(* The portal lists other rows: a sale is recorded, a permit issued.       *)
PortalChanges ==
  /\ lookup.pc # "store"
  /\ changes < MaxChanges
  /\ changes' = changes + 1
  /\ portal' \in Portals
  /\ UNCHANGED <<place, row, events, lookup, heard, runs>>

-----------------------------------------------------------------------------
Report(status, coverage, run, failed, items) ==
  row' = [status |-> status, coverage |-> coverage, run |-> run,
          failed |-> failed, items |-> items]

(* No adapter for the county, or the city keeps its own records.           *)
SkipUncovered ==
  /\ lookup.pc = "start"
  /\ ~HasAdapter \/ ~Covers(place.county, place.city)
  /\ Report("skipped", IF HasAdapter THEN "not_covered" ELSE "no_adapter", 0, 0, 0)
  /\ lookup' = Idle
  /\ UNCHANGED <<place, portal, events, heard, runs, changes>>

Begin ==
  /\ lookup.pc = "start"
  /\ HasAdapter /\ Covers(place.county, place.city)
  /\ row' = [row EXCEPT !.status = "processing"]
  /\ lookup' = [lookup EXCEPT !.pc = IF Terms[1] = NoText THEN "failing" ELSE "gather"]
  /\ UNCHANGED <<place, portal, events, heard, runs, changes>>

(* The rows a portal lists for a query.                                    *)
Answer(query) == {r \in portal : r.from = query}

AllFailed(failed) == failed = Asked

AboutThisAddress(e) == e.situs = << >> \/ IsAddressMatch(place.address, e.situs)

EventsOf(rows) ==
  UNION {Parsed(place.county, r.from, r, Terms) : r \in rows}
Kept(rows) == {e \in EventsOf(rows) : AboutThisAddress(e) /\ e.id # <<NoText>>}

(* Sales and permits are asked together; some queries (`ill') get a bad    *)
(* reply, and count as failed if their client sees that it is one.         *)
Gather ==
  /\ lookup.pc = "gather"
  /\ \E ill \in SUBSET Asked, bad \in Replies \ {RowsReply(place.county)} :
       LET failed == IF Answered(place.county, bad) THEN {} ELSE ill
           rows == UNION {Answer(q) : q \in Asked \ ill}
       IN  IF AllFailed(failed)
           THEN /\ Report("failed", "covered", Cardinality(Asked),
                          Cardinality(failed), row.items)
                /\ lookup' = Idle
           ELSE /\ lookup' = [pc |-> "store", todo |-> Kept(rows), rows |-> rows,
                            failed |-> Cardinality(failed), whole |-> ill = {}]
                /\ UNCHANGED row
  /\ UNCHANGED <<place, portal, events, heard, runs, changes>>

SameRecord(a, b) == a.source = b.source /\ a.id = b.id

(* INSERT ... ON CONFLICT DO NOTHING, committed each.                      *)
Store ==
  /\ lookup.pc = "store"
  /\ \E e \in lookup.todo :
       /\ events' = IF \E old \in events : SameRecord(old, e) THEN events
                    ELSE events \cup {e}
       /\ lookup' = [lookup EXCEPT !.todo = @ \ {e}]
  /\ UNCHANGED <<place, portal, row, heard, runs, changes>>

(* Mutant: the survivors are reported as the whole answer.                 *)
AlwaysComplete == "complete"
Verdict == IF lookup.failed > 0 THEN "partial" ELSE "complete"

Finish ==
  /\ lookup.pc = "store" /\ lookup.todo = {}
  /\ Report(Verdict, "covered", Cardinality(Asked), lookup.failed, Cardinality(events))
  /\ heard' = [rows |-> lookup.rows, whole |-> lookup.whole]
  /\ lookup' = Idle
  /\ UNCHANGED <<place, portal, events, runs, changes>>

(* An exception anywhere: no counts are written.                           *)
PropertyRaises ==
  /\ lookup.pc \in {"gather", "store"}
  /\ lookup' = [Idle EXCEPT !.pc = "failing"]
  /\ UNCHANGED <<place, portal, row, events, heard, runs, changes>>

PropertyMarkFailed ==
  /\ lookup.pc = "failing"
  /\ row' = [row EXCEPT !.status = "failed"]
  /\ lookup' = Idle
  /\ UNCHANGED <<place, portal, events, heard, runs, changes>>

LosePropertyRun ==
  /\ lookup.pc \notin {"idle", "lost"}
  /\ lookup' = [Idle EXCEPT !.pc = "lost"]
  /\ UNCHANGED <<place, portal, row, events, heard, runs, changes>>

(* create_request_tasks of the redelivered message keeps the counts.       *)
RedeliverProperty ==
  /\ lookup.pc = "lost"
  /\ runs < MaxRuns /\ runs' = runs + 1
  /\ row' = [row EXCEPT !.status = "queued", !.items = 0]
  /\ lookup' = [Idle EXCEPT !.pc = "start"]
  /\ UNCHANGED <<place, portal, events, heard, changes>>

(* Mutant: only a failed task is asked again.                              *)
OnlyFailed == row.status = "failed"
NeedsProperty ==
  HasAdapter /\ row.coverage # "not_covered"
    /\ row.status \in {"skipped", "partial", "failed"}

(* A visit dispatches a full request: a new task row.                      *)
Visit ==
  /\ lookup.pc = "idle" /\ NeedsProperty
  /\ runs < MaxRuns /\ runs' = runs + 1
  /\ row' = NewRow
  /\ lookup' = [Idle EXCEPT !.pc = "start"]
  /\ UNCHANGED <<place, portal, events, heard, changes>>

PropertyNext ==
  \/ PortalChanges \/ SkipUncovered \/ Begin \/ Gather \/ Store \/ Finish
  \/ PropertyRaises \/ PropertyMarkFailed \/ LosePropertyRun
  \/ RedeliverProperty \/ Visit

PropertySpec == PropertyInit /\ [][PropertyNext]_propertyVars

-----------------------------------------------------------------------------
(* A complete history is whole: no query of that run went unanswered, and  *)
(* every row answered about this address is on file, under its record id.  *)
PropertyCompleteIsWhole ==
  row.status = "complete" =>
    /\ heard.whole /\ row.failed = 0 /\ row.run = Cardinality(Asked)
    /\ \A e \in Kept(heard.rows) : \E old \in events : old.source = e.source /\ old.id = e.id

(* The parcel's number, and a street whose name only leaves out words of   *)
(* the other's: what an address is when no word of it is contradicted.     *)
SameNumber(e) ==
  /\ Len(e.situs) >= 2 /\ Len(place.address) >= 2
  /\ NormalizeAddress(e.situs)[1] = NormalizeAddress(place.address)[1]
LeavesOutOnly(e) ==
  \/ StreetWords(e.situs) \subseteq StreetWords(place.address)
  \/ StreetWords(place.address) \subseteq StreetWords(e.situs)
(* More than two in three words of one of the names are in the other.      *)
MostlyShared(e) ==
  LET shared == Cardinality(StreetWords(e.situs) \cap StreetWords(place.address))
  IN  \/ 3 * shared > 2 * Cardinality(StreetWords(e.situs))
      \/ 3 * shared > 2 * Cardinality(StreetWords(place.address))

(* Property (address_normalizer.py, is_address_match): after any number of *)
(* runs and redeliveries nothing on file contradicts the parcel's number,  *)
(* or one word in three of its street; and no record of a complete history *)
(* was turned away that contradicts no word of it, whatever it leaves out. *)
PropertyFilterIsFair ==
  /\ \A e \in events : e.situs # << >> => SameNumber(e) /\ MostlyShared(e)
  /\ row.status = "complete" =>
       \A e \in EventsOf(heard.rows) :
         e.id # <<NoText>> /\ SameNumber(e) /\ LeavesOutOnly(e) =>
           \E old \in events : old.source = e.source /\ old.id = e.id

(* Claimed by is_address_match's docstring, "a genuinely different street  *)
(* differs by a real token": of the records on file, none names a          *)
(* direction or any other word the parcel's street contradicts.            *)
EventsAreThisAddress ==
  \A e \in events : e.situs # << >> => SameNumber(e) /\ LeavesOutOnly(e)

(* A history on file that may be thin is asked for again: whenever a run   *)
(* ended without every query answered, the next visit sees it.             *)
PropertyThinIsRefetched ==
  (lookup.pc = "idle" /\ HasAdapter /\ Covers(place.county, place.city)) =>
    \/ NeedsProperty
    \/ row.status = "complete" /\ row.failed = 0

=============================================================================
