------------------------------ MODULE AddressSearch ------------------------------
(***************************************************************************)
(* POST /geocode: visitors search addresses at the same time.  A search is *)
(* matched by the Census geocoder or falls back to a suggestion this       *)
(* backend served, then finds the parcel of the place or creates it, under *)
(* a lock on the exact point.  Points lie on a line.                       *)
(***************************************************************************)
EXTENDS Integers, Sequences, FiniteSets

CONSTANTS
  Visitors,
  CensusPoint,  (* address -> the point Census matches it to, NoPoint      *)
  Points,       (* points a client may send or a search be matched to      *)
  Suggestions,  (* points Photon suggests                                  *)
  TractOf,      (* point -> its census tract                               *)
  Radius,       (* parcel_dedup_radius_meters                              *)
  MaxSearches,  (* bound: searches begun                                   *)
  NoPoint, None

ASSUME SearchAssumption ==
  /\ Points \subseteq Int /\ NoPoint \notin Points /\ Radius \in Nat
  /\ Suggestions \subseteq Points /\ None \notin Visitors
  /\ \A a \in DOMAIN CensusPoint : CensusPoint[a] \in Points \cup {NoPoint}

VARIABLES
  parcels,      (* [point, tract, county, from, seen: the parcels its      *)
                (* search could see when it looked]                        *)
  lock,         (* point -> the session that holds its advisory lock       *)
  served,       (* points whose served-coords key lives                    *)
  suggested,    (* points autocomplete ever returned                       *)
  search,       (* visitor -> [pc, coords, at, from, tract, county, near,  *)
                (* lacked: what the row lacked as read, seen]              *)
  begun
searchVars == <<parcels, lock, served, suggested, search, begun>>

NoSearch == [pc |-> "idle", coords |-> NoPoint, at |-> NoPoint, from |-> None,
         tract |-> None, county |-> None, near |-> 0, lacked |-> {}, seen |-> {}]
Tracts == {TractOf[p] : p \in Points} \cup {None}
Counties == {"county", None}
Metadata(p) == [tract : {TractOf[p], None}, county : Counties]

ParcelType == [point : Points, tract : Tracts, county : Counties,
               from : {"census", "served"}, seen : SUBSET Nat]
SearchType ==
  [pc : {"idle", "unmatched", "matched", "locked", "found", "new", "done"},
   coords : Points \cup {NoPoint}, at : Points \cup {NoPoint},
   from : {"census", "served", None}, tract : Tracts, county : Counties,
   near : Nat, lacked : SUBSET {"tract", "county"}, seen : SUBSET Nat]

SearchTypeOK ==
  /\ parcels \in Seq(ParcelType)
  /\ \A i \in DOMAIN parcels : parcels[i].seen \subseteq 1 .. (i - 1)
  /\ lock \in [Points -> Visitors \cup {None}]
  /\ served \subseteq suggested /\ suggested \subseteq Suggestions
  /\ search \in [Visitors -> SearchType]

SearchInit ==
  /\ parcels = << >> /\ lock = [p \in Points |-> None] /\ served = {} /\ suggested = {}
  /\ search = [v \in Visitors |-> NoSearch] /\ begun = 0

AtPc(v, where) == search[v].pc = where
End(v) == [search EXCEPT ![v] = NoSearch]
(* Mutant: the session of a refused search stays open.                     *)
StillLocked(v) == lock
Unlocked(v) == [p \in Points |-> IF lock[p] = v THEN None ELSE lock[p]]

-----------------------------------------------------------------------------
(* autocomplete: the suggestions are returned whether or not Redis took    *)
(* their coordinates; the keys die by themselves.                          *)
Suggest(p) ==
  /\ p \notin served /\ begun < MaxSearches
  /\ suggested' = suggested \cup {p} /\ served' \in {served, served \cup {p}}
  /\ UNCHANGED <<parcels, lock, search, begun>>
Forget(p) ==
  /\ p \in served /\ served' = served \ {p}
  /\ UNCHANGED <<parcels, lock, suggested, search, begun>>

-----------------------------------------------------------------------------
(* geocode_address: forward first, also when the client sends coordinates. *)
(* The geocoder matches, finds nothing, or is down after its attempts.     *)
Matched(p, from) ==
  {[NoSearch EXCEPT !.pc = "matched", !.at = p, !.from = from, !.tract = m.tract, !.county = m.county] :
     m \in Metadata(p)}

Forward(v) ==
  /\ AtPc(v, "idle") /\ begun < MaxSearches /\ begun' = begun + 1
  /\ \E a \in DOMAIN CensusPoint, c \in Points \cup {NoPoint} :
       LET match == IF CensusPoint[a] = NoPoint THEN {} ELSE Matched(CensusPoint[a], "census")
           none  == IF c = NoPoint THEN NoSearch ELSE [NoSearch EXCEPT !.pc = "unmatched", !.coords = c]
       IN  \E s \in match \cup {none} : search' = [search EXCEPT ![v] = s]
  /\ UNCHANGED <<parcels, lock, served, suggested>>

(* reverse_geocode, for coordinates this backend served.  A Redis that     *)
(* cannot say counts as not served.                                        *)
(* Mutant: it counts as served.                                            *)
ServedIfDown(p) == TRUE
ServedName(p) == p \in served
Reverse(v) ==
  /\ AtPc(v, "unmatched")
  /\ \E s \in (IF ServedName(search[v].coords)
               THEN Matched(search[v].coords, "served") ELSE {}) \cup {NoSearch} :
       search' = [search EXCEPT ![v] = s]
  /\ UNCHANGED <<parcels, lock, served, suggested, begun>>

-----------------------------------------------------------------------------
(* get_or_create_parcel.  The lock lasts as long as the transaction.       *)
(* Mutant: no lock.                                                        *)
AnyTime(p) == TRUE
LockFree(p) == lock[p] = None
LockLocation(v) ==
  /\ AtPc(v, "matched") /\ LockFree(search[v].at)
  /\ lock' = [lock EXCEPT ![search[v].at] = v]
  /\ search' = [search EXCEPT ![v].pc = "locked"]
  /\ UNCHANGED <<parcels, served, suggested, begun>>

Distance(p, q) == IF p > q THEN p - q ELSE q - p
Nearby(p) == {i \in DOMAIN parcels : Distance(parcels[i].point, p) <= Radius}
Nearest(p) ==
  {i \in Nearby(p) : \A j \in Nearby(p) :
     Distance(parcels[i].point, p) <= Distance(parcels[j].point, p)}

FindNearbyParcel(v) ==
  /\ AtPc(v, "locked")
  /\ IF Nearby(search[v].at) = {}
     THEN search' = [search EXCEPT ![v].pc = "new", ![v].seen = DOMAIN parcels]
     ELSE \E i \in Nearest(search[v].at) :
            search' = [search EXCEPT ![v].pc = "found", ![v].near = i, ![v].from = None,
                                      ![v].lacked = {f \in {"tract", "county"} : parcels[i][f] = None}]
  /\ UNCHANGED <<parcels, lock, served, suggested, begun>>

(* What the row lacked when it was read, each field for itself.            *)
(* Mutant: only a parcel without a tract is healed.                        *)
LackedTogether(s) == IF "tract" \in s.lacked THEN {f \in s.lacked : s[f] # None} ELSE {}
Heals(s) == {f \in s.lacked : s[f] # None}

(* A commit lets go of the lock; without a change there is none.           *)
Backfill(v) ==
  /\ AtPc(v, "found")
  /\ LET s == search[v]
     IN  /\ parcels' = [parcels EXCEPT
                ![s.near].tract = IF "tract" \in Heals(s) THEN s.tract ELSE @,
                ![s.near].county = IF "county" \in Heals(s) THEN s.county ELSE @]
         /\ lock' = IF Heals(s) = {} THEN lock ELSE [lock EXCEPT ![s.at] = None]
  /\ search' = [search EXCEPT ![v].pc = "done", ![v].at = NoPoint, ![v].lacked = {}]
  /\ UNCHANGED <<served, suggested, begun>>

(* A new parcel is admitted and inserted, or refused: 503.                 *)
InsertParcel(v) ==
  /\ AtPc(v, "new")
  /\ LET s == search[v]
     IN  /\ parcels' = Append(parcels, [point |-> s.at, tract |-> s.tract, county |-> s.county,
                                        from |-> s.from, seen |-> s.seen])
         /\ lock' = [lock EXCEPT ![s.at] = None]
         /\ search' = [search EXCEPT ![v].pc = "done", ![v].at = NoPoint, ![v].from = None,
                                      ![v].near = Len(parcels'), ![v].seen = {}]
  /\ UNCHANGED <<served, suggested, begun>>
Refused(v) ==
  /\ AtPc(v, "new") /\ search' = End(v) /\ lock' = Unlocked(v)
  /\ UNCHANGED <<parcels, served, suggested, begun>>

(* The timeline request of the parcel, created, reused or refused, and the *)
(* answer; or the process dies.  Either way the session is closed.         *)
Answer(v) ==
  /\ AtPc(v, "done") /\ search' = End(v) /\ lock' = Unlocked(v)
  /\ UNCHANGED <<parcels, served, suggested, begun>>
Crash(v) ==
  /\ search[v].pc \in {"locked", "found", "new"} /\ search' = End(v) /\ lock' = Unlocked(v)
  /\ UNCHANGED <<parcels, served, suggested, begun>>

SearchStep(v) ==
  \/ Reverse(v) \/ FindNearbyParcel(v) \/ Backfill(v) \/ InsertParcel(v) \/ Refused(v) \/ Answer(v)
SearchNext ==
  \/ \E v \in Visitors : Forward(v) \/ LockLocation(v) \/ SearchStep(v) \/ Crash(v)
  \/ \E p \in Suggestions : Suggest(p) \/ Forget(p)

SearchSpec == SearchInit /\ [][SearchNext]_searchVars

(* A handler that started runs on; the database grants a lock in the order *)
(* it was asked for.                                                       *)
SearchFairness ==
  \A v \in Visitors : WF_searchVars(SearchStep(v)) /\ SF_searchVars(LockLocation(v))

-----------------------------------------------------------------------------
(* One place has one parcel.  Two parcels within the radius come only from *)
(* two searches that looked at the same time and were matched to different *)
(* points: the lock is on the exact point, and one address has two, the    *)
(* Census match and the suggestion.                                        *)
OneParcelPerPlace ==
  \A i, j \in DOMAIN parcels :
    i < j /\ Distance(parcels[i].point, parcels[j].point) <= Radius =>
      parcels[i].point # parcels[j].point /\ i \notin parcels[j].seen

(* A parcel lies where the Census geocoder or this backend's own           *)
(* suggestions put it, never where a client says.                          *)
IsWhereMatched(point, from) ==
  point \in (IF from = "census" THEN {CensusPoint[a] : a \in DOMAIN CensusPoint} ELSE suggested)
ParcelsAreWhereMatched ==
  \A i \in DOMAIN parcels : IsWhereMatched(parcels[i].point, parcels[i].from)

(* A search that knows the county or the tract of the parcel it found      *)
(* leaves it recorded, whichever of the two the parcel lacked and whoever  *)
(* wrote it meanwhile.                                                     *)
FoundParcelsHeal ==
  \A v \in Visitors :
    AtPc(v, "done") =>
      /\ (search[v].tract # None => parcels[search[v].near].tract # None)
      /\ (search[v].county # None => parcels[search[v].near].county # None)

(* Searches (geocode.py, parcels.py): one parcel per place but for two     *)
(* simultaneous matches to different points, nowhere a client says, healed *)
(* by whoever finds it.                                                    *)
ParcelsAreSound == OneParcelPerPlace /\ ParcelsAreWhereMatched /\ FoundParcelsHeal

(***************************************************************************)
(* The inductive strengthening of ParcelsAreSound.                         *)
(***************************************************************************)

(* A search holds the lock of its point from when it looks until it wrote. *)
HoldsItsLock(v, s) == s.pc \in {"locked", "found", "new"} => lock[s.at] = v

(* Nobody has written at the point a search still has locked, and what it  *)
(* saw when it looked was out of the radius.                               *)
IsAlone(s) ==
  s.pc = "new" =>
    /\ s.seen \subseteq DOMAIN parcels
    /\ \A i \in DOMAIN parcels : parcels[i].point # s.at
    /\ \A i \in s.seen : Distance(parcels[i].point, s.at) > Radius

IsMatched(s) ==
  /\ s.pc \in {"matched", "locked", "new"} =>
       s.from \in {"census", "served"} /\ IsWhereMatched(s.at, s.from)
  /\ s.pc \in {"matched", "locked", "found", "new"} => s.at \in Points

(* What a found parcel does not lack, it has.                              *)
KnowsWhatItFound(s) ==
  /\ s.pc \in {"found", "done"} => s.near \in DOMAIN parcels
  /\ s.pc = "found" =>
       /\ "tract" \notin s.lacked => parcels[s.near].tract # None
       /\ "county" \notin s.lacked => parcels[s.near].county # None
  /\ s.pc = "done" =>
       /\ s.tract # None => parcels[s.near].tract # None
       /\ s.county # None => parcels[s.near].county # None

Fits(v, s) == HoldsItsLock(v, s) /\ IsAlone(s) /\ IsMatched(s) /\ KnowsWhatItFound(s)

SearchInv ==
  /\ SearchTypeOK /\ \A v \in Visitors : Fits(v, search[v])
  /\ OneParcelPerPlace /\ ParcelsAreWhereMatched

(* Every search that was matched ends, whatever happens to the others that *)
(* wait for the same lock.                                                 *)
EverySearchEnds == \A v \in Visitors : AtPc(v, "matched") ~> AtPc(v, "idle")

=============================================================================
