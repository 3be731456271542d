---------------------------- MODULE SceneSelection ----------------------------
(***************************************************************************)
(* From what a Landsat or Sentinel-2 search returned to the one scene of   *)
(* each year that is served: keep the scenes whose footprint contains the  *)
(* parcel, pick one of each year by cloud, ask whether it can be served,   *)
(* and if not walk the year's other scenes until one can.                  *)
(*                                                                         *)
(* A scene is [id, year (0 without a readable date), cloud, le07, footprint*)
(* and bbox ("contains", "misses" or "none"), asset (its canary asset is   *)
(* there, on a host we may ask)].                                          *)
(***************************************************************************)
EXTENDS Naturals, FiniteSets

CONSTANTS
  Pools       (* the answers of a search: sets of scenes                  *)

(* An item's id is its own within a collection; a date has a year.         *)
ASSUME PoolsAssumption ==
  /\ \A P \in Pools : \A s, t \in P : s.id = t.id => s = t
  /\ \A P \in Pools : \A s \in P : s.year \in Nat

Servable == "servable"
SignReasons == {"sign_429", "sign_5xx", "read_timeout", "connect_error", "other"}
Reasons == SignReasons \cup {"validation_failed"}
NoNote == "none"

VARIABLES
  sentinel,  (* TRUE: select_sentinel_items, which knows no LE07          *)
  raw,       (* what the search returned                                  *)
  pool,      (* raw_items after the point filter                          *)
  picks,     (* selected_groups                                           *)
  verdict,   (* verdict[s]: what validation answered about scene s        *)
  walking,   (* years whose first choice failed and whose walk goes on    *)
  validated, (* the scenes to persist                                     *)
  notes,     (* notes[y]: NoNote, or the reason of a dropped year         *)
  phase

selectionVars ==
  <<sentinel, raw, pool, picks, verdict, walking, validated, notes, phase>>

AllScenes == UNION Pools
AllYears == {s.year : s \in AllScenes} \ {0}
Unasked == "unasked"

(* stac.filter_items_containing_point: the bbox only speaks for a scene    *)
(* without a geometry, and one with neither is kept.                       *)
(* Mutant: the envelope is asked instead of the footprint.                 *)
InEnvelope(s) == s.bbox # "misses"
ContainsPoint(s) ==
  IF s.footprint = "none" THEN s.bbox # "misses" ELSE s.footprint = "contains"

SelectionTypeOK ==
  /\ sentinel \in BOOLEAN /\ raw \in Pools /\ pool \subseteq raw
  /\ picks \subseteq raw /\ validated \subseteq raw
  /\ verdict \in [AllScenes -> Reasons \cup {Servable, Unasked}]
  /\ walking \subseteq AllYears
  /\ notes \in [AllYears -> Reasons \cup {NoNote}]
  /\ phase \in {"filter", "select", "validate", "walk", "done"}

SelectionInit ==
  /\ raw \in Pools /\ sentinel \in BOOLEAN
  /\ pool = {} /\ picks = {} /\ validated = {} /\ walking = {}
  /\ verdict = [s \in AllScenes |-> Unasked]
  /\ notes = [y \in AllYears |-> NoNote]
  /\ phase = "filter"

Filter ==
  /\ phase = "filter" /\ phase' = "select"
  /\ pool' = {s \in raw : ContainsPoint(s)}
  /\ UNCHANGED <<sentinel, raw, picks, verdict, walking, validated, notes>>

-----------------------------------------------------------------------------
OfYear(scenes, y) == {s \in scenes : s.year = y}

(* Missing cloud cover reads as fully cloudy.                              *)
Clearest(scenes) == {s \in scenes : \A t \in scenes : s.cloud <= t.cloud}

(* select_sentinel_items; select_landsat_items keeps Landsat 7 for a year  *)
(* that has nothing else.                                                  *)
SentinelChoices(scenes) == Clearest(scenes)
LandsatChoices(scenes) ==
  LET others == {s \in scenes : ~s.le07}
  IN  Clearest(IF others = {} THEN scenes ELSE others)

Choices(scenes) ==
  IF sentinel THEN SentinelChoices(scenes) ELSE LandsatChoices(scenes)

(* Among equally clear scenes, the first of the search's answer.           *)
Select ==
  /\ phase = "select" /\ phase' = "validate"
  /\ picks' \in {P \in SUBSET pool : \A y \in AllYears \cup {0} :
        IF y = 0 \/ OfYear(pool, y) = {} THEN OfYear(P, y) = {}
        ELSE \E s \in Choices(OfYear(pool, y)) : OfYear(P, y) = {s}}
  /\ UNCHANGED <<sentinel, raw, pool, verdict, walking, validated, notes>>

(* _validate_asset: no asset or a host we may not ask fails at once; else  *)
(* signing, then a HEAD, may fail.                                         *)
Verdicts(s) == IF s.asset THEN Reasons \cup {Servable} ELSE {"validation_failed"}

(* The first choices are asked together.                                   *)
ValidateFirst ==
  /\ phase = "validate" /\ phase' = "walk"
  /\ \E answers \in [picks -> Reasons \cup {Servable}] :
       /\ \A s \in picks : answers[s] \in Verdicts(s)
       /\ verdict' = [s \in AllScenes |-> IF s \in picks THEN answers[s] ELSE verdict[s]]
       /\ validated' = {s \in picks : answers[s] = Servable}
       /\ walking' = {s.year : s \in {p \in picks : answers[p] # Servable}}
       /\ notes' = [y \in AllYears |->
                      IF y \in walking'
                      THEN answers[CHOOSE s \in picks : s.year = y] ELSE NoNote]
  /\ UNCHANGED <<sentinel, raw, pool, picks>>

(* Mutant: the walk takes its candidates from the unfiltered answer.       *)
RawCandidates(y) ==
  {s \in OfYear(raw, y) : verdict[s] = Unasked /\ \A p \in picks : p.id # s.id}
(* The year's other scenes, clearest first; its years go one by one.       *)
Candidates(y) ==
  {s \in OfYear(pool, y) : verdict[s] = Unasked /\ \A p \in picks : p.id # s.id}

EarliestWalk == CHOOSE y \in walking : \A z \in walking : y <= z

WalkOne ==
  /\ phase = "walk" /\ walking # {}
  /\ LET y == EarliestWalk
     IN  \E s \in Clearest(Candidates(y)) : \E answer \in Verdicts(s) :
           /\ verdict' = [verdict EXCEPT ![s] = answer]
           /\ IF answer = Servable
              THEN /\ validated' = validated \cup {s}
                   /\ walking' = walking \ {y}
                   /\ notes' = [notes EXCEPT ![y] = NoNote]
              ELSE /\ notes' = [notes EXCEPT ![y] = answer]
                   /\ UNCHANGED <<validated, walking>>
  /\ UNCHANGED <<sentinel, raw, pool, picks, phase>>

(* Mutant: one fallback is tried, then the year is dropped.                *)
OneFallback(y) ==
  Candidates(y) = {} \/ Cardinality({s \in OfYear(pool, y) : verdict[s] # Unasked}) > 1
NoneLeft(y) == Candidates(y) = {}

(* No servable scene: the year is dropped, with the last reason.           *)
DropYear ==
  /\ phase = "walk" /\ walking # {}
  /\ NoneLeft(EarliestWalk)
  /\ walking' = walking \ {EarliestWalk}
  /\ UNCHANGED <<sentinel, raw, pool, picks, verdict, validated, notes, phase>>

EndWalk ==
  /\ phase = "walk" /\ walking = {} /\ phase' = "done"
  /\ UNCHANGED <<sentinel, raw, pool, picks, verdict, walking, validated, notes>>

SelectionNext ==
  Filter \/ Select \/ ValidateFirst \/ WalkOne \/ DropYear \/ EndWalk

SelectionSpec == SelectionInit /\ [][SelectionNext]_selectionVars

-----------------------------------------------------------------------------
(* What is persisted shows the parcel: its footprint contains the address, *)
(* through first choices and fallbacks alike, and it is of its own year.   *)
ServedShowsTheParcel ==
  \A s \in validated :
    /\ s.footprint # "misses"
    /\ s.footprint = "none" => s.bbox # "misses"
    /\ s.year # 0 /\ verdict[s] = Servable
    /\ \A t \in validated : t.year = s.year => t = s

(* No year is lost that could be shown: when selection is done, a year     *)
(* with a scene over the parcel is served, or every one of its scenes was  *)
(* asked and refused, and then the ledger gets a reason.                   *)
NoServableYearIsLost ==
  phase = "done" =>
    \A y \in {s.year : s \in {r \in raw : ContainsPoint(r)}} \ {0} :
      \/ OfYear(validated, y) # {} /\ notes[y] = NoNote
      \/ /\ notes[y] # NoNote
         /\ \A s \in OfYear(raw, y) :
              ContainsPoint(s) => verdict[s] \notin {Servable, Unasked}

SelectionServesWhatItCan == ServedShowsTheParcel /\ NoServableYearIsLost

(***************************************************************************)
(* Its inductive strengthening: what is known of every year of the pool    *)
(* once its first choice was asked, while its walk goes on and after.      *)
(***************************************************************************)
OneOfEachYear(scenes) ==
  \A s \in scenes : s.year # 0 /\ \A t \in scenes : t.year = s.year => t = s

(* Every scene of the year was asked and refused, and there is a reason.   *)
AllRefused(y) ==
  notes[y] # NoNote /\ \A s \in OfYear(pool, y) : verdict[s] \notin {Servable, Unasked}

PicksOK ==
  /\ picks \subseteq pool /\ OneOfEachYear(picks)
  /\ \A s \in pool : s.year # 0 => \E p \in picks : p.year = s.year

YearsOK ==
  /\ validated \subseteq pool /\ OneOfEachYear(validated)
  /\ \A s \in validated :
       verdict[s] = Servable /\ s.year \notin walking /\ notes[s.year] = NoNote
  /\ \A p \in picks : verdict[p] # Unasked
  /\ \A y \in walking :
       notes[y] # NoNote /\ \A s \in OfYear(pool, y) : verdict[s] # Servable
  /\ \A s \in pool :
       s.year # 0 /\ s.year \notin walking =>
         (\E v \in validated : v.year = s.year) \/ AllRefused(s.year)

SelectionInv ==
  /\ SelectionTypeOK
  /\ phase # "filter" => pool = {s \in raw : ContainsPoint(s)}
  /\ phase \in {"filter", "select", "validate"} =>
       /\ \A s \in AllScenes : verdict[s] = Unasked
       /\ validated = {} /\ walking = {}
  /\ phase \in {"validate", "walk", "done"} => PicksOK
  /\ phase \in {"walk", "done"} => YearsOK
  /\ phase = "done" => walking = {}

=============================================================================
