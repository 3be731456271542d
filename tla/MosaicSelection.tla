--------------------------- MODULE MosaicSelection ---------------------------
(***************************************************************************)
(* The NAIP mosaic of one year: tiles are added greedily, each the one     *)
(* that covers most of the rectangle still open, until enough of the       *)
(* viewport is covered, three tiles are taken, or nothing is gained; a     *)
(* mosaic none of whose tiles contains the parcel is suppressed.           *)
(*                                                                         *)
(* The viewport is a grid of unit cells, the parcel its centre.            *)
(***************************************************************************)
EXTENDS Integers, FiniteSets

CONSTANTS
  TilePools,  (* what a year's search may return: sets of tiles           *)
  Side        (* the viewport is Side x Side; Side is even                *)

(* A tile: [id, box, doy], doy the distance to mid-summer; a box is        *)
(* [w, s, e, n], NoBox if the item carries none.                           *)
Boxes == [w : Int, s : Int, e : Int, n : Int]
NoBox == [w |-> 0, s |-> 0, e |-> 0, n |-> 0]
Viewport == [w |-> 0, s |-> 0, e |-> Side, n |-> Side]
MaxTiles == 3
CoverageTarget == 95

VARIABLES
  offered,    (* year_items                                               *)
  candidates,
  chosen,     (* selected_for_year, a set                                 *)
  covered,    (* covered_so_far, in cells                                 *)
  open,       (* remaining                                                *)
  stage,      (* "pick", "gate", "served" or "suppressed"                 *)
  added       (* history: the cells the last tile added                   *)

mosaicVars == <<offered, candidates, chosen, covered, open, stage, added>>

Smaller(a, b) == IF a < b THEN a ELSE b
Larger(a, b) == IF a < b THEN b ELSE a
Meet(a, b) ==
  [w |-> Larger(a.w, b.w), s |-> Larger(a.s, b.s),
   e |-> Smaller(a.e, b.e), n |-> Smaller(a.n, b.n)]
Area(r) == Larger(0, r.e - r.w) * Larger(0, r.n - r.s)
IntersectionArea(a, b) == Area(Meet(a, b))

Cells == (0 .. Side - 1) \X (0 .. Side - 1)
CellsOf(r) == {c \in Cells : r.w <= c[1] /\ c[1] < r.e /\ r.s <= c[2] /\ c[2] < r.n}

HasBox(tile) == tile.box # NoBox
InColumns(box) == 2 * box.w < Side /\ Side < 2 * box.e
InRows(box) == 2 * box.s < Side /\ Side < 2 * box.n
ContainsParcel(tile) ==
  \/ ~HasBox(tile)
  \/ InColumns(tile.box) /\ InRows(tile.box)

Meets(tile) == HasBox(tile) => IntersectionArea(tile.box, Viewport) > 0

(* NAIP's quarter quads are tiles of one grid, larger than the viewport:   *)
(* what meets the viewport lies in at most two columns and two rows.  Some *)
(* of a year may be missing.  A quad's footprint is taken to fill its box. *)
SameColumnOfQuads(a, b) == a.w = b.w /\ a.e = b.e
SameRowOfQuads(a, b) == a.s = b.s /\ a.n = b.n
IsGrid(tiles) ==
  LET boxes == {t.box : t \in {u \in tiles : HasBox(u) /\ Meets(u)}}
  IN  /\ \A a \in boxes : a.e - a.w >= Side /\ a.n - a.s >= Side
      /\ \A a, b, c \in boxes :
           /\ SameColumnOfQuads(a, b) \/ SameColumnOfQuads(b, c) \/ SameColumnOfQuads(a, c)
           /\ SameRowOfQuads(a, b) \/ SameRowOfQuads(b, c) \/ SameRowOfQuads(a, c)
ASSUME GridAssumption ==
  /\ Side \in Nat \ {0} /\ Side % 2 = 0
  /\ \A P \in TilePools : IsGrid(P) /\ \A t \in P : t.box \in Boxes

MosaicTypeOK ==
  /\ offered \in TilePools
  /\ candidates \subseteq offered /\ chosen \subseteq offered
  /\ IsFiniteSet(chosen) /\ Cardinality(chosen) <= MaxTiles
  /\ covered \in Nat /\ open \in Boxes
  /\ stage \in {"pick", "gate", "served", "suppressed"}
  /\ added \subseteq Cells

(* filter_items_intersecting_bbox comes first: a tile that does not meet   *)
(* the viewport is no candidate.                                           *)
MosaicInit ==
  /\ offered \in TilePools
  /\ candidates = {t \in offered : Meets(t)}
  /\ chosen = {} /\ covered = 0 /\ open = Viewport /\ added = Cells
  /\ stage = "pick"

-----------------------------------------------------------------------------
Gain(tile) == IF HasBox(tile) THEN IntersectionArea(tile.box, open) ELSE 0

(* Mutant: nearest to mid-summer first.                                    *)
SummerTiles == {t \in candidates : \A u \in candidates : t.doy <= u.doy}
(* Most open area first, then nearest to mid-summer.                       *)
BestTiles ==
  {t \in candidates : \A u \in candidates :
     Gain(t) > Gain(u) \/ (Gain(t) = Gain(u) /\ t.doy <= u.doy)}

(* An approximation: what two tiles share is counted twice.                *)
CoveredSoFar(tile) == covered + IntersectionArea(tile.box, Viewport)
Enough(cells) == 100 * cells >= CoverageTarget * Area(Viewport)

(* The strips of the open rectangle outside the tile.                      *)
(* Mutant: the strips are not clipped by the side the tile is on.          *)
WholeStrips(box) == {open}
Residuals(box) ==
  (IF box.e < open.e THEN {[open EXCEPT !.w = Larger(box.e, open.w)]} ELSE {})
  \cup (IF box.w > open.w THEN {[open EXCEPT !.e = Smaller(box.w, open.e)]} ELSE {})
  \cup (IF box.n < open.n THEN {[open EXCEPT !.s = Larger(box.n, open.s)]} ELSE {})
  \cup (IF box.s > open.s THEN {[open EXCEPT !.n = Smaller(box.s, open.n)]} ELSE {})
LargestOf(rects) == {r \in rects : \A q \in rects : Area(q) <= Area(r)}

(* Nothing left to ask: no candidate, three tiles, or no gain.             *)
StopPicking ==
  /\ stage = "pick"
  /\ \/ candidates = {} \/ Cardinality(chosen) = MaxTiles
     \/ chosen # {} /\ \E t \in BestTiles : HasBox(t) /\ Gain(t) <= 0
  /\ stage' = "gate"
  /\ UNCHANGED <<offered, candidates, chosen, covered, open, added>>

(* A tile without a box is taken, and is the last.                         *)
TakeBlind ==
  /\ stage = "pick" /\ Cardinality(chosen) < MaxTiles
  /\ \E t \in BestTiles : ~HasBox(t) /\ chosen' = chosen \cup {t}
  /\ added' = Cells
  /\ stage' = "gate"
  /\ UNCHANGED <<offered, candidates, covered, open>>

Take ==
  /\ stage = "pick" /\ Cardinality(chosen) < MaxTiles
  /\ \E t \in BestTiles :
       /\ HasBox(t) /\ (Gain(t) > 0 \/ chosen = {})
       /\ chosen' = chosen \cup {t}
       /\ candidates' = candidates \ {t}
       /\ added' = CellsOf(t.box) \ UNION {CellsOf(u.box) : u \in chosen}
       /\ covered' = CoveredSoFar(t)
       /\ IF Enough(covered') \/ Residuals(t.box) = {}
          THEN stage' = "gate" /\ UNCHANGED open
          ELSE open' \in LargestOf(Residuals(t.box)) /\ UNCHANGED stage
  /\ UNCHANGED offered

(* filter_groups_containing_point.                                         *)
(* Mutant: the gate asks whether any tile on offer contains the parcel.    *)
AnyOffered == \E t \in offered : ContainsParcel(t)
Covering == \E t \in chosen : ContainsParcel(t)

Gate ==
  /\ stage = "gate" /\ chosen # {}
  /\ stage' = IF Covering THEN "served" ELSE "suppressed"
  /\ UNCHANGED <<offered, candidates, chosen, covered, open, added>>

MosaicNext == StopPicking \/ TakeBlind \/ Take \/ Gate

MosaicSpec == MosaicInit /\ [][MosaicNext]_mosaicVars

-----------------------------------------------------------------------------
(* A later tile shows part of the viewport no earlier tile showed.         *)
EveryTileAddsView == chosen # {} => added # {}

(* A mosaic is served only with a tile over the parcel.                    *)
ServedMosaicCovers == stage = "served" => \E t \in chosen : ContainsParcel(t)

(* The gate gives a year up only when the search had no tile over the      *)
(* parcel (_search_and_persist_source: "imagery year with no covering      *)
(* tile"): on the grid, maximising the area of the viewport never passes   *)
(* one over.  Of tiles that lie anyhow it may: two that nearly meet at the *)
(* parcel are enough of the viewport.                                      *)
CoveringTileIsNeverPassedOver ==
  stage = "suppressed" => \A t \in offered : HasBox(t) => ~ContainsParcel(t)

MosaicShowsTheParcel ==
  EveryTileAddsView /\ ServedMosaicCovers /\ CoveringTileIsNeverPassedOver

(***************************************************************************)
(* Its inductive strengthening.  While tiles are picked, nothing is taken  *)
(* yet, or the parcel is shown, or no tile could show it, or one tile is   *)
(* taken, which ends beside the parcel, and the strip beyond it is open:   *)
(* then the next pick shows the parcel.                                    *)
(***************************************************************************)
MeetingTiles == {t \in offered : Meets(t)}
NoneCovers == \A t \in offered : HasBox(t) => ~ContainsParcel(t)
Untouched ==
  chosen = {} /\ covered = 0 /\ open = Viewport /\ candidates = MeetingTiles

IsBeyond(rect, box) ==
  \/ rect = [Viewport EXCEPT !.e = box.w] /\ Side <= 2 * box.w
  \/ rect = [Viewport EXCEPT !.w = box.e] /\ 2 * box.e <= Side
  \/ rect = [Viewport EXCEPT !.n = box.s] /\ Side <= 2 * box.s
  \/ rect = [Viewport EXCEPT !.s = box.n] /\ 2 * box.n <= Side

EndsBeside(tile) ==
  /\ chosen = {tile} /\ HasBox(tile) /\ candidates = MeetingTiles \ {tile}
  /\ Meets(tile) /\ IsBeyond(open, tile.box)

(* What is open is in the viewport and no tile taken shows any of it.      *)
OpenIsUnseen ==
  /\ 0 <= open.w /\ open.e <= Side /\ 0 <= open.s /\ open.n <= Side
  /\ chosen = {} => open = Viewport
  /\ \A t \in chosen : CellsOf(t.box) \cap CellsOf(open) = {}

MosaicInv ==
  /\ MosaicTypeOK /\ EveryTileAddsView /\ candidates \subseteq MeetingTiles
  /\ stage = "pick" =>
       /\ OpenIsUnseen
       /\ Untouched \/ Covering \/ NoneCovers \/ \E u \in chosen : EndsBeside(u)
  /\ stage = "gate" => Covering \/ NoneCovers
  /\ stage = "served" => Covering
  /\ stage = "suppressed" => NoneCovers

=============================================================================
