---------------------------- MODULE MCSourceTasks ----------------------------
(***************************************************************************)
(* TLC instance of the tasks a request runs beside the imagery sources,    *)
(* and of the decisions inside them.  They share no state: a behaviour is  *)
(* one of the studies; the variables of the others stay parked.            *)
(***************************************************************************)
EXTENDS CensusRun, PropertyRun, TopoRun, UpstreamRetry, SceneSelection, MosaicSelection, TLC

VARIABLE study

-----------------------------------------------------------------------------
(* The census task: four years, three vintages, a tract that moved.        *)
MCDecennial == <<2000, 2020>>
MCACS5 == <<2015, 2021>>
MCVintage ==
  2000 :> NoVintage @@ 2020 :> "Census2020" @@ 2015 :> "Census2010"
    @@ 2021 :> "Census2020"
MCTractIn == "Census2020" :> "t2" @@ "Census2010" :> NoTract
MCTrimmed == {2000}
MCPublished == 2000 :> {"t1"} @@ 2020 :> {"t1", "t2"} @@ 2015 :> {"t1"} @@ 2021 :> {"t1"}

-----------------------------------------------------------------------------
(* The property task: places of every adapter, portals that change.        *)
Place(county, city, address) == [county |-> county, city |-> city, address |-> address]
NMain == <<"100", "N", "MAIN", "ST">>
SMain == <<"100", "SOUTH", "MAIN", "STREET">>
Main == <<"100", "MAIN", "ST">>
Main1100 == <<"1100", "N", "MAIN", "ST">>
RhodeNE == <<"1600", "RHODE", "ISLAND", "AVE", "NE">>
RhodeNW == <<"1600", "RHODE", "ISLAND", "AVE", "NW">>
Rhode == <<"1600", "RHODE", "ISLAND", "AVENUE">>
MCPlaces ==
  {Place("dc", "no city", RhodeNE), Place("new_york", "NEW YORK", NMain),
   Place("santa_clara", "SAN JOSE", Main), Place("santa_clara", "CUPERTINO", Main),
   Place("adams", "BRIGHTON", NMain), Place("adams", "THORNTON", NMain),
   Place("denver", "DENVER", << >>), Place("boulder", "BOULDER", NMain)}

PRow(from, id, lot, date, words, situs) ==
  [from |-> from, id |-> id, lot |-> lot, date |-> date, price |-> date,
   words |-> words, situs |-> situs]
MCPortals ==
  {{},
   {PRow("itspe", "blank", "lot1", 1, {}, RhodeNE),
    PRow("2026", "b1", "lot1", 1, {"RENEWAL", "NEW"}, Rhode),
    PRow("2025", "b2", "lot2", 0, {"DEMO"}, RhodeNW)},
   {PRow("itspe", "blank", "lot1", 2, {}, RhodeNE),
    PRow("2026", "blank", "lot1", 1, {"ELEC"}, RhodeNE)},
   {PRow("annualized", "blank", "lot1", 1, {}, Main1100),
    PRow("rolling", "blank", "lot1", 1, {}, NMain),
    PRow("annualized", "blank", "lot1", 2, {}, NMain),
    PRow("dob", "j1", "lot1", 0, {"PLUM"}, << >>)},
   {PRow("active", "f1", "lot1", 1, {"MECH"}, Main),
    PRow("expired", "f1", "lot1", 2, {"MECH"}, Main),
    PRow("expired", "f2", "lot1", 2, {}, Main1100),
    PRow("eye_on_adams", "r1", "lot1", 1, {"NEW"}, Main),
    PRow("eye_on_adams", "r2", "lot1", 1, {}, SMain)}}

-----------------------------------------------------------------------------
(* The topographic-map task: two decades, a cap of two sheets.             *)
Sheet(id, year, extent, geotiff) ==
  [id |-> id, year |-> year, extent |-> extent, geotiff |-> geotiff]
MCSheets ==
  {Sheet(1, 1951, 1, TRUE), Sheet(2, 1958, 1, TRUE), Sheet(3, 1953, 0, TRUE),
   Sheet(0, 1955, 0, TRUE), Sheet(4, 1964, 2, TRUE), Sheet(5, 0, 1, TRUE),
   Sheet(6, 1967, 1, FALSE), Sheet(7, 1969, 0, FALSE)}
MCCatalogues == {S \in SUBSET MCSheets : Cardinality(S) <= 3}

-----------------------------------------------------------------------------
(* Scene selection: one year of three scenes, or two years.                *)
Scene(id, year, cloud, le07, footprint, bbox, asset) ==
  [id |-> id, year |-> year, cloud |-> cloud, le07 |-> le07,
   footprint |-> footprint, bbox |-> bbox, asset |-> asset]
MCScenes ==
  {Scene(1, 1999, 10, FALSE, "contains", "contains", TRUE),
   Scene(2, 1999, 20, TRUE, "none", "contains", TRUE),
   Scene(3, 1999, 30, FALSE, "contains", "contains", TRUE),
   Scene(4, 1999, 0, FALSE, "misses", "contains", TRUE),
   Scene(5, 2000, 100, FALSE, "none", "none", FALSE),
   Scene(6, 2000, 100, TRUE, "contains", "contains", TRUE),
   Scene(7, 0, 5, FALSE, "contains", "contains", TRUE),
   Scene(8, 2000, 40, FALSE, "none", "misses", TRUE)}
MCPools == {S \in SUBSET MCScenes : Cardinality(S) <= 4}

-----------------------------------------------------------------------------
(* A NAIP year: of the quads at a corner of the grid, some; the viewport,  *)
(* of 2500 m, is six cells wide, the quads 5.4 km with an overlap.         *)
MCSide == 6
Quad == 13
Period == 12
Tile(w, s) ==
  [id |-> 0, box |-> [w |-> w, s |-> s, e |-> w + Quad, n |-> s + Quad],
   doy |-> (2 * w + s + 60) % 3]
Blind == [id |-> 9, box |-> NoBox, doy |-> 1]
QuadsAt(x, y) == {Tile(x - i * Period, y - j * Period) : i, j \in 0 .. 1}
Corners == (MCSide - Period) .. (MCSide - 1)
MCYears == UNION {SUBSET QuadsAt(x, y) : x, y \in Corners}
MCTilePools == MCYears \cup {year \cup {Blind} : year \in MCYears}

-----------------------------------------------------------------------------
(* One upstream call of each client.                                       *)
MCPolicies ==
  {CensusPolicy, VintagePolicy, ArcGISPolicy, SearchPolicy,
   SignPolicy(SIGN_WAIT_BATCH), SignPolicy(SIGN_WAIT_REQUEST)}

-----------------------------------------------------------------------------
CParked == Init /\ rows = [y \in Years |-> NoRow]
PParked == PropertyInit /\ place = Place("denver", "DENVER", << >>) /\ portal = {}
MParked == TopoInit /\ catalogue = {}
SParked == SelectionInit /\ raw = {} /\ ~sentinel
NParked == MosaicInit /\ offered = {}
UParked == RetryInit /\ policy = CensusPolicy

TasksInit ==
  /\ study \in {"census", "property", "topo", "scenes", "mosaic", "upstream"}
  /\ IF study = "census" THEN Init ELSE CParked
  /\ IF study = "property" THEN PropertyInit ELSE PParked
  /\ IF study = "topo" THEN TopoInit ELSE MParked
  /\ IF study = "scenes" THEN SelectionInit ELSE SParked
  /\ IF study = "mosaic" THEN MosaicInit ELSE NParked
  /\ IF study = "upstream" THEN RetryInit ELSE UParked

TasksNext ==
  /\ UNCHANGED study
  /\ \/ study = "census" /\ Next
          /\ UNCHANGED <<propertyVars, topoVars, selectionVars, mosaicVars, retryVars>>
     \/ study = "property" /\ PropertyNext
          /\ UNCHANGED <<vars, topoVars, selectionVars, mosaicVars, retryVars>>
     \/ study = "topo" /\ TopoNext
          /\ UNCHANGED <<vars, propertyVars, selectionVars, mosaicVars, retryVars>>
     \/ study = "scenes" /\ SelectionNext
          /\ UNCHANGED <<vars, propertyVars, topoVars, mosaicVars, retryVars>>
     \/ study = "mosaic" /\ MosaicNext
          /\ UNCHANGED <<vars, propertyVars, topoVars, selectionVars, retryVars>>
     \/ study = "upstream" /\ RetryNext
          /\ UNCHANGED <<vars, propertyVars, topoVars, selectionVars, mosaicVars>>

TasksSpec ==
  TasksInit /\ [][TasksNext]_<<study, vars, propertyVars, topoVars, selectionVars, mosaicVars, retryVars>>

-----------------------------------------------------------------------------
(* Every study keeps its types.                                            *)
TasksTypeOK ==
  /\ TypeOK /\ PropertyTypeOK /\ TopoTypeOK /\ RetryTypeOK
  /\ SelectionTypeOK /\ MosaicTypeOK

=============================================================================
