------------------------------ MODULE MCBackfill ------------------------------
(* TLC instance of BackfillPolicy. *)
EXTENDS BackfillPolicy

MCFullScope == {"census", "landsat", "property", "usgs_topo"}
MCLedgerSource ==
  [landsat2020 |-> "landsat", dec1990 |-> "census_decennial", acs2021 |-> "census_acs5",
   topo |-> "usgs_topo"]
MCAttempted ==
  <<{"landsat2020", "dec1990", "acs2021", "topo"}, {"landsat2020", "acs2021", "topo"}>>

(* Nothing, or a complete request from before the maps were a source.      *)
Old ==
  [scope |-> MCFullScope, origin |-> "user", why |-> {}, at |-> 0, code |-> 0,
   status |-> "complete",
   tasks |-> [s \in MCFullScope |-> IF s = "usgs_topo" THEN "none" ELSE "complete"],
   rows |-> [k \in Keys |-> IF k = "topo" THEN NoRow
                             ELSE IF k = "dec1990" THEN "absent_api" ELSE "ok"]]
MCSeeds == {<< >>, <<Old>>}

=============================================================================
