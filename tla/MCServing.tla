------------------------------ MODULE MCServing ------------------------------
(***************************************************************************)
(* TLC instance of what stands before and behind the pipeline: searching,  *)
(* the rate limiter, signing, tiles and the polling page.  A behaviour is  *)
(* one of the studies; the variables of the others stay as they are        *)
(* parked.                                                                 *)
(***************************************************************************)
EXTENDS TLC, TokenMint, AddressSearch, RateLimit, TileServing

VARIABLE study

-----------------------------------------------------------------------------
(* Two visitors and an address that Census matches to one point and Photon *)
(* suggests at another, within the radius and in another tract.            *)
MCNoPoint == -9
MCCensusPoint == "matched" :> 0 @@ "unknown" :> MCNoPoint
MCTractOf == 0 :> "t1" @@ 1 :> "t2"

(* Two calls in a window of three units.                                   *)
RParked == RateInit /\ ~failClosed

-----------------------------------------------------------------------------
(* Tiles of one period: one request at a time, two tokens and time for     *)
(* every cache to run out ("tiles"), or two requests at once, one token    *)
(* and less time ("requests").                                             *)
MCMosaic == <<2, 1>>
OneRequest == TileNext /\ req'["r2"] = req["r2"]
TwoRequests == TileNext /\ Len(tokens') <= 1 /\ time' <= 3
TParked == TileInit /\ source = "naip"

-----------------------------------------------------------------------------
(* A page that sees two changes.                                           *)
VARIABLES pStatus, pServed, pTooOld, pSeen, pStatusError, pShown, pListError, pRefetch,
          pFailures
pVars == <<pStatus, pServed, pTooOld, pSeen, pStatusError, pShown, pListError, pRefetch,
           pFailures>>
P == INSTANCE ClientPolling WITH
  MaxServed <- 2, MaxFailures <- 2,
  status <- pStatus, served <- pServed, tooOld <- pTooOld, seen <- pSeen,
  statusError <- pStatusError, shown <- pShown, listError <- pListError,
  refetch <- pRefetch, failures <- pFailures

-----------------------------------------------------------------------------
ServingInit ==
  /\ study \in {"tokens", "tiles", "requests", "search", "limit", "page"}
  /\ IF study \in {"tiles", "requests"} THEN TileInit ELSE TParked
  /\ IF study = "limit" THEN RateInit ELSE RParked
  /\ MintInit /\ SearchInit /\ P!PollInit

ServingNext ==
  /\ UNCHANGED study
  /\ \/ study = "tokens" /\ MintNext /\ UNCHANGED <<tileVars, searchVars, rateVars, pVars>>
     \/ study = "tiles" /\ OneRequest /\ UNCHANGED <<mintVars, searchVars, rateVars, pVars>>
     \/ study = "requests" /\ TwoRequests
          /\ UNCHANGED <<mintVars, searchVars, rateVars, pVars>>
     \/ study = "search" /\ SearchNext /\ UNCHANGED <<mintVars, tileVars, rateVars, pVars>>
     \/ study = "limit" /\ RateNext /\ UNCHANGED <<mintVars, tileVars, searchVars, pVars>>
     \/ study = "page" /\ P!PollNext /\ UNCHANGED <<mintVars, tileVars, searchVars, rateVars>>

(* Each study's own fairness (MintFairness, SearchFairness, PollFairness), *)
(* asked of that study's behaviours alone.                                 *)
TokenFairness ==
  /\ WF_mintVars(study = "tokens" /\ MintStep) /\ WF_mintVars(study = "tokens" /\ Callback)
  /\ \A c \in Callers : WF_mintVars(study = "tokens" /\ LoopStep(c))
AddressFairness ==
  \A v \in Visitors :
    /\ WF_searchVars(study = "search" /\ SearchStep(v))
    /\ SF_searchVars(study = "search" /\ LockLocation(v))
PageFairness ==
  /\ WF_pVars(study = "page" /\ P!ReadStatus)
  /\ WF_pVars(study = "page" /\ pRefetch /\ P!ReadImagery)

ServingSpec ==
  /\ ServingInit /\ [][ServingNext]_<<study, mintVars, tileVars, searchVars, rateVars, pVars>>
  /\ TokenFairness /\ AddressFairness /\ PageFairness

-----------------------------------------------------------------------------
(* Every study keeps its types.                                            *)
ServingTypeOK ==
  /\ study = "tokens" => MintTypeOK
  /\ study \in {"tiles", "requests"} => TileTypeOK
  /\ study = "search" => SearchTypeOK
  /\ study = "limit" => RateTypeOK
  /\ study = "page" => P!PollTypeOK

(* Nobody waits for ever: a caller of a token that stays is answered       *)
(* (stac.py), and a search that waits for its place ends (parcels.py).     *)
WaitersAreAnswered ==
  (study = "tokens" => EveryCallerIsAnswered) /\ (study = "search" => EverySearchEnds)

(* The explore page (queries.ts, ExplorePage.tsx): a delivered timeline,   *)
(* a partial one too, comes to be shown.                                   *)
DeliveredIsShown == study = "page" => P!DeliveredIsShown

=============================================================================
