------------------------------ MODULE TileServing ------------------------------
(***************************************************************************)
(* Tiles and warm-ups of one served period, whose row a run may replace in *)
(* place: the rows each API process caches, the STAC item kept in Redis    *)
(* and the items Titiler keeps by URL, each outliving what it was read     *)
(* from by a time of its own.  TokenMint has the mint of a token in parts. *)
(***************************************************************************)
EXTENDS Naturals, Sequences, FiniteSets

CONSTANTS
  Requests,   (* tile and warm-up requests under way at a time             *)
  Processes,  (* API processes, each with its cache of rows                *)
  Mosaic,     (* version -> how many further COGs it composites            *)
  Life,       (* what a token has to live when issued                      *)
  CopyMargin, (* _SAS_TOKEN_MARGIN_S: its copy dies that much earlier      *)
  RowTTL,     (* _SNAPSHOT_CACHE_TTL                                       *)
  StacTTL,    (* how long the raw STAC item is kept                        *)
  MaxReplacements,  (* bound: replacements and removals of the row         *)
  MaxTokens,  (* bound: tokens issued                                      *)
  MaxTime     (* bound: time, in units longer than a request; one unit is  *)
              (* the bucket of a version without a token                   *)

(* The margin is 300 s, the bucket 120 s, and a token lives for longer.    *)
ASSUME TileAssumption ==
  /\ Mosaic \in Seq(Nat) /\ Mosaic # << >> /\ MaxTime \in Nat /\ MaxTokens \in Nat
  /\ CopyMargin \in Nat \ {0} /\ Life \in Nat /\ CopyMargin < Life
  /\ RowTTL \in Nat /\ StacTTL \in Nat \ {0}

VARIABLES
  source,     (* of the period                                             *)
  row,        (* the version its row serves, 0 when the row is gone        *)
  replaced,   (* version -> when it stopped being served                   *)
  rowCache,   (* process -> [version, at]                                  *)
  tokens,     (* expiry of every token issued                              *)
  copy,       (* the token in Redis, 0 for none                            *)
  raw,        (* [version, dies]: the item in Redis                        *)
  titiler,    (* [key, version, token]: the items Titiler holds            *)
  page,       (* [extras, signed]: the period as the client's list has it  *)
  req,        (* request -> what it does and holds                         *)
  time        (* in units of its own, see MaxTime                          *)
tileVars ==
  <<source, row, replaced, rowCache, tokens, copy, raw, titiler, page, req, time>>

Versions == DOMAIN Mosaic
Never == MaxTime + 1
NoItem == [version |-> 0, dies |-> 0]
NoEntry == [version |-> 0, at |-> 0]
Idle == [pc |-> "idle", proc |-> "none", version |-> 0, key |-> <<"none", 0>>, item |-> 0,
         alive |-> TRUE, stale |-> 0, late |-> FALSE]

RequestType ==
  [pc : {"idle", "load", "url", "titiler", "callback", "item", "sign", "rendered"},
   proc : Processes \cup {"none"}, version : Versions \cup {0},
   key : {"none", "token", "bucket"} \X Nat, item : Versions \cup {0},
   alive : BOOLEAN, stale : Nat, late : BOOLEAN]
EntryType == [version : Versions \cup {0}, at : Nat]
TileTypeOK ==
  /\ row \in Versions \cup {0} /\ replaced \in [Versions -> 0 .. Never]
  /\ copy \in 0 .. Len(tokens) /\ Len(tokens) <= MaxTokens
  /\ raw.version \in Versions \cup {0} /\ rowCache \in [Processes -> EntryType]
  /\ \A i \in titiler : i.version \in Versions /\ i.token \in DOMAIN tokens
  /\ req \in [Requests -> RequestType]

TileInit ==
  /\ source \in {"landsat", "naip", "usgs_topo"} /\ row = 1
  /\ replaced = [v \in Versions |-> Never] /\ rowCache = [p \in Processes |-> NoEntry]
  /\ tokens = << >> /\ copy = 0 /\ raw = NoItem /\ titiler = {}
  /\ page = [extras |-> 0, signed |-> {}]
  /\ req = [r \in Requests |-> Idle] /\ time = 0

Busy(r) == req[r].pc \notin {"idle", "rendered"}
InStep(r, pc) == req[r].pc = pc
Goto(r, pc) == req' = [req EXCEPT ![r].pc = pc]
Refuse(r) == req' = [req EXCEPT ![r] = Idle]

-----------------------------------------------------------------------------
(* _container_token, taken as one step: the copy while it lives, or a mint *)
(* when there is none or Redis does not answer.                            *)
Token(t) ==
  \/ copy # 0 /\ t = copy /\ UNCHANGED <<tokens, copy>>
  \/ /\ t = Len(tokens) + 1 /\ t <= MaxTokens
     /\ tokens' = Append(tokens, time + Life)
     /\ copy' \in {t, copy}

-----------------------------------------------------------------------------
(* proxy_imagery_tile, and warmup_cog, which asks Titiler the same and     *)
(* drops the answer: the row, from the process's cache or the database.    *)
(* Landsat takes no more than the id from it, so any of its requests may   *)
(* go on: the callback refuses a period that is gone.                      *)
RowIsFresh(p) == rowCache[p].version # 0 /\ time < rowCache[p].at + RowTTL

Found(version) == [Idle EXCEPT !.pc = "url", !.version = version]
ReadRow(r, p) ==
  /\ ~Busy(r)
  /\ \/ source = "landsat" /\ req' = [req EXCEPT ![r] = Found(0)]
     \/ RowIsFresh(p) /\ req' = [req EXCEPT ![r] = Found(rowCache[p].version)]
     \/ /\ source # "landsat" /\ ~RowIsFresh(p) /\ row # 0
        /\ req' = [req EXCEPT ![r] = [Idle EXCEPT !.pc = "load", !.proc = p, !.version = row]]
  /\ UNCHANGED <<source, row, replaced, rowCache, tokens, copy, raw, titiler, page, time>>

PutCachedRow(r) ==
  /\ InStep(r, "load") /\ req' = [req EXCEPT ![r] = [Found(@.version) EXCEPT !.late = req[r].late]]
  /\ rowCache' = [rowCache EXCEPT ![req[r].proc] = [version |-> req[r].version, at |-> time]]
  /\ UNCHANGED <<source, row, replaced, tokens, copy, raw, titiler, page, time>>

(* What is drawn: with a live token or not, and how long after its row     *)
(* stopped serving it.                                                     *)
Age(version) == IF replaced[version] <= time THEN time - replaced[version] ELSE 0
Rendered(version, expiry) ==
  [Idle EXCEPT !.pc = "rendered", !.alive = expiry > time, !.stale = Age(version)]

(* A COG, signed unless public.  The signature is part of the URL Titiler  *)
(* keys by, and an index the row does not have is refused.                 *)
CogTile(r) ==
  /\ InStep(r, "url") /\ source # "landsat"
  /\ IF source = "usgs_topo"
     THEN req' = [req EXCEPT ![r] = Rendered(@.version, Never + Life)] /\ UNCHANGED <<tokens, copy>>
     ELSE \/ \E t \in 1 .. MaxTokens :
               Token(t) /\ req' = [req EXCEPT ![r] = Rendered(@.version, tokens'[t])]
          \/ Refuse(r) /\ UNCHANGED <<tokens, copy>>
  /\ UNCHANGED <<source, row, replaced, rowCache, raw, titiler, page, time>>

-----------------------------------------------------------------------------
(* Landsat.  The URL of the item names the token it will carry, or the     *)
(* time when no token can be had.                                          *)
(* Mutant: the URL never changes.                                          *)
ConstantVersion(kind, n) == <<"none", 0>>
UrlVersion(kind, n) == <<kind, n>>
Asking(key, q) == [Idle EXCEPT !.pc = "titiler", !.key = key, !.late = q.late]

StacUrl(r) ==
  /\ InStep(r, "url") /\ source = "landsat"
  /\ \/ \E t \in 1 .. MaxTokens :
          Token(t) /\ req' = [req EXCEPT ![r] = Asking(UrlVersion("token", t), @)]
     \/ /\ req' = [req EXCEPT ![r] = Asking(UrlVersion("bucket", time), @)]
        /\ UNCHANGED <<tokens, copy>>
  /\ UNCHANGED <<source, row, replaced, rowCache, raw, titiler, page, time>>

(* Titiler renders the item it holds for the URL, or calls back for it.    *)
AskTitiler(r) ==
  /\ InStep(r, "titiler")
  /\ \/ \E i \in titiler :
          /\ i.key = req[r].key
          /\ req' = [req EXCEPT ![r] = Rendered(i.version, tokens[i.token])]
     \/ (\A i \in titiler : i.key # req[r].key) /\ Goto(r, "callback")
     \/ Refuse(r)   (* Titiler is unreachable or fails *)
  /\ UNCHANGED <<source, row, replaced, rowCache, tokens, copy, raw, titiler, page, time>>

(* get_signed_stac_item reads the row of the database, never a cached one. *)
CallbackRow(r) ==
  /\ InStep(r, "callback")
  /\ IF row = 0 THEN Refuse(r) ELSE req' = [req EXCEPT ![r].pc = "item", ![r].item = row]
  /\ UNCHANGED <<source, row, replaced, rowCache, tokens, copy, raw, titiler, page, time>>

(* The item from Redis, or fetched by the row's link and kept.             *)
(* Mutant: every use keeps the item for another period.                    *)
KeptAgain == [raw EXCEPT !.dies = time + StacTTL]
AfterHit == raw
CallbackItem(r) ==
  /\ InStep(r, "item")
  /\ \/ /\ raw.dies > time /\ raw' = AfterHit
        /\ req' = [req EXCEPT ![r].pc = "sign", ![r].item = raw.version]
     \/ /\ Goto(r, "sign")   (* no item, or Redis does not answer *)
        /\ raw' \in {[version |-> req[r].item, dies |-> time + StacTTL], raw}
     \/ Refuse(r) /\ UNCHANGED raw
  /\ UNCHANGED <<source, row, replaced, rowCache, tokens, copy, titiler, page, time>>

(* The bands are signed with one token, and Titiler keeps what it got.     *)
CallbackSign(r) ==
  /\ InStep(r, "sign")
  /\ \/ \E t \in 1 .. MaxTokens :
          /\ Token(t)
          /\ titiler' = {i \in titiler : i.key # req[r].key}
                          \cup {[key |-> req[r].key, version |-> req[r].item, token |-> t]}
          /\ req' = [req EXCEPT ![r] = Rendered(@.item, tokens'[t])]
     \/ Refuse(r) /\ UNCHANGED <<tokens, copy, titiler>>
  /\ UNCHANGED <<source, row, replaced, rowCache, raw, page, time>>

-----------------------------------------------------------------------------
(* A run replaces what the row serves, or an operator removes the row.     *)
Replace ==
  /\ row # 0 /\ Cardinality({v \in Versions : replaced[v] # Never}) < MaxReplacements
  /\ replaced' = [replaced EXCEPT ![row] = time]
  /\ row' \in (IF row + 1 \in Versions THEN {row + 1, 0} ELSE {0})
  /\ UNCHANGED <<source, rowCache, tokens, copy, raw, titiler, page, req, time>>

(* list_imagery signs the COGs of a mosaic and leaves out those that fail; *)
(* the client adds a layer for each that the list still has.               *)
List ==
  /\ source = "naip" /\ row # 0 /\ page.extras = 0
  /\ \E signed \in SUBSET (1 .. Mosaic[row]) :
       page' = [extras |-> Cardinality(signed), signed |-> signed]
  /\ UNCHANGED <<source, row, replaced, rowCache, tokens, copy, raw, titiler, req, time>>
LayersAsked == 1 .. page.extras

(* A unit of time: no request takes longer than one.  Redis drops what has *)
(* died; an item whose URL no request can form again is forgotten.         *)
MayBeAskedAgain(key) ==
  \/ \E r \in Requests : Busy(r) /\ req[r].key = key
  \/ key \notin {UrlVersion("bucket", n) : n \in 0 .. time} \cup {UrlVersion("token", t) : t \in 1 .. MaxTokens}
  \/ \E t \in 1 .. MaxTokens : key = UrlVersion("token", t) /\ t = copy /\ time + 1 + CopyMargin < tokens[t]
Tick ==
  /\ time < MaxTime /\ time' = time + 1
  /\ \A r \in Requests : Busy(r) => ~req[r].late
  /\ req' = [r \in Requests |-> IF Busy(r) THEN [req[r] EXCEPT !.late = TRUE] ELSE Idle]
  /\ titiler' = {i \in titiler : MayBeAskedAgain(i.key)}
  /\ copy' = IF copy # 0 /\ time' + CopyMargin < tokens[copy] THEN copy ELSE 0
  /\ raw' = IF raw.dies > time' THEN raw ELSE NoItem
  /\ UNCHANGED <<source, row, replaced, rowCache, tokens, page>>

RequestStep(r) ==
  \/ (\E p \in Processes : ReadRow(r, p)) \/ PutCachedRow(r) \/ CogTile(r) \/ StacUrl(r) \/ AskTitiler(r)
  \/ CallbackRow(r) \/ CallbackItem(r) \/ CallbackSign(r)
TileNext == (\E r \in Requests : RequestStep(r)) \/ Replace \/ List \/ Tick

TileSpec == TileInit /\ [][TileNext]_tileVars

-----------------------------------------------------------------------------
(* Titiler never reads an image with a token that has expired, whichever   *)
(* request, warm-up or process put the item where it was found.            *)
TokensOutliveReads == \A r \in Requests : InStep(r, "rendered") => req[r].alive

(* A replaced or removed scene stops being drawn: a COG after the life of  *)
(* a cached row, a Landsat item after the life of the raw item and then    *)
(* the life of the URL it was given, and the requests that fill them.      *)
LongestStale == IF source = "landsat" THEN StacTTL + (Life - CopyMargin) + 1 ELSE RowTTL + 1
OldScenesGoAway ==
  \A r \in Requests : InStep(r, "rendered") => req[r].stale <= LongestStale

(* A mosaic component the list could sign is drawn: the client asks for it *)
(* (list_imagery: "the remaining tiles still render, just with a gap").    *)
SignedTilesAreDrawn == page.signed \subseteq LayersAsked

(***************************************************************************)
(* The inductive strengthening of TokensOutliveReads and OldScenesGoAway:  *)
(* along the chain of caches, how long after its row stopped serving it a  *)
(* version may still be held, and how long what is held may be asked for.  *)
(***************************************************************************)
Lateness(q) == IF q.late THEN 1 ELSE 0

(* A URL names a token that was issued or a time that has come.            *)
IsUrlKey(k) ==
  /\ k \in {"token", "bucket"} \X Nat
  /\ IF k[1] = "token" THEN k[2] \in DOMAIN tokens ELSE k[2] <= time

(* An item is kept under URLs formed before its version had to be gone.    *)
KeyEnds(k, version) ==
  IF k[1] = "token" THEN tokens[k[2]] <= replaced[version] + StacTTL + Life
  ELSE k[2] <= replaced[version] + StacTTL

(* An item carries a token no older than the copy its URL names, or one    *)
(* that outlives the bucket its URL names.                                 *)
ItemOK(i) ==
  /\ i.version \in Versions /\ i.token \in DOMAIN tokens
  /\ IsUrlKey(i.key) /\ KeyEnds(i.key, i.version)
  /\ i.key = <<"token", copy>> => tokens[copy] <= tokens[i.token]
  /\ i.key[1] = "bucket" => i.key[2] + CopyMargin < tokens[i.token]

(* A URL is asked for while the token or the bucket it names is current,   *)
(* or one unit later by a late request.                                    *)
AskOK(q) ==
  /\ source = "landsat" /\ IsUrlKey(q.key)
  /\ IF q.key[1] = "token" THEN time + CopyMargin < tokens[q.key[2]] + Lateness(q)
     ELSE time <= q.key[2] + Lateness(q)
  /\ \A i \in titiler : i.key = q.key => time + 1 < tokens[i.token] + Lateness(q)

(* What a request holds was served when it was read, or when the cache it  *)
(* was read from was filled.                                               *)
HeldOK(version, kept, q) ==
  version \in Versions /\ time <= replaced[version] + kept + Lateness(q)

RequestOK(q) ==
  /\ q.pc = "load" => source # "landsat" /\ HeldOK(q.version, 0, q)
  /\ q.pc = "url" => source = "landsat" \/ HeldOK(q.version, RowTTL, q)
  /\ q.pc \in {"titiler", "callback", "item", "sign"} => AskOK(q)
  /\ q.pc = "item" => HeldOK(q.item, 0, q)
  /\ q.pc = "sign" => HeldOK(q.item, StacTTL, q) /\ KeyEnds(q.key, q.item)
  /\ q.pc = "rendered" => q.alive /\ q.stale <= LongestStale

TokensOK ==
  /\ tokens \in Seq(Nat) /\ copy \in 0 .. Len(tokens)
  /\ \A t \in DOMAIN tokens : tokens[t] <= time + Life
  /\ copy # 0 => time + CopyMargin < tokens[copy]
CachesOK ==
  /\ raw.dies \in Nat /\ raw.dies <= time + StacTTL
  /\ raw.dies # 0 => raw.version \in Versions /\ raw.dies <= replaced[raw.version] + StacTTL + 1
  /\ rowCache \in [Processes -> EntryType]
  /\ \A p \in Processes :
       /\ rowCache[p].at <= time
       /\ rowCache[p].version # 0 => rowCache[p].at <= replaced[rowCache[p].version] + 1

TileInv ==
  /\ time \in 0 .. MaxTime /\ row \in Versions \cup {0}
  /\ replaced \in [Versions -> 0 .. Never]
  /\ row # 0 => \A v \in Versions : v >= row => replaced[v] = Never
  /\ TokensOK /\ CachesOK
  /\ \A i \in titiler : ItemOK(i)
  /\ req \in [Requests -> RequestType] /\ \A r \in Requests : RequestOK(req[r])

=============================================================================
