---------------------------- MODULE CountyRecords ----------------------------
(***************************************************************************)
(* What the county adapters make of a portal's rows, and how an address of *)
(* theirs is compared with the parcel's.                                   *)
(*                                                                         *)
(* A row is what the portal lists: the query that returns it, the record   *)
(* id (NoText if missing), a lot, a date (0 if unreadable), a price, the    *)
(* keywords its type holds, and its address, a sequence of words (empty if *)
(* missing) after which a city or a unit is cut off.                       *)
(***************************************************************************)
EXTENDS Naturals, Sequences, FiniteSets, TLC

NoText == "blank"

-----------------------------------------------------------------------------
(* normalize_address: suffixes and directions are abbreviated and ordinals *)
(* lose their ending, whole words only.                                    *)
Direction ==
  [NORTH |-> "N", SOUTH |-> "S", EAST |-> "E", WEST |-> "W",
   NORTHEAST |-> "NE", NORTHWEST |-> "NW", SOUTHEAST |-> "SE", SOUTHWEST |-> "SW"]
Suffix == [STREET |-> "ST", AVENUE |-> "AVE", COURT |-> "CT"]
Abbreviation == Suffix @@ Direction
Ordinal == ("17TH" :> "17") @@ ("1ST" :> "1")
Directionals == DOMAIN Direction \cup {Direction[d] : d \in DOMAIN Direction}

Word(w) ==
  IF w \in DOMAIN Abbreviation THEN Abbreviation[w]
  ELSE IF w \in DOMAIN Ordinal THEN Ordinal[w] ELSE w
NormalizeAddress(address) == [i \in DOMAIN address |-> Word(address[i])]

(* The number and the first word of the street's name.                     *)
ExtractSearchTerms(address) ==
  LET parts == NormalizeAddress(address)
      skip == Len(parts) > 2 /\ parts[2] \in Directionals
  IN  CASE Len(parts) = 0 -> <<NoText, NoText>>
        [] Len(parts) = 1 -> <<parts[1], NoText>>
        [] OTHER -> <<parts[1], parts[IF skip THEN 3 ELSE 2]>>

StreetWords(address) ==
  {NormalizeAddress(address)[i] : i \in 2 .. Len(address)}

(* Mutants: a threshold that one word in three passes; an overlap measured *)
(* by the longer name.                                                     *)
LooseMatch(mine, theirs) ==
  /\ Len(mine) >= 2 /\ Len(theirs) >= 2
  /\ NormalizeAddress(mine)[1] = NormalizeAddress(theirs)[1]
  /\ LET a == StreetWords(mine)  b == StreetWords(theirs)
         least == IF Cardinality(a) < Cardinality(b) THEN a ELSE b
     IN  10 * Cardinality(a \cap b) >= 6 * Cardinality(least)
LongMatch(mine, theirs) ==
  /\ Len(mine) >= 2 /\ Len(theirs) >= 2
  /\ NormalizeAddress(mine)[1] = NormalizeAddress(theirs)[1]
  /\ LET a == StreetWords(mine)  b == StreetWords(theirs)
         most == IF Cardinality(a) < Cardinality(b) THEN b ELSE a
     IN  10 * Cardinality(a \cap b) >= 7 * Cardinality(most)

(* The numbers agree, and the words of the shorter street overlap with the *)
(* other by seven tenths.                                                  *)
IsAddressMatch(mine, theirs) ==
  /\ Len(mine) >= 2 /\ Len(theirs) >= 2
  /\ NormalizeAddress(mine)[1] = NormalizeAddress(theirs)[1]
  /\ LET a == StreetWords(mine)  b == StreetWords(theirs)
         least == IF Cardinality(a) < Cardinality(b) THEN a ELSE b
     IN  10 * Cardinality(a \cap b) >= 7 * Cardinality(least)

-----------------------------------------------------------------------------
(* classify_permit: the first keyword of this order decides.               *)
ClassifyPermit(words) ==
  CASE "RENEWAL" \in words -> "permit_other"
    [] "DEMO" \in words -> "permit_demolition"
    [] "ELEC" \in words -> "permit_electrical"
    [] "MECH" \in words -> "permit_mechanical"
    [] "PLUM" \in words -> "permit_plumbing"
    [] words \cap {"BUILD", "NEW", "ADDITION", "ALTERATION"} # {} ->
         "permit_building"
    [] OTHER -> "permit_other"

(* An event: what is stored, with the id its source knows it by.  A row    *)
(* parses to a set of at most one.                                         *)
Event(kind, source, id, row) ==
  [type |-> kind, source |-> source, id |-> id, date |-> row.date,
   situs |-> row.situs]
Permit(source, row) == {Event(ClassifyPermit(row.words), source, <<row.id>>, row)}

DenverPermit(row) == Permit("denver_permits", row)
AdamsPermit(row) == Permit("adams_permits", row)
DCPermit(row) == Permit("dc_permits", row)

(* The layer holds one row per lot, its last sale; the lot is the id.      *)
DCSale(row) ==
  IF row.price = 0 THEN {} ELSE {Event("sale", "dc_sales", <<row.lot>>, row)}

(* Full-text search: the adapter itself asks for number and street, here   *)
(* word by word.                                                           *)
SanJosePermit(row, terms) ==
  IF /\ Len(row.situs) > 0 /\ row.situs[1] = terms[1]
     /\ \E i \in DOMAIN row.situs : row.situs[i] = terms[2]
  THEN Permit("san_jose_permits", row)
  ELSE {}

(* Two overlapping datasets, told apart by lot and date.                   *)
NewYorkSale(row) == {Event("sale", "nyc_sales", <<row.lot, row.date>>, row)}
NewYorkPermit(row) == Permit("nyc_permits", row)

(* The queries of each adapter; sales, where the county has any, first.    *)
Queries ==
  [denver |-> {"residential", "commercial"},
   adams |-> {"eye_on_adams"},
   dc |-> {"itspe", "2026", "2025", "2024", "2023", "2022", "2021", "2020"},
   santa_clara |-> {"active", "under_inspection", "expired"},
   new_york |-> {"annualized", "rolling", "dob"}]
Counties == DOMAIN Queries

Parsed(county, query, row, terms) ==
  CASE county = "denver" -> DenverPermit(row)
    [] county = "adams" -> AdamsPermit(row)
    [] county = "dc" /\ query = "itspe" -> DCSale(row)
    [] county = "dc" /\ query # "itspe" -> DCPermit(row)
    [] county = "santa_clara" -> SanJosePermit(row, terms)
    [] county = "new_york" /\ query = "dob" -> NewYorkPermit(row)
    [] OTHER -> NewYorkSale(row)

(* The geocoder's mailing city, NoCity if the address shows none.  Adams   *)
(* denies the municipalities, San Jose's portal answers for San Jose.      *)
NoCity == "no city"
AdamsCovers(city) ==
  city \notin {"THORNTON", "NORTHGLENN", "WESTMINSTER", "ARVADA",
               "COMMERCE CITY", "FEDERAL HEIGHTS", "AURORA"}
SantaClaraCovers(city) == city \in {"SAN JOSE", NoCity}
Covers(county, city) ==
  CASE county = "adams" -> AdamsCovers(city)
    [] county = "santa_clara" -> SantaClaraCovers(city)
    [] OTHER -> TRUE

-----------------------------------------------------------------------------
(* A portal's reply: its status (0 if none came in time, or at all), and   *)
(* what its body is: no JSON, a list, an object, or an object that says    *)
(* the query failed.  Each client takes one shape for rows.                *)
Bodies == {"not json", "list", "object", "error"}
ArcGISAnswered(reply) == reply.status = 200 /\ reply.body = "object"
CKANAnswered(reply) == reply.status = 200 /\ reply.body = "object"
(* Mutant: a dataset that is gone has no rows.                             *)
GoneIsEmpty(reply) == reply.status = 404 \/ (reply.status = 200 /\ reply.body = "list")
SocrataAnswered(reply) == reply.status = 200 /\ reply.body = "list"

Answered(county, reply) ==
  CASE county = "santa_clara" -> CKANAnswered(reply)
    [] county = "new_york" -> SocrataAnswered(reply)
    [] OTHER -> ArcGISAnswered(reply)
RowsReply(county) ==
  [status |-> 200, body |-> IF county = "new_york" THEN "list" ELSE "object"]
Replies == {[status |-> st, body |-> b] : st \in {0, 404, 429, 500, 200}, b \in Bodies}

=============================================================================
