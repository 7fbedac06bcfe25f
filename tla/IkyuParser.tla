------------------------------ MODULE IkyuParser ------------------------------
(***************************************************************************)
(* What the program reads from the HTML of a page of ikyu                  *)
(* (sites/ikyu/parser.py, page_guards.py and the use the editor and the    *)
(* checks make of it): the blocked page, the candidates of a new watch and *)
(* the snapshot of a check.                                                *)
(*                                                                         *)
(* A page holds the embedded payload, None when its script is missing, and *)
(* the blocks of JSON-LD in their order.  Malformed stands for whatever    *)
(* has not the expected form.                                              *)
(***************************************************************************)
EXTENDS Integers, Sequences, SequencesExt

CONSTANTS None, Malformed,
          Raised     \* the exception of a price that is no number

\* raise_if_ikyu_block_page: the title, or both robots markers.
IsBlocked(html) ==
    html.title = "denied" \/ {"noindex", "nofollow"} \subseteq html.robots

Unknown(availability) == [availability |-> availability, amount |-> None, currency |-> None]
ParseError == Unknown("parse_error")
TargetMissing == Unknown("target_missing")

WellFormed(items) == SelectSeq(items, LAMBDA item : item # Malformed)

-----------------------------------------------------------------------------
(* The payload                                                             *)

\* _extract_payload: None for its ValueError.
ExtractPayload(html) == IF html.payload = Malformed THEN None ELSE html.payload

Availabilities == {"available", "sold_out", "unknown", "parse_error", "target_missing"}
ParseAvailability(raw) == IF raw \in Availabilities THEN raw ELSE None

\* A price that is missing, empty or no object has no fields.
PriceOf(offer) ==
    IF offer.price \in {None, Malformed} THEN [amount |-> None, currency |-> None] ELSE offer.price

\* _offer_to_candidate
IsCandidate(offer) == None \notin {offer.room, offer.roomName, offer.plan, offer.planName}
Candidate(offer) ==
    [room |-> offer.room, plan |-> offer.plan,
     amount |-> PriceOf(offer).amount, currency |-> PriceOf(offer).currency]

CandidatesOfPayload(payload) ==
    IF payload.hotel = Malformed \/ payload.offers = Malformed THEN <<>>
    ELSE LET offers == SelectSeq(WellFormed(payload.offers), IsCandidate) IN
         [i \in DOMAIN offers |-> Candidate(offers[i])]

\* The first offer with the room and the plan of the target decides.
SnapshotOfOffer(offer) ==
    CASE ParseAvailability(offer.availability) = None -> ParseError
      [] ParseAvailability(offer.availability) # None /\ offer.price = Malformed -> ParseError
      [] ParseAvailability(offer.availability) # None /\ offer.price # Malformed
           /\ PriceOf(offer).amount = Malformed -> Raised
      [] OTHER -> [availability |-> ParseAvailability(offer.availability),
                   amount |-> PriceOf(offer).amount, currency |-> PriceOf(offer).currency]

SnapshotOfPayload(payload, target) ==
    LET mine == SelectSeq(WellFormed(payload.offers),
                          LAMBDA o : o.room = target.room /\ o.plan = target.plan) IN
    CASE payload.offers = Malformed -> ParseError
      [] payload.offers # Malformed /\ mine = <<>> -> TargetMissing
      [] OTHER -> SnapshotOfOffer(Head(mine))

-----------------------------------------------------------------------------
(* JSON-LD, when the payload cannot be read                                *)

\* The first block of a hotel, and in it the first room; None when missing.
HotelSchema(html) ==
    LET hotels == SelectSeq(WellFormed(html.schemas), LAMBDA s : s.isHotel) IN
    IF hotels = <<>> THEN None ELSE Head(hotels)

ContainsPlace(hotel) ==
    LET places == WellFormed(hotel.places) IN IF places = <<>> THEN None ELSE Head(places)

ParseSchemaAvailability(raw) ==
    CASE raw = "InStock" -> "available"
      [] raw \in {"SoldOut", "OutOfStock"} -> "sold_out"
      [] OTHER -> None

PlaceOf(html) == IF HotelSchema(html) = None THEN None ELSE ContainsPlace(HotelSchema(html))

CandidatesOfSchema(html) ==
    LET place == PlaceOf(html) IN
    IF place = None THEN <<>>
    ELSE IF place.offer = Malformed \/ None \in {place.room, place.name, place.offer.plan} THEN <<>>
    ELSE <<[room |-> place.room, plan |-> place.offer.plan,
            amount |-> place.offer.amount, currency |-> place.offer.currency]>>

SnapshotOfSchema(html, target) ==
    LET place == PlaceOf(html)
        availability == ParseSchemaAvailability(place.offer.availability) IN
    CASE place = None -> ParseError
      [] place # None /\ (place.room # target.room \/ place.offer = Malformed) -> TargetMissing
      [] OTHER ->
           CASE place.offer.plan # target.plan -> TargetMissing
             [] place.offer.plan = target.plan /\ place.offer.amount = Malformed -> Raised
             [] place.offer.plan = target.plan
                  /\ None \in {place.offer.amount, place.offer.currency, availability} -> ParseError
             [] OTHER -> [availability |-> availability, amount |-> place.offer.amount,
                          currency |-> place.offer.currency]

-----------------------------------------------------------------------------
(* The two readings of a page                                              *)

\* parse_candidate_bundle: what the form of a new watch offers.
ParseCandidates(html) ==
    LET candidates == IF ExtractPayload(html) = None THEN CandidatesOfSchema(html)
                      ELSE CandidatesOfPayload(ExtractPayload(html)) IN
    IF \E i \in DOMAIN candidates : candidates[i].amount = Malformed THEN Raised ELSE candidates

\* parse_target_snapshot_with_source: what a check records.
ParseTargetSnapshot(html, target) ==
    IF ExtractPayload(html) = None THEN SnapshotOfSchema(html, target)
    ELSE SnapshotOfPayload(ExtractPayload(html), target)

\* _find_selected_candidate
FindCandidate(candidates, room, plan) ==
    LET mine == SelectSeq(candidates, LAMBDA c : c.room = room /\ c.plan = plan) IN
    IF mine = <<>> THEN None ELSE Head(mine)

\* persist_initial_snapshot_from_preview: nothing without a price; the
\* availability of the offer is not asked for.
InitialSnapshot(candidates, room, plan) ==
    LET candidate == FindCandidate(candidates, room, plan) IN
    IF candidate = None THEN None
    ELSE IF candidate.amount = None THEN None
    ELSE [availability |-> "available", amount |-> candidate.amount,
          currency |-> IF candidate.currency = None THEN "JPY" ELSE candidate.currency]
=============================================================================
