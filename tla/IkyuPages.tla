------------------------------ MODULE IkyuPages ------------------------------
(***************************************************************************)
(* What the program reads from the URL of a page of ikyu: the signature    *)
(* two pages are compared by, the score of a tab, the search draft, the    *)
(* watch target and the URLs built from them (sites/ikyu/normalizer.py,    *)
(* browser_matching.py, browser_strategy.py, client.py).                   *)
(*                                                                         *)
(* A URL is its host, the segments of its path and its query parameters.   *)
(* A date is a number of days, a count a number; a value that cannot be    *)
(* parsed is Malformed.                                                    *)
(*                                                                         *)
(* An operator Name_Variant is Name with a fault put in: it is used only   *)
(* to see that a property notices the fault.                               *)
(***************************************************************************)
EXTENDS Integers, Sequences, SequencesExt

CONSTANTS None, Malformed, HotelIds   \* HotelIds: the segments that are digits

MinimumScore == 35

Blank == [host |-> None, path |-> <<>>, query |-> <<>>]
StartPage == [host |-> "www.ikyu.com", path |-> <<>>, query |-> <<>>]

\* The value of the first of the keys a query has.
ExtractFirst(query, keys) ==
    LET present == {i \in DOMAIN keys : keys[i] \in DOMAIN query} IN
    IF present = {} THEN None ELSE query[keys[Min(present)]]

Value(query, key) == IF key \in DOMAIN query THEN query[key] ELSE None

With(query, more) ==
    [k \in DOMAIN query \cup DOMAIN more |-> IF k \in DOMAIN more THEN more[k] ELSE query[k]]

-----------------------------------------------------------------------------
(* Drafts and targets                                                      *)

IsSupportedUrl(url) == url.host \in {"ikyu.com", "www.ikyu.com"}
IsPageUrl(url) == url.host \in {"ikyu.com", "www.ikyu.com", "restaurant.ikyu.com"}

Tracking == {"utm", "fbclid", "gclid"}

\* The names a query may give a value, the first one counts.
CheckInKeys == <<"checkin", "check_in", "checkin_date", "check_in_date", "ci">>
CheckOutKeys == <<"checkout", "check_out", "checkout_date", "check_out_date", "co">>
PeopleKeys == <<"adults", "adult", "people_count", "occupancy", "guests", "ppc">>
RoomsKeys == <<"rooms", "room_count", "room_num", "rc">>
HotelKeys == <<"hotel_id">>
RoomKeys == <<"rm", "room_id">>
PlanKeys == <<"pln", "plan_id">>
NightsKeys == <<"si", "nights", "stay_nights">>

\* A URL as urllib splits it: a parameter has a value, and what is read as a
\* date or a count is one or cannot be parsed.
DateNames == ToSet(CheckInKeys) \cup ToSet(CheckOutKeys) \cup {"cid"}
CountNames == ToSet(PeopleKeys) \cup ToSet(RoomsKeys) \cup ToSet(NightsKeys)
IsUrl(url) ==
    /\ url = [host |-> url.host, path |-> url.path, query |-> url.query]
    /\ url.path # <<>> => Last(url.path) # None
    /\ \A k \in DOMAIN url.query : url.query[k] # None
    /\ \A k \in DOMAIN url.query \cap (DateNames \cup CountNames) :
          url.query[k] \in Int \cup {Malformed}

NormalizeSeedUrl(url) ==
    [url EXCEPT !.query = [k \in DOMAIN url.query \ Tracking |-> url.query[k]]]

\* A date under one of the usual keys, or cid when that looks like a date.
CheckInDate(query) ==
    LET direct == ExtractFirst(query, CheckInKeys) IN
    IF direct # None THEN direct
    ELSE IF "cid" \in DOMAIN query /\ query["cid"] # Malformed THEN query["cid"] ELSE None

CheckOutDate(query, checkIn) ==
    LET direct == ExtractFirst(query, CheckOutKeys)
        nights == ExtractFirst(query, NightsKeys) IN
    CASE direct # None -> direct
      [] direct = None /\ checkIn \in Int /\ nights \in Int /\ nights > 0 -> checkIn + nights
      [] direct = None /\ checkIn \in Int /\ nights # None
           /\ ~(nights \in Int /\ nights > 0) -> Malformed
      [] OTHER -> None

HotelIdFromPath(path) == IF path = <<>> THEN None ELSE Last(path)

\* A count that is no positive number is an error, a missing one is not.
Counts(value) == value = None \/ (value \in Int /\ value > 0)

\* normalize_search_draft raises for these; a draft may be incomplete.
ValidDraft(draft) ==
    /\ draft.checkIn # Malformed /\ draft.checkOut # Malformed
    /\ (draft.checkIn = None) = (draft.checkOut = None)
    /\ draft.checkIn # None => draft.checkIn < draft.checkOut
    /\ Counts(draft.people) /\ Counts(draft.rooms)

Draft(url) ==
    LET query == NormalizeSeedUrl(url).query
        byPath == HotelIdFromPath(url.path) IN
    [seed |-> NormalizeSeedUrl(url),
     hotel |-> IF byPath # None THEN byPath ELSE ExtractFirst(query, HotelKeys),
     room |-> ExtractFirst(query, RoomKeys),
     plan |-> ExtractFirst(query, PlanKeys),
     checkIn |-> CheckInDate(query),
     checkOut |-> CheckOutDate(query, CheckInDate(query)),
     people |-> ExtractFirst(query, PeopleKeys),
     rooms |-> ExtractFirst(query, RoomsKeys)]

\* parse_seed_url: the draft, or None for the ValueError.
ParseSeedUrl(url) ==
    IF IsSupportedUrl(url) /\ ValidDraft(Draft(url)) THEN Draft(url) ELSE None

ReadyForCandidateLookup(draft) ==
    None \notin {draft.hotel, draft.checkIn, draft.checkOut, draft.people, draft.rooms}

\* is_browser_preview_url
IsPreviewUrl(url) ==
    /\ IsPageUrl(url)
    /\ ParseSeedUrl(url) # None
    /\ ReadyForCandidateLookup(ParseSeedUrl(url))

\* resolve_watch_target with the identity key of WatchTarget.
ResolveWatchTarget(draft, room, plan) ==
    IF ~ReadyForCandidateLookup(draft) THEN None
    ELSE [hotel |-> draft.hotel, room |-> room, plan |-> plan, checkIn |-> draft.checkIn,
          checkOut |-> draft.checkOut, people |-> draft.people, rooms |-> draft.rooms]

Nights_Inclusive(stay) == stay.checkOut - stay.checkIn + 1
Nights(stay) == stay.checkOut - stay.checkIn

\* The page of a target, which is also where its checks operate
\* (build_browser_operation_url).
TargetPageUrl(target) ==
    [host |-> "www.ikyu.com", path |-> <<"zh-tw", target.hotel>>,
     query |-> [cid |-> target.checkIn, rm |-> target.room, pln |-> target.plan,
                ppc |-> target.people, rc |-> target.rooms, si |-> Nights(target),
                top |-> "rooms"]]

\* The page of the candidates: the seed's query with what the draft says.
SearchPageUrl(draft) ==
    LET said == [cid |-> draft.checkIn,
                 si |-> IF draft.checkIn = None THEN None ELSE Nights(draft),
                 ppc |-> draft.people, rc |-> draft.rooms,
                 rm |-> draft.room, pln |-> draft.plan, top |-> "rooms"] IN
    [draft.seed EXCEPT !.query = With(@, [k \in {k \in DOMAIN said : said[k] # None} |-> said[k]])]

\* The page a visitor would come from: the hotel's, without room and plan.
RefererUrl(url) ==
    [url EXCEPT !.query = [k \in DOMAIN url.query \ {"rm", "pln"} |-> url.query[k]]]

-----------------------------------------------------------------------------
(* Comparing pages                                                         *)

Signature(url) ==
    [hotel |-> IF url.path # <<>> /\ Last(url.path) \in HotelIds THEN Last(url.path) ELSE None,
     room |-> Value(url.query, "rm"),
     plan |-> Value(url.query, "pln"),
     checkIn |-> Value(url.query, "cid"),
     people |-> Value(url.query, "ppc"),
     rooms |-> Value(url.query, "rc")]

Agree(left, right, field) == left[field] # None /\ left[field] = right[field]

Weight == [hotel |-> 10, room |-> 25, plan |-> 25, checkIn |-> 8, people |-> 5, rooms |-> 5]

\* A path that only begins with the expected one; the ids in a path have all
\* the same length, so that none begins with another.
PathScore(path, expected) ==
    IF path = expected THEN 20 ELSE IF IsPrefix(expected, path) THEN 10 ELSE 0

\* score_ikyu_browser_page
Score(url, expected) ==
    LET here == Signature(url) there == Signature(expected)
        points(f) == IF Agree(here, there, f) THEN Weight[f] ELSE 0
        sum == PathScore(url.path, expected.path)
               + points("hotel") + points("room") + points("plan")
               + points("checkIn") + points("people") + points("rooms") IN
    CASE url = Blank -> 1
      [] url # Blank /\ url.host # expected.host -> 0
      [] url # Blank /\ url.host = expected.host /\ url.path = StartPage.path -> 1
      [] url = expected /\ url.path # StartPage.path -> 100
      [] OTHER -> IF sum > 0 THEN sum ELSE 1

\* is_confident_ikyu_page_match with the positive score its callers ask for:
\* the room OR the plan, whatever the nights.
Confident(url, expected) ==
    LET here == Signature(url) there == Signature(expected) IN
    IF there.room = None /\ there.plan = None THEN Score(url, expected) > 0
    ELSE /\ Score(url, expected) >= MinimumScore
         /\ Agree(here, there, "room") \/ Agree(here, there, "plan")

NoConflict(left, right, field) == None \in {left[field], right[field]} \/ left[field] = right[field]

\* ikyu_signatures_match_confidently: the same room and plan, and no field of
\* the stay that contradicts.  The number of nights is not in a signature.
SignaturesMatch_AnyRooms(left, right) ==
    /\ \A f \in {"hotel", "room", "plan"} : Agree(left, right, f)
    /\ \A f \in {"checkIn", "people"} : NoConflict(left, right, f)
SignaturesMatch(left, right) ==
    /\ \A f \in {"hotel", "room", "plan"} : Agree(left, right, f)
    /\ \A f \in {"checkIn", "people", "rooms"} : NoConflict(left, right, f)

UrlsMatch(left, right) == SignaturesMatch(Signature(left), Signature(right))

MatchesTarget(signature, target) ==
    /\ \A f \in {"hotel", "room", "plan"} : signature[f] = target[f]
    /\ \A f \in {"checkIn", "people", "rooms"} : signature[f] \in {None, target[f]}

\* browser_tab_matches_watch: the tab the watch was last checked in, the page
\* it was created from, or its target.  A tab is marked with the first watch of
\* the list that it matches.
TabMatchesWatch(url, watch) ==
    /\ IsPageUrl(url)
    /\ \/ watch.page # None /\ (watch.page = url \/ UrlsMatch(watch.page, url))
       \/ UrlsMatch(watch.canonical, url)
       \/ MatchesTarget(Signature(url), watch.target)

\* is_ready_page: where the wait for a manual resolution ends.
ReadyPage(url, expected) ==
    /\ url # Blank /\ url.host = expected.host /\ url.path # StartPage.path
    /\ IF Signature(expected).room # None \/ Signature(expected).plan # None
       THEN UrlsMatch(url, expected)
       ELSE IsPrefix(expected.path, url.path)

-----------------------------------------------------------------------------
(* Choosing a tab                                                          *)

\* find_best_page: of the pages a strategy scores highest the one opened
\* first, if the strategy is confident of it.  A page has the URL and the id of
\* its tab, a strategy the score of each URL and the confident ones.
Outranks(page, other, strategy) ==
    LET lead == strategy.score[page.url] - strategy.score[other.url] IN
    lead > 0 \/ (lead = 0 /\ page.id <= other.id)

FindBestPage(pages, strategy, excluded) ==
    LET eligible == {p \in pages : p.id \notin excluded}
        best == {p \in eligible : /\ p.url \in strategy.confident
                                  /\ \A q \in eligible : Outranks(p, q, strategy)} IN
    IF best = {} THEN None ELSE (CHOOSE p \in best : TRUE).id
=============================================================================
