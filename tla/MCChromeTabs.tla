----------------------------- MODULE MCChromeTabs -----------------------------
(***************************************************************************)
(* Instances of ChromeTabs for TLC.                                        *)
(***************************************************************************)
EXTENDS ChromeTabs

CONSTANTS h1, h2, r1, r2, p1, p2, w1, w2

InOrder == <<w1, w2>>
Hotels == {h1, h2}

Night(hotel, room, plan, day) ==
    [hotel |-> hotel, room |-> room, plan |-> plan, checkIn |-> day, checkOut |-> day + 1,
     people |-> 2, rooms |-> 1]

\* Two watches in two hotels.
Targets == [w \in {w1, w2} |-> IF w = w1 THEN Night(h1, r1, p1, 1) ELSE Night(h2, r2, p2, 1)]

\* The user looks at the room of the first watch for another night, and at
\* the hotel of the second one without a room, for another night.
OtherNight == TargetPageUrl(Night(h1, r1, p1, 5))
HotelPage == RefererUrl(TargetPageUrl(Night(h2, r2, p2, 5)))
Pages == {OtherNight, HotelPage}

\* A page lists all offers of its hotel for its day.
Offer(hotel, url) ==
    [room |-> IF hotel = h1 THEN r1 ELSE r2, roomName |-> "room",
     plan |-> IF hotel = h1 THEN p1 ELSE p2, planName |-> "plan",
     availability |-> "available",
     price |-> [amount |-> url.query["cid"], currency |-> "JPY"]]

Page(url, title, offers) ==
    [of |-> url, title |-> title, robots |-> {}, schemas |-> <<>>,
     payload |-> [hotel |-> "hotel", offers |-> offers]]

SitePage(url) ==
    Page(url, "other",
         IF url.path = <<>> THEN <<>> ELSE <<Offer(HotelIdFromPath(url.path), url)>>)

Denied == Page(Blank, "denied", <<>>)

=============================================================================
