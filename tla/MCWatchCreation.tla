---------------------------- MODULE MCWatchCreation ----------------------------
(***************************************************************************)
(* Instances of WatchCreation for TLC.                                     *)
(***************************************************************************)
EXTENDS WatchCreation, TLC

CONSTANTS h1, r1, p1, q1, q2, one, two

Hotels == {h1}
Symmetry == Permutations(Requests)

\* One room of one hotel, for one room or for two of them.
Night(rooms) ==
    [hotel |-> h1, room |-> r1, plan |-> p1, checkIn |-> 3, checkOut |-> 4,
     people |-> 2, rooms |-> rooms]
OneRoom == TargetPageUrl(Night(1))
TwoRooms == TargetPageUrl(Night(2))
Pages == {one, two}
Named == [page \in Pages |-> IF page = one THEN OneRoom ELSE TwoRooms]
Entered == {one}

\* A page offers the room for the price of its number of rooms.
SitePage(url) ==
    [of |-> url, title |-> "other", robots |-> {}, schemas |-> <<>>,
     payload |-> [hotel |-> "hotel",
                  offers |-> IF url.path = <<>> THEN <<>>
                             ELSE <<[room |-> r1, roomName |-> "room", plan |-> p1,
                                     planName |-> "plan", availability |-> "available",
                                     price |-> [amount |-> url.query["rc"],
                                                currency |-> "JPY"]]>>]]
DeniedPage == [SitePage(StartPage) EXCEPT !.title = "denied"]

\* URLs with every combination of ways to say the stay.
Sample(checkIn, nights, people, rooms) ==
    [host |-> "www.ikyu.com", path |-> <<"zh-tw", h1>>,
     query |-> With(With(checkIn, nights), With(people, rooms))]
Given ==
    {Sample(i, n, p, r) :
        i \in {<<>>, [checkin |-> 3], [cid |-> 3], [ci |-> 3, cid |-> 4], [cid |-> Malformed]},
        n \in {<<>>, [si |-> 1], [checkout |-> 5], [co |-> 2], [checkout |-> 5, si |-> 1],
               [nights |-> 2, si |-> Malformed], [si |-> 0]},
        p \in {<<>>, [ppc |-> 2], [adults |-> 1, ppc |-> 2], [ppc |-> 0]},
        r \in {<<>>, [rc |-> 1], [rooms |-> 2, rc |-> 1]}}
=============================================================================
