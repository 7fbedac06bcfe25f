---------------------------- MODULE ChromeTabs_proof ----------------------------
(***************************************************************************)
(* Proofs about ChromeTabs: the startup claims different tabs, a check     *)
(* navigates only tabs of its own and records the price of its own stay.   *)
(***************************************************************************)
EXTENDS ChromeTabs, TLAPS

-----------------------------------------------------------------------------
(* What is true of the tabs and of the check of each watch                 *)

\* Where a check can be, the tabs, and what a check has read.
Places == {"idle", "choose", "ensure", "goto", "reload", "read", "identify"}
Tabs == [open : BOOLEAN, url : Urls, blocked : BOOLEAN]
Jobs == [restore : BOOLEAN, excluded : SUBSET Nat, preferred : Nat \cup {None},
         tab : Nat \cup {None}, seen : Urls \cup {None}, shown : Urls \cup {None},
         read : Tabs \cup {None}]

TypeOK ==
    /\ tabs \in Seq(Tabs)
    /\ hint \in [Names -> Nat \cup {None}]
    /\ restoring \in Seq(Names)
    /\ claim \in [Names -> 0..Len(tabs) \cup {None}]
    /\ at \in [Names -> Places]
    /\ job \in [Names -> Jobs]
    /\ DOMAIN record = Names
    /\ troubles \in Nat

\* A check that has chosen has a tab, be it closed by now.
HasTab(w) == at[w] \notin {"idle", "choose"} => job[w].tab \in DOMAIN tabs

\* The restoration of a watch leaves the tabs claimed before alone: it is the
\* head of the list, so that no claim is made while it runs.
Claimed == {claim[v] : v \in Names} \ {None}
KeepsOff(w) ==
    at[w] # "idle" /\ job[w].restore =>
        /\ restoring # <<>> /\ Head(restoring) = w
        /\ job[w].excluded = Claimed
        /\ at[w] # "choose" => job[w].tab \notin Claimed

\* The page in the chosen tab, when it was chosen.
ChosenOwn(w) ==
    at[w] \in {"ensure", "goto"} =>
        job[w].tab = job[w].preferred \/ job[w].seen = Blank \/ job[w].seen \in Strategy[w].confident

\* The page that was last seen to be on target, or gone to.
Accepted(w) == Strategy[w].confident \cup {Expected(w)}
OnTarget(w) ==
    /\ at[w] \in {"reload", "read", "identify"} => job[w].shown \in Accepted(w)
    /\ at[w] = "identify" => job[w].read \in Tabs
    /\ Priced(w) /\ ~record[w].disturbed => record[w].of \in Accepted(w)

\* All that is true of the check of one watch.
Sound(w) == HasTab(w) /\ KeepsOff(w) /\ ChosenOwn(w) /\ OnTarget(w)

\* The inductive invariant.
TabsInv == TypeOK /\ (\A w \in Names : Sound(w)) /\ ClaimsDiffer

-----------------------------------------------------------------------------
\* A page found among the open tabs.
LEMMA BestPage ==
    ASSUME NEW pages, NEW strategy, NEW excluded,
           FindBestPage(pages, strategy, excluded) # None
    PROVE  \E p \in pages : /\ p.id = FindBestPage(pages, strategy, excluded)
                            /\ p.id \notin excluded
                            /\ p.url \in strategy.confident
<1> DEFINE eligible == {p \in pages : p.id \notin excluded}
           good == {p \in eligible : /\ p.url \in strategy.confident
                                     /\ \A q \in eligible : Outranks(p, q, strategy)}
           best == FindBestPage(pages, strategy, excluded)
<1>1. best = IF good = {} THEN None ELSE (CHOOSE p \in good : TRUE).id
  BY DEF FindBestPage
<1>2. good # {} /\ best = (CHOOSE p \in good : TRUE).id
  BY <1>1
<1>3. (CHOOSE p \in good : TRUE) \in good
  BY <1>2
<1>4. PICK p \in good : p = (CHOOSE x \in good : TRUE)
  BY <1>3
<1> QED
  BY <1>2, <1>4

\* The tab of the hint, when it may be used.
LEMMA HintedPage ==
    ASSUME NEW w \in Names, PreferredPage(w) # None
    PROVE  /\ PreferredPage(w) \in Open \ job[w].excluded
           /\ PreferredPage(w) = job[w].preferred
  BY DEF PreferredPage

\* The tab a check is content with is open, was not claimed before, and shows a
\* page that the check is confident of.
LEMMA MatchingTab ==
    ASSUME NEW w \in Names, MatchingPage(w) # None
    PROVE  /\ MatchingPage(w) \in Open \ job[w].excluded
           /\ tabs[MatchingPage(w)].url \in Strategy[w].confident
<1> DEFINE best == FindBestPage(OpenPages, Strategy[w], job[w].excluded)
           hinted == PreferredPage(w)
<1>0. best = FindBestPage(OpenPages, Strategy[w], job[w].excluded)
  OBVIOUS
<1>1. MatchingPage(w) = IF hinted # None /\ tabs[hinted].url \in Strategy[w].confident
                        THEN hinted ELSE best
  BY DEF MatchingPage
<1>2. hinted # None => hinted \in Open \ job[w].excluded
  BY HintedPage
<1> HIDE DEF best, hinted
<1>3. best # None => /\ best \in Open \ job[w].excluded
                     /\ tabs[best].url \in Strategy[w].confident
  <2> SUFFICES ASSUME best # None
               PROVE  /\ best \in Open \ job[w].excluded
                      /\ tabs[best].url \in Strategy[w].confident
    OBVIOUS
  <2>1. PICK p \in OpenPages : /\ p.id = best /\ p.id \notin job[w].excluded
                               /\ p.url \in Strategy[w].confident
    BY <1>0, BestPage, Zenon
  <2>2. PICK t \in Open : p = [id |-> t, url |-> tabs[t].url]
    BY <2>1 DEF OpenPages
  <2> QED
    BY <2>1, <2>2
<1> QED
  BY <1>1, <1>2, <1>3

\* Whatever a tab is made to show, it stays a tab.
LEMMA Shows ==
    ASSUME tabs \in Seq(Tabs), NEW t \in DOMAIN tabs, NEW tab \in Tabs
    PROVE  /\ [tabs EXCEPT ![t] = tab] \in Seq(Tabs)
           /\ Len([tabs EXCEPT ![t] = tab]) = Len(tabs)
  OBVIOUS

LEMMA Opens ==
    ASSUME tabs \in Seq(Tabs), NEW tab \in Tabs
    PROVE  /\ Append(tabs, tab) \in Seq(Tabs)
           /\ Len(Append(tabs, tab)) = Len(tabs) + 1
  OBVIOUS

LEMMA TabIs ==
    ASSUME NEW url \in Urls, NEW blocked \in BOOLEAN
    PROVE  Tab(url, blocked) \in Tabs
  BY DEF Tab, Tabs

LEMMA KnownUrls ==
    /\ Blank \in Urls /\ StartPage \in Urls /\ Visits \subseteq Urls
    /\ \A w \in Names : Expected(w) \in Urls
  BY DEF Urls

\* A tab that loads a page stays a tab of the same place.
LEMMA LoadsTab ==
    ASSUME TypeOK, NEW t \in DOMAIN tabs, NEW url \in Urls, Loads(t, url)
    PROVE  /\ tabs' \in Seq(Tabs) /\ Len(tabs') = Len(tabs)
           /\ troubles' \in Nat
<1>1. troubles' \in Nat
  <2>1. troubles' = troubles \/ (troubles > 0 /\ troubles' = troubles - 1)
    BY DEF Loads, Trouble
  <2> QED
    BY <2>1 DEF TypeOK
<1>2. PICK b \in BOOLEAN : tabs' = [tabs EXCEPT ![t] = Tab(url, b)]
  BY DEF Loads
<1> QED
  BY <1>1, <1>2, TabIs, Shows DEF TypeOK

LEMMA ShownUrl ==
    ASSUME TypeOK, NEW t \in DOMAIN tabs
    PROVE  tabs[t] \in Tabs /\ tabs[t].url \in Urls
<1>1. tabs[t] \in Tabs
  BY DEF TypeOK
<1> QED
  BY <1>1 DEF Tabs

-----------------------------------------------------------------------------
(* What a step leaves alone                                                *)

\* Tabs are never forgotten: they are closed, and stay in their places.
Grows ==
    /\ tabs' \in Seq(Tabs) /\ DOMAIN tabs \subseteq DOMAIN tabs'
    /\ Len(tabs') \in Nat /\ Len(tabs) \in Nat /\ Len(tabs) <= Len(tabs')

LEMMA SamePlaces ==
    ASSUME TypeOK, tabs' \in Seq(Tabs), Len(tabs') = Len(tabs)
    PROVE  Grows
  BY DEF TypeOK, Grows

LEMMA OneMore ==
    ASSUME TypeOK, NEW tab \in Tabs, tabs' = Append(tabs, tab)
    PROVE  /\ Grows
           /\ Len(tabs') = Len(tabs) + 1
           /\ Len(tabs') \in DOMAIN tabs'
<1>1. tabs \in Seq(Tabs) /\ Len(tabs) \in Nat
  BY DEF TypeOK
<1>2. tabs' \in Seq(Tabs) /\ Len(tabs') = Len(tabs) + 1
  BY <1>1, Opens
<1> QED
  BY <1>1, <1>2 DEF Grows

\* The check of v is not moved.
Rests(v) == at'[v] = at[v] /\ job'[v] = job[v] /\ record'[v] = record[v]

\* A check that is not moved stays sound, be it that nothing is claimed, or that
\* the one claim is made by a restoration: then v is not being restored.
LEMMA StaysSound ==
    ASSUME TabsInv, Grows, NEW v \in Names, Rests(v),
           \/ UNCHANGED <<restoring, claim>>
           \/ \E w \in Names \ {v} : at[w] # "idle" /\ job[w].restore
    PROVE  Sound(v)'
<1>1. Sound(v)
  BY DEF TabsInv
<1>2. HasTab(v)'
  BY <1>1 DEF Sound, HasTab, Rests, Grows
<1>3. KeepsOff(v)'
  <2>1. CASE UNCHANGED <<restoring, claim>>
    BY <2>1, <1>1 DEF Sound, KeepsOff, Rests, Claimed
  <2>2. ASSUME NEW w \in Names \ {v}, at[w] # "idle", job[w].restore PROVE KeepsOff(v)'
    <3>1. Head(restoring) = w
      BY <2>2 DEF TabsInv, Sound, KeepsOff
    <3>2. ~(at[v] # "idle" /\ job[v].restore)
      BY <3>1, <1>1 DEF Sound, KeepsOff
    <3> QED
      BY <3>2 DEF KeepsOff, Rests
  <2> QED
    BY <2>1, <2>2
<1>4. ChosenOwn(v)'
  BY <1>1 DEF Sound, ChosenOwn, Rests
<1>5. OnTarget(v)'
  BY <1>1 DEF Sound, OnTarget, Rests, Priced, Accepted
<1> QED
  BY <1>2, <1>3, <1>4, <1>5 DEF Sound

\* The claims stay what they are when nothing is restored.
LEMMA ClaimsStay ==
    ASSUME TabsInv, UNCHANGED claim
    PROVE  ClaimsDiffer'
  BY DEF TabsInv, ClaimsDiffer

LEMMA ClaimsTyped ==
    ASSUME TypeOK, Grows, UNCHANGED claim
    PROVE  claim' \in [Names -> 0..Len(tabs') \cup {None}]
  BY DEF TypeOK, Grows

\* A step of one check, that claims nothing, keeps the invariant if it keeps
\* what is true of that check.
LEMMA OneCheck ==
    ASSUME TabsInv, Grows, UNCHANGED <<restoring, claim, record>>,
           NEW w \in Names, NEW place \in Places, NEW j \in Jobs,
           at' = [at EXCEPT ![w] = place], job' = [job EXCEPT ![w] = j],
           hint' \in [Names -> Nat \cup {None}], troubles' \in Nat,
           Sound(w)'
    PROVE  TabsInv'
<1>1. TypeOK'
  BY ClaimsTyped DEF TabsInv, TypeOK, Grows
<1>2. \A v \in Names \ {w} : Rests(v)
  BY DEF TabsInv, TypeOK, Rests
<1>3. \A v \in Names \ {w} : Sound(v)'
  BY <1>2, StaysSound
<1> QED
  BY <1>1, <1>3, ClaimsStay DEF TabsInv

LEMMA NoJobIs == NoJob \in Jobs
  BY DEF NoJob, Jobs

\* The end of a check keeps the invariant: what it claims is its own tab, which
\* no watch claimed before, and what it records is sound.
LEMMA Ends ==
    ASSUME TabsInv, Grows, NEW w \in Names, NEW id, NEW snapshot,
           End(w, id, snapshot), at[w] # "idle",
           id \in {None, Fallback} \/ (at[w] # "choose" /\ id = job[w].tab),
           snapshot # None /\ snapshot.snapshot.availability = "available"
              /\ ~snapshot.disturbed => snapshot.of \in Accepted(w),
           hint' \in [Names -> Nat \cup {None}], troubles' \in Nat
    PROVE  TabsInv'
<1> DEFINE restores == job[w].restore
<1>1. /\ at' = [at EXCEPT ![w] = "idle"]
      /\ record' = [record EXCEPT ![w] = snapshot]
      /\ job' = [job EXCEPT ![w] = NoJob]
      /\ restoring' = IF restores THEN Tail(restoring) ELSE restoring
      /\ claim' = IF restores THEN [claim EXCEPT ![w] = id] ELSE claim
  BY DEF End, To
<1>2. Sound(w) /\ TypeOK /\ ClaimsDiffer
  BY DEF TabsInv
<1>3. id \in 0..Len(tabs') \cup {None}
  BY <1>2 DEF Sound, HasTab, Grows, Fallback, TypeOK
<1>4. restores => restoring # <<>> /\ \A v \in Names : id # None /\ claim[v] = id => id = Fallback
  <2>1. restores => restoring # <<>> /\ job[w].excluded = Claimed
                    /\ (at[w] # "choose" => job[w].tab \notin Claimed)
    BY <1>2 DEF Sound, KeepsOff
  <2>2. \A v \in Names : claim[v] # None => claim[v] \in Claimed
    BY DEF Claimed
  <2> QED
    BY <2>1, <2>2
<1>5. TypeOK'
  <2>1. at' \in [Names -> Places] /\ job' \in [Names -> Jobs] /\ DOMAIN record' = Names
    BY <1>1, <1>2, NoJobIs DEF TypeOK, Places
  <2>2. restoring' \in Seq(Names)
    BY <1>1, <1>2, <1>4 DEF TypeOK
  <2>3. claim \in [Names -> 0..Len(tabs') \cup {None}]
    BY <1>2 DEF TypeOK, Grows
  <2>4. claim' \in [Names -> 0..Len(tabs') \cup {None}]
    BY <1>1, <1>3, <2>3
  <2> QED
    BY <2>1, <2>2, <2>4 DEF TypeOK, Grows
<1>6. ASSUME NEW v \in Names \ {w} PROVE Sound(v)'
  <2>1. Rests(v)
    BY <1>1, <1>2 DEF Rests, TypeOK
  <2>2. UNCHANGED <<restoring, claim>> \/ restores
    BY <1>1
  <2> QED
    BY <2>1, <2>2, StaysSound
<1>7. Sound(w)'
  <2>1. at'[w] = "idle" /\ record'[w] = snapshot
    BY <1>1, <1>2 DEF TypeOK
  <2> QED
    BY <2>1 DEF Sound, HasTab, KeepsOff, ChosenOwn, OnTarget, Priced, Accepted
<1>8. ClaimsDiffer'
  <2>1. CASE ~restores
    BY <2>1, <1>1, ClaimsStay
  <2>2. CASE restores
    <3>1. \A v \in Names : claim'[v] = IF v = w THEN id ELSE claim[v]
      BY <2>2, <1>1, <1>2 DEF TypeOK
    <3>2. id \in Ids => id # None /\ id # Fallback
      BY ChromeTabsAssumption DEF Ids, Fallback
    <3>3. ASSUME NEW v \in Names, NEW u \in Names, v # u, claim'[v] \in Ids
          PROVE  claim'[v] # claim'[u]
      <4>1. CASE v = w
        BY <4>1, <3>1, <3>2, <3>3, <2>2, <1>4
      <4>2. CASE u = w
        BY <4>2, <3>1, <3>2, <3>3, <2>2, <1>4
      <4>3. CASE v # w /\ u # w
        BY <4>3, <3>1, <3>3, <1>2 DEF ClaimsDiffer
      <4> QED
        BY <4>1, <4>2, <4>3
    <3> QED
      BY <3>3 DEF ClaimsDiffer
  <2> QED
    BY <2>1, <2>2
<1> QED
  BY <1>5, <1>6, <1>7, <1>8 DEF TabsInv

\* A failure records no price.
LEMMA FailureHasNoPrice ==
    ASSUME NEW reason, reason # "available"
    PROVE  Failure(reason).snapshot.availability # "available"
  BY DEF Failure, Parser!Unknown

-----------------------------------------------------------------------------
(* The steps of a check                                                    *)

LEMMA BeginKeeps ==
    ASSUME TabsInv, NEW w \in Names, NEW restore \in BOOLEAN, Begin(w, restore),
           restore => restoring # <<>> /\ Head(restoring) = w
    PROVE  TabsInv'
<1> DEFINE j == [NoJob EXCEPT !.restore = restore, !.preferred = hint[w],
                              !.excluded = Excluded(restore)]
<1>1. /\ at[w] = "idle" /\ at' = [at EXCEPT ![w] = "choose"]
      /\ job' = [job EXCEPT ![w] = j]
      /\ UNCHANGED <<hint, restoring, claim, record, troubles>>
      /\ tabs' = tabs \/ tabs' = Append(tabs, Tab(StartPage, FALSE))
  BY DEF Begin, To
<1>2. TypeOK /\ Sound(w)
  BY DEF TabsInv
<1>3. Grows
  <2>1. Tab(StartPage, FALSE) \in Tabs
    BY TabIs, KnownUrls
  <2>2. CASE tabs' = tabs
    BY <2>2, <1>2, SamePlaces DEF TypeOK
  <2>3. CASE tabs' = Append(tabs, Tab(StartPage, FALSE))
    BY <2>1, <2>3, <1>2, OneMore
  <2> QED
    BY <1>1, <2>2, <2>3
<1>4. Excluded(restore) \in SUBSET Nat /\ (restore => Excluded(restore) = Claimed)
  BY <1>2 DEF Excluded, TypeOK, Claimed
<1>5. hint[w] \in Nat \cup {None}
  BY <1>2 DEF TypeOK
<1>6. j \in Jobs /\ j.restore = restore /\ j.excluded = Excluded(restore)
  BY <1>4, <1>5 DEF NoJob, Jobs
<1> HIDE DEF j
<1>7. at'[w] = "choose" /\ job'[w] = j
  BY <1>1, <1>2 DEF TypeOK
<1>8. Sound(w)'
  <2>1. HasTab(w)' /\ ChosenOwn(w)'
    BY <1>7 DEF HasTab, ChosenOwn
  <2>2. KeepsOff(w)'
    BY <1>7, <1>1, <1>4, <1>6 DEF KeepsOff, Claimed
  <2>3. OnTarget(w)'
    BY <1>7, <1>1, <1>2 DEF OnTarget, Sound, Priced, Accepted
  <2> QED
    BY <2>1, <2>2, <2>3 DEF Sound
<1>9. hint' \in [Names -> Nat \cup {None}] /\ troubles' \in Nat
  BY <1>1, <1>2 DEF TypeOK
<1> QED
  BY <1>1, <1>3, <1>6, <1>8, <1>9, OneCheck DEF Places

\* The check takes a tab: one that was not claimed before, and that was its own,
\* new, or showed its target.
LEMMA Chooses ==
    ASSUME TabsInv, Grows, NEW w \in Names, at[w] = "choose",
           NEW place \in {"ensure", "goto"}, at' = [at EXCEPT ![w] = place],
           NEW t \in DOMAIN tabs', NEW url \in Urls, Chosen(w, t, url),
           t \notin job[w].excluded \/ t \notin DOMAIN tabs,
           t = job[w].preferred \/ url = Blank \/ url \in Strategy[w].confident,
           UNCHANGED <<hint, restoring, claim, record, troubles>>
    PROVE  TabsInv'
<1> DEFINE j == [[job[w] EXCEPT !.tab = t] EXCEPT !.seen = url]
<1>1. TypeOK /\ Sound(w) /\ job[w] \in Jobs
  BY DEF TabsInv, TypeOK
<1>2. t \in Nat
  BY DEF Grows
<1>3. job' = [job EXCEPT ![w] = j]
  BY <1>1 DEF Chosen, TypeOK
<1>0. j = [[job[w] EXCEPT !.tab = t] EXCEPT !.seen = url]
  OBVIOUS
<1> HIDE DEF j
<1>4. /\ j \in Jobs /\ j.tab = t /\ j.seen = url
      /\ j.restore = job[w].restore /\ j.excluded = job[w].excluded
      /\ j.preferred = job[w].preferred
  BY <1>0, <1>1, <1>2 DEF Jobs
<1>5. at'[w] = place /\ job'[w] = j
  BY <1>1, <1>3 DEF TypeOK
<1>6. Sound(w)'
  <2>1. HasTab(w)' /\ ChosenOwn(w)'
    BY <1>4, <1>5 DEF HasTab, ChosenOwn
  <2>2. KeepsOff(w)'
    <3>1. Claimed' = Claimed
      BY DEF Claimed
    <3>2. t \notin DOMAIN tabs => t \notin Claimed
      BY <1>1, <1>2 DEF Claimed, TypeOK, Grows
    <3> QED
      BY <1>1, <1>4, <1>5, <3>1, <3>2 DEF KeepsOff, Sound
  <2>3. OnTarget(w)'
    BY <1>5, <1>1 DEF OnTarget, Sound, Priced, Accepted
  <2> QED
    BY <2>1, <2>2, <2>3 DEF Sound
<1>7. hint' \in [Names -> Nat \cup {None}] /\ troubles' \in Nat /\ place \in Places
  BY <1>1 DEF TypeOK, Places
<1> QED
  BY <1>3, <1>4, <1>6, <1>7, OneCheck

LEMMA ChoosePageKeeps ==
    ASSUME TabsInv, NEW w \in Names, ChoosePage(w)
    PROVE  TabsInv'
<1> DEFINE matching == MatchingPage(w)
           other == PageToNavigate(w)
<1>1. /\ at[w] = "choose"
      /\ UNCHANGED <<hint, restoring, claim, record, troubles>>
      /\ \/ /\ matching # None /\ Chosen(w, matching, tabs[matching].url)
            /\ To(w, "ensure") /\ UNCHANGED tabs
         \/ /\ other # None /\ Chosen(w, other, tabs[other].url)
            /\ To(w, "goto") /\ UNCHANGED tabs
         \/ /\ tabs' = Append(tabs, Tab(Blank, FALSE))
            /\ Chosen(w, Len(tabs'), Blank) /\ To(w, "goto")
  BY DEF ChoosePage
<1>2. TypeOK /\ ChromeTabsAssumption
  BY ChromeTabsAssumption DEF TabsInv, ChromeTabsAssumption
<1>3. matching # None => matching \in Open \ job[w].excluded
                         /\ tabs[matching].url \in Strategy[w].confident
  BY MatchingTab
<1>4. other # None => other \in Open \ job[w].excluded /\ other = job[w].preferred
  BY HintedPage DEF PageToNavigate
<1> HIDE DEF matching, other
<1>5. \A t \in Open : t \in DOMAIN tabs /\ tabs[t].url \in Urls
  BY <1>2, ShownUrl DEF Open
<1>6. CASE matching # None /\ Chosen(w, matching, tabs[matching].url)
           /\ To(w, "ensure") /\ UNCHANGED tabs
  <2>1. Grows
    BY <1>2, <1>6, SamePlaces DEF TypeOK
  <2> QED
    BY <1>1, <1>3, <1>5, <1>6, <2>1, Chooses DEF To
<1>7. CASE other # None /\ Chosen(w, other, tabs[other].url)
           /\ To(w, "goto") /\ UNCHANGED tabs
  <2>1. Grows
    BY <1>2, <1>7, SamePlaces DEF TypeOK
  <2> QED
    BY <1>1, <1>4, <1>5, <1>7, <2>1, Chooses DEF To
<1>8. CASE tabs' = Append(tabs, Tab(Blank, FALSE))
           /\ Chosen(w, Len(tabs'), Blank) /\ To(w, "goto")
  <2>1. Tab(Blank, FALSE) \in Tabs /\ Blank \in Urls
    BY TabIs, KnownUrls
  <2>2. Grows /\ Len(tabs') = Len(tabs) + 1 /\ Len(tabs') \in DOMAIN tabs'
    BY <1>2, <1>8, <2>1, OneMore
  <2>3. Len(tabs') \notin DOMAIN tabs
    BY <1>2, <2>2 DEF TypeOK
  <2> QED
    BY <1>1, <1>8, <2>1, <2>2, <2>3, Chooses DEF To
<1> QED
  BY <1>1, <1>6, <1>7, <1>8

\* A step that keeps the tab of its check, and the restoration's head.
LEMMA KeepsItsTab ==
    ASSUME TabsInv, Grows, NEW w \in Names, at[w] \notin {"idle", "choose"},
           UNCHANGED <<restoring, claim>>,
           job'[w].restore = job[w].restore, job'[w].excluded = job[w].excluded,
           job'[w].tab = job[w].tab
    PROVE  HasTab(w)' /\ KeepsOff(w)'
<1>1. Sound(w)
  BY DEF TabsInv
<1>2. job[w].tab \in DOMAIN tabs'
  BY <1>1 DEF Sound, HasTab, Grows
<1>3. Claimed' = Claimed
  BY DEF Claimed
<1> QED
  BY <1>1, <1>2, <1>3 DEF HasTab, KeepsOff, Sound

LEMMA EnsureKeeps ==
    ASSUME TabsInv, NEW w \in Names, EnsureOnTarget(w)
    PROVE  TabsInv'
<1> DEFINE url == tabs[job[w].tab].url
           j == [job[w] EXCEPT !.shown = url]
           place == IF url \in Strategy[w].confident THEN AfterTarget(w) ELSE "goto"
<1>1. /\ at[w] = "ensure" /\ at' = [at EXCEPT ![w] = place]
      /\ job' = [job EXCEPT ![w] = j]
      /\ UNCHANGED <<tabs, hint, restoring, claim, record, troubles>>
  BY DEF EnsureOnTarget, To, TabsInv, TypeOK
<1>2. TypeOK /\ Sound(w) /\ job[w] \in Jobs
  BY DEF TabsInv, TypeOK
<1>3. url \in Urls
  BY <1>1, <1>2, ShownUrl DEF Sound, HasTab
<1>4. AfterTarget(w) \in {"read", "reload"}
  BY DEF AfterTarget
<1>0. j = [job[w] EXCEPT !.shown = url]
  OBVIOUS
<1>5. place \in {"goto", "read", "reload"} /\ (place # "goto" => url \in Strategy[w].confident)
  BY <1>4
<1> HIDE DEF j, url, place
<1>6. /\ j \in Jobs /\ j.shown = url
      /\ j.restore = job[w].restore /\ j.excluded = job[w].excluded
      /\ j.preferred = job[w].preferred /\ j.tab = job[w].tab /\ j.seen = job[w].seen
  BY <1>0, <1>2, <1>3 DEF Jobs
<1>7. at'[w] = place /\ job'[w] = j
  BY <1>1, <1>2 DEF TypeOK
<1>8. Grows
  BY <1>1, <1>2, SamePlaces DEF TypeOK
<1>9. Sound(w)'
  <2>1. HasTab(w)' /\ KeepsOff(w)'
    BY <1>1, <1>6, <1>7, <1>8, KeepsItsTab
  <2>2. ChosenOwn(w)'
    BY <1>1, <1>2, <1>6, <1>7 DEF ChosenOwn, Sound
  <2>3. OnTarget(w)'
    BY <1>1, <1>2, <1>5, <1>6, <1>7 DEF OnTarget, Sound, Priced, Accepted
  <2> QED
    BY <2>1, <2>2, <2>3 DEF Sound
<1>10. hint' \in [Names -> Nat \cup {None}] /\ troubles' \in Nat /\ place \in Places
  BY <1>1, <1>2, <1>5 DEF TypeOK, Places
<1> QED
  BY <1>1, <1>6, <1>8, <1>9, <1>10, OneCheck

LEMMA NavigateKeeps ==
    ASSUME TabsInv, NEW w \in Names, Navigate(w)
    PROVE  TabsInv'
<1> DEFINE j == [job[w] EXCEPT !.shown = Expected(w)]
           place == AfterTarget(w)
<1>1. /\ at[w] = "goto" /\ at' = [at EXCEPT ![w] = place]
      /\ job[w].tab \in Open /\ Loads(job[w].tab, Expected(w))
      /\ job' = [job EXCEPT ![w] = j]
      /\ UNCHANGED <<hint, restoring, claim, record>>
  BY DEF Navigate, To, TabsInv, TypeOK
<1>2. TypeOK /\ Sound(w) /\ job[w] \in Jobs
  BY DEF TabsInv, TypeOK
<1>3. Expected(w) \in Urls
  BY KnownUrls
<1>4. place \in {"read", "reload"}
  BY DEF AfterTarget
<1>0. j = [job[w] EXCEPT !.shown = Expected(w)]
  OBVIOUS
<1> HIDE DEF j, place
<1>5. tabs' \in Seq(Tabs) /\ Len(tabs') = Len(tabs) /\ troubles' \in Nat
  BY <1>1, <1>2, <1>3, LoadsTab DEF Open
<1>6. /\ j \in Jobs /\ j.shown = Expected(w)
      /\ j.restore = job[w].restore /\ j.excluded = job[w].excluded /\ j.tab = job[w].tab
  BY <1>0, <1>2, <1>3 DEF Jobs
<1>7. at'[w] = place /\ job'[w] = j
  BY <1>1, <1>2 DEF TypeOK
<1>8. Grows
  BY <1>2, <1>5, SamePlaces
<1>9. Sound(w)'
  <2>1. HasTab(w)' /\ KeepsOff(w)'
    BY <1>1, <1>6, <1>7, <1>8, KeepsItsTab
  <2>2. ChosenOwn(w)'
    BY <1>4, <1>7 DEF ChosenOwn
  <2>3. OnTarget(w)'
    BY <1>1, <1>2, <1>4, <1>6, <1>7 DEF OnTarget, Sound, Priced, Accepted
  <2> QED
    BY <2>1, <2>2, <2>3 DEF Sound
<1>10. hint' \in [Names -> Nat \cup {None}] /\ place \in Places
  BY <1>1, <1>2, <1>4 DEF TypeOK, Places
<1> QED
  BY <1>1, <1>5, <1>6, <1>8, <1>9, <1>10, OneCheck

LEMMA ReloadKeeps ==
    ASSUME TabsInv, NEW w \in Names, Reload(w)
    PROVE  TabsInv'
<1>1. /\ at[w] = "reload" /\ at' = [at EXCEPT ![w] = "read"]
      /\ job[w].tab \in Open /\ Loads(job[w].tab, tabs[job[w].tab].url)
      /\ UNCHANGED <<hint, restoring, claim, job, record>>
  BY DEF Reload, To
<1>2. TypeOK /\ Sound(w) /\ job[w] \in Jobs
  BY DEF TabsInv, TypeOK
<1>3. job[w].tab \in DOMAIN tabs /\ tabs[job[w].tab].url \in Urls
  BY <1>1, <1>2, ShownUrl DEF Open
<1>4. tabs' \in Seq(Tabs) /\ Len(tabs') = Len(tabs) /\ troubles' \in Nat
  BY <1>1, <1>2, <1>3, LoadsTab
<1>5. Grows
  BY <1>2, <1>4, SamePlaces
<1>6. at'[w] = "read" /\ job' = [job EXCEPT ![w] = job[w]]
  BY <1>1, <1>2 DEF TypeOK
<1>7. Sound(w)'
  <2>1. HasTab(w)' /\ KeepsOff(w)'
    BY <1>1, <1>5, KeepsItsTab
  <2>2. ChosenOwn(w)'
    BY <1>6 DEF ChosenOwn
  <2>3. OnTarget(w)'
    BY <1>1, <1>2, <1>6 DEF OnTarget, Sound, Priced, Accepted
  <2> QED
    BY <2>1, <2>2, <2>3 DEF Sound
<1>8. hint' \in [Names -> Nat \cup {None}]
  BY <1>1, <1>2 DEF TypeOK
<1> QED
  BY <1>1, <1>2, <1>4, <1>5, <1>6, <1>7, <1>8, OneCheck DEF Places

LEMMA ReadHtmlKeeps ==
    ASSUME TabsInv, NEW w \in Names, ReadHtml(w)
    PROVE  TabsInv'
<1> DEFINE tab == tabs[job[w].tab]
           j == [job[w] EXCEPT !.read = tab]
<1>1. /\ at[w] = "read" /\ UNCHANGED <<tabs, hint, troubles>>
      /\ \/ /\ job' = [job EXCEPT ![w] = j] /\ at' = [at EXCEPT ![w] = "identify"]
            /\ UNCHANGED <<restoring, claim, record>>
         \/ End(w, None, Failure("blocked"))
  BY DEF ReadHtml, To, TabsInv, TypeOK
<1>2. TypeOK /\ Sound(w) /\ job[w] \in Jobs
  BY DEF TabsInv, TypeOK
<1>3. tab \in Tabs
  BY <1>1, <1>2, ShownUrl DEF Sound, HasTab
<1>0. j = [job[w] EXCEPT !.read = tab]
  OBVIOUS
<1> HIDE DEF j, tab
<1>4. /\ j \in Jobs /\ j.read = tab /\ j.shown = job[w].shown
      /\ j.restore = job[w].restore /\ j.excluded = job[w].excluded /\ j.tab = job[w].tab
  BY <1>0, <1>2, <1>3 DEF Jobs
<1>5. Grows
  BY <1>1, <1>2, SamePlaces DEF TypeOK
<1>6. hint' \in [Names -> Nat \cup {None}] /\ troubles' \in Nat
  BY <1>1, <1>2 DEF TypeOK
<1>7. CASE End(w, None, Failure("blocked"))
  BY <1>1, <1>5, <1>6, <1>7, FailureHasNoPrice, Ends
<1>8. CASE /\ job' = [job EXCEPT ![w] = j] /\ at' = [at EXCEPT ![w] = "identify"]
           /\ UNCHANGED <<restoring, claim, record>>
  <2>1. at'[w] = "identify" /\ job'[w] = j
    BY <1>8, <1>2 DEF TypeOK
  <2>2. HasTab(w)' /\ KeepsOff(w)'
    BY <1>1, <1>4, <1>5, <1>8, <2>1, KeepsItsTab
  <2>3. ChosenOwn(w)'
    BY <2>1 DEF ChosenOwn
  <2>4. OnTarget(w)'
    BY <1>1, <1>2, <1>3, <1>4, <1>8, <2>1 DEF OnTarget, Sound, Priced, Accepted
  <2>5. Sound(w)'
    BY <2>2, <2>3, <2>4 DEF Sound
  <2> QED
    BY <1>4, <1>5, <1>6, <1>8, <2>5, OneCheck DEF Places
<1> QED
  BY <1>1, <1>7, <1>8

LEMMA FinishKeeps ==
    ASSUME TabsInv, NEW w \in Names, Finish(w)
    PROVE  TabsInv'
<1> DEFINE id == StableId(job[w].tab)
           snapshot == IF Snapshot(w) = Raised THEN Failure("raised")
                       ELSE [snapshot |-> Snapshot(w), of |-> job[w].read.url,
                             disturbed |-> job[w].read.url # job[w].shown]
<1>1. /\ at[w] = "identify" /\ UNCHANGED tabs
      /\ SaveHint(w, id) /\ End(w, id, snapshot)
  BY DEF Finish
<1>2. TypeOK /\ Sound(w) /\ job[w].tab \in DOMAIN tabs
  BY <1>1 DEF TabsInv, Sound, HasTab
<1>3. id \in {Fallback, job[w].tab} /\ id \in Nat
  BY <1>2 DEF StableId, Fallback, TypeOK
<1>4. snapshot.snapshot.availability = "available" /\ ~snapshot.disturbed
         => snapshot.of \in Accepted(w)
  <2>1. CASE Snapshot(w) = Raised
    BY <2>1, FailureHasNoPrice
  <2>2. CASE Snapshot(w) # Raised
    <3>1. job[w].shown \in Accepted(w)
      BY <1>1, <1>2 DEF Sound, OnTarget
    <3>2. snapshot.of = job[w].read.url
          /\ snapshot.disturbed = (job[w].read.url # job[w].shown)
      BY <2>2
    <3> QED
      BY <3>1, <3>2
  <2> QED
    BY <2>1, <2>2
<1> HIDE DEF id, snapshot
<1>5. Grows
  BY <1>1, <1>2, SamePlaces DEF TypeOK
<1>6. hint' \in [Names -> Nat \cup {None}] /\ troubles' \in Nat
  <2>1. hint' = [hint EXCEPT ![w] = id] \/ hint' = hint
    BY <1>1 DEF SaveHint
  <2>2. troubles' = troubles \/ (troubles > 0 /\ troubles' = troubles - 1)
    BY <1>1 DEF SaveHint, Trouble
  <2>3. hint \in [Names -> Nat \cup {None}] /\ troubles \in Nat
    BY <1>2 DEF TypeOK
  <2>4. troubles' \in Nat
    BY <2>2, <2>3
  <2> QED
    BY <1>3, <2>1, <2>3, <2>4
<1> QED
  BY <1>1, <1>3, <1>4, <1>5, <1>6, Ends

LEMMA FailKeeps ==
    ASSUME TabsInv, NEW w \in Names, Fail(w)
    PROVE  TabsInv'
<1>1. /\ at[w] # "idle" /\ UNCHANGED <<tabs, hint>>
      /\ troubles' = troubles \/ (troubles > 0 /\ troubles' = troubles - 1)
      /\ End(w, None, Failure("failed"))
  BY DEF Fail, Trouble
<1>2. TypeOK
  BY DEF TabsInv
<1>3. Grows
  BY <1>1, <1>2, SamePlaces DEF TypeOK
<1>4. troubles \in Nat /\ hint' \in [Names -> Nat \cup {None}]
  BY <1>1, <1>2 DEF TypeOK
<1>5. troubles' \in Nat
  BY <1>1, <1>4
<1> QED
  BY <1>1, <1>3, <1>4, <1>5, FailureHasNoPrice, Ends

\* The user's navigations leave the checks where they are.
LEMMA UserKeeps ==
    ASSUME TabsInv, User
    PROVE  TabsInv'
<1>1. TypeOK
  BY DEF TabsInv
<1>2. UNCHANGED <<hint, restoring, claim, at, job, record>>
  BY DEF User
<1>3. troubles' \in Nat
  <2>1. troubles > 0 /\ troubles' = troubles - 1
    BY DEF User, CloseTab, Visit, OpenTab, Trouble
  <2>2. troubles \in Nat
    BY <1>1 DEF TypeOK
  <2> QED
    BY <2>1, <2>2
<1>4. Grows
  <2>1. ASSUME NEW t \in Open, CloseTab(t) PROVE Grows
    <3>1. tabs[t] \in Tabs /\ t \in DOMAIN tabs
      BY <1>1, ShownUrl DEF Open
    <3>2. [tabs[t] EXCEPT !.open = FALSE] \in Tabs
      BY <3>1 DEF Tabs
    <3>3. tabs' = [tabs EXCEPT ![t] = [tabs[t] EXCEPT !.open = FALSE]]
      BY <2>1 DEF CloseTab
    <3> QED
      BY <1>1, <3>1, <3>2, <3>3, Shows, SamePlaces DEF TypeOK
  <2>2. ASSUME NEW t \in Open, NEW url \in Visits, Visit(t, url) PROVE Grows
    <3>1. Tab(url, FALSE) \in Tabs /\ t \in DOMAIN tabs
      BY TabIs, KnownUrls DEF Open
    <3>2. tabs' = [tabs EXCEPT ![t] = Tab(url, FALSE)]
      BY <2>2 DEF Visit
    <3> QED
      BY <1>1, <3>1, <3>2, Shows, SamePlaces DEF TypeOK
  <2>3. ASSUME NEW url \in Visits, OpenTab(url) PROVE Grows
    <3>1. Tab(url, FALSE) \in Tabs
      BY TabIs, KnownUrls
    <3> QED
      BY <1>1, <2>3, <3>1, OneMore DEF OpenTab
  <2> QED
    BY <2>1, <2>2, <2>3 DEF User
<1>5. TypeOK'
  BY <1>1, <1>2, <1>3, <1>4, ClaimsTyped DEF TypeOK, Grows
<1>6. \A v \in Names : Sound(v)'
  BY <1>2, <1>4, StaysSound DEF Rests
<1> QED
  BY <1>2, <1>5, <1>6, ClaimsStay DEF TabsInv

-----------------------------------------------------------------------------
\* It holds at the start, and every step keeps it.
LEMMA InitTabs == Init => TabsInv
<1> SUFFICES ASSUME Init PROVE TabsInv
  OBVIOUS
<1> USE ChromeTabsAssumption DEF ChromeTabsAssumption
<1>1. PICK first \in Visits : tabs = <<Tab(StartPage, FALSE), Tab(first, FALSE)>>
  BY DEF Init
<1>2. Tab(StartPage, FALSE) \in Tabs /\ Tab(first, FALSE) \in Tabs
  BY TabIs, KnownUrls
<1>3. tabs \in Seq(Tabs) /\ Len(tabs) = 2
  <2>1. \A a, b \in Tabs : <<a, b>> \in Seq(Tabs) /\ Len(<<a, b>>) = 2
    OBVIOUS
  <2> QED
    BY <1>1, <1>2, <2>1
<1>4. at = [w \in Names |-> "idle"] /\ job = [w \in Names |-> NoJob]
      /\ record = [w \in Names |-> None] /\ claim = [w \in Names |-> None]
  BY DEF Init
<1>5. hint \in [Names -> Nat \cup {None}] /\ restoring \in Seq(Names) /\ troubles \in Nat
  BY DEF Init, Fallback, Names
<1>6. TypeOK
  BY <1>3, <1>4, <1>5, NoJobIs DEF TypeOK, Places
<1>7. ASSUME NEW w \in Names PROVE Sound(w)
  BY <1>4 DEF Sound, HasTab, KeepsOff, ChosenOwn, OnTarget, Priced
<1>8. ClaimsDiffer
  BY <1>4 DEF ClaimsDiffer, Ids
<1> QED
  BY <1>6, <1>7, <1>8 DEF TabsInv

LEMMA NextTabs == TabsInv /\ [Next]_vars => TabsInv'
<1> SUFFICES ASSUME TabsInv, [Next]_vars PROVE TabsInv'
  OBVIOUS
<1>1. ASSUME NEW w \in Names, BeginCheck(w) PROVE TabsInv'
  BY <1>1, BeginKeeps DEF BeginCheck
<1>2. ASSUME NEW w \in Names, Step(w) PROVE TabsInv'
  BY <1>2, ChoosePageKeeps, EnsureKeeps, NavigateKeeps, ReloadKeeps, ReadHtmlKeeps,
     FinishKeeps, FailKeeps DEF Step
<1>3. CASE RestoreNext
  <2>1. Head(restoring) \in Names
    BY <1>3 DEF RestoreNext, TabsInv, TypeOK
  <2> QED
    BY <1>3, <2>1, BeginKeeps DEF RestoreNext
<1>4. CASE User
  BY <1>4, UserKeeps
<1>5. CASE UNCHANGED vars
  <2>1. UNCHANGED <<tabs, hint, restoring, claim, at, job, record, troubles>>
    BY <1>5 DEF vars
  <2>2. TypeOK' /\ Grows
    BY <2>1, SamePlaces DEF TabsInv, TypeOK
  <2>3. \A v \in Names : Sound(v)'
    BY <2>1, <2>2, StaysSound DEF Rests
  <2> QED
    BY <2>1, <2>2, <2>3, ClaimsStay DEF TabsInv
<1> QED
  BY <1>1, <1>2, <1>3, <1>4, <1>5 DEF Next

\* The inductive invariant holds of every reachable state.
THEOREM TabsInductive == Spec => []TabsInv
  BY InitTabs, NextTabs, PTL DEF Spec

\* The startup gives no tab to two watches, whatever hints it starts from, whatever
\* the user does and the site shows: a claim is made by the head of the list, which
\* was told of all claims before it and looked at no tab among them.
THEOREM ClaimsApart == Spec => []ClaimsDiffer
<1>1. TabsInv => ClaimsDiffer
  BY DEF TabsInv
<1> QED
  BY TabsInductive, <1>1, PTL

\* A price that was read undisturbed is of a page the check was confident of, or of
\* the one it went to, and so of its watch's stay when no page looks alike.
THEOREM OwnPrices == Spec => []PriceOfOwnStay
<1>1. TabsInv => PriceOfOwnStay
  <2> SUFFICES ASSUME TabsInv, NEW w \in Names, Priced(w), Lookalikes[w] = {},
                      ~record[w].disturbed
               PROVE  Stay(record[w].of) = Stay(Expected(w))
    BY DEF PriceOfOwnStay
  <2>1. record[w].of \in Accepted(w)
    BY DEF TabsInv, Sound, OnTarget
  <2>2. Lookalikes[w] = {url \in Strategy[w].confident : Stay(url) # Stay(Expected(w))}
    BY DEF Lookalikes
  <2>3. CASE record[w].of = Expected(w)
    BY <2>3
  <2>4. CASE record[w].of \in Strategy[w].confident
    BY <2>2, <2>4
  <2> QED
    BY <2>1, <2>3, <2>4 DEF Accepted
<1> QED
  BY TabsInductive, <1>1, PTL

\* A check navigates the tab of its hint, a new one, or one it saw on target; the
\* tab stays the one chosen, be its page looked at again.
THEOREM OwnTabs == Spec => NavigatesOnlyOwn
<1> DEFINE Navigates ==
      \A w \in Names : \A t \in DOMAIN tabs :
          at[w] = "goto" /\ at'[w] # "goto" /\ tabs'[t] # tabs[t] =>
              t = job[w].preferred \/ job[w].seen = Blank \/ job[w].seen \in Strategy[w].confident
<1>1. TabsInv /\ [Next]_vars => [Navigates]_vars
  <2> SUFFICES ASSUME TabsInv, Next, NEW w \in Names, NEW t \in DOMAIN tabs,
                      at[w] = "goto", at'[w] # "goto", tabs'[t] # tabs[t]
               PROVE  \/ t = job[w].preferred \/ job[w].seen = Blank
                      \/ job[w].seen \in Strategy[w].confident
    OBVIOUS
  <2>1. TypeOK /\ Sound(w)
    BY DEF TabsInv
  <2>2. ASSUME NEW v \in Names \ {w}, BeginCheck(v) \/ Step(v) PROVE FALSE
    BY <2>1, <2>2 DEF TypeOK, BeginCheck, Begin, Step, ChoosePage, EnsureOnTarget, Navigate,
       Reload, ReadHtml, Finish, Fail, End, To
  <2>3. Navigate(w)
    <3>1. ~BeginCheck(w) /\ ~RestoreNext /\ ~User
      BY <2>1 DEF TypeOK, BeginCheck, RestoreNext, Begin, User, To
    <3>2. ~Fail(w)
      BY DEF Fail
    <3> QED
      BY <2>2, <3>1, <3>2 DEF Next, Step, ChoosePage, EnsureOnTarget, Reload, ReadHtml, Finish
  <2>4. t = job[w].tab
    BY <2>1, <2>3 DEF Navigate, Loads, TypeOK
  <2> QED
    BY <2>1, <2>4 DEF Sound, ChosenOwn
<1> QED
  BY TabsInductive, <1>1, PTL DEF Spec, NavigatesOnlyOwn
=============================================================================
