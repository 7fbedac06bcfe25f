------------------------------ MODULE ChromeTabs ------------------------------
(***************************************************************************)
(* The tabs of the dedicated Chrome and the checks that find, navigate,    *)
(* reload and read them: capture_for_url of                                *)
(* infrastructure/browser/chrome_cdp_fetcher.py as called by               *)
(* monitor/check_executor.py, and the sequence of such checks that         *)
(* monitor/startup_restore.py makes when the program starts.               *)
(*                                                                         *)
(* Every check runs in a thread of its own with a connection of its own to *)
(* the same Chrome, and the user has the same tabs before his eyes.  A     *)
(* check of one watch at a time: module CheckTasks shows how that fails.   *)
(*                                                                         *)
(* An operator Name_Variant is Name with a fault put in: it is used only   *)
(* to see that a property notices the fault.                               *)
(***************************************************************************)
EXTENDS IkyuPages

CONSTANTS
    Watches,      \* sequence of the active watches, in the order of the database
    Target,       \* the target of each watch
    Visits,       \* the pages the user goes to
    Raised,
    Listing(_),   \* what the site shows for a URL, when it does not block
    BlockedPage,  \* what it shows when it does
    MaxTabs,      \* bound: tabs ever opened
    MaxTroubles   \* bound: what the user, the site and the disk do to the checks

Parser == INSTANCE IkyuParser

ASSUME ChromeTabsAssumption ==
    /\ Watches \in Seq(ToSet(Watches))
    /\ MaxTabs \in Nat \ {0} /\ MaxTroubles \in Nat
    /\ None \notin Nat

VARIABLES
    tabs,      \* the tabs in the order they were opened; a tab's id is its place
    hint,      \* browser_tab_id of the draft of each watch
    restoring, \* the watches the startup has still to restore
    claim,     \* the tab the startup claimed for each watch
    at,        \* where the check of each watch is
    job,       \* what that check has read
    record,    \* the snapshot recorded last, and the page it was read from
    troubles

vars == <<tabs, hint, restoring, claim, at, job, record, troubles>>

Names == ToSet(Watches)
Ids == 1..MaxTabs
Fallback == 0    \* the id of a tab that has no target any more
Expected(w) == TargetPageUrl(Target[w])

\* Every page a tab can show, and how they look to the check of each watch.
Urls == Visits \cup {Expected(w) : w \in Names} \cup {Blank, StartPage}
Strategy ==
    [w \in Names |-> [score |-> [url \in Urls |-> Score(url, Expected(w))],
                      confident |-> {url \in Urls : Confident(url, Expected(w))}]]

Tab(url, blocked) == [open |-> TRUE, url |-> url, blocked |-> blocked]
Html(tab) == IF tab.blocked THEN BlockedPage ELSE Listing(tab.url)
Open == {t \in DOMAIN tabs : tabs[t].open}
OpenPages == {[id |-> t, url |-> tabs[t].url] : t \in Open}

NoJob == [restore |-> FALSE, excluded |-> {}, preferred |-> None, tab |-> None,
          seen |-> None, shown |-> None, read |-> None]

\* A Chrome with the start page and two tabs of the user, and hints of an
\* earlier run.
Init ==
    /\ \E first \in Visits : tabs = <<Tab(StartPage, FALSE), Tab(first, FALSE)>>
    /\ hint \in [Names -> {None, Fallback, 2}]
    /\ restoring = Watches
    /\ claim = [w \in Names |-> None]
    /\ at = [w \in Names |-> "idle"]
    /\ job = [w \in Names |-> NoJob]
    /\ record = [w \in Names |-> None]
    /\ troubles = MaxTroubles

To(w, step) == at' = [at EXCEPT ![w] = step]
Trouble == troubles > 0 /\ troubles' = troubles - 1

\* The answer of the site to a page load.
Loads(t, url) ==
    \/ tabs' = [tabs EXCEPT ![t] = Tab(url, FALSE)] /\ UNCHANGED troubles
    \/ tabs' = [tabs EXCEPT ![t] = Tab(url, TRUE)] /\ Trouble

\* The end of run_watch_check_once and, for the startup, of
\* _restore_single_watch_tab, which claims the tab of the capture if there is
\* one.
End(w, id, snapshot) ==
    /\ To(w, "idle")
    /\ record' = [record EXCEPT ![w] = snapshot]
    /\ restoring' = IF job[w].restore THEN Tail(restoring) ELSE restoring
    /\ claim' = IF job[w].restore THEN [claim EXCEPT ![w] = id] ELSE claim
    /\ job' = [job EXCEPT ![w] = NoJob]

Failure(reason) == [snapshot |-> Parser!Unknown(reason), of |-> None, disturbed |-> FALSE]

-----------------------------------------------------------------------------
(* The steps of a check                                                    *)

\* The check reads the draft and connects; a Chrome that is gone is started,
\* with its start page.
Excluded_None(restore) == {}
Excluded(restore) == IF restore THEN {claim[v] : v \in Names} \ {None} ELSE {}

Begin(w, restore) ==
    /\ at[w] = "idle"
    /\ job' = [job EXCEPT ![w] = [NoJob EXCEPT !.restore = restore, !.preferred = hint[w],
                                               !.excluded = Excluded(restore)]]
    /\ IF Open = {} THEN Len(tabs) < MaxTabs /\ tabs' = Append(tabs, Tab(StartPage, FALSE))
                    ELSE UNCHANGED tabs
    /\ To(w, "choose")
    /\ UNCHANGED <<hint, restoring, claim, record, troubles>>

\* run_watch_check_once by the scheduler, or by a check-now while the startup
\* still restores.
BeginCheck(w) == Begin(w, FALSE) /\ (restoring = <<>> \/ w # Head(restoring))

RestoreNext == restoring # <<>> /\ Begin(Head(restoring), TRUE)

\* _get_page_by_tab_id for the hint of the watch, unless it is excluded.
PreferredPage_Closed(w) ==
    IF job[w].preferred \in DOMAIN tabs \ job[w].excluded THEN job[w].preferred ELSE None
PreferredPage(w) ==
    IF job[w].preferred \in Open \ job[w].excluded THEN job[w].preferred ELSE None

\* The hint's tab if it shows the target, the best tab otherwise.
MatchingPage(w) ==
    LET preferred == PreferredPage(w) IN
    IF preferred # None /\ tabs[preferred].url \in Strategy[w].confident THEN preferred
    ELSE FindBestPage(OpenPages, Strategy[w], job[w].excluded)

\* The tab a check navigates when none shows the target: the hint's, whatever
\* it shows now, or a new one.
PageToNavigate_First(w) == IF Open = {} THEN None ELSE CHOOSE t \in Open : \A u \in Open : t <= u
PageToNavigate(w) == PreferredPage(w)

Chosen(w, t, url) == job' = [job EXCEPT ![w].tab = t, ![w].seen = url]

ChoosePage(w) ==
    LET matching == MatchingPage(w) other == PageToNavigate(w) IN
    /\ at[w] = "choose"
    /\ \/ /\ matching # None
          /\ Chosen(w, matching, tabs[matching].url)
          /\ To(w, "ensure") /\ UNCHANGED tabs
       \/ /\ matching = None /\ other # None
          /\ Chosen(w, other, tabs[other].url)
          /\ To(w, "goto") /\ UNCHANGED tabs
       \/ /\ matching = None /\ other = None
          /\ Len(tabs) < MaxTabs
          /\ tabs' = Append(tabs, Tab(Blank, FALSE))
          /\ Chosen(w, Len(tabs'), Blank)
          /\ To(w, "goto")
    /\ UNCHANGED <<hint, restoring, claim, record, troubles>>

\* What follows when the tab is on its target: a reload, but for the startup.
AfterTarget(w) == IF job[w].restore THEN "read" ELSE "reload"

\* _ensure_page_is_on_target looks at the tab again.
EnsureOnTarget_AnyScore(w) ==
    /\ at[w] = "ensure"
    /\ To(w, IF Strategy[w].score[tabs[job[w].tab].url] > 0 THEN AfterTarget(w) ELSE "goto")
    /\ job' = [job EXCEPT ![w].shown = tabs[job[w].tab].url]
    /\ UNCHANGED <<tabs, hint, restoring, claim, record, troubles>>
EnsureOnTarget(w) ==
    /\ at[w] = "ensure"
    /\ To(w, IF tabs[job[w].tab].url \in Strategy[w].confident THEN AfterTarget(w) ELSE "goto")
    /\ job' = [job EXCEPT ![w].shown = tabs[job[w].tab].url]
    /\ UNCHANGED <<tabs, hint, restoring, claim, record, troubles>>

Navigate(w) ==
    /\ at[w] = "goto" /\ job[w].tab \in Open
    /\ Loads(job[w].tab, Expected(w))
    /\ To(w, AfterTarget(w))
    /\ job' = [job EXCEPT ![w].shown = Expected(w)]
    /\ UNCHANGED <<hint, restoring, claim, record>>

Reload(w) ==
    /\ at[w] = "reload" /\ job[w].tab \in Open
    /\ Loads(job[w].tab, tabs[job[w].tab].url)
    /\ To(w, "read")
    /\ UNCHANGED <<hint, restoring, claim, job, record>>

\* capture_page: first the content of the tab, which may be the block page.
ReadHtml(w) ==
    LET tab == tabs[job[w].tab] IN
    /\ at[w] = "read" /\ tab.open
    /\ \/ /\ ~Parser!IsBlocked(Html(tab))
          /\ job' = [job EXCEPT ![w].read = tab]
          /\ To(w, "identify")
          /\ UNCHANGED <<restoring, claim, record>>
       \/ Parser!IsBlocked(Html(tab)) /\ End(w, None, Failure("blocked"))
    /\ UNCHANGED <<tabs, hint, troubles>>

\* Then the summary of the tab: the id of one closed in between is made up.
StableId(t) == IF t \in Open THEN t ELSE Fallback

\* _save_browser_assignment: a failure to save is only logged.
SaveHint(w, id) ==
    \/ hint' = [hint EXCEPT ![w] = id] /\ UNCHANGED troubles
    \/ UNCHANGED hint /\ Trouble

\* build_snapshot_from_browser_page: nothing of the page's URL is compared.
Snapshots ==
    [w \in Names |-> [url \in Urls |-> Parser!ParseTargetSnapshot(Listing(url), Target[w])]]
Snapshot(w) == Snapshots[w][job[w].read.url]

Finish(w) ==
    LET id == StableId(job[w].tab) IN
    /\ at[w] = "identify"
    /\ SaveHint(w, id)
    /\ End(w, id, IF Snapshot(w) = Raised THEN Failure("raised")
                  ELSE [snapshot |-> Snapshot(w), of |-> job[w].read.url,
                        disturbed |-> job[w].read.url # job[w].shown])
    /\ UNCHANGED tabs

\* The tab is closed under the check, or a page load takes too long, or Chrome
\* cannot be attached to.
Fail(w) ==
    /\ \/ at[w] \in {"goto", "reload", "read"} /\ job[w].tab \notin Open /\ UNCHANGED troubles
       \/ at[w] \in {"choose", "goto", "reload"} /\ Trouble
    /\ End(w, None, Failure("failed"))
    /\ UNCHANGED <<tabs, hint>>

-----------------------------------------------------------------------------
(* The user                                                                *)

Visit(t, url) == Trouble /\ tabs' = [tabs EXCEPT ![t] = Tab(url, FALSE)]
OpenTab(url) == Trouble /\ Len(tabs) < MaxTabs /\ tabs' = Append(tabs, Tab(url, FALSE))
CloseTab(t) == Trouble /\ tabs' = [tabs EXCEPT ![t] = [@ EXCEPT !.open = FALSE]]

User ==
    /\ \E t \in Open : CloseTab(t) \/ (\E url \in Visits : Visit(t, url))
       \/ (\E url \in Visits : OpenTab(url))
    /\ UNCHANGED <<hint, restoring, claim, at, job, record>>

Step(w) ==
    \/ ChoosePage(w) \/ EnsureOnTarget(w) \/ Navigate(w) \/ Reload(w)
    \/ ReadHtml(w) \/ Finish(w) \/ Fail(w)

Next == (\E w \in Names : BeginCheck(w) \/ Step(w)) \/ RestoreNext \/ User

Spec == Init /\ [][Next]_vars

\* Threads go on, the startup goes through its list, and every watch is
\* checked again and again.
Fairness ==
    /\ WF_vars(RestoreNext)
    /\ \A w \in Names : WF_vars(Step(w)) /\ WF_vars(restoring = <<>> /\ BeginCheck(w))

FairSpec == Spec /\ Fairness

-----------------------------------------------------------------------------
\* The startup never gives one tab to two watches: whatever the hints of the
\* earlier run say, the user does and the pages show, the tabs claimed differ.
ClaimsDiffer ==
    \A v, w \in Names : v # w /\ claim[v] \in Ids => claim[v] # claim[w]

\* A check takes no page away from the user: the only tabs it navigates to
\* another page are its watch's own of before, a new one, or one that showed
\* the target when the check chose it.
NavigatesOnlyOwn ==
    [][\A w \in Names : \A t \in DOMAIN tabs :
          at[w] = "goto" /\ at'[w] # "goto" /\ tabs'[t] # tabs[t] =>
              t = job[w].preferred \/ job[w].seen = Blank \/ job[w].seen \in Strategy[w].confident]_vars

\* The pages that can be taken for another: those confident for the watch
\* that show another stay.
Stay(url) == [k \in {"cid", "si", "ppc", "rc"} \cap DOMAIN url.query |-> url.query[k]]
Lookalikes ==
    [w \in Names |-> {url \in Strategy[w].confident : Stay(url) # Stay(Expected(w))}]

Priced(w) == record[w] # None /\ record[w].snapshot.availability = "available"

\* A price is recorded for the nights and the guests of the watch, whatever
\* tabs are open, unless a page of the same room or plan for another stay is
\* around, or somebody navigates the tab after the check has looked at its URL.
PriceOfOwnStay ==
    \A w \in Names : 
        Priced(w) /\ Lookalikes[w] = {} /\ ~record[w].disturbed =>
            Stay(record[w].of) = Stay(Expected(w))

\* A watch that shares its tab with no other gets its price again for good,
\* whatever was closed, navigated, blocked or left unsaved before.
Alone(w) == \A v \in Names \ {w} : hint[v] # hint[w] /\ job[v].tab # hint[w]
Recovers ==
    \A w \in Names : Lookalikes[w] = {} => (<>[]Alone(w) => <>[]Priced(w))
=============================================================================
