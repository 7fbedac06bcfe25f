----------------------------- MODULE WatchCreation -----------------------------
(***************************************************************************)
(* From a page of the site to a new watch: the requests of                 *)
(* web/watch_creation_workflow.py that preview a Chrome tab or a seed URL  *)
(* under the cooldowns of application/preview_guard.py, keep the preview   *)
(* in application/watch_creation_cache.py and create the watch with its    *)
(* draft and its initial price (application/watch_editor.py,               *)
(* watch_creation_snapshot.py).                                            *)
(*                                                                         *)
(* Requests interleave at the awaits of the event loop and at every step   *)
(* of their worker threads; the user navigates the tabs all the while.     *)
(*                                                                         *)
(* An operator Name_Variant is Name with a fault put in: it is used only   *)
(* to see that a property notices the fault.                               *)
(***************************************************************************)
EXTENDS IkyuPages

CONSTANTS
    Requests,      \* concurrent requests of the browser
    Url,           \* the URLs the user goes to or enters, by name
    NewTab,        \* the name of the page of a new tab
    Denied,        \* the name of the block page
    Visits,        \* pages the user goes to
    Opened,        \* pages among them that Chrome may show at first
    Seeds,         \* URLs the user enters
    Samples,       \* URLs the properties of the URL functions are checked for
    Listing(_),    \* what the site shows for a URL
    BlockedPage,   \* what it shows when it blocks
    Raised,
    Wirings,       \* values of prefer_browser_fallback_for_search
    MaxSize,       \* capacity of the preview cache
    MinInterval, GenericFailure, BlockedCooldown,
    MaxTabs,       \* bound: tabs ever opened
    MaxForms,      \* bound: forms the user has seen
    MaxWatches,    \* bound: watches ever created
    MaxTroubles    \* bound: what the user and the site do meanwhile

Parser == INSTANCE IkyuParser

ASSUME WatchCreationAssumption ==
    /\ {MaxSize, MinInterval, GenericFailure, BlockedCooldown, MaxTabs} \subseteq Nat \ {0}
    /\ {MaxForms, MaxWatches, MaxTroubles} \subseteq Nat
    /\ Opened \subseteq Visits
    /\ None \notin Nat
    /\ MinInterval <= GenericFailure /\ GenericFailure <= BlockedCooldown

VARIABLES
    prefer,     \* whether the client goes to Chrome without trying HTTP
    tabs,       \* the tabs in the order they were opened
    guard,      \* the cooldown of the site: what is left of it and its reason
    cache,      \* the cached previews, the one used least recently first
    forms,      \* the forms the user has before him, or can go back to
    request,    \* what each request has done
    watches,    \* the stored watches, with draft and initial price
    created,    \* watches ever created
    troubles,
    used, lost  \* keys, for the properties: of the previews that a finished
                \* creation discarded, and of the forms older than a restart

vars == <<prefer, tabs, guard, cache, forms, request, watches, created, troubles, used, lost>>
Keys == <<used, lost>>

Fallback == 0
UrlOf(name) == IF name = NewTab THEN StartPage ELSE IF name = Denied THEN Blank ELSE Url[name]
Tab(url, blocked) == [open |-> TRUE, url |-> url, blocked |-> blocked]
Open == {t \in DOMAIN tabs : tabs[t].open}
OpenPages == {[id |-> t, url |-> tabs[t].url] : t \in Open}

\* What the URLs say and where content comes from: the page of a tab, the block
\* page, or the page a URL is looked up on.
Addresses == Visits \cup {NewTab, Denied}
Drafts == [url \in Visits \cup Seeds \cup {NewTab} |-> ParseSeedUrl(UrlOf(url))]
Previewable == {url \in DOMAIN Drafts : IsPreviewUrl(UrlOf(url))}
Wanted == [url \in {u \in Visits \cup Seeds : Drafts[u] # None} |-> SearchPageUrl(Drafts[url])]
Search(url) == <<"search", url>>
CandidatesOn ==
    [source \in Addresses \cup {Search(url) : url \in DOMAIN Wanted} |->
        Parser!ParseCandidates(
            IF source = Denied THEN BlockedPage
            ELSE Listing(IF source \in Addresses THEN UrlOf(source) ELSE Wanted[source[2]]))]
Strategy ==
    [url \in DOMAIN Wanted |->
        [score |-> [at \in Addresses |-> Score(UrlOf(at), Wanted[url])],
         confident |-> {at \in Addresses : Confident(UrlOf(at), Wanted[url])},
         ready |-> {at \in Addresses : ReadyPage(UrlOf(at), Wanted[url])}]]

\* What the program takes from the site: a hotel is a number, and the page of a
\* room says its stay under the names that pages are compared by, and no other.
StayNames == ToSet(CheckInKeys) \cup ToSet(PeopleKeys) \cup ToSet(RoomsKeys)
SaysStay(query) ==
    /\ "cid" \in DOMAIN query
    /\ DOMAIN query \cap StayNames = {"ppc", "rc"}

ASSUME SiteAssumption ==
    /\ \A url \in Visits \cup Seeds : IsUrl(UrlOf(url))
    /\ \A url \in Samples : IsUrl(url)
    /\ \A url \in DOMAIN Drafts :
          Drafts[url] # None /\ ReadyForCandidateLookup(Drafts[url]) => Drafts[url].hotel \in HotelIds
    /\ \A page \in Visits :
          {"rm", "pln"} \subseteq DOMAIN UrlOf(page).query =>
              IsPreviewUrl(UrlOf(page)) /\ SaysStay(UrlOf(page).query)

\* A name stands for one page, and what is no value is told from every value.
ASSUME NamesAssumption ==
    /\ None \notin Int /\ Malformed \notin Int \cup {None} /\ None \notin HotelIds
    /\ {NewTab, Denied} \cap (Visits \cup Seeds) = {} /\ NewTab # Denied
    /\ \A url \in DOMAIN Wanted : Search(url) \notin Addresses

\* A WatchCreationPreview: the URL its draft was parsed from, the page its
\* candidates were read from, and the tab when it was one; torn tells whether
\* that page was gone when the URL was looked at.
Preview(url, source, tab, torn) == [url |-> url, source |-> source, tab |-> tab, torn |-> torn]
Candidates(preview) == CandidatesOn[preview.source]
Offered(preview) == {[room |-> c.room, plan |-> c.plan] : c \in ToSet(Candidates(preview))}
TargetOf(preview, choice) == ResolveWatchTarget(Drafts[preview.url], choice.room, choice.plan)

Idle == [at |-> "idle"]
At(r, place) == request[r].at = place
Go(r, place) == request' = [request EXCEPT ![r].at = place]
Respond(r) == request' = [request EXCEPT ![r] = Idle]

Init ==
    /\ prefer \in Wirings
    /\ \E url \in Opened : tabs = <<Tab(url, FALSE)>>
    /\ guard = [left |-> 0, reason |-> None]
    /\ cache = <<>> /\ forms = {}
    /\ request = [r \in Requests |-> Idle]
    /\ watches = {} /\ created = 0
    /\ troubles = MaxTroubles
    /\ used = {} /\ lost = {}

Trouble == troubles > 0 /\ troubles' = troubles - 1
-----------------------------------------------------------------------------
(* The preview guard                                                       *)

\* A cooldown that has run out is as none.
Expired == [left |-> 0, reason |-> None]
EnsureAllowed_Always == TRUE
EnsureAllowed == guard.left = 0
OneTickLess == IF guard.left = 1 THEN Expired ELSE [guard EXCEPT !.left = @ - 1]

DecideCooldown(diagnostics) ==
    CASE "http_403" \in diagnostics -> [left |-> BlockedCooldown, reason |-> "blocked"]
      [] "http_403" \notin diagnostics /\ "failed" \in diagnostics ->
           [left |-> GenericFailure, reason |-> "failed"]
      [] OTHER -> [left |-> MinInterval, reason |-> "done"]

\* Whatever the guard held before is overwritten.
RegisterResult(diagnostics) == guard' = DecideCooldown(diagnostics)

Tick ==
    /\ guard.left > 0
    /\ guard' = OneTickLess
    /\ UNCHANGED <<prefer, tabs, cache, forms, request, watches, created, troubles, Keys>>
-----------------------------------------------------------------------------
(* The preview cache                                                       *)

\* The entry of a key, if there is one.
Entries_Newest(key) == IF cache = <<>> THEN {} ELSE {Last(cache)}
Entries(key) == {entry \in ToSet(cache) : entry.key = key}
Cached(key) == Entries(key) # {}
Entry(key) == CHOOSE entry \in Entries(key) : TRUE

\* discard
Without(key) ==
    IF Cached(key) THEN RemoveAt(cache, CHOOSE i \in DOMAIN cache : cache[i] = Entry(key)) ELSE cache

\* get, which makes the entry the most recent one.
Touched(key) == IF Cached(key) THEN Append(Without(key), Entry(key)) ELSE cache

\* store, with a new key, after the oldest entries have made room.
Stored(key, preview) ==
    Append(SubSeq(cache, Max({1, Len(cache) - MaxSize + 2}), Len(cache)),
           [key |-> key, preview |-> preview])

NewKey == Cardinality(forms) + 1
-----------------------------------------------------------------------------
(* Requests                                                                *)

Started(r, purpose, place, more) ==
    request' = [request EXCEPT ![r] =
        With([at |-> place, purpose |-> purpose, diagnostics |-> {},
              under |-> IF purpose \in {"tab", "seed"} THEN guard.left ELSE 0], more)]

\* The user's actions outside of the workflow leave all else alone.
Workflow == UNCHANGED <<prefer, tabs, watches, created, troubles, Keys>>

\* preview_from_chrome_tab and preview_from_seed_url up to their threads; a
\* request during the cooldown is answered with 429.
PreviewTab(r, t) ==
    /\ At(r, "idle") /\ EnsureAllowed /\ Cardinality(forms) < MaxForms
    /\ Started(r, "tab", "list", [tab |-> t])
    /\ Workflow /\ UNCHANGED <<guard, cache, forms>>

\* The client of the site is asked for the page of the draft; a URL that
\* cannot be parsed fails without diagnostics.
StartLookup(r, purpose, url, more) ==
    IF Drafts[url] # None /\ ReadyForCandidateLookup(Drafts[url])
    THEN Started(r, purpose, IF prefer THEN "attach" ELSE "http", With([url |-> url], more))
    ELSE Started(r, purpose, "failed", With([url |-> url], more))

PreviewSeed(r, url) ==
    /\ At(r, "idle") /\ EnsureAllowed /\ Cardinality(forms) < MaxForms
    /\ StartLookup(r, "seed", url, <<>>)
    /\ Workflow /\ UNCHANGED <<guard, cache, forms>>

\* The preview of a form has gone from the cache: used by a creation, lost in a
\* restart, or displaced, when a newer one was stored, by as many others as the
\* cache holds.
Gone(form) ==
    LET others == {f \in forms : f.key \notin {None, form.key} \cup lost} IN
    /\ form.key # None
    /\ \/ form.key \in used \cup lost
       \/ Cardinality(others) >= MaxSize /\ \E f \in others : f.key > form.key

\* create_watch_from_form: the cached preview, or the tab or the seed again,
\* without the guard.
SubmitForm(r, form, choice) ==
    LET chosen == [form |-> form, key |-> form.key, seed |-> form.preview.url,
                   choice |-> choice, gone |-> Gone(form)] IN
    /\ At(r, "idle") /\ created < MaxWatches
    /\ \/ /\ Cached(form.key)
          /\ Started(r, "create", "read", With([preview |-> Entry(form.key).preview], chosen))
       \/ /\ ~Cached(form.key) /\ form.preview.tab # None
          /\ Started(r, "create", "list", With([tab |-> form.preview.tab], chosen))
       \/ /\ ~Cached(form.key) /\ form.preview.tab = None
          /\ StartLookup(r, "create", form.preview.url, chosen)
    /\ cache' = Touched(form.key)
    /\ Workflow /\ UNCHANGED <<guard, forms>>
-----------------------------------------------------------------------------
(* Threads that read a tab                                                 *)

\* What a request still knows once its thread has returned.
Forgotten(r) ==
    {"tab", "url", "page", "source"}
        \cup IF At(r, "save") THEN {"form", "gone", "target", "known"} ELSE {}
Kept(r) == [f \in DOMAIN request[r] \ Forgotten(r) |-> request[r][f]]

\* An exception without diagnostics loses those of the steps before.
Failed(r, diagnostics) ==
    request' = [request EXCEPT ![r] = With(Kept(r), [at |-> "failed", diagnostics |-> diagnostics])]
Read(r, preview) ==
    request' = [request EXCEPT ![r] = With(Kept(r), [at |-> "read", preview |-> preview])]
ReadFrom(r, source) == With(request[r], [at |-> "url", source |-> source])

Shown(t) == IF tabs[t].blocked THEN Denied ELSE tabs[t].url

\* _adapter_for_tab_id: the tab must be listed as one to preview.
FindTab(r) ==
    LET t == request[r].tab IN
    /\ At(r, "list")
    /\ IF t \in Open /\ tabs[t].url \in Previewable THEN Go(r, "content") ELSE Failed(r, {})

\* capture_page: the content first; the error of a block page carries no
\* diagnostics.
ReadContent(r) ==
    LET t == request[r].tab IN
    /\ At(r, "content")
    /\ IF t \in Open /\ Shown(t) # Denied
       THEN request' = [request EXCEPT ![r] = ReadFrom(r, Shown(t))]
       ELSE Failed(r, {})

\* Then the URL, from which the draft is parsed, and the id; the id of a tab
\* closed in between is made up.
ReadUrl(r) ==
    LET t == request[r].tab
        preview == Preview(tabs[t].url, request[r].source, IF t \in Open THEN t ELSE Fallback,
                           tabs[t].url # request[r].source) IN
    /\ At(r, "url")
    /\ IF Drafts[tabs[t].url] # None /\ Candidates(preview) # Raised
       THEN Read(r, preview) ELSE Failed(r, {})

ReadTab(r) ==
    /\ FindTab(r) \/ ReadContent(r) \/ ReadUrl(r)
    /\ UNCHANGED <<prefer, tabs, guard, cache, forms, watches, created, troubles, Keys>>

\* wait_for gives up on the thread of a tab; the guard is not told.
MayTimeOut(r) == request[r].at \in {"list", "content", "url"}

TimeOut(r) ==
    /\ MayTimeOut(r) /\ Trouble
    /\ Respond(r)
    /\ UNCHANGED <<prefer, tabs, guard, cache, forms, watches, created, Keys>>
-----------------------------------------------------------------------------
(* Threads that look a seed up                                             *)

Found(r, source, torn) ==
    LET preview == Preview(request[r].url, source, None, torn) IN
    IF Candidates(preview) = Raised THEN Failed(r, {}) ELSE Read(r, preview)

\* _fetch_html_via_http: the page, a block page with status 200, a 403 that
\* sends the lookup to Chrome, or another error.
FetchHttp(r) ==
    /\ At(r, "http")
    /\ \/ Found(r, Search(request[r].url), FALSE) /\ UNCHANGED troubles
       \/ Trouble /\ Found(r, Denied, FALSE)
       \/ Trouble /\ request' = [request EXCEPT ![r].at = "attach",
                                                ![r].diagnostics = {"http_403"}]
       \/ Trouble /\ Failed(r, {})
    /\ UNCHANGED tabs

\* fetch_html of the CDP fetcher: the best tab, or a new one for the user to
\* navigate by hand.
BestPage(r) == FindBestPage(OpenPages, Strategy[request[r].url], {})

AttachChrome(r) ==
    /\ At(r, "attach")
    /\ \/ /\ BestPage(r) # None
          /\ request' = [request EXCEPT ![r] = With(@, [at |-> "look", tab |-> BestPage(r)])]
          /\ UNCHANGED tabs
       \/ /\ BestPage(r) = None /\ Len(tabs) < MaxTabs
          /\ tabs' = Append(tabs, Tab(NewTab, FALSE))
          /\ request' = [request EXCEPT ![r] = With(@, [at |-> "look", tab |-> Len(tabs')])]
    /\ UNCHANGED troubles

\* _wait_for_manual_resolution looks at the content of the best tab, and then
\* at the URL of the same tab, until the deadline.
Looked(r) == IF BestPage(r) # None THEN BestPage(r) ELSE request[r].tab

LookAtContent(r) ==
    /\ At(r, "look") /\ Looked(r) \in Open /\ Shown(Looked(r)) # Denied
    /\ request' = [request EXCEPT ![r] =
                     With(@, [at |-> "ready", source |-> Shown(Looked(r)), page |-> Looked(r)])]
    /\ UNCHANGED <<tabs, troubles>>

LookAtUrl(r) ==
    LET url == tabs[request[r].page].url IN
    /\ At(r, "ready")
    /\ IF url \in Strategy[request[r].url].ready
       THEN Found(r, request[r].source, url # request[r].source) ELSE Go(r, "look")
    /\ UNCHANGED <<tabs, troubles>>

\* The deadline, a Chrome that cannot be attached to, or an error of Playwright.
GiveUp(r) ==
    /\ request[r].at \in {"attach", "look"}
    /\ Failed(r, request[r].diagnostics \cup {"failed"}) \/ Failed(r, {})
    /\ UNCHANGED <<tabs, troubles>>

LookUp(r) ==
    /\ FetchHttp(r) \/ AttachChrome(r) \/ LookAtContent(r) \/ LookAtUrl(r) \/ GiveUp(r)
    /\ UNCHANGED <<prefer, guard, cache, forms, watches, created, Keys>>
-----------------------------------------------------------------------------
(* Back in the event loop                                                  *)

\* mark_existing_watch_for_preview raises when the preselected candidate is
\* offered and the draft lacks what a target needs.
Preselected(preview) == [room |-> Drafts[preview.url].room, plan |-> Drafts[preview.url].plan]
Marks(preview) ==
    Preselected(preview) \in Offered(preview) => TargetOf(preview, Preselected(preview)) # None

\* A preview is shown with its form; one of a tab is cached.
ShowPreview(r) ==
    LET preview == request[r].preview
        key == IF request[r].purpose = "tab" THEN NewKey ELSE None IN
    /\ At(r, "read") /\ request[r].purpose \in {"tab", "seed"}
    /\ Respond(r)
    /\ IF Marks(preview)
       THEN /\ forms' = forms \cup {[key |-> key, preview |-> preview]}
            /\ cache' = IF key = None THEN cache ELSE Stored(key, preview)
            /\ RegisterResult(request[r].diagnostics)
       ELSE UNCHANGED <<forms, cache, guard>>
    /\ Workflow

\* The error page of a preview; that of a creation tries to preview the seed
\* again, without the guard.
ShowError(r) ==
    /\ At(r, "failed")
    /\ \/ /\ request[r].purpose \in {"tab", "seed"}
          /\ RegisterResult(request[r].diagnostics)
          /\ Respond(r)
       \/ /\ request[r].purpose = "create"
          /\ StartLookup(r, "fallback", request[r].seed, <<>>)
          /\ UNCHANGED guard
       \/ request[r].purpose = "fallback" /\ Respond(r) /\ UNCHANGED guard
    /\ Workflow /\ UNCHANGED <<cache, forms>>

\* What it finds is shown as a form beside the error, which the user may use.
EndFallback(r) ==
    /\ At(r, "read") /\ request[r].purpose = "fallback"
    /\ Respond(r)
    /\ \/ UNCHANGED forms
       \/ /\ Cardinality(forms) < MaxForms
          /\ forms' = forms \cup {[key |-> None, preview |-> request[r].preview]}
    /\ Workflow /\ UNCHANGED <<guard, cache>>
-----------------------------------------------------------------------------
(* create_watch_item_from_preview and the initial price                    *)

SameTarget_WithDraft(target) == {w \in watches : w.target = target /\ w.draft # None}
SameTarget(target) == {w \in watches : w.target = target}

\* The candidate must be there, the target complete, and no watch have it.
FindExisting(r) ==
    LET preview == request[r].preview
        choice == request[r].choice
        target == TargetOf(preview, choice) IN
    /\ At(r, "read") /\ request[r].purpose = "create"
    /\ IF /\ Marks(preview) /\ choice \in Offered(preview)
          /\ target # None /\ SameTarget(target) = {}
       THEN request' = [request EXCEPT ![r] =
                          With(@, [at |-> "save", target |-> target,
                                   known |-> {w.id : w \in watches}])]
       ELSE Failed(r, {})
    /\ Workflow /\ UNCHANGED <<guard, cache, forms>>

SaveWatch(r) ==
    /\ At(r, "save")
    /\ created' = created + 1
    /\ watches' = watches \cup
         {[id |-> created', target |-> request[r].target, known |-> request[r].known,
           form |-> request[r].form, gone |-> request[r].gone, draft |-> None, price |-> None]}
    /\ request' = [request EXCEPT ![r] =
                     With(Kept(r), [at |-> "draft", id |-> created'])]
    /\ UNCHANGED <<prefer, tabs, guard, cache, forms, troubles, Keys>>

\* A row for a watch that has been deleted violates the foreign key.
Mine(r) == {w \in watches : w.id = request[r].id}
Updated(r, more) == (watches \ Mine(r)) \cup {With(w, more) : w \in Mine(r)}

SaveDraft(r) ==
    /\ At(r, "draft")
    /\ IF Mine(r) # {} THEN Go(r, "initial") ELSE Failed(r, {})
    /\ watches' = Updated(r, [draft |-> request[r].preview.url])
    /\ UNCHANGED <<prefer, tabs, guard, cache, forms, created, troubles, Keys>>

\* persist_initial_snapshot_from_preview, and the cached preview is dropped.
PersistInitial(r) ==
    LET snapshot == Parser!InitialSnapshot(Candidates(request[r].preview),
                                           request[r].choice.room, request[r].choice.plan) IN
    /\ At(r, "initial")
    /\ IF Mine(r) # {} \/ snapshot = None
       THEN /\ watches' = Updated(r, [price |-> snapshot])
            /\ cache' = Without(request[r].key)
            /\ used' = used \cup {request[r].key}
            /\ Respond(r)
       ELSE Failed(r, {}) /\ UNCHANGED <<watches, cache, used>>
    /\ UNCHANGED <<prefer, tabs, guard, forms, created, troubles, lost>>

Delete(w) ==
    /\ Trouble
    /\ watches' = watches \ {w}
    /\ UNCHANGED <<prefer, tabs, guard, cache, forms, request, created, Keys>>
-----------------------------------------------------------------------------
\* The process is started again: guard and cache were in memory, the pages of
\* the user are still there.
Restart ==
    /\ Trouble
    /\ guard' = Expired /\ cache' = <<>>
    /\ request' = [r \in Requests |-> Idle]
    /\ lost' = {form.key : form \in forms}
    /\ UNCHANGED <<prefer, tabs, forms, watches, created, used>>

\* The user navigates a tab, which the site may block, or closes it.
Browse ==
    /\ Trouble
    /\ \E t \in Open :
         \/ \E url \in Visits, blocked \in BOOLEAN : tabs' = [tabs EXCEPT ![t] = Tab(url, blocked)]
         \/ tabs' = [tabs EXCEPT ![t].open = FALSE]
    /\ UNCHANGED <<prefer, guard, cache, forms, request, watches, created, Keys>>

Step(r) ==
    \/ (\E t \in Open : PreviewTab(r, t)) \/ (\E url \in Seeds : PreviewSeed(r, url))
    \/ (\E form \in forms : \E choice \in Offered(form.preview) : SubmitForm(r, form, choice))
    \/ ReadTab(r) \/ TimeOut(r) \/ LookUp(r)
    \/ ShowPreview(r) \/ ShowError(r) \/ EndFallback(r)
    \/ FindExisting(r) \/ SaveWatch(r) \/ SaveDraft(r) \/ PersistInitial(r)

Next ==
    \/ (\E r \in Requests : Step(r))
    \/ Tick \/ Restart \/ Browse \/ (\E w \in watches : Delete(w))

Spec == Init /\ [][Next]_vars
-----------------------------------------------------------------------------
\* Two watches for the same target are created only when neither submission
\* could see the watch of the other, that is when both looked for an existing
\* watch before either had saved its own.
OneWatchPerTarget ==
    \A v, w \in watches : v # w /\ v.target = w.target => v.id \notin w.known /\ w.id \notin v.known

\* A watch is for the stay, the room and the plan of the form that was
\* submitted, unless the preview of that form had gone from the cache by then.
\* Then the tab is read again, whatever it shows by now.
WatchAsShown ==
    \A w \in watches : w.target = TargetOf(w.form.preview, w.target) \/ w.gone

\* The candidates of a form are those of the check-in, the guests and the
\* rooms its watch would have, when the draft names a room and a plan and
\* nobody navigates the tab between the two looks at it.  The number of nights
\* is not compared, nor anything when the seed is the page of a hotel.
PricedForStay(preview) ==
    LET draft == Drafts[preview.url]
        page == Drafts[preview.source] IN
    preview.source \in Visits /\ ~preview.torn /\ None \notin {draft.room, draft.plan} =>
        /\ draft.checkIn = page.checkIn
        /\ draft.people = page.people /\ draft.rooms = page.rooms
PricesOfStay == \A form \in forms : PricedForStay(form.preview)

\* The cooldown after a 403 runs to its end, but for the result of a preview
\* that had been let in before, which replaces it, or a restart, which forgets
\* it.  The previews of a creation and of its error page leave it alone.
GuardHeld ==
    [][guard.reason = "blocked" =>
         \/ guard' \in {guard, OneTickLess}
         \/ Restart
         \/ \E r \in Requests :
               /\ request[r] # Idle /\ request'[r] = Idle
               /\ request[r].purpose \in {"tab", "seed"} /\ request[r].under = 0]_vars

\* The targets of the watches that can be created, and for each the URLs the
\* user may enter that are misread for it: the target of the URL, with the room
\* and the plan of the watch, has a page that says another stay, its seed is
\* looked up for another stay, or a tab with its page is marked wrongly.
Picks == UNION {{[room |-> c.room, plan |-> c.plan] : c \in ToSet(CandidatesOn[source])} :
                   source \in {s \in DOMAIN CandidatesOn : CandidatesOn[s] # Raised}}
Creatable ==
    {ResolveWatchTarget(Drafts[url], choice.room, choice.plan) :
        url \in {u \in DOMAIN Drafts : Drafts[u] # None}, choice \in Picks} \ {None}

StayOf(draft) == <<draft.hotel, draft.checkIn, draft.checkOut, draft.people, draft.rooms>>
AnyNights(target) == [target EXCEPT !.checkOut = 0]
Watch(target) == [page |-> None, canonical |-> TargetPageUrl(target), target |-> target]
Faithful(url, target) ==
    LET draft == ParseSeedUrl(url)
        said == ResolveWatchTarget(draft, target.room, target.plan) IN
    /\ StayOf(ParseSeedUrl(TargetPageUrl(said))) = StayOf(draft)
    /\ StayOf(ParseSeedUrl(SearchPageUrl(draft))) = StayOf(draft)
    /\ (TabMatchesWatch(TargetPageUrl(said), Watch(target)) <=> AnyNights(said) = AnyNights(target))
Misread ==
    [target \in Creatable |-> {u \in Samples : IsPreviewUrl(u) /\ ~Faithful(u, target)}]

\* A target, its page and its watch stand for one another: the stay survives the
\* URL of the page and the parser of seed URLs, a seed is looked up for the stay
\* it says, and a tab is marked as a stored watch's when it shows the target
\* of that watch, and only then, but for the night of departure.
TargetsIdentify == \A w \in watches : Misread[w.target] = {}
=============================================================================
