------------------------- MODULE WatchDefinitions_proof -------------------------
(***************************************************************************)
(* Proofs about how the watch definitions come to be and are used: what a  *)
(* new watch was compared with, how long a cooldown holds, what a watch is *)
(* for and what its URLs say (WatchCreation), and what a pass of the       *)
(* background loop may dispatch (WatchSync, whose specification is         *)
(* SyncSpec).                                                              *)
(***************************************************************************)
EXTENDS WatchCreation, WatchSync, FiniteSetTheorems, SequenceTheorems, TLAPS

-----------------------------------------------------------------------------
(* The creation of a watch from a page                                     *)

\* A request at work was let in when there was no cooldown, or asks for none.
Working(x) == {"at", "purpose", "under"} \subseteq DOMAIN x /\ x.under = 0
RequestsWork ==
    /\ DOMAIN request = Requests
    /\ \A r \in Requests : request[r] = Idle \/ Working(request[r])

\* The watches a stored watch was compared with came before it, and none of
\* them is for its target.
Numbered(w) == {"id", "target", "known"} \subseteq DOMAIN w /\ w.id \in 1..created
NotKnown(target, others) == \A w \in watches : w.target = target => w.id \notin others
WatchesNumbered ==
    /\ created \in Nat
    /\ \A w \in watches : Numbered(w) /\ w.known \subseteq 1..(w.id - 1)
    /\ \A w \in watches : NotKnown(w.target, w.known)

\* The same of one about to be stored.
Compared(x) ==
    x.at = "save" => /\ {"target", "known"} \subseteq DOMAIN x
                     /\ x.known \subseteq 1..created /\ NotKnown(x.target, x.known)
SavesCompared == \A r \in Requests : Compared(request[r])

\* The inductive invariant of the creation.
CreationInv == RequestsWork /\ WatchesNumbered /\ SavesCompared

-----------------------------------------------------------------------------
\* What With makes of a record.
LEMMA WithFields ==
    ASSUME NEW query, NEW more
    PROVE  /\ DOMAIN With(query, more) = DOMAIN query \cup DOMAIN more
           /\ \A k \in DOMAIN more : With(query, more)[k] = more[k]
           /\ \A k \in DOMAIN query \ DOMAIN more : With(query, more)[k] = query[k]
  BY DEF With

\* A request at work goes on with another value x.
Moves(r, x) ==
    /\ request' = [request EXCEPT ![r] = x]
    /\ x = Idle \/ Working(x)
    /\ x.at # "save"

\* A working request stays one, whatever else it comes to know.
LEMMA WithWorks ==
    ASSUME NEW x, NEW more, Working(x), "at" \in DOMAIN more,
           "under" \notin DOMAIN more
    PROVE  Working(With(x, more)) /\ With(x, more).at = more.at
<1> DEFINE y == With(x, more)
<1>1. /\ DOMAIN y = DOMAIN x \cup DOMAIN more
      /\ \A k \in DOMAIN more : y[k] = more[k]
      /\ \A k \in DOMAIN x \ DOMAIN more : y[k] = x[k]
  BY WithFields
<1> HIDE DEF y
<1>2. y.at = more.at /\ y.under = x.under
  BY <1>1 DEF Working
<1>3. Working(y)
  BY <1>1, <1>2 DEF Working
<1> QED
  BY <1>2, <1>3 DEF y

LEMMA KeptWorks ==
    ASSUME NEW r \in Requests, Working(request[r])
    PROVE  Working(Kept(r))
  BY DEF Working, Kept, Forgotten, At

LEMMA FailedMoves ==
    ASSUME NEW r \in Requests, NEW diagnostics, Working(request[r]),
           Failed(r, diagnostics)
    PROVE  \E x : Moves(r, x)
<1> DEFINE more == [at |-> "failed", diagnostics |-> diagnostics]
           x == With(Kept(r), more)
<1>1. Working(x) /\ x.at = "failed"
  BY KeptWorks, WithWorks
<1>2. request' = [request EXCEPT ![r] = x]
  BY DEF Failed
<1> QED
  BY <1>1, <1>2 DEF Moves

LEMMA ReadMoves ==
    ASSUME NEW r \in Requests, NEW preview, Working(request[r]), Read(r, preview)
    PROVE  \E x : Moves(r, x)
<1> DEFINE more == [at |-> "read", preview |-> preview]
           x == With(Kept(r), more)
<1>1. Working(x) /\ x.at = "read"
  BY KeptWorks, WithWorks
<1>2. request' = [request EXCEPT ![r] = x]
  BY DEF Read
<1> QED
  BY <1>1, <1>2 DEF Moves

LEMMA GoMoves ==
    ASSUME NEW r \in Requests, NEW place, place # "save", DOMAIN request = Requests,
           Working(request[r]), Go(r, place)
    PROVE  \E x : Moves(r, x)
<1> DEFINE x == [request[r] EXCEPT !.at = place]
<1>1. Working(x) /\ x.at = place
  BY DEF Working
<1>2. request' = [request EXCEPT ![r] = x]
  BY DEF Go
<1> QED
  BY <1>1, <1>2 DEF Moves

LEMMA RespondMoves ==
    ASSUME NEW r \in Requests, Respond(r)
    PROVE  \E x : Moves(r, x)
<1>1. Idle.at # "save"
  BY DEF Idle
<1> QED
  BY <1>1 DEF Respond, Moves

LEMMA StartedMoves ==
    ASSUME NEW r \in Requests, NEW purpose, NEW place, NEW more, place # "save",
           DOMAIN more \cap {"at", "purpose", "under"} = {},
           purpose \in {"tab", "seed"} => guard.left = 0,
           Started(r, purpose, place, more)
    PROVE  \E x : Moves(r, x)
<1> DEFINE first == [at |-> place, purpose |-> purpose, diagnostics |-> {},
                     under |-> IF purpose \in {"tab", "seed"} THEN guard.left ELSE 0]
           x == With(first, more)
<1>1. request' = [request EXCEPT ![r] = x]
  BY DEF Started
<1>2. DOMAIN first = {"at", "purpose", "diagnostics", "under"} /\ first.at = place
      /\ first.under = 0
  OBVIOUS
<1> HIDE DEF first
<1>4. /\ DOMAIN x = DOMAIN first \cup DOMAIN more
      /\ \A k \in DOMAIN first \ DOMAIN more : x[k] = first[k]
  BY WithFields
<1> HIDE DEF x
<1>3. Working(x) /\ x.at = place
  BY <1>2, <1>4 DEF Working
<1> QED
  BY <1>1, <1>3 DEF Moves

-----------------------------------------------------------------------------
(* The steps of a request                                                  *)

\* A request that moves, but not to a store, keeps the invariant.
LEMMA MovesKeep ==
    ASSUME CreationInv, NEW r \in Requests, \E x : Moves(r, x), UNCHANGED <<watches, created>>
    PROVE  CreationInv'
<1>1. PICK x : Moves(r, x)
  OBVIOUS
<1>2. \A q \in Requests : request'[q] = IF q = r THEN x ELSE request[q]
  BY <1>1 DEF Moves, CreationInv, RequestsWork
<1>3. RequestsWork'
  BY <1>1, <1>2 DEF Moves, CreationInv, RequestsWork
<1>4. WatchesNumbered'
  BY DEF CreationInv, WatchesNumbered, Numbered, NotKnown
<1>5. SavesCompared'
  BY <1>1, <1>2 DEF CreationInv, SavesCompared, Compared, NotKnown, Moves
<1> QED
  BY <1>3, <1>4, <1>5 DEF CreationInv

\* A request is at work wherever it is but idle.
LEMMA AtWork ==
    ASSUME CreationInv, NEW r \in Requests, request[r].at # "idle"
    PROVE  Working(request[r]) /\ DOMAIN request = Requests
  BY DEF CreationInv, RequestsWork, Idle

LEMMA LookupMoves ==
    ASSUME NEW r \in Requests, NEW purpose, NEW url, NEW more,
           DOMAIN more \cap {"at", "purpose", "under"} = {},
           purpose \in {"tab", "seed"} => guard.left = 0,
           StartLookup(r, purpose, url, more)
    PROVE  \E x : Moves(r, x)
<1> DEFINE first == [url |-> url]
           also == With(first, more)
<1>1. PICK place \in {"attach", "http", "failed"} : Started(r, purpose, place, also)
  BY DEF StartLookup
<1>2. DOMAIN first = {"url"}
  OBVIOUS
<1> HIDE DEF first
<1>3. DOMAIN also = DOMAIN first \cup DOMAIN more
  BY WithFields
<1> HIDE DEF also
<1> QED
  BY <1>1, <1>2, <1>3, StartedMoves

LEMMA PreviewsMove ==
    ASSUME NEW r \in Requests, NEW t, NEW url,
           PreviewTab(r, t) \/ PreviewSeed(r, url)
    PROVE  \E x : Moves(r, x)
<1>1. guard.left = 0
  BY DEF PreviewTab, PreviewSeed, EnsureAllowed
<1>2. CASE PreviewTab(r, t)
  <2>1. Started(r, "tab", "list", [tab |-> t])
    BY <1>2 DEF PreviewTab
  <2> QED
    BY <1>1, <2>1, StartedMoves
<1>3. CASE PreviewSeed(r, url)
  <2>1. StartLookup(r, "seed", url, <<>>)
    BY <1>3 DEF PreviewSeed
  <2> QED
    BY <1>1, <2>1, LookupMoves
<1> QED
  BY <1>2, <1>3

LEMMA SubmitMoves ==
    ASSUME NEW r \in Requests, NEW form, NEW choice, SubmitForm(r, form, choice)
    PROVE  \E x : Moves(r, x)
<1> DEFINE cached == Entry(form.key).preview
           chosen == [form |-> form, key |-> form.key, seed |-> form.preview.url,
                      choice |-> choice, gone |-> Gone(form)]
<1>1. \/ Started(r, "create", "read", With([preview |-> cached], chosen))
      \/ Started(r, "create", "list", With([tab |-> form.preview.tab], chosen))
      \/ StartLookup(r, "create", form.preview.url, chosen)
  BY DEF SubmitForm
<1>2. DOMAIN chosen = {"form", "key", "seed", "choice", "gone"}
  OBVIOUS
<1> HIDE DEF chosen, cached
<1>3. ASSUME NEW first, DOMAIN first \in {{"preview"}, {"tab"}}
      PROVE  DOMAIN With(first, chosen) \cap {"at", "purpose", "under"} = {}
  <2>1. DOMAIN With(first, chosen) = DOMAIN first \cup DOMAIN chosen
    BY WithFields
  <2> QED
    BY <1>2, <1>3, <2>1
<1>4. DOMAIN [preview |-> cached] = {"preview"} /\ DOMAIN [tab |-> form.preview.tab] = {"tab"}
  OBVIOUS
<1>5. CASE Started(r, "create", "read", With([preview |-> cached], chosen))
  BY <1>3, <1>4, <1>5, StartedMoves
<1>6. CASE Started(r, "create", "list", With([tab |-> form.preview.tab], chosen))
  BY <1>3, <1>4, <1>6, StartedMoves
<1>7. CASE StartLookup(r, "create", form.preview.url, chosen)
  BY <1>2, <1>7, LookupMoves
<1> QED
  BY <1>1, <1>5, <1>6, <1>7

LEMMA TabThreadsMove ==
    ASSUME CreationInv, NEW r \in Requests, ReadTab(r)
    PROVE  \E x : Moves(r, x)
<1> USE DEF At
<1>1. CASE FindTab(r)
  BY <1>1, AtWork, GoMoves, FailedMoves DEF FindTab
<1>2. CASE ReadContent(r)
  <2>1. Working(request[r])
    BY <1>2, AtWork DEF ReadContent
  <2>2. ASSUME NEW source, request' = [request EXCEPT ![r] = ReadFrom(r, source)]
        PROVE  \E x : Moves(r, x)
    <3> DEFINE more == [at |-> "url", source |-> source]
               y == With(request[r], more)
    <3>1. Working(y) /\ y.at = "url"
      BY <2>1, WithWorks
    <3> QED
      BY <2>2, <3>1 DEF Moves, ReadFrom
  <2> QED
    BY <1>2, <2>1, <2>2, FailedMoves DEF ReadContent
<1>3. CASE ReadUrl(r)
  BY <1>3, AtWork, ReadMoves, FailedMoves DEF ReadUrl
<1> QED
  BY <1>1, <1>2, <1>3 DEF ReadTab

LEMMA FoundMoves ==
    ASSUME NEW r \in Requests, NEW source, NEW torn, Working(request[r]),
           Found(r, source, torn)
    PROVE  \E x : Moves(r, x)
  BY FailedMoves, ReadMoves DEF Found

LEMMA SeedThreadsMove ==
    ASSUME CreationInv, NEW r \in Requests, LookUp(r)
    PROVE  \E x : Moves(r, x)
<1> USE DEF At
<1>1. CASE FetchHttp(r)
  <2>1. Working(request[r])
    BY <1>1, AtWork DEF FetchHttp
  <2>2. CASE request' = [request EXCEPT ![r].at = "attach", ![r].diagnostics = {"http_403"}]
    <3> DEFINE y == [[request[r] EXCEPT !.at = "attach"] EXCEPT !.diagnostics = {"http_403"}]
    <3>1. Working(y) /\ y.at = "attach"
      BY <2>1 DEF Working
    <3>2. request' = [request EXCEPT ![r] = y]
      BY <2>2 DEF CreationInv, RequestsWork
    <3> QED
      BY <3>1, <3>2 DEF Moves
  <2> QED
    BY <1>1, <2>1, <2>2, FoundMoves, FailedMoves DEF FetchHttp
<1>2. CASE AttachChrome(r)
  <2>1. Working(request[r])
    BY <1>2, AtWork DEF AttachChrome
  <2>2. PICK t : request' = [request EXCEPT ![r] =
                   With(request[r], [at |-> "look", tab |-> t])]
    BY <1>2 DEF AttachChrome
  <2> DEFINE more == [at |-> "look", tab |-> t]
             y == With(request[r], more)
  <2>3. Working(y) /\ y.at = "look"
    BY <2>1, WithWorks
  <2> QED
    BY <2>2, <2>3 DEF Moves
<1>3. CASE LookAtContent(r)
  <2>1. Working(request[r])
    BY <1>3, AtWork DEF LookAtContent
  <2>2. PICK source, page : request' = [request EXCEPT ![r] =
                   With(request[r], [at |-> "ready", source |-> source, page |-> page])]
    BY <1>3 DEF LookAtContent
  <2> DEFINE more == [at |-> "ready", source |-> source, page |-> page]
             y == With(request[r], more)
  <2>3. Working(y) /\ y.at = "ready"
    BY <2>1, WithWorks
  <2> QED
    BY <2>2, <2>3 DEF Moves
<1>4. CASE LookAtUrl(r)
  BY <1>4, AtWork, GoMoves, FoundMoves DEF LookAtUrl
<1>5. CASE GiveUp(r)
  BY <1>5, AtWork, FailedMoves DEF GiveUp
<1> QED
  BY <1>1, <1>2, <1>3, <1>4, <1>5 DEF LookUp

LEMMA AnswersMove ==
    ASSUME CreationInv, NEW r \in Requests,
           \/ ShowPreview(r) \/ ShowError(r) \/ EndFallback(r)
           \/ TimeOut(r)
    PROVE  \E x : Moves(r, x)
<1>1. ASSUME StartLookup(r, "fallback", request[r].seed, <<>>)
      PROVE  \E x : Moves(r, x)
  BY <1>1, LookupMoves
<1> QED
  BY <1>1, RespondMoves DEF ShowPreview, ShowError, EndFallback,
     TimeOut

\* The comparison with the stored watches.
LEMMA FindExistingKeeps ==
    ASSUME CreationInv, NEW r \in Requests, FindExisting(r)
    PROVE  CreationInv'
<1> DEFINE target == TargetOf(request[r].preview, request[r].choice)
           others == {w.id : w \in watches}
           more == [at |-> "save", target |-> target, known |-> others]
           y == With(request[r], more)
<1>1. Working(request[r]) /\ DOMAIN request = Requests
  BY AtWork DEF FindExisting, At
<1>2. UNCHANGED <<watches, created>>
  BY DEF FindExisting, Workflow
<1>3. CASE Failed(r, {})
  BY <1>1, <1>2, <1>3, FailedMoves, MovesKeep
<1>4. CASE request' = [request EXCEPT ![r] = y] /\ SameTarget(target) = {}
  <2>1. Working(y)
    BY <1>1, WithWorks
  <2>2. {"target", "known"} \subseteq DOMAIN y /\ y.target = target /\ y.known = others
    <3>1. DOMAIN more = {"at", "target", "known"} /\ more.target = target /\ more.known = others
      OBVIOUS
    <3> HIDE DEF more
    <3>2. DOMAIN y = DOMAIN request[r] \cup DOMAIN more /\ \A k \in DOMAIN more : y[k] = more[k]
      BY ZenonT(40), WithFields
    <3> HIDE DEF y
    <3> QED
      BY <3>1, <3>2
  <2> HIDE DEF y
  <2>3. \A w \in watches : w.target # target
    BY <1>4 DEF SameTarget
  <2>4. others \subseteq 1..created
    BY DEF CreationInv, WatchesNumbered, Numbered
  <2>5. \A q \in Requests : request'[q] = IF q = r THEN y ELSE request[q]
    BY <1>1, <1>4
  <2>6. RequestsWork'
    BY <1>1, <1>4, <2>1, <2>5 DEF RequestsWork, CreationInv
  <2>7. WatchesNumbered'
    BY <1>2 DEF CreationInv, WatchesNumbered, Numbered, NotKnown
  <2>8. SavesCompared'
    BY <1>2, <2>2, <2>3, <2>4, <2>5 DEF CreationInv, SavesCompared, Compared, NotKnown
  <2> QED
    BY <2>6, <2>7, <2>8 DEF CreationInv
<1> QED
  BY <1>3, <1>4 DEF FindExisting

\* The store: the new watch has the next id, which no request knows yet.
LEMMA SaveWatchKeeps ==
    ASSUME CreationInv, NEW r \in Requests, SaveWatch(r)
    PROVE  CreationInv'
<1> DEFINE new == [id |-> created + 1, target |-> request[r].target, known |-> request[r].known,
                   form |-> request[r].form, gone |-> request[r].gone,
                   draft |-> None, price |-> None]
           more == [at |-> "draft", id |-> created + 1]
           y == With(Kept(r), more)
<1>1. /\ request[r].at = "save" /\ created' = created + 1
      /\ watches' = watches \cup {new} /\ request' = [request EXCEPT ![r] = y]
  BY DEF SaveWatch, At
<1>2. Working(request[r]) /\ DOMAIN request = Requests
  BY <1>1, AtWork
<1>3. Working(y) /\ y.at = "draft"
  BY <1>2, KeptWorks, WithWorks
<1>4. DOMAIN new = {"id", "target", "known", "form", "gone", "draft", "price"} /\ new.id = created + 1
      /\ new.target = request[r].target /\ new.known = request[r].known
  OBVIOUS
<1> HIDE DEF new, more, y
<1>5. created \in Nat
  BY DEF CreationInv, WatchesNumbered
<1>6. \A q \in Requests : request'[q] = IF q = r THEN y ELSE request[q]
  BY <1>1, <1>2
<1>7. RequestsWork'
  BY <1>1, <1>2, <1>3, <1>6 DEF RequestsWork, CreationInv
<1>8. new.known \subseteq 1..created /\ NotKnown(new.target, new.known)
  BY <1>1, <1>4 DEF CreationInv, SavesCompared, Compared
<1>9. WatchesNumbered'
  <2>1. \A w \in watches : Numbered(w) /\ w.known \subseteq 1..(w.id - 1) /\ NotKnown(w.target, w.known)
    BY DEF CreationInv, WatchesNumbered
  <2>2. \A w \in watches : new.id \notin w.known
    BY <1>4, <1>5, <2>1 DEF Numbered
  <2>3. /\ {"id", "target", "known"} \subseteq DOMAIN new /\ new.id \in 1..created'
        /\ new.known \subseteq 1..(new.id - 1) /\ new.id \notin new.known
    <3>1. new.id - 1 = created
      BY <1>4, <1>5
    <3>2. new.known \subseteq 1..(new.id - 1)
      BY <1>8, <3>1
    <3>3. new.id \notin new.known
      BY <1>4, <1>5, <1>8
    <3>4. {"id", "target", "known"} \subseteq DOMAIN new /\ new.id \in 1..created'
      BY <1>1, <1>4, <1>5
    <3> QED
      BY <3>2, <3>3, <3>4
  <2>4. \A w \in watches : Numbered(w)'
    BY <1>1, <1>5, <2>1 DEF Numbered
  <2>5. \A w \in watches' : NotKnown(w.target, w.known)'
    BY <1>1, <1>8, <2>1, <2>2, <2>3 DEF NotKnown
  <2>6. \A w \in watches' : Numbered(w)' /\ w.known \subseteq 1..(w.id - 1)
    BY <1>1, <2>1, <2>3, <2>4 DEF Numbered
  <2>7. created' \in Nat
    BY <1>1, <1>5
  <2> QED
    BY <2>5, <2>6, <2>7 DEF WatchesNumbered
<1>10. SavesCompared'
  <2>1. ASSUME NEW q \in Requests, request'[q].at = "save" PROVE Compared(request[q])'
    <3>1. q # r /\ request'[q] = request[q]
      BY <1>3, <1>6, <2>1
    <3>2. Compared(request[q])
      BY DEF CreationInv, SavesCompared
    <3>3. new.id \notin request[q].known
      BY <1>4, <1>5, <2>1, <3>1, <3>2 DEF Compared
    <3> QED
      BY <1>1, <1>5, <2>1, <3>1, <3>2, <3>3 DEF Compared, NotKnown
  <2> QED
    BY <2>1 DEF SavesCompared, Compared
<1> QED
  BY <1>7, <1>9, <1>10 DEF CreationInv

\* A stored watch may be lost, or come to know its draft or its price; its id,
\* its target and the watches it was compared with stay.
Descends ==
    /\ created' = created
    /\ \A w \in watches' : \E u \in watches :
          /\ Numbered(u) => Numbered(w)
          /\ w.id = u.id /\ w.target = u.target /\ w.known = u.known

LEMMA DescentKeeps ==
    ASSUME CreationInv, Descends, NEW r \in Requests, \E x : Moves(r, x)
    PROVE  CreationInv'
<1>1. PICK x : Moves(r, x)
  OBVIOUS
<1>2. \A q \in Requests : request'[q] = IF q = r THEN x ELSE request[q]
  BY <1>1 DEF Moves, CreationInv, RequestsWork
<1>3. RequestsWork'
  BY <1>1, <1>2 DEF Moves, CreationInv, RequestsWork
<1>4. \A target, others : NotKnown(target, others) => NotKnown(target, others)'
  BY DEF Descends, NotKnown
<1>5. WatchesNumbered'
  <2>1. created' \in Nat
    BY DEF CreationInv, WatchesNumbered, Descends
  <2>2. \A w \in watches' : Numbered(w)' /\ w.known \subseteq 1..(w.id - 1)
    BY DEF CreationInv, WatchesNumbered, Descends, Numbered
  <2>3. \A w \in watches' : NotKnown(w.target, w.known)'
    BY <1>4 DEF CreationInv, WatchesNumbered, Descends
  <2> QED
    BY <2>1, <2>2, <2>3 DEF WatchesNumbered
<1>6. SavesCompared'
  <2>1. ASSUME NEW q \in Requests, request'[q].at = "save" PROVE Compared(request[q])'
    <3>1. request'[q] = request[q] /\ Compared(request[q])
      BY <1>1, <1>2, <2>1 DEF Moves, CreationInv, SavesCompared
    <3>2. NotKnown(request[q].target, request[q].known)
      BY <2>1, <3>1 DEF Compared
    <3>3. NotKnown(request[q].target, request[q].known)'
      BY <3>1, <3>2 DEF Descends, NotKnown
    <3> QED
      BY <2>1, <3>1, <3>3 DEF Compared, Descends
  <2> QED
    BY <2>1 DEF SavesCompared, Compared
<1> QED
  BY <1>3, <1>5, <1>6 DEF CreationInv

LEMMA UpdateDescends ==
    ASSUME CreationInv, NEW r \in Requests, NEW more, DOMAIN more \in {{"draft"}, {"price"}},
           watches' = Updated(r, more), created' = created
    PROVE  Descends
<1>1. ASSUME NEW u, NEW w, w = With(u, more), Numbered(u)
      PROVE  Numbered(w) /\ w.id = u.id /\ w.target = u.target /\ w.known = u.known
  <2>1. /\ DOMAIN w = DOMAIN u \cup DOMAIN more
        /\ \A k \in DOMAIN u \ DOMAIN more : w[k] = u[k]
    BY <1>1, WithFields
  <2> QED
    BY <1>1, <2>1 DEF Numbered
<1>2. \A u \in watches : Numbered(u)
  BY DEF CreationInv, WatchesNumbered
<1> QED
  BY <1>1, <1>2 DEF Descends, Updated, Mine

\* Draft and price, the deletion of a watch.
LEMMA SaveDraftKeeps ==
    ASSUME CreationInv, NEW r \in Requests, SaveDraft(r)
    PROVE  CreationInv'
<1>1. Working(request[r]) /\ DOMAIN request = Requests
  BY AtWork DEF SaveDraft, At
<1>2. \E x : Moves(r, x)
  BY <1>1, GoMoves, FailedMoves DEF SaveDraft
<1> DEFINE more == [draft |-> request[r].preview.url]
<1>3. watches' = Updated(r, more) /\ created' = created
  BY DEF SaveDraft
<1>4. DOMAIN more = {"draft"}
  OBVIOUS
<1> HIDE DEF more
<1> QED
  BY <1>2, <1>3, <1>4, UpdateDescends, DescentKeeps

LEMMA PersistInitialKeeps ==
    ASSUME CreationInv, NEW r \in Requests, PersistInitial(r)
    PROVE  CreationInv'
<1>1. Working(request[r]) /\ DOMAIN request = Requests
  BY AtWork DEF PersistInitial, At
<1>2. \E x : Moves(r, x)
  BY <1>1, RespondMoves, FailedMoves DEF PersistInitial
<1>3. PICK snapshot : \/ watches' = Updated(r, [price |-> snapshot])
                      \/ UNCHANGED watches
  BY DEF PersistInitial
<1>4. created' = created
  BY DEF PersistInitial
<1>5. CASE UNCHANGED watches
  BY <1>2, <1>4, <1>5, MovesKeep
<1>6. CASE watches' = Updated(r, [price |-> snapshot])
  <2> DEFINE more == [price |-> snapshot]
  <2>1. DOMAIN more = {"price"} /\ watches' = Updated(r, more)
    BY <1>6
  <2> HIDE DEF more
  <2> QED
    BY <1>2, <1>4, <2>1, UpdateDescends, DescentKeeps
<1> QED
  BY <1>3, <1>5, <1>6

\* A deletion, and a restart, which forgets the requests.
LEMMA DeleteKeeps ==
    ASSUME CreationInv, NEW w \in watches, Delete(w)
    PROVE  CreationInv'
<1>1. UNCHANGED <<request, created>> /\ watches' \subseteq watches
  BY DEF Delete
<1> QED
  BY <1>1 DEF CreationInv, RequestsWork, Working, WatchesNumbered, Numbered, NotKnown,
     SavesCompared, Compared

LEMMA RestartKeeps ==
    ASSUME CreationInv, Restart
    PROVE  CreationInv'
<1>1. UNCHANGED <<watches, created>> /\ request' = [r \in Requests |-> Idle]
  BY DEF Restart
<1>2. RequestsWork' /\ SavesCompared'
  BY <1>1 DEF RequestsWork, SavesCompared, Compared, Idle
<1>3. WatchesNumbered'
  BY <1>1 DEF CreationInv, WatchesNumbered, Numbered, NotKnown
<1> QED
  BY <1>2, <1>3 DEF CreationInv

LEMMA RequestKeeps ==
    ASSUME CreationInv, NEW r \in Requests, Step(r)
    PROVE  CreationInv'
<1>1. ASSUME \E x : Moves(r, x), UNCHANGED <<watches, created>> PROVE CreationInv'
  BY <1>1, MovesKeep
<1>2. ASSUME NEW t, NEW url, PreviewTab(r, t) \/ PreviewSeed(r, url)
      PROVE  CreationInv'
  BY <1>1, <1>2, PreviewsMove DEF PreviewTab, PreviewSeed, Workflow
<1>3. ASSUME NEW form, NEW choice, SubmitForm(r, form, choice) PROVE CreationInv'
  BY <1>1, <1>3, SubmitMoves DEF SubmitForm, Workflow
<1>4. CASE ReadTab(r)
  BY <1>1, <1>4, TabThreadsMove DEF ReadTab
<1>5. CASE LookUp(r)
  BY <1>1, <1>5, SeedThreadsMove DEF LookUp
<1>6. CASE ShowPreview(r) \/ ShowError(r) \/ EndFallback(r)
           \/ TimeOut(r)
  BY <1>1, <1>6, AnswersMove DEF ShowPreview, ShowError,
     EndFallback, TimeOut, Workflow
<1>7. CASE FindExisting(r) \/ SaveWatch(r) \/ SaveDraft(r)
           \/ PersistInitial(r)
  BY <1>7, FindExistingKeeps, SaveWatchKeeps, SaveDraftKeeps, PersistInitialKeeps
<1> QED
  BY <1>2, <1>3, <1>4, <1>5, <1>6, <1>7 DEF Step

\* The invariant holds at the start, and every step keeps it.
LEMMA InitCreation == Init => CreationInv
  BY DEF Init, CreationInv, RequestsWork, WatchesNumbered, SavesCompared, Compared,
     Idle

LEMMA NextCreation == CreationInv /\ [Next]_vars => CreationInv'
<1> SUFFICES ASSUME CreationInv, [Next]_vars PROVE CreationInv'
  OBVIOUS
<1>1. CASE UNCHANGED <<request, watches, created>>
  BY <1>1 DEF CreationInv, RequestsWork, Working, WatchesNumbered, Numbered, NotKnown,
     SavesCompared, Compared
<1>2. CASE Tick \/ Browse \/ UNCHANGED vars
  BY <1>1, <1>2 DEF Tick, Browse, vars
<1> QED
  BY <1>2, RequestKeeps, DeleteKeeps, RestartKeeps DEF Next

\* The inductive invariant of the creation holds of every reachable state.
THEOREM CreationInductive == Spec => []CreationInv
  BY InitCreation, NextCreation, PTL DEF Spec

\* Two watches with one target did not know of one another: a watch is compared with
\* all that are stored, and one stored since then has an id it does not know.
THEOREM Compares == Spec => []OneWatchPerTarget
<1>1. CreationInv => OneWatchPerTarget
  BY DEF CreationInv, WatchesNumbered, NotKnown, OneWatchPerTarget
<1> QED
  BY CreationInductive, <1>1, PTL

\* Only the result of a preview that was let in when there was no cooldown, a tick or
\* a restart touches the cooldown of a 403: no creation does, nor its error page.
THEOREM CooldownHeld == Spec => GuardHeld
<1> DEFINE Held ==
      guard.reason = "blocked" =>
         \/ guard' \in {guard, OneTickLess}
         \/ Restart
         \/ \E r \in Requests :
               /\ request[r] # Idle /\ request'[r] = Idle
               /\ request[r].purpose \in {"tab", "seed"} /\ request[r].under = 0
<1>1. CreationInv /\ [Next]_vars => [Held]_vars
  <2> SUFFICES ASSUME CreationInv, Next, guard' # guard, ~Restart,
                      guard' # OneTickLess
               PROVE  \E r \in Requests :
                         /\ request[r] # Idle /\ request'[r] = Idle
                         /\ request[r].purpose \in {"tab", "seed"} /\ request[r].under = 0
    BY SMTT(30)
  <2>1. PICK r \in Requests : ShowPreview(r) \/ ShowError(r)
    BY ZenonT(40) DEF Next, Step, Tick, Browse,
       Delete, PreviewTab, PreviewSeed, SubmitForm,
       ReadTab, TimeOut, LookUp, EndFallback,
       FindExisting, SaveWatch, SaveDraft, PersistInitial
  <2>2. request[r].at # "idle" /\ Respond(r) /\ request[r].purpose \in {"tab", "seed"}
    BY <2>1 DEF ShowPreview, ShowError, At
  <2>3. Working(request[r]) /\ DOMAIN request = Requests
    BY <2>2, AtWork
  <2>4. request[r] # Idle /\ request'[r] = Idle
    BY <2>2, <2>3 DEF Respond, Idle
  <2> QED
    BY <2>2, <2>3, <2>4 DEF Working
<1> QED
  BY CreationInductive, <1>1, PTL DEF Spec, GuardHeld

-----------------------------------------------------------------------------
(* What a watch is for                                                     *)

\* The forms with a preview of a tab have each a key of their own.
FormsKeyed ==
    /\ IsFiniteSet(forms)
    /\ \A form \in forms : form.key = None => form.preview.tab = None
    /\ \A form \in forms : form.key \in {None} \cup 1..Cardinality(forms)
    /\ \A f, g \in forms : f.key = g.key /\ f.key # None => f = g
    /\ lost \subseteq {form.key : form \in forms}

\* The cache holds such forms, each once and none older than a restart, and those
\* it does not hold have gone.
InCache(form) == \E i \in 1..Len(cache) : cache[i] = form
CacheHolds ==
    /\ cache \in Seq(forms)
    /\ \A i \in 1..Len(cache) : cache[i].key \notin {None} \cup lost
    /\ \A i, j \in 1..Len(cache) : cache[i] = cache[j] => i = j
    /\ \A form \in forms : form.key # None => InCache(form) \/ Gone(form)

\* A creation goes by what its form showed unless its preview had gone when it
\* began; only then it reads a tab again.
TabPlaces == {"list", "content", "url"}
SeedPlaces == {"http", "attach", "look", "ready"}
Follows(x) ==
    /\ x.at \in TabPlaces \cup SeedPlaces \cup {"read", "save"} => {"form", "gone"} \subseteq DOMAIN x
    /\ x.at \in TabPlaces => x.gone
    /\ x.at \in SeedPlaces => x.url = x.form.preview.url
    /\ x.at = "read" => x.gone \/ x.preview.url = x.form.preview.url
    /\ x.at = "save" => x.gone \/ x.target = TargetOf(x.form.preview, x.target)

\* Where a request of each purpose can be, and what it has found there.
Traced(x) ==
    /\ x.at \in SeedPlaces => "url" \in DOMAIN x
    /\ x.at \in TabPlaces => x.purpose \notin {"seed", "fallback"}
    /\ x.at = "read" /\ x.purpose \in {"seed", "fallback"} => x.preview.tab = None
    /\ x.at = "save" => x.purpose = "create"
    /\ x.purpose = "create" => Follows(x)

RequestsTraced == \A r \in Requests : Traced(request[r])
FormsKept == \A w \in watches : {"form", "gone"} \subseteq DOMAIN w

\* The inductive invariant of what a watch is for.
ShownInv == /\ CreationInv /\ FormsKeyed /\ CacheHolds /\ RequestsTraced
            /\ FormsKept /\ WatchAsShown

-----------------------------------------------------------------------------
\* A preview that has gone stays so: forms and used keys are only added, and a
\* restart loses the previews of all the forms there are.
Onwards ==
    /\ IsFiniteSet(forms') /\ forms \subseteq forms'
    /\ used \subseteq used'
    /\ \/ lost' = lost
       \/ \A form \in forms : form.key \in lost'

LEMMA GoneLasts ==
    ASSUME Onwards, NEW form \in forms, Gone(form)
    PROVE  Gone(form)'
<1>1. form.key # None
  BY DEF Gone
<1>2. CASE form.key \in used \/ form.key \in lost'
  BY <1>1, <1>2 DEF Gone, Onwards
<1>3. CASE lost' = lost /\ form.key \notin used \cup lost
  <2> DEFINE S == {f \in forms : f.key \notin {None, form.key} \cup lost}
             T == {f \in forms' : f.key \notin {None, form.key} \cup lost}
  <2>1. S \subseteq T /\ IsFiniteSet(T)
    BY FS_Subset DEF Onwards
  <2>2. Cardinality(S) <= Cardinality(T) /\ Cardinality(S) \in Nat /\ Cardinality(T) \in Nat
    BY <2>1, FS_Subset, FS_CardinalityType
  <2>3. Cardinality(S) >= MaxSize /\ \E f \in S : f.key > form.key
    BY <1>3 DEF Gone
  <2>4. T = {f \in forms' : f.key \notin {None, form.key} \cup lost'}
    BY <1>3
  <2> HIDE DEF S, T
  <2>5. Cardinality(T) >= MaxSize /\ \E f \in T : f.key > form.key
    BY <2>1, <2>2, <2>3, WatchCreationAssumption
  <2> QED
    BY <1>1, <2>4, <2>5 DEF Gone
<1> QED
  BY <1>2, <1>3 DEF Onwards, Gone

\* What a request has found stays true of it.
LEMMA TraceLasts ==
    ASSUME ShownInv, NEW q \in Requests, request'[q] = request[q]
    PROVE  Traced(request[q])'
<1>1. Traced(request[q])
  BY DEF ShownInv, RequestsTraced
<1> QED
  BY <1>1 DEF Traced, Follows, TargetOf, Drafts
-----------------------------------------------------------------------------
(* The steps of a request that leave forms, cache and watches alone        *)

\* A request goes on with x.
Becomes(r, x) == request' = [request EXCEPT ![r] = x]
TracesOn(r) == \E x : Becomes(r, x) /\ Traced(x)

LEMMA TracesKept ==
    ASSUME ShownInv, NEW r \in Requests, TracesOn(r)
    PROVE  RequestsTraced'
<1>1. PICK x : Becomes(r, x) /\ Traced(x)
  BY DEF TracesOn
<1>2. \A q \in Requests : request'[q] = IF q = r THEN x ELSE request[q]
  BY <1>1 DEF Becomes, ShownInv, CreationInv, RequestsWork
<1>3. ASSUME NEW q \in Requests PROVE Traced(request[q])'
  <2>1. CASE q # r
    BY <1>2, <2>1, TraceLasts
  <2>2. CASE q = r
    <3>1. request'[q] = x
      BY <1>2, <2>2
    <3>2. Follows(x) => Follows(request[q])'
      BY <3>1 DEF Follows, TargetOf, Drafts
    <3> QED
      BY <1>1, <3>1, <3>2 DEF Traced
  <2> QED
    BY <2>1, <2>2
<1> QED
  BY <1>3 DEF RequestsTraced

\* Without a new form, and but for the cache, the rest stays true.
LEMMA FormsStill ==
    ASSUME ShownInv, UNCHANGED <<forms, lost>>
    PROVE  FormsKeyed'
  BY DEF ShownInv, FormsKeyed

LEMMA CacheStill ==
    ASSUME ShownInv, Onwards, UNCHANGED <<forms, cache, lost>>
    PROVE  CacheHolds'
<1>1. \A form \in forms : Gone(form) => Gone(form)'
  BY GoneLasts
<1> QED
  BY <1>1 DEF ShownInv, CacheHolds, InCache

LEMMA WatchesStill ==
    ASSUME ShownInv, UNCHANGED watches
    PROVE  FormsKept' /\ WatchAsShown'
  BY DEF ShownInv, FormsKept, WatchAsShown, TargetOf, Drafts

\* What UNCHANGED says of the step.
LEMMA StillOnwards ==
    ASSUME ShownInv, UNCHANGED <<forms, lost>>, used \subseteq used'
    PROVE  Onwards
  BY DEF ShownInv, FormsKeyed, Onwards

LEMMA MoveShown ==
    ASSUME ShownInv, CreationInv', NEW r \in Requests, TracesOn(r),
           UNCHANGED <<forms, cache, watches, Keys>>
    PROVE  ShownInv'
<1>1. Onwards
  BY StillOnwards DEF Keys
<1> QED
  BY <1>1, TracesKept, FormsStill, CacheStill, WatchesStill DEF ShownInv, Keys

-----------------------------------------------------------------------------
\* What is idle or failed has nothing to follow.
LEMMA Nothing ==
    ASSUME NEW x, x.at \in {"idle", "failed"}
    PROVE  Traced(x)
  BY DEF Traced, Follows, TabPlaces, SeedPlaces

LEMMA RespondTraces ==
    ASSUME NEW r \in Requests, Respond(r)
    PROVE  TracesOn(r)
<1>1. Idle.at = "idle"
  BY DEF Idle
<1>2. Traced(Idle)
  BY <1>1, Nothing
<1>3. Becomes(r, Idle)
  BY DEF Respond, Becomes
<1> QED
  BY <1>2, <1>3 DEF TracesOn

LEMMA FailedTraces ==
    ASSUME NEW r \in Requests, NEW diagnostics, Failed(r, diagnostics)
    PROVE  TracesOn(r)
<1> DEFINE more == [at |-> "failed", diagnostics |-> diagnostics]
           x == With(Kept(r), more)
<1>1. DOMAIN more = {"at", "diagnostics"} /\ more.at = "failed"
  OBVIOUS
<1>2. Becomes(r, x)
  BY DEF Failed, Becomes
<1> HIDE DEF more
<1>3. \A k \in DOMAIN more : x[k] = more[k]
  BY ZenonT(40), WithFields
<1> HIDE DEF x
<1>4. x.at = "failed"
  BY <1>1, <1>3
<1> QED
  BY <1>2, <1>4, Nothing DEF TracesOn

\* A thread returns with a preview of the URL its form showed, unless that of the
\* form had gone.
LEMMA ReadTraces ==
    ASSUME ShownInv, NEW r \in Requests, NEW preview, Read(r, preview),
           request[r].at \in TabPlaces \cup SeedPlaces,
           request[r].purpose \in {"seed", "fallback"} => preview.tab = None,
           request[r].purpose = "create" =>
               \/ request[r].gone
               \/ preview.url = request[r].form.preview.url
    PROVE  TracesOn(r)
<1> DEFINE more == [at |-> "read", preview |-> preview]
           x == With(Kept(r), more)
<1>1. DOMAIN more = {"at", "preview"} /\ more.at = "read" /\ more.preview = preview
  OBVIOUS
<1>2. Becomes(r, x)
  BY DEF Read, Becomes
<1> HIDE DEF more
<1>3. /\ DOMAIN x = DOMAIN Kept(r) \cup DOMAIN more
      /\ \A k \in DOMAIN more : x[k] = more[k]
      /\ \A k \in DOMAIN Kept(r) \ DOMAIN more : x[k] = Kept(r)[k]
  BY WithFields
<1> HIDE DEF x
<1>4. /\ DOMAIN x = DOMAIN Kept(r) \cup {"at", "preview"}
      /\ x.at = "read" /\ x.preview = preview
      /\ \A k \in DOMAIN Kept(r) \ {"at", "preview"} : x[k] = Kept(r)[k]
  BY <1>1, <1>3
<1>5. Working(request[r])
  BY AtWork DEF ShownInv, TabPlaces, SeedPlaces
<1>6. /\ "purpose" \in DOMAIN Kept(r) /\ Kept(r).purpose = request[r].purpose
      /\ \A k \in {"form", "gone"} : k \in DOMAIN request[r] =>
            k \in DOMAIN Kept(r) /\ Kept(r)[k] = request[r][k]
  BY <1>5 DEF Kept, Forgotten, At, Working, TabPlaces, SeedPlaces
<1>7. request[r].purpose = "create" => {"form", "gone"} \subseteq DOMAIN request[r]
  BY DEF ShownInv, RequestsTraced, Traced, Follows
<1>8. x.purpose = request[r].purpose
  BY <1>4, <1>6
<1>9. x.purpose = "create" => /\ {"form", "gone"} \subseteq DOMAIN x
                             /\ x.form = request[r].form /\ x.gone = request[r].gone
  BY <1>4, <1>6, <1>7, <1>8
<1>10. Traced(x)
  BY <1>4, <1>8, <1>9 DEF Traced, Follows, TabPlaces, SeedPlaces
<1> QED
  BY <1>2, <1>10 DEF TracesOn

\* A thread that goes on, to a place of the same kind, knows what it knew.
LEMMA WithTraces ==
    ASSUME ShownInv, NEW r \in Requests, NEW more,
           Becomes(r, With(request[r], more)),
           "at" \in DOMAIN more, DOMAIN more \cap {"purpose", "form", "gone", "url"} = {},
           \/ request[r].at \in TabPlaces /\ more.at \in TabPlaces
           \/ request[r].at \in SeedPlaces /\ more.at \in SeedPlaces
    PROVE  TracesOn(r)
<1> DEFINE x == With(request[r], more)
<1>1. /\ DOMAIN x = DOMAIN request[r] \cup DOMAIN more
      /\ \A k \in DOMAIN more : x[k] = more[k]
      /\ \A k \in DOMAIN request[r] \ DOMAIN more : x[k] = request[r][k]
  BY WithFields
<1> HIDE DEF x
<1>2. /\ DOMAIN x = DOMAIN request[r] \cup DOMAIN more /\ x.at = more.at
      /\ \A k \in DOMAIN request[r] \ DOMAIN more : x[k] = request[r][k]
  BY <1>1
<1>3. Working(request[r])
  BY AtWork DEF ShownInv, TabPlaces, SeedPlaces
<1>4. Traced(request[r])
  BY DEF ShownInv, RequestsTraced
<1>5. x.purpose = request[r].purpose
  BY <1>2, <1>3 DEF Working
<1>6. \A k \in {"form", "gone", "url"} : k \in DOMAIN request[r] =>
          k \in DOMAIN x /\ x[k] = request[r][k]
  BY <1>2
<1>7. Traced(x)
  BY <1>2, <1>4, <1>5, <1>6 DEF Traced, Follows, TabPlaces, SeedPlaces
<1> QED
  BY <1>7 DEF TracesOn, x

LEMMA GoTraces ==
    ASSUME ShownInv, NEW r \in Requests, NEW place, Go(r, place),
           \/ request[r].at \in TabPlaces /\ place \in TabPlaces
           \/ request[r].at \in SeedPlaces /\ place \in SeedPlaces
           \/ request[r].at = "draft" /\ place = "initial"
    PROVE  TracesOn(r)
<1> DEFINE x == [request[r] EXCEPT !.at = place]
<1>1. Working(request[r]) /\ DOMAIN request = Requests
  BY AtWork DEF ShownInv, TabPlaces, SeedPlaces
<1>2. Becomes(r, x)
  BY <1>1 DEF Go, Becomes
<1>3. /\ DOMAIN x = DOMAIN request[r] /\ x.at = place
      /\ \A k \in DOMAIN request[r] \ {"at"} : x[k] = request[r][k]
  BY <1>1 DEF Working
<1> HIDE DEF x
<1>4. Traced(request[r])
  BY DEF ShownInv, RequestsTraced
<1>5. x.purpose = request[r].purpose
  BY <1>1, <1>3 DEF Working
<1>6. \A k \in {"form", "gone", "url"} : k \in DOMAIN request[r] =>
          k \in DOMAIN x /\ x[k] = request[r][k]
  BY <1>3
<1>7. Traced(x)
  BY <1>3, <1>4, <1>5, <1>6 DEF Traced, Follows, TabPlaces, SeedPlaces
<1> QED
  BY <1>2, <1>7 DEF TracesOn

\* A new piece of work: a creation knows its form, and the URL it looks up is
\* that of the form.
LEMMA StartedTraces ==
    ASSUME NEW r \in Requests, NEW purpose, NEW place, NEW more,
           Started(r, purpose, place, more),
           DOMAIN more \cap {"at", "purpose", "diagnostics", "under"} = {},
           place \in {"list", "attach", "http", "read", "failed"},
           place \in {"attach", "http"} => "url" \in DOMAIN more,
           place = "list" => purpose \notin {"seed", "fallback"},
           place = "read" => purpose = "create",
           purpose = "create" => {"form", "gone"} \subseteq DOMAIN more,
           purpose = "create" /\ place = "list" => more.gone,
           purpose = "create" /\ place \in {"attach", "http"} => more.url = more.form.preview.url,
           purpose = "create" /\ place = "read" => /\ "preview" \in DOMAIN more
                                                    /\ more.preview.url = more.form.preview.url
    PROVE  TracesOn(r)
<1> DEFINE first == [at |-> place, purpose |-> purpose, diagnostics |-> {},
                     under |-> IF purpose \in {"tab", "seed"} THEN guard.left ELSE 0]
           x == With(first, more)
<1>1. Becomes(r, x)
  BY DEF Started, Becomes
<1>2. /\ DOMAIN first = {"at", "purpose", "diagnostics", "under"}
      /\ first.at = place /\ first.purpose = purpose
  OBVIOUS
<1> HIDE DEF first
<1>3. /\ DOMAIN x = DOMAIN first \cup DOMAIN more
      /\ \A k \in DOMAIN more : x[k] = more[k]
      /\ \A k \in DOMAIN first \ DOMAIN more : x[k] = first[k]
  BY WithFields
<1> HIDE DEF x
<1>4. x.at = place /\ x.purpose = purpose
  BY <1>2, <1>3
<1>5. \A k \in {"form", "gone", "url", "preview"} \cap DOMAIN more : k \in DOMAIN x /\ x[k] = more[k]
  BY <1>3
<1>6. purpose = "create" => /\ {"form", "gone"} \subseteq DOMAIN x
                            /\ x.form = more.form /\ x.gone = more.gone
  BY <1>5
<1>7. place \in {"attach", "http"} => "url" \in DOMAIN x /\ x.url = more.url
  BY <1>5
<1>8. purpose = "create" /\ place = "read" => x.preview = more.preview
  BY <1>5
<1>9. Traced(x)
  BY <1>4, <1>6, <1>7, <1>8 DEF Traced, Follows, TabPlaces, SeedPlaces
<1> QED
  BY <1>1, <1>9 DEF TracesOn

LEMMA LookupTraces ==
    ASSUME NEW r \in Requests, NEW purpose, NEW url, NEW more,
           StartLookup(r, purpose, url, more),
           DOMAIN more \cap {"at", "purpose", "diagnostics", "under", "url"} = {},
           purpose = "create" => {"form", "gone"} \subseteq DOMAIN more /\ url = more.form.preview.url
    PROVE  TracesOn(r)
<1> DEFINE first == [url |-> url]
           also == With(first, more)
<1>1. PICK place \in {"attach", "http", "failed"} : Started(r, purpose, place, also)
  BY DEF StartLookup
<1>2. DOMAIN first = {"url"} /\ first.url = url
  OBVIOUS
<1> HIDE DEF first
<1>3. /\ DOMAIN also = DOMAIN first \cup DOMAIN more
      /\ \A k \in DOMAIN more : also[k] = more[k]
      /\ \A k \in DOMAIN first \ DOMAIN more : also[k] = first[k]
  BY WithFields
<1> HIDE DEF also
<1>4. "url" \in DOMAIN also /\ also.url = url
  BY <1>2, <1>3
<1>5. purpose = "create" => {"form", "gone"} \subseteq DOMAIN also /\ also.form = more.form
  BY <1>3
<1>6. DOMAIN also \cap {"at", "purpose", "diagnostics", "under"} = {}
  BY <1>2, <1>3
<1> QED
  BY <1>1, <1>4, <1>5, <1>6, StartedTraces

LEMMA PreviewsShown ==
    ASSUME ShownInv, CreationInv', NEW r \in Requests, NEW t, NEW url,
           PreviewTab(r, t) \/ PreviewSeed(r, url)
    PROVE  ShownInv'
<1>1. UNCHANGED <<forms, cache, watches, Keys>>
  BY DEF PreviewTab, PreviewSeed, Workflow
<1>2. CASE PreviewTab(r, t)
  <2> DEFINE more == [tab |-> t]
  <2>1. Started(r, "tab", "list", more)
    BY <1>2 DEF PreviewTab
  <2>2. DOMAIN more = {"tab"}
    OBVIOUS
  <2> HIDE DEF more
  <2> QED
    BY <1>1, <2>1, <2>2, StartedTraces, MoveShown
<1>3. CASE PreviewSeed(r, url)
  <2>1. StartLookup(r, "seed", url, <<>>)
    BY <1>3 DEF PreviewSeed
  <2> QED
    BY <1>1, <2>1, LookupTraces, MoveShown
<1> QED
  BY <1>2, <1>3

\* A tab is read from list to URL; the preview of a creation had gone.
LEMMA TabThreadsTrace ==
    ASSUME ShownInv, NEW r \in Requests, ReadTab(r)
    PROVE  TracesOn(r)
<1> USE DEF At, TabPlaces
<1>1. CASE FindTab(r)
  BY <1>1, GoTraces, FailedTraces DEF FindTab
<1>2. CASE ReadContent(r)
  <2>1. ASSUME NEW source, request' = [request EXCEPT ![r] = ReadFrom(r, source)]
        PROVE  TracesOn(r)
    <3> DEFINE more == [at |-> "url", source |-> source]
    <3>1. Becomes(r, With(request[r], more))
      BY <2>1 DEF ReadFrom, Becomes
    <3>2. DOMAIN more = {"at", "source"} /\ more.at = "url"
      OBVIOUS
    <3> HIDE DEF more
    <3> QED
      BY <1>2, <3>1, <3>2, WithTraces DEF ReadContent
  <2> QED
    BY <1>2, <2>1, FailedTraces DEF ReadContent
<1>3. CASE ReadUrl(r)
  <2>1. ASSUME NEW preview, Read(r, preview) PROVE TracesOn(r)
    <3>1. request[r].at = "url" /\ Traced(request[r])
      BY <1>3 DEF ReadUrl, ShownInv, RequestsTraced
    <3>2. /\ request[r].purpose \notin {"seed", "fallback"}
          /\ request[r].purpose = "create" => request[r].gone
      BY <3>1 DEF Traced, Follows
    <3> QED
      BY <2>1, <3>1, <3>2, ReadTraces
  <2> QED
    BY <1>3, <2>1, FailedTraces DEF ReadUrl
<1> QED
  BY <1>1, <1>2, <1>3 DEF ReadTab

\* A seed is looked up on the page of its URL.
LEMMA FoundTraces ==
    ASSUME ShownInv, NEW r \in Requests, NEW source, NEW torn, Found(r, source, torn),
           request[r].at \in SeedPlaces
    PROVE  TracesOn(r)
<1> DEFINE preview == Preview(request[r].url, source, None, torn)
<1>1. preview.url = request[r].url /\ preview.tab = None
  BY DEF Preview
<1>2. Failed(r, {}) \/ Read(r, preview)
  BY DEF Found
<1>3. request[r].purpose = "create" => request[r].url = request[r].form.preview.url
  BY DEF ShownInv, RequestsTraced, Traced, Follows
<1> HIDE DEF preview
<1> QED
  BY <1>1, <1>2, <1>3, FailedTraces, ReadTraces

LEMMA SeedThreadsTrace ==
    ASSUME ShownInv, NEW r \in Requests, LookUp(r)
    PROVE  TracesOn(r)
<1> USE DEF At, SeedPlaces
<1>1. CASE FetchHttp(r)
  <2>1. CASE request' = [request EXCEPT ![r].at = "attach", ![r].diagnostics = {"http_403"}]
    <3> DEFINE more == [at |-> "attach", diagnostics |-> {"http_403"}]
               x == [[request[r] EXCEPT !.at = "attach"] EXCEPT !.diagnostics = {"http_403"}]
    <3>1. request[r].at = "http" /\ Working(request[r]) /\ DOMAIN request = Requests
      BY <1>1, AtWork DEF FetchHttp, ShownInv
    <3>2. Becomes(r, x)
      BY <2>1, <3>1 DEF Becomes
    <3>3. /\ x.at = "attach" /\ x.purpose = request[r].purpose
          /\ DOMAIN x = DOMAIN request[r]
          /\ \A k \in DOMAIN request[r] \ {"at", "diagnostics"} : x[k] = request[r][k]
      BY <3>1 DEF Working
    <3> HIDE DEF x
    <3>4. Traced(request[r])
      BY DEF ShownInv, RequestsTraced
    <3>5. \A k \in {"form", "gone", "url"} : k \in DOMAIN request[r] =>
              k \in DOMAIN x /\ x[k] = request[r][k]
      BY <3>3
    <3>6. Traced(x)
      BY <3>1, <3>3, <3>4, <3>5 DEF Traced, Follows, TabPlaces
    <3> QED
      BY <3>2, <3>6 DEF TracesOn
  <2> QED
    BY <1>1, <2>1, FoundTraces, FailedTraces DEF FetchHttp
<1>2. CASE AttachChrome(r)
  <2>1. PICK t : request' = [request EXCEPT ![r] =
                   With(request[r], [at |-> "look", tab |-> t])]
    BY <1>2 DEF AttachChrome
  <2> DEFINE more == [at |-> "look", tab |-> t]
  <2>2. DOMAIN more = {"at", "tab"} /\ more.at = "look"
    OBVIOUS
  <2>3. Becomes(r, With(request[r], more)) /\ request[r].at = "attach"
    BY <1>2, <2>1 DEF AttachChrome, Becomes
  <2> HIDE DEF more
  <2> QED
    BY <2>2, <2>3, WithTraces
<1>3. CASE LookAtContent(r)
  <2>1. PICK source, page : request' = [request EXCEPT ![r] =
                   With(request[r], [at |-> "ready", source |-> source, page |-> page])]
    BY <1>3 DEF LookAtContent
  <2> DEFINE more == [at |-> "ready", source |-> source, page |-> page]
  <2>2. DOMAIN more = {"at", "source", "page"} /\ more.at = "ready"
    OBVIOUS
  <2>3. Becomes(r, With(request[r], more)) /\ request[r].at = "look"
    BY <1>3, <2>1 DEF LookAtContent, Becomes
  <2> HIDE DEF more
  <2> QED
    BY <2>2, <2>3, WithTraces
<1>4. CASE LookAtUrl(r)
  BY <1>4, GoTraces, FoundTraces DEF LookAtUrl
<1>5. CASE GiveUp(r)
  BY <1>5, FailedTraces DEF GiveUp
<1> QED
  BY <1>1, <1>2, <1>3, <1>4, <1>5 DEF LookUp

\* Errors and timeouts leave nothing.
LEMMA AnswersShown ==
    ASSUME ShownInv, CreationInv', NEW r \in Requests, ShowError(r) \/ TimeOut(r)
    PROVE  ShownInv'
<1>1. UNCHANGED <<forms, cache, watches, Keys>>
  BY DEF ShowError, TimeOut, Workflow
<1>2. ASSUME StartLookup(r, "fallback", request[r].seed, <<>>) PROVE TracesOn(r)
  BY <1>2, LookupTraces
<1>3. TracesOn(r)
  BY <1>2, RespondTraces DEF ShowError, TimeOut
<1> QED
  BY <1>1, <1>3, MoveShown

-----------------------------------------------------------------------------
(* The creation of the watch                                               *)

\* A target is the one that its own room and plan make of the same draft.
LEMMA TargetAgain ==
    ASSUME NEW p, NEW q, NEW choice, p.url = q.url, TargetOf(p, choice) # None
    PROVE  TargetOf(q, TargetOf(p, choice)) = TargetOf(p, choice)
  BY DEF TargetOf, ResolveWatchTarget

\* The target is that of the preview the creation goes by.
LEMMA FindExistingShown ==
    ASSUME ShownInv, CreationInv', NEW r \in Requests, FindExisting(r)
    PROVE  ShownInv'
<1> DEFINE target == TargetOf(request[r].preview, request[r].choice)
           more == [at |-> "save", target |-> target, known |-> {w.id : w \in watches}]
           x == With(request[r], more)
<1>1. UNCHANGED <<forms, cache, watches, Keys>>
  BY DEF FindExisting, Workflow
<1>2. CASE Failed(r, {})
  BY <1>1, <1>2, FailedTraces, MoveShown
<1>3. CASE Becomes(r, x) /\ target # None
  <2>1. /\ Working(request[r]) /\ request[r].at = "read" /\ request[r].purpose = "create"
        /\ Traced(request[r])
    BY AtWork DEF FindExisting, At, ShownInv, RequestsTraced
  <2>2. /\ {"form", "gone"} \subseteq DOMAIN request[r]
        /\ \/ request[r].gone
           \/ request[r].preview.url = request[r].form.preview.url
    BY <2>1 DEF Traced, Follows
  <2>3. request[r].gone \/ target = TargetOf(request[r].form.preview, target)
    BY <1>3, <2>2, TargetAgain
  <2>4. DOMAIN more = {"at", "target", "known"} /\ more.at = "save" /\ more.target = target
    OBVIOUS
  <2> HIDE DEF more
  <2>5. /\ \A k \in DOMAIN more : x[k] = more[k]
        /\ DOMAIN x = DOMAIN request[r] \cup DOMAIN more
        /\ \A k \in DOMAIN request[r] \ DOMAIN more : x[k] = request[r][k]
    BY WithFields
  <2> HIDE DEF x, target
  <2>6. /\ x.at = "save" /\ x.target = target /\ x.purpose = "create"
        /\ {"form", "gone"} \subseteq DOMAIN x
        /\ x.form = request[r].form /\ x.gone = request[r].gone
    BY <2>1, <2>2, <2>4, <2>5 DEF Working
  <2>7. Traced(x)
    BY <2>3, <2>6 DEF Traced, Follows, TabPlaces, SeedPlaces
  <2> QED
    BY <1>1, <1>3, <2>7, MoveShown DEF TracesOn
<1> QED
  BY <1>2, <1>3 DEF FindExisting, Becomes

LEMMA SaveWatchShown ==
    ASSUME ShownInv, CreationInv', NEW r \in Requests, SaveWatch(r)
    PROVE  ShownInv'
<1> DEFINE new == [id |-> created + 1, target |-> request[r].target, known |-> request[r].known,
                   form |-> request[r].form, gone |-> request[r].gone,
                   draft |-> None, price |-> None]
           more == [at |-> "draft", id |-> created + 1]
           x == With(Kept(r), more)
<1>1. /\ request[r].at = "save" /\ created' = created + 1
      /\ watches' = watches \cup {new} /\ Becomes(r, x)
      /\ UNCHANGED <<forms, cache, Keys>>
  BY DEF SaveWatch, At, Becomes
<1>2. DOMAIN request = Requests
  BY DEF ShownInv, CreationInv, RequestsWork
<1>3. Onwards
  BY <1>1, StillOnwards DEF Keys
<1>4. /\ {"form", "gone"} \subseteq DOMAIN new /\ new.target = request[r].target
      /\ new.form = request[r].form /\ new.gone = request[r].gone
  OBVIOUS
<1>5. DOMAIN more = {"at", "id"} /\ more.at = "draft"
  OBVIOUS
<1> HIDE DEF new, more
<1>6. \A k \in DOMAIN more : x[k] = more[k]
  BY WithFields
<1> HIDE DEF x
<1>7. x.at = "draft"
  BY <1>5, <1>6
<1>8. \A q \in Requests : request'[q] = IF q = r THEN x ELSE request[q]
  BY <1>1, <1>2 DEF Becomes
<1>9. ASSUME NEW q \in Requests PROVE Traced(request[q])'
  <2>1. CASE q # r
    BY <1>8, <2>1, TraceLasts
  <2>2. CASE q = r
    BY <1>7, <1>8, <2>2 DEF Traced, Follows, TabPlaces, SeedPlaces
  <2> QED
    BY <2>1, <2>2
<1>10. ASSUME NEW w \in watches'
       PROVE  w.target = TargetOf(w.form.preview, w.target) \/ w.gone
  <2>1. CASE w \in watches
    BY <2>1 DEF ShownInv, WatchAsShown
  <2>2. CASE w = new
    <3>1. Traced(request[r])
      BY DEF ShownInv, RequestsTraced
    <3>2. \/ request[r].gone
          \/ request[r].target = TargetOf(request[r].form.preview, request[r].target)
      BY <1>1, <3>1 DEF Traced, Follows
    <3> QED
      BY <1>4, <2>2, <3>2
  <2> QED
    BY <1>1, <2>1, <2>2
<1>11. WatchAsShown'
  BY <1>10 DEF WatchAsShown, TargetOf, Drafts
<1>12. FormsKept'
  BY <1>1, <1>4 DEF ShownInv, FormsKept
<1> QED
  BY <1>1, <1>3, <1>9, <1>11, <1>12, FormsStill, CacheStill DEF ShownInv, RequestsTraced, Keys

\* A stored watch keeps its target and its form, or is lost.
Keeps == \A w \in watches' : \E u \in watches :
            /\ \A k \in {"form", "gone"} \cap DOMAIN u : k \in DOMAIN w /\ w[k] = u[k]
            /\ Numbered(u) => w.target = u.target

LEMMA KeptShown ==
    ASSUME ShownInv, Keeps
    PROVE  FormsKept' /\ WatchAsShown'
<1>1. \A u \in watches : {"form", "gone"} \subseteq DOMAIN u /\ Numbered(u)
  BY DEF ShownInv, FormsKept, CreationInv, WatchesNumbered
<1>2. ASSUME NEW w \in watches'
      PROVE  /\ {"form", "gone"} \subseteq DOMAIN w
             /\ w.target = TargetOf(w.form.preview, w.target) \/ w.gone
  <2>1. PICK u \in watches : /\ {"form", "gone"} \subseteq DOMAIN w /\ w.form = u.form
                             /\ w.gone = u.gone /\ w.target = u.target
    <3>1. PICK u \in watches :
             /\ \A k \in {"form", "gone"} \cap DOMAIN u : k \in DOMAIN w /\ w[k] = u[k]
             /\ Numbered(u) => w.target = u.target
      BY DEF Keeps
    <3>2. {"form", "gone"} \subseteq DOMAIN u /\ Numbered(u)
      BY <1>1
    <3> QED
      BY <3>1, <3>2
  <2>2. u.target = TargetOf(u.form.preview, u.target) \/ u.gone
    BY DEF ShownInv, WatchAsShown
  <2> QED
    BY <2>1, <2>2
<1>3. WatchAsShown'
  BY <1>2 DEF WatchAsShown, TargetOf, Drafts
<1> QED
  BY <1>2, <1>3 DEF FormsKept

LEMMA UpdateKeeps ==
    ASSUME NEW r \in Requests, NEW more, DOMAIN more \in {{"draft"}, {"price"}},
           watches' = Updated(r, more)
    PROVE  Keeps
<1>1. ASSUME NEW u, NEW w, w = With(u, more)
      PROVE  /\ \A k \in {"form", "gone"} \cap DOMAIN u : k \in DOMAIN w /\ w[k] = u[k]
             /\ Numbered(u) => w.target = u.target
  <2>1. /\ DOMAIN w = DOMAIN u \cup DOMAIN more
        /\ \A k \in DOMAIN u \ DOMAIN more : w[k] = u[k]
    BY <1>1, WithFields
  <2> QED
    BY <1>1, <2>1 DEF Numbered
<1> QED
  BY <1>1 DEF Keeps, Updated, Mine

LEMMA SaveDraftShown ==
    ASSUME ShownInv, CreationInv', NEW r \in Requests, SaveDraft(r)
    PROVE  ShownInv'
<1> DEFINE more == [draft |-> request[r].preview.url]
<1>1. /\ request[r].at = "draft" /\ watches' = Updated(r, more)
      /\ UNCHANGED <<forms, cache, Keys>>
      /\ Go(r, "initial") \/ Failed(r, {})
  BY DEF SaveDraft, At
<1>2. DOMAIN more = {"draft"}
  OBVIOUS
<1> HIDE DEF more
<1>3. TracesOn(r)
  BY <1>1, GoTraces, FailedTraces
<1>4. Keeps
  BY <1>1, <1>2, UpdateKeeps
<1>5. Onwards
  BY <1>1, StillOnwards DEF Keys
<1> QED
  BY <1>1, <1>3, <1>4, <1>5, TracesKept, FormsStill, CacheStill, KeptShown DEF ShownInv, Keys

-----------------------------------------------------------------------------
(* The cache                                                               *)

\* What is left of a sequence without its i-th element.
LEMMA Removed ==
    ASSUME NEW T, NEW s \in Seq(T), NEW i \in 1..Len(s)
    PROVE  /\ RemoveAt(s, i) \in Seq(T)
           /\ Len(RemoveAt(s, i)) = Len(s) - 1
           /\ \A j \in 1..(Len(s) - 1) : RemoveAt(s, i)[j] = IF j < i THEN s[j] ELSE s[j + 1]
<1> DEFINE a == SubSeq(s, 1, i - 1)
           b == SubSeq(s, i + 1, Len(s))
<1>1. a \in Seq(T) /\ Len(a) = i - 1 /\ \A j \in 1..(i - 1) : a[j] = s[j]
  OBVIOUS
<1>2. b \in Seq(T) /\ Len(b) = Len(s) - i /\ \A j \in 1..(Len(s) - i) : b[j] = s[i + j]
  OBVIOUS
<1>3. RemoveAt(s, i) = a \o b
  BY DEF RemoveAt
<1>4. Len(s) \in Nat
  OBVIOUS
<1> HIDE DEF a, b
<1>5. /\ a \o b \in Seq(T) /\ Len(a \o b) = (i - 1) + (Len(s) - i)
      /\ \A j \in 1..((i - 1) + (Len(s) - i)) :
            (a \o b)[j] = IF j <= i - 1 THEN a[j] ELSE b[j - (i - 1)]
  <2>1. /\ a \o b \in Seq(T) /\ Len(a \o b) = Len(a) + Len(b)
        /\ \A j \in 1..(Len(a) + Len(b)) :
              (a \o b)[j] = IF j <= Len(a) THEN a[j] ELSE b[j - Len(a)]
    BY <1>1, <1>2, ConcatProperties
  <2> QED
    BY <1>1, <1>2, <2>1
<1>6. (i - 1) + (Len(s) - i) = Len(s) - 1
  BY <1>4
<1>7. ASSUME NEW j \in 1..(Len(s) - 1)
      PROVE  (a \o b)[j] = IF j < i THEN s[j] ELSE s[j + 1]
  <2>1. CASE j <= i - 1
    BY <1>1, <1>4, <1>5, <1>6, <2>1
  <2>2. CASE ~(j <= i - 1)
    <3>1. j - (i - 1) \in 1..(Len(s) - i) /\ i + (j - (i - 1)) = j + 1
      BY <1>4, <2>2
    <3>2. (a \o b)[j] = b[j - (i - 1)]
      BY <1>5, <1>6, <2>2
    <3>3. b[j - (i - 1)] = s[i + (j - (i - 1))]
      BY <1>2, <3>1
    <3> QED
      BY <1>4, <2>2, <3>1, <3>2, <3>3
  <2> QED
    BY <2>1, <2>2
<1> QED
  BY <1>3, <1>5, <1>6, <1>7

\* A cached form is found by its key, and nothing is by none.
LEMMA Finds ==
    ASSUME ShownInv, NEW form \in forms
    PROVE  /\ Cached(form.key) => Entry(form.key) = form /\ InCache(form)
           /\ ~Cached(form.key) /\ form.preview.tab # None => Gone(form)
<1>1. /\ \A i \in 1..Len(cache) : cache[i] \in forms /\ cache[i].key # None
      /\ DOMAIN cache = 1..Len(cache)
  BY DEF ShownInv, CacheHolds
<1>2. ToSet(cache) = {cache[i] : i \in 1..Len(cache)}
  BY <1>1 DEF ToSet
<1>3. CASE Cached(form.key)
  <2>1. Entry(form.key) \in Entries(form.key)
    BY <1>3 DEF Cached, Entry
  <2>2. PICK i \in 1..Len(cache) : cache[i] = Entry(form.key) /\ cache[i].key = form.key
    BY <1>2, <2>1 DEF Entries
  <2>3. cache[i] = form
    BY <1>1, <2>2 DEF ShownInv, FormsKeyed
  <2> QED
    BY <1>3, <2>2, <2>3 DEF InCache
<1>4. CASE ~Cached(form.key) /\ form.preview.tab # None
  <2>1. form.key # None
    BY <1>4 DEF ShownInv, FormsKeyed
  <2>2. ~InCache(form)
    BY <1>2, <1>4 DEF Cached, Entries, InCache
  <2> QED
    BY <2>1, <2>2, <1>4 DEF ShownInv, CacheHolds
<1> QED
  BY <1>3, <1>4

\* Without a key the cache is as it was, or has one entry less.
LEMMA WithoutKey ==
    ASSUME ShownInv, NEW key
    PROVE  \/ ~Cached(key) /\ Without(key) = cache
           \/ /\ Cached(key)
              /\ \E i \in 1..Len(cache) : /\ Without(key) = RemoveAt(cache, i)
                                          /\ cache[i] = Entry(key) /\ cache[i].key = key
<1>1. cache \in Seq(forms) /\ DOMAIN cache = 1..Len(cache)
  BY DEF ShownInv, CacheHolds
<1>2. CASE Cached(key)
  <2>1. Entry(key) \in ToSet(cache) /\ Entry(key).key = key
    BY <1>2 DEF Cached, Entry, Entries
  <2>2. \E i \in DOMAIN cache : cache[i] = Entry(key)
    BY <2>1 DEF ToSet
  <2> DEFINE place == CHOOSE i \in DOMAIN cache : cache[i] = Entry(key)
  <2>3. place \in DOMAIN cache /\ cache[place] = Entry(key)
    BY <2>2
  <2>4. Without(key) = RemoveAt(cache, place)
    BY <1>2 DEF Without
  <2> HIDE DEF place
  <2> QED
    BY <1>1, <1>2, <2>1, <2>3, <2>4
<1> QED
  BY <1>2 DEF Without

\* What a creation discards has gone from then on.
LEMMA DiscardHolds ==
    ASSUME ShownInv, Onwards, UNCHANGED <<forms, lost>>, NEW key, cache' = Without(key),
           key \in used'
    PROVE  CacheHolds'
<1>1. /\ cache \in Seq(forms) /\ \A i \in 1..Len(cache) : cache[i].key \notin {None} \cup lost
      /\ \A i, j \in 1..Len(cache) : cache[i] = cache[j] => i = j
      /\ \A form \in forms : form.key # None => InCache(form) \/ Gone(form)
  BY DEF ShownInv, CacheHolds
<1>2. CASE cache' = cache
  BY <1>2, CacheStill
<1>3. ASSUME NEW i \in 1..Len(cache), cache' = RemoveAt(cache, i), cache[i].key = key
      PROVE  CacheHolds'
  <2>1. /\ cache' \in Seq(forms') /\ Len(cache') = Len(cache) - 1
        /\ \A j \in 1..(Len(cache) - 1) : cache'[j] = IF j < i THEN cache[j] ELSE cache[j + 1]
    <3>1. /\ RemoveAt(cache, i) \in Seq(forms) /\ Len(RemoveAt(cache, i)) = Len(cache) - 1
          /\ \A j \in 1..(Len(cache) - 1) :
                RemoveAt(cache, i)[j] = IF j < i THEN cache[j] ELSE cache[j + 1]
      BY <1>1, Removed
    <3> QED
      BY <1>3, <3>1
  <2>2. Len(cache) \in Nat
    BY <1>1
  <2>3. \A j \in 1..Len(cache') : cache'[j].key \notin {None} \cup lost'
    BY <1>1, <2>1, <2>2
  <2>4. \A j, k \in 1..Len(cache') : cache'[j] = cache'[k] => j = k
    BY SMTT(30), <1>1, <2>1, <2>2
  <2>5. ASSUME NEW form, InCache(form), form.key # key PROVE InCache(form)'
    <3>1. PICK k \in 1..Len(cache) : cache[k] = form
      BY <2>5 DEF InCache
    <3> DEFINE j == IF k < i THEN k ELSE k - 1
    <3>2. k # i
      BY <1>3, <2>5, <3>1
    <3>3. j \in 1..Len(cache') /\ cache'[j] = form
      BY <2>1, <2>2, <3>1, <3>2
    <3> HIDE DEF j
    <3> QED
      BY <3>3 DEF InCache
  <2>6. ASSUME NEW form \in forms', form.key # None PROVE InCache(form)' \/ Gone(form)'
    <3>1. CASE form.key = key
      BY <2>6, <3>1 DEF Gone
    <3>2. CASE form.key # key
      BY <1>1, <2>5, <2>6, <3>2, GoneLasts
    <3> QED
      BY <3>1, <3>2
  <2> QED
    BY <2>1, <2>3, <2>4, <2>6 DEF CacheHolds
<1> QED
  BY <1>2, <1>3, WithoutKey

\* A look at the cache moves an entry to its end.
LEMMA TouchHolds ==
    ASSUME ShownInv, Onwards, UNCHANGED <<forms, lost>>, NEW key, cache' = Touched(key)
    PROVE  CacheHolds'
<1>1. /\ cache \in Seq(forms) /\ \A i \in 1..Len(cache) : cache[i].key \notin {None} \cup lost
      /\ \A i, j \in 1..Len(cache) : cache[i] = cache[j] => i = j
  BY DEF ShownInv, CacheHolds
<1>2. CASE cache' = cache
  BY <1>2, CacheStill
<1>3. ASSUME NEW i \in 1..Len(cache), cache' = Append(RemoveAt(cache, i), cache[i])
      PROVE  CacheHolds'
  <2> DEFINE rest == RemoveAt(cache, i)
  <2>1. /\ rest \in Seq(forms) /\ Len(rest) = Len(cache) - 1
        /\ \A j \in 1..(Len(cache) - 1) : rest[j] = IF j < i THEN cache[j] ELSE cache[j + 1]
    BY <1>1, Removed
  <2>2. Len(cache) \in Nat /\ cache[i] \in forms
    BY <1>1
  <2> HIDE DEF rest
  <2>3. cache' = Append(rest, cache[i])
    BY <1>3 DEF rest
  <2>4. /\ cache' \in Seq(forms) /\ Len(cache') = Len(cache)
        /\ \A j \in 1..Len(cache) : cache'[j] = IF j = Len(cache) THEN cache[i] ELSE rest[j]
    BY <2>1, <2>2, <2>3
  <2>5. \A j \in 1..Len(cache) :
           cache'[j] = IF j = Len(cache) THEN cache[i] ELSE IF j < i THEN cache[j] ELSE cache[j + 1]
    BY <2>1, <2>2, <2>4
  <2>6. \A j \in 1..Len(cache') : cache'[j].key \notin {None} \cup lost'
    BY <1>1, <2>2, <2>4, <2>5
  <2>7. \A j, k \in 1..Len(cache') : cache'[j] = cache'[k] => j = k
    BY <1>1, <2>2, <2>4, <2>5
  <2>8. ASSUME NEW form, InCache(form) PROVE InCache(form)'
    <3>1. PICK k \in 1..Len(cache) : cache[k] = form
      BY <2>8 DEF InCache
    <3> DEFINE j == IF k = i THEN Len(cache) ELSE IF k < i THEN k ELSE k - 1
    <3>2. j \in 1..Len(cache) /\ cache'[j] = form
      BY <2>2, <2>5, <3>1
    <3> QED
      BY <2>4, <3>2 DEF InCache
  <2>9. \A form \in forms : Gone(form) => Gone(form)'
    BY GoneLasts
  <2>10. \A form \in forms' : form.key # None => InCache(form)' \/ Gone(form)'
    BY <2>8, <2>9 DEF ShownInv, CacheHolds
  <2> QED
    BY <2>4, <2>6, <2>7, <2>10 DEF CacheHolds
<1> QED
  BY <1>2, <1>3, WithoutKey DEF Touched

-----------------------------------------------------------------------------
(* The steps that use the cache                                            *)

\* The preview of a form that is still cached is the one the form shows; that of
\* a tab is read again only when it is not.
LEMMA SubmitShown ==
    ASSUME ShownInv, CreationInv', NEW r \in Requests, NEW form \in forms, NEW choice,
           SubmitForm(r, form, choice)
    PROVE  ShownInv'
<1> DEFINE chosen == [form |-> form, key |-> form.key, seed |-> form.preview.url,
                      choice |-> choice, gone |-> Gone(form)]
<1>1. UNCHANGED <<forms, watches, Keys>> /\ cache' = Touched(form.key)
  BY DEF SubmitForm, Workflow
<1>2. /\ Cached(form.key) => Entry(form.key) = form
      /\ ~Cached(form.key) /\ form.preview.tab # None => Gone(form)
  BY Finds
<1>3. \/ Started(r, "create", "read", With([preview |-> form.preview], chosen))
      \/ /\ Gone(form)
         /\ Started(r, "create", "list", With([tab |-> form.preview.tab], chosen))
      \/ StartLookup(r, "create", form.preview.url, chosen)
  BY <1>2 DEF SubmitForm
<1>4. /\ DOMAIN chosen = {"form", "key", "seed", "choice", "gone"}
      /\ chosen.form = form /\ (Gone(form) => chosen.gone)
  OBVIOUS
<1> HIDE DEF chosen
<1>5. ASSUME StartLookup(r, "create", form.preview.url, chosen)
      PROVE  TracesOn(r)
  BY <1>4, <1>5, LookupTraces
<1>6. ASSUME NEW first, NEW place \in {"read", "list"},
             Started(r, "create", place, With(first, chosen)),
             DOMAIN first \in {{"preview"}, {"tab"}},
             place = "list" => Gone(form),
             place = "read" => "preview" \in DOMAIN first /\ first.preview = form.preview
      PROVE  TracesOn(r)
  <2> DEFINE more == With(first, chosen)
  <2>1. /\ DOMAIN more = DOMAIN first \cup DOMAIN chosen
        /\ \A k \in DOMAIN chosen : more[k] = chosen[k]
        /\ \A k \in DOMAIN first \ DOMAIN chosen : more[k] = first[k]
    BY WithFields
  <2> HIDE DEF more
  <2>2. {"form", "gone"} \subseteq DOMAIN more /\ more.form = form /\ more.gone = chosen.gone
    BY <1>4, <2>1
  <2>3. DOMAIN more \cap {"at", "purpose", "diagnostics", "under"} = {}
    BY <1>4, <1>6, <2>1
  <2>4. place = "read" => "preview" \in DOMAIN more /\ more.preview = form.preview
    BY <1>4, <1>6, <2>1
  <2>5. Started(r, "create", place, more)
    BY <1>6 DEF more
  <2> QED
    BY <1>4, <1>6, <2>2, <2>3, <2>4, <2>5, StartedTraces
<1>7. ASSUME Started(r, "create", "read", With([preview |-> form.preview], chosen))
      PROVE  TracesOn(r)
  <2> DEFINE first == [preview |-> form.preview]
  <2>1. DOMAIN first = {"preview"} /\ first.preview = form.preview
    OBVIOUS
  <2>2. Started(r, "create", "read", With(first, chosen))
    BY <1>7
  <2> HIDE DEF first
  <2> QED
    BY <1>6, <2>1, <2>2
<1>8. ASSUME Gone(form) /\ Started(r, "create", "list", With([tab |-> form.preview.tab], chosen))
      PROVE  TracesOn(r)
  <2> DEFINE first == [tab |-> form.preview.tab]
  <2>1. DOMAIN first = {"tab"}
    OBVIOUS
  <2>2. Started(r, "create", "list", With(first, chosen))
    BY <1>8
  <2> HIDE DEF first
  <2> QED
    BY <1>6, <1>8, <2>1, <2>2
<1>9. TracesOn(r)
  BY <1>3, <1>5, <1>7, <1>8
<1>10. Onwards
  BY <1>1, StillOnwards DEF Keys
<1> QED
  BY <1>1, <1>9, <1>10, TracesKept, FormsStill, TouchHolds, WatchesStill DEF ShownInv, Keys

LEMMA PersistInitialShown ==
    ASSUME ShownInv, CreationInv', NEW r \in Requests, PersistInitial(r)
    PROVE  ShownInv'
<1>1. /\ UNCHANGED <<forms, lost>> /\ used \subseteq used'
      /\ Respond(r) \/ Failed(r, {})
      /\ \/ cache' = Without(request[r].key) /\ request[r].key \in used'
         \/ UNCHANGED cache
  BY DEF PersistInitial
<1>2. PICK snapshot : watches' = Updated(r, [price |-> snapshot]) \/ UNCHANGED watches
  BY DEF PersistInitial
<1>3. TracesOn(r)
  BY <1>1, RespondTraces, FailedTraces
<1>4. Onwards
  BY <1>1, StillOnwards
<1>5. CacheHolds'
  BY <1>1, <1>4, DiscardHolds, CacheStill
<1>6. FormsKept' /\ WatchAsShown'
  <2>1. CASE watches' = Updated(r, [price |-> snapshot])
    <3> DEFINE more == [price |-> snapshot]
    <3>1. DOMAIN more = {"price"} /\ watches' = Updated(r, more)
      BY <2>1
    <3> HIDE DEF more
    <3> QED
      BY <3>1, UpdateKeeps, KeptShown
  <2> QED
    BY <1>2, <2>1, WatchesStill
<1> QED
  BY <1>1, <1>3, <1>5, <1>6, TracesKept, FormsStill DEF ShownInv

\* A deletion, and what the user and the site do meanwhile.
LEMMA DeleteShown ==
    ASSUME ShownInv, CreationInv', NEW w \in watches, Delete(w)
    PROVE  ShownInv'
<1>1. /\ watches' \subseteq watches
      /\ UNCHANGED <<forms, cache, request, Keys>>
  BY DEF Delete
<1>2. Onwards
  BY <1>1, StillOnwards DEF Keys
<1>3. Keeps
  BY <1>1 DEF Keeps
<1>4. \A q \in Requests : Traced(request[q])'
  BY <1>1, TraceLasts
<1> QED
  BY <1>1, <1>2, <1>3, <1>4, FormsStill, CacheStill, KeptShown DEF ShownInv, RequestsTraced, Keys

LEMMA MeanwhileShown ==
    ASSUME ShownInv, CreationInv', UNCHANGED <<forms, cache, request, watches, Keys>>
    PROVE  ShownInv'
<1>1. Onwards
  BY StillOnwards DEF Keys
<1>2. \A q \in Requests : Traced(request[q])'
  BY TraceLasts
<1> QED
  BY <1>1, <1>2, FormsStill, CacheStill, WatchesStill DEF ShownInv, RequestsTraced, Keys

\* After a restart the cache is empty and the previews of all forms are lost.
LEMMA RestartShown ==
    ASSUME ShownInv, CreationInv', Restart
    PROVE  ShownInv'
<1>1. /\ cache' = <<>> /\ lost' = {form.key : form \in forms}
      /\ request' = [r \in Requests |-> Idle]
      /\ UNCHANGED <<forms, watches>>
  BY DEF Restart
<1>2. CacheHolds'
  <2>1. cache' \in Seq(forms') /\ Len(cache') = 0
    BY <1>1
  <2>2. \A form \in forms' : form.key # None => Gone(form)'
    BY <1>1 DEF Gone
  <2> QED
    BY <2>1, <2>2 DEF CacheHolds
<1>3. \A q \in Requests : request'[q].at = "idle"
  BY <1>1 DEF Idle
<1>4. RequestsTraced'
  BY <1>3 DEF RequestsTraced, Traced, Follows, TabPlaces, SeedPlaces
<1>5. FormsKeyed'
  BY <1>1 DEF ShownInv, FormsKeyed
<1> QED
  BY <1>1, <1>2, <1>4, <1>5, WatchesStill DEF ShownInv

-----------------------------------------------------------------------------
(* A form that is shown                                                    *)

\* The new form gets the next key, or none.
LEMMA NewForm ==
    ASSUME ShownInv, NEW form, forms' = forms \cup {form},
           UNCHANGED lost, form.key \in {None, NewKey}, form.key = None => form.preview.tab = None
    PROVE  /\ FormsKeyed' /\ IsFiniteSet(forms')
           /\ form.key # None =>
                 /\ form.key \notin lost
                 /\ \A f \in forms : f.key # form.key /\ (f.key # None => form.key > f.key)
<1>1. IsFiniteSet(forms) /\ Cardinality(forms) \in Nat
  BY FS_CardinalityType DEF ShownInv, FormsKeyed
<1>2. /\ IsFiniteSet(forms')
      /\ Cardinality(forms') = IF form \in forms THEN Cardinality(forms) ELSE Cardinality(forms) + 1
  BY <1>1, FS_AddElement
<1> DEFINE n == Cardinality(forms)
           m == Cardinality(forms')
<1>3. /\ \A f \in forms : f.key \in {None} \cup 1..n
      /\ \A f \in forms : f.key = None => f.preview.tab = None
      /\ \A f, g \in forms : f.key = g.key /\ f.key # None => f = g
  BY DEF ShownInv, FormsKeyed
<1>4. form.key # None => form.key = n + 1
  BY DEF NewKey
<1>5. n \in Nat /\ m = IF form \in forms THEN n ELSE n + 1
  BY <1>1, <1>2
<1> HIDE DEF n, m
<1>6. form.key # None =>
         \A f \in forms : f.key # form.key /\ (f.key # None => form.key > f.key)
  BY <1>3, <1>4, <1>5, WatchCreationAssumption
<1>7. \A f \in forms' : f.key \in {None} \cup 1..m
  BY <1>3, <1>4, <1>5, <1>6
<1>8. \A f, g \in forms' : f.key = g.key /\ f.key # None => f = g
  BY <1>3, <1>6
<1>9. lost \subseteq {f.key : f \in forms}
  BY DEF ShownInv, FormsKeyed
<1>10. lost' \subseteq {f.key : f \in forms'}
  BY <1>9
<1>11. form.key # None => form.key \notin lost
  BY <1>6, <1>9
<1> QED
  BY <1>2, <1>3, <1>6, <1>7, <1>8, <1>10, <1>11 DEF FormsKeyed, m

\* What Stored leaves of the cache: from some entry on, the new one last.
LEMMA StoredFrom ==
    ASSUME NEW T, cache \in Seq(T), NEW key, NEW preview
    PROVE  \E m \in 1..(Len(cache) + 1) :
              /\ Stored(key, preview) =
                    Append(SubSeq(cache, m, Len(cache)), [key |-> key, preview |-> preview])
              /\ m > 1 => Len(cache) >= MaxSize
<1> DEFINE n == Len(cache) - MaxSize + 2
           m == Max({1, n})
<1>1. Len(cache) \in Nat /\ MaxSize \in Nat /\ MaxSize >= 1 /\ n \in Int
  BY WatchCreationAssumption
<1>2. m = IF n > 1 THEN n ELSE 1
  BY <1>1 DEF Max
<1>3. m \in 1..(Len(cache) + 1) /\ (m > 1 => Len(cache) >= MaxSize)
  BY <1>1, <1>2
<1> QED
  BY <1>3 DEF Stored

LEMMA SizesCounted == Cardinality(1..MaxSize) = MaxSize
  BY WatchCreationAssumption, FS_Interval

\* The entries that make room leave behind as many others as the cache holds.
LEMMA RoomMade ==
    ASSUME ShownInv, NEW form, forms' = forms \cup {form}, IsFiniteSet(forms'), UNCHANGED lost,
           form.key \notin {None} \cup lost,
           \A f \in forms : f.key # form.key /\ (f.key # None => form.key > f.key),
           NEW i \in 1..Len(cache), NEW old, old = cache[i], Len(cache) >= MaxSize
    PROVE  Gone(old)'
<1> DEFINE S == {f \in forms' : f.key \notin {None, old.key} \cup lost'}
           others == [j \in 1..MaxSize |-> IF j = MaxSize THEN form
                                           ELSE IF j < i THEN cache[j] ELSE cache[j + 1]]
<1>1. /\ cache \in Seq(forms) /\ \A j \in 1..Len(cache) : cache[j].key \notin {None} \cup lost
      /\ \A j, k \in 1..Len(cache) : cache[j] = cache[k] => j = k
      /\ \A f, g \in forms : f.key = g.key /\ f.key # None => f = g
  BY DEF ShownInv, CacheHolds, FormsKeyed
<1>2. MaxSize \in Nat /\ Len(cache) \in Nat
  BY <1>1, WatchCreationAssumption
<1>3. \A j \in 1..Len(cache) : cache[j] \in forms
  BY <1>1
<1>4. \A j \in 1..Len(cache) : j # i => cache[j].key # old.key
  BY <1>1, <1>3
<1>5. ASSUME NEW j \in 1..MaxSize PROVE others[j] \in S
  <2>1. CASE j = MaxSize
    BY <1>3, <2>1
  <2>2. CASE j # MaxSize /\ j < i
    BY <1>1, <1>2, <1>3, <1>4, <2>2
  <2>3. CASE j # MaxSize /\ j >= i
    <3>1. j + 1 \in 1..Len(cache) /\ j + 1 # i /\ ~(j < i)
      BY <1>2, <2>3
    <3> QED
      BY <1>1, <1>3, <1>4, <2>3, <3>1
  <2> QED
    BY <1>2, <2>1, <2>2, <2>3
<1>6. ASSUME NEW j \in 1..MaxSize, NEW k \in 1..MaxSize, others[j] = others[k] PROVE j = k
  <2>1. \A l \in 1..Len(cache) : cache[l] # form
    BY <1>3
  <2> DEFINE at(l) == IF l < i THEN l ELSE l + 1
  <2>2. \A l \in 1..MaxSize : l # MaxSize => at(l) \in 1..Len(cache) /\ others[l] = cache[at(l)]
    BY <1>2
  <2>3. others[MaxSize] = form
    BY <1>2
  <2> HIDE DEF others
  <2>4. CASE j = MaxSize \/ k = MaxSize
    BY <1>6, <2>1, <2>2, <2>3, <2>4
  <2>5. CASE j # MaxSize /\ k # MaxSize
    <3>1. at(j) = at(k)
      BY <1>1, <1>6, <2>2, <2>5
    <3> QED
      BY <1>2, <3>1
  <2> QED
    BY <2>4, <2>5
<1>7. others \in Injection(1..MaxSize, S)
  <2>1. others \in [1..MaxSize -> S] /\ DOMAIN others = 1..MaxSize
    BY <1>5
  <2> HIDE DEF others
  <2> QED
    BY <1>6, <2>1 DEF Injection, IsInjective
<1>8. IsFiniteSet(S) /\ Cardinality(S) \in Nat
  BY FS_Subset, FS_CardinalityType
<1>9. form \in S /\ form.key > old.key
  BY <1>1, <1>3
<1> HIDE DEF S, others
<1>10. Cardinality(1..MaxSize) <= Cardinality(S)
  BY <1>7, <1>8, FS_Injection
<1>11. Cardinality(S) >= MaxSize /\ old.key # None
  BY <1>1, <1>2, <1>8, <1>10, SizesCounted
<1> QED
  BY <1>9, <1>11 DEF Gone, S

\* A new form of a tab is cached; what it drives out is displaced.
LEMMA StoredHolds ==
    ASSUME ShownInv, Onwards, UNCHANGED lost, NEW form, NEW key, NEW preview,
           form = [key |-> key, preview |-> preview], forms' = forms \cup {form},
           key \notin {None} \cup lost,
           \A f \in forms : f.key # key /\ (f.key # None => key > f.key),
           cache' = Stored(key, preview)
    PROVE  CacheHolds'
<1>1. /\ cache \in Seq(forms) /\ \A j \in 1..Len(cache) : cache[j].key \notin {None} \cup lost
      /\ \A j, k \in 1..Len(cache) : cache[j] = cache[k] => j = k
  BY DEF ShownInv, CacheHolds
<1>2. PICK m \in 1..(Len(cache) + 1) :
          /\ cache' = Append(SubSeq(cache, m, Len(cache)), form)
          /\ m > 1 => Len(cache) >= MaxSize
  BY <1>1, StoredFrom
<1>3. form.key = key /\ form \in forms'
  OBVIOUS
<1> DEFINE rest == SubSeq(cache, m, Len(cache))
           n == Len(cache) + 1 - m
<1>4. Len(cache) \in Nat /\ n \in Nat /\ \A j \in 1..Len(cache) : cache[j] \in forms
  BY <1>1
<1>5. rest \in Seq(forms) /\ Len(rest) = n /\ \A j \in 1..n : rest[j] = cache[j + m - 1]
  BY <1>1, <1>4
<1>6. cache' = Append(rest, form)
  BY <1>2
<1> HIDE DEF rest
<1>7. rest \in Seq(forms')
  BY <1>5
<1>8. /\ cache' \in Seq(forms') /\ Len(cache') = n + 1
      /\ \A j \in 1..(n + 1) : cache'[j] = IF j = n + 1 THEN form ELSE rest[j]
  <2>1. Append(rest, form) \in Seq(forms') /\ Len(Append(rest, form)) = Len(rest) + 1
    BY <1>3, <1>7
  <2>2. \A j \in 1..(Len(rest) + 1) :
           Append(rest, form)[j] = IF j = Len(rest) + 1 THEN form ELSE rest[j]
    BY <1>3, <1>7
  <2> QED
    BY <1>5, <1>6, <2>1, <2>2
<1>9. \A j \in 1..(n + 1) : cache'[j] = IF j = n + 1 THEN form ELSE cache[j + m - 1]
  <2> SUFFICES ASSUME NEW j \in 1..(n + 1)
               PROVE  cache'[j] = IF j = n + 1 THEN form ELSE cache[j + m - 1]
    OBVIOUS
  <2>1. j # n + 1 => j \in 1..n
    BY <1>4
  <2> HIDE DEF n
  <2>2. cache'[j] = IF j = n + 1 THEN form ELSE rest[j]
    BY <1>8
  <2>3. j # n + 1 => rest[j] = cache[j + m - 1]
    BY <1>5, <2>1
  <2> QED
    BY <2>2, <2>3
<1>10. \A j \in 1..n : j + m - 1 \in 1..Len(cache)
  BY <1>4
<1>11. \A j \in 1..(n + 1) : j # n + 1 => j \in 1..n
  BY <1>4
<1>12. ASSUME NEW j \in 1..Len(cache') PROVE cache'[j].key \notin {None} \cup lost'
  <2>1. CASE j = n + 1
    BY <1>3, <1>8, <1>9, <2>1
  <2>2. CASE j # n + 1
    <3>1. j + m - 1 \in 1..Len(cache) /\ cache'[j] = cache[j + m - 1]
      BY <1>8, <1>9, <1>10, <1>11, <2>2
    <3> QED
      BY <1>1, <3>1
  <2> QED
    BY <2>1, <2>2
<1>13. ASSUME NEW j \in 1..Len(cache'), NEW k \in 1..Len(cache'), cache'[j] = cache'[k]
       PROVE  j = k
  <2>1. \A l \in 1..Len(cache) : cache[l] # form
    BY <1>3, <1>4
  <2>2. CASE j # n + 1 /\ k # n + 1
    <3>1. cache[j + m - 1] = cache[k + m - 1]
      BY <1>8, <1>9, <1>13, <2>2
    <3>2. j + m - 1 \in 1..Len(cache) /\ k + m - 1 \in 1..Len(cache)
      BY <1>8, <1>10, <1>11, <2>2
    <3>3. j + m - 1 = k + m - 1
      BY <1>1, <3>1, <3>2
    <3> QED
      BY <3>3
  <2>3. \A i \in 1..(n + 1) : cache'[i] = form => i = n + 1
    <3> SUFFICES ASSUME NEW i \in 1..(n + 1), i # n + 1 PROVE cache'[i] # form
      OBVIOUS
    <3> HIDE DEF n
    <3>1. i \in 1..n
      BY <1>11
    <3>2. i + m - 1 \in 1..Len(cache)
      BY <1>10, <3>1
    <3>3. cache'[i] = cache[i + m - 1]
      BY <1>9
    <3> QED
      BY <2>1, <3>2, <3>3
  <2>4. cache'[n + 1] = form /\ 1..Len(cache') = 1..(n + 1)
    <3>1. n + 1 \in 1..(n + 1)
      BY <1>4
    <3> QED
      BY <1>8, <1>9, <3>1
  <2> HIDE DEF n
  <2>5. CASE j = n + 1
    BY <1>13, <2>3, <2>4, <2>5
  <2>6. CASE k = n + 1
    BY <1>13, <2>3, <2>4, <2>6
  <2> QED
    BY <2>2, <2>5, <2>6
<1>14. \A f \in forms : Gone(f) => Gone(f)'
  BY GoneLasts
<1>15. ASSUME NEW f \in forms', f.key # None PROVE InCache(f)' \/ Gone(f)'
  <2>1. CASE f = form
    <3>1. n + 1 \in 1..(n + 1)
      BY <1>4
    <3> QED
      BY <1>8, <2>1, <3>1 DEF InCache
  <2>2. CASE f \in forms /\ Gone(f)
    BY <1>14, <2>2
  <2>3. ASSUME f \in forms, NEW i \in 1..Len(cache), cache[i] = f PROVE InCache(f)' \/ Gone(f)'
    <3>1. CASE i >= m
      <4>1. i - m + 1 \in 1..(n + 1) /\ i - m + 1 # n + 1 /\ (i - m + 1) + m - 1 = i
        BY <1>4, <3>1
      <4> DEFINE k == i - m + 1
      <4>2. cache'[k] = f
        BY <1>9, <2>3, <4>1
      <4>3. k \in 1..Len(cache')
        BY <1>8, <4>1
      <4> HIDE DEF k
      <4>4. InCache(f)'
        BY <4>2, <4>3 DEF InCache
      <4> QED
        BY <4>4
    <3>2. CASE i < m
      <4>1. Len(cache) >= MaxSize
        BY <1>2, <1>4, <3>2
      <4>2. /\ IsFiniteSet(forms') /\ form.key \notin {None} \cup lost
            /\ \A g \in forms : g.key # form.key /\ (g.key # None => form.key > g.key)
        BY <1>3 DEF Onwards
      <4> QED
        BY <2>3, <4>1, <4>2, RoomMade
    <3> QED
      BY <1>4, <3>1, <3>2
  <2> QED
    BY <1>15, <2>1, <2>2, <2>3 DEF ShownInv, CacheHolds, InCache
<1> QED
  BY <1>8, <1>12, <1>13, <1>15 DEF CacheHolds

\* A form without a key, from a seed, is not cached.
LEMMA KeylessShown ==
    ASSUME ShownInv, CreationInv', NEW r \in Requests, TracesOn(r), NEW form,
           forms' = forms \cup {form}, form.key = None, form.preview.tab = None,
           UNCHANGED <<cache, watches, Keys>>
    PROVE  ShownInv'
<1>1. FormsKeyed' /\ IsFiniteSet(forms')
  BY NewForm DEF Keys
<1>2. Onwards
  BY <1>1 DEF Onwards, Keys
<1>3. /\ cache \in Seq(forms) /\ forms \subseteq forms'
      /\ \A i \in 1..Len(cache) : cache[i].key \notin {None} \cup lost
      /\ \A i, j \in 1..Len(cache) : cache[i] = cache[j] => i = j
      /\ \A f \in forms : f.key # None => InCache(f) \/ Gone(f)
  BY DEF ShownInv, CacheHolds
<1>4. cache' \in Seq(forms')
  BY <1>3
<1>5. \A f \in forms' : f.key # None => InCache(f)' \/ Gone(f)'
  BY <1>2, <1>3, GoneLasts DEF InCache
<1>6. CacheHolds'
  BY <1>3, <1>4, <1>5 DEF CacheHolds, Keys
<1> QED
  BY <1>1, <1>6, TracesKept, WatchesStill DEF ShownInv

LEMMA ShowPreviewShown ==
    ASSUME ShownInv, CreationInv', NEW r \in Requests, ShowPreview(r)
    PROVE  ShownInv'
<1> DEFINE preview == request[r].preview
           key == IF request[r].purpose = "tab" THEN NewKey ELSE None
           form == [key |-> key, preview |-> preview]
<1>1. /\ UNCHANGED <<watches, Keys>> /\ Respond(r)
      /\ request[r].at = "read" /\ request[r].purpose \in {"tab", "seed"}
  BY DEF ShowPreview, Workflow, At
<1>2. TracesOn(r)
  BY <1>1, RespondTraces
<1>3. CASE UNCHANGED <<forms, cache>>
  BY <1>1, <1>2, <1>3, MoveShown
<1>4. CASE /\ forms' = forms \cup {form}
           /\ cache' = IF key = None THEN cache ELSE Stored(key, preview)
  <2>1. form.key = key /\ form.preview = preview /\ key \in {None, NewKey}
    OBVIOUS
  <2>2. key = None => preview.tab = None
    <3>1. NewKey # None
      <4>1. NewKey \in Nat
        BY FS_CardinalityType DEF ShownInv, FormsKeyed, NewKey
      <4> QED
        BY <4>1, WatchCreationAssumption
    <3> QED
      BY <1>1, <3>1 DEF ShownInv, RequestsTraced, Traced
  <2>3. form = [key |-> key, preview |-> preview]
    OBVIOUS
  <2> HIDE DEF form, key, preview
  <2>4. CASE key = None
    BY <1>1, <1>2, <1>4, <2>1, <2>2, <2>4, KeylessShown
  <2>5. CASE key # None
    <3>1. /\ FormsKeyed' /\ IsFiniteSet(forms')
          /\ key \notin {None} \cup lost
          /\ \A f \in forms : f.key # key /\ (f.key # None => key > f.key)
      BY <1>1, <1>4, <2>1, <2>2, <2>5, NewForm DEF Keys
    <3>2. Onwards
      BY <1>1, <1>4, <3>1 DEF Onwards, Keys
    <3>3. CacheHolds'
      BY <1>1, <1>4, <2>3, <2>5, <3>1, <3>2, StoredHolds DEF Keys
    <3> QED
      BY <1>1, <1>2, <3>1, <3>3, TracesKept, WatchesStill DEF ShownInv
  <2> QED
    BY <2>4, <2>5
<1> QED
  BY <1>3, <1>4 DEF ShowPreview

\* The form beside the error of a creation is that of a seed.
LEMMA EndFallbackShown ==
    ASSUME ShownInv, CreationInv', NEW r \in Requests, EndFallback(r)
    PROVE  ShownInv'
<1> DEFINE form == [key |-> None, preview |-> request[r].preview]
<1>1. /\ UNCHANGED <<cache, watches, Keys>> /\ Respond(r)
      /\ request[r].at = "read" /\ request[r].purpose = "fallback"
      /\ UNCHANGED forms \/ forms' = forms \cup {form}
  BY DEF EndFallback, Workflow, At
<1>2. TracesOn(r)
  BY <1>1, RespondTraces
<1>3. form.key = None /\ form.preview = request[r].preview
  OBVIOUS
<1>4. form.preview.tab = None
  BY <1>1, <1>3 DEF ShownInv, RequestsTraced, Traced
<1> HIDE DEF form
<1> QED
  BY <1>1, <1>2, <1>3, <1>4, KeylessShown, MoveShown

\* The invariant holds at the start, and every step keeps it.
LEMMA InitShown == Init /\ CreationInv => ShownInv
<1> SUFFICES ASSUME Init, CreationInv PROVE ShownInv
  OBVIOUS
<1>1. /\ cache = <<>> /\ forms = {} /\ watches = {} /\ lost = {}
      /\ \A r \in Requests : request[r].at = "idle"
  BY DEF Init, Idle
<1>2. FormsKeyed /\ CacheHolds /\ FormsKept /\ WatchAsShown
  BY <1>1, FS_EmptySet DEF FormsKeyed, CacheHolds, FormsKept, WatchAsShown
<1> QED
  BY <1>1, <1>2 DEF ShownInv, RequestsTraced, Traced, Follows, TabPlaces, SeedPlaces

LEMMA StepShown ==
    ASSUME ShownInv, CreationInv', NEW r \in Requests, Step(r)
    PROVE  ShownInv'
<1>1. CASE ReadTab(r)
  BY <1>1, TabThreadsTrace, MoveShown DEF ReadTab
<1>2. CASE LookUp(r)
  BY <1>2, SeedThreadsTrace, MoveShown DEF LookUp
<1>3. ASSUME NEW t, PreviewTab(r, t) PROVE ShownInv'
  BY <1>3, PreviewsShown
<1>4. ASSUME NEW url, PreviewSeed(r, url) PROVE ShownInv'
  BY <1>4, PreviewsShown
<1> QED
  BY <1>1, <1>2, <1>3, <1>4, SubmitShown, ShowPreviewShown, AnswersShown, EndFallbackShown,
     FindExistingShown,
     SaveWatchShown, SaveDraftShown, PersistInitialShown DEF Step

LEMMA NextShown == ShownInv /\ [Next]_vars => ShownInv'
<1> SUFFICES ASSUME ShownInv, [Next]_vars PROVE ShownInv'
  OBVIOUS
<1>1. CreationInv'
  BY NextCreation DEF ShownInv
<1>2. CASE Tick \/ Browse \/ UNCHANGED vars
  BY <1>1, <1>2, MeanwhileShown DEF Tick, Browse, vars, Keys
<1> QED
  BY <1>1, <1>2, StepShown, DeleteShown, RestartShown DEF Next

\* The invariant of forms, cache and requests holds of every reachable state.
THEOREM ShownInductive == Spec => []ShownInv
<1>1. Init => ShownInv
  BY InitShown, InitCreation
<1> QED
  BY <1>1, NextShown, PTL DEF Spec

\* A watch is for what its form showed (create_watch_from_form), unless the preview
\* of that form had gone from the cache when it was submitted: only a creation, a
\* restart or enough other forms take it from there, and else the creation goes by it.
THEOREM AsShown == Spec => []WatchAsShown
<1>1. ShownInv => WatchAsShown
  BY DEF ShownInv
<1> QED
  BY <1>1, ShownInductive, PTL

-----------------------------------------------------------------------------
(* What the URLs say                                                       *)

\* The least of at most six positions.
LEMMA Least ==
    ASSUME NEW S \in SUBSET (1..6), S # {}
    PROVE  Min(S) \in S /\ \A y \in S : Min(S) <= y
<1>1. \E x \in S : \A y \in S : x <= y
  <2>1. CASE 1 \in S BY <2>1
  <2>2. CASE 1 \notin S /\ 2 \in S BY <2>2
  <2>3. CASE 1 \notin S /\ 2 \notin S /\ 3 \in S BY <2>3
  <2>4. CASE 1 \notin S /\ 2 \notin S /\ 3 \notin S /\ 4 \in S BY <2>4
  <2>5. CASE 1 \notin S /\ 2 \notin S /\ 3 \notin S /\ 4 \notin S /\ 5 \in S BY <2>5
  <2>6. CASE 1 \notin S /\ 2 \notin S /\ 3 \notin S /\ 4 \notin S /\ 5 \notin S /\ 6 \in S BY <2>6
  <2>7. \A x \in S : x \in {1, 2, 3, 4, 5, 6}
    OBVIOUS
  <2> QED BY <2>1, <2>2, <2>3, <2>4, <2>5, <2>6, <2>7
<1> QED
  BY <1>1 DEF Min

\* A list of names is searched in its order.
Names(keys) == keys \in Seq(ToSet(keys)) /\ Len(keys) <= 6

LEMMA FirstIs ==
    ASSUME NEW query, NEW keys, Names(keys)
    PROVE  \/ /\ ExtractFirst(query, keys) = None
              /\ \A i \in 1..Len(keys) : keys[i] \notin DOMAIN query
           \/ \E i \in 1..Len(keys) :
                 /\ keys[i] \in DOMAIN query
                 /\ \A j \in 1..(i - 1) : keys[j] \notin DOMAIN query
                 /\ ExtractFirst(query, keys) = query[keys[i]]
<1> DEFINE present == {i \in DOMAIN keys : keys[i] \in DOMAIN query}
<1>1. DOMAIN keys = 1..Len(keys) /\ Len(keys) \in Nat /\ Len(keys) <= 6
  BY LenProperties DEF Names
<1>2. CASE present = {}
  BY <1>1, <1>2 DEF ExtractFirst
<1>3. CASE present # {}
  <2>1. present \in SUBSET (1..6)
    BY <1>1
  <2>2. Min(present) \in present /\ \A y \in present : Min(present) <= y
    BY <2>1, <1>3, Least
  <2>3. ExtractFirst(query, keys) = query[keys[Min(present)]]
    BY <1>3 DEF ExtractFirst
  <2>4. ASSUME NEW j \in 1..(Min(present) - 1) PROVE keys[j] \notin DOMAIN query
    <3>1. Min(present) \in 1..Len(keys)
      BY <1>1, <2>2
    <3>2. j \in DOMAIN keys /\ ~(Min(present) <= j)
      BY <3>1, <1>1
    <3> QED
      BY <3>2, <2>2
  <2> QED
    BY <1>1, <2>2, <2>3, <2>4
<1> QED
  BY <1>2, <1>3

\* What is found is the value of one of the names, if the query has any.
LEMMA FirstFound ==
    ASSUME NEW query, NEW keys, Names(keys)
    PROVE  LET found == ExtractFirst(query, keys) IN
           IF DOMAIN query \cap ToSet(keys) = {} THEN found = None
           ELSE \E k \in DOMAIN query \cap ToSet(keys) : found = query[k]
<1>1. DOMAIN keys = 1..Len(keys)
  BY LenProperties DEF Names
<1>2. \A i \in 1..Len(keys) : keys[i] \in ToSet(keys)
  BY <1>1 DEF ToSet
<1>3. \A k \in ToSet(keys) : \E i \in 1..Len(keys) : keys[i] = k
  BY <1>1 DEF ToSet
<1> QED
  BY <1>2, <1>3, FirstIs

\* A query that is given the value it has under another of the names still has
\* it; so has one that is given none of the names.
LEMMA FirstStays ==
    ASSUME NEW query, NEW keys, Names(keys), NEW more, ExtractFirst(query, keys) # None,
           \A k \in ToSet(keys) \cap DOMAIN more : more[k] = ExtractFirst(query, keys)
    PROVE  ExtractFirst(With(query, more), keys) = ExtractFirst(query, keys)
<1> DEFINE longer == With(query, more)
<1>1. /\ DOMAIN longer = DOMAIN query \cup DOMAIN more
      /\ \A k \in DOMAIN more : longer[k] = more[k]
      /\ \A k \in DOMAIN query \ DOMAIN more : longer[k] = query[k]
  BY WithFields
<1> HIDE DEF longer
<1>2. PICK i \in 1..Len(keys) :
           /\ keys[i] \in DOMAIN query
           /\ \A j \in 1..(i - 1) : keys[j] \notin DOMAIN query
           /\ ExtractFirst(query, keys) = query[keys[i]]
  BY FirstIs
<1>3. keys[i] \in DOMAIN longer
  BY <1>1, <1>2
<1>4. PICK j \in 1..Len(keys) :
           /\ keys[j] \in DOMAIN longer
           /\ \A k \in 1..(j - 1) : keys[k] \notin DOMAIN longer
           /\ ExtractFirst(longer, keys) = longer[keys[j]]
  BY <1>3, FirstIs
<1>5. Len(keys) \in Nat /\ keys[j] \in ToSet(keys)
  BY LenProperties DEF Names, ToSet
<1>6. j <= i
  BY <1>3, <1>4, <1>5
<1>7. longer[keys[j]] = ExtractFirst(query, keys)
  <2>1. CASE keys[j] \in DOMAIN more
    BY <2>1, <1>1, <1>5
  <2>2. CASE keys[j] \notin DOMAIN more
    <3>1. keys[j] \in DOMAIN query
      BY <2>2, <1>1, <1>4
    <3>2. j = i
      BY <3>1, <1>2, <1>5, <1>6
    <3> QED
      BY <2>2, <3>2, <1>1, <1>2
  <2> QED
    BY <2>1, <2>2
<1> QED
  BY <1>4, <1>7 DEF longer

LEMMA FirstMissing ==
    ASSUME NEW query, NEW keys, Names(keys), NEW more, ToSet(keys) \cap DOMAIN more = {}
    PROVE  ExtractFirst(With(query, more), keys) = ExtractFirst(query, keys)
<1> DEFINE longer == With(query, more)
<1>1. /\ DOMAIN longer = DOMAIN query \cup DOMAIN more
      /\ \A k \in DOMAIN query \ DOMAIN more : longer[k] = query[k]
  BY WithFields
<1> HIDE DEF longer
<1>2. CASE ExtractFirst(query, keys) # None
  BY <1>2, FirstStays DEF longer
<1>3. CASE DOMAIN query \cap ToSet(keys) = {}
  <2>1. DOMAIN longer \cap ToSet(keys) = {}
    BY <1>1, <1>3
  <2> QED
    BY <1>3, <2>1, FirstFound DEF longer
<1>4. CASE ExtractFirst(query, keys) = None /\ DOMAIN query \cap ToSet(keys) # {}
  <2>1. PICK i \in 1..Len(keys) :
           /\ keys[i] \in DOMAIN query
           /\ \A j \in 1..(i - 1) : keys[j] \notin DOMAIN query
           /\ ExtractFirst(query, keys) = query[keys[i]]
    <3>1. \E j \in 1..Len(keys) : keys[j] \in DOMAIN query
      BY <1>4, LenProperties DEF Names, ToSet
    <3> QED
      BY <3>1, FirstIs
  <2>2. \A k \in 1..Len(keys) : keys[k] \in ToSet(keys)
    BY LenProperties DEF Names, ToSet
  <2>3. \A k \in 1..Len(keys) : keys[k] \in DOMAIN longer <=> keys[k] \in DOMAIN query
    BY <1>1, <2>2
  <2>4. PICK j \in 1..Len(keys) :
           /\ keys[j] \in DOMAIN longer
           /\ \A k \in 1..(j - 1) : keys[k] \notin DOMAIN longer
           /\ ExtractFirst(longer, keys) = longer[keys[j]]
    BY <2>1, <2>3, FirstIs
  <2>5. i = j
    <3>1. Len(keys) \in Nat
      BY DEF Names
    <3> QED
      BY <2>1, <2>3, <2>4, <3>1
  <2> QED
    BY <2>1, <2>2, <2>4, <2>5, <1>1 DEF longer
<1> QED
  BY <1>2, <1>3, <1>4

\* The names of each value.
LEMMA CheckInNames ==
    /\ Names(CheckInKeys)
    /\ ToSet(CheckInKeys) = {"checkin", "check_in", "checkin_date", "check_in_date", "ci"}
  BY DEF Names, ToSet, CheckInKeys
LEMMA CheckOutNames ==
    /\ Names(CheckOutKeys)
    /\ ToSet(CheckOutKeys) = {"checkout", "check_out", "checkout_date", "check_out_date", "co"}
  BY DEF Names, ToSet, CheckOutKeys
LEMMA PeopleNames ==
    /\ Names(PeopleKeys)
    /\ ToSet(PeopleKeys) = {"adults", "adult", "people_count", "occupancy", "guests", "ppc"}
  BY DEF Names, ToSet, PeopleKeys
LEMMA RoomsNames ==
    Names(RoomsKeys) /\ ToSet(RoomsKeys) = {"rooms", "room_count", "room_num", "rc"}
  BY DEF Names, ToSet, RoomsKeys
LEMMA NightsNames ==
    Names(NightsKeys) /\ ToSet(NightsKeys) = {"si", "nights", "stay_nights"}
  BY DEF Names, ToSet, NightsKeys
LEMMA HotelNames ==
    Names(HotelKeys) /\ ToSet(HotelKeys) = {"hotel_id"}
  BY DEF Names, ToSet, HotelKeys

\* A stay that can be looked up.
SoundStay(stay) ==
    /\ stay.hotel # None
    /\ stay.checkIn \in Int /\ stay.checkOut \in Int /\ stay.checkIn < stay.checkOut
    /\ stay.people \in Int /\ stay.people > 0
    /\ stay.rooms \in Int /\ stay.rooms > 0

\* A draft is for a sound stay when its URL can be previewed.
LEMMA PreviewSound ==
    ASSUME NEW url, IsUrl(url), ParseSeedUrl(url) # None,
           ReadyForCandidateLookup(ParseSeedUrl(url))
    PROVE  /\ IsSupportedUrl(url) /\ ParseSeedUrl(url) = Draft(url)
           /\ ValidDraft(Draft(url)) /\ SoundStay(Draft(url))
<1> DEFINE query == NormalizeSeedUrl(url).query
           draft == Draft(url)
<1>1. IsSupportedUrl(url) /\ ParseSeedUrl(url) = draft /\ ValidDraft(draft)
  BY DEF ParseSeedUrl
<1>2. /\ DOMAIN query \subseteq DOMAIN url.query
      /\ \A k \in DOMAIN query : query[k] = url.query[k]
  BY DEF NormalizeSeedUrl, IsUrl
<1>3. \A k \in DOMAIN query \cap DateNames : query[k] \in Int \cup {Malformed}
  BY <1>2 DEF IsUrl
<1>4. /\ draft.checkIn = CheckInDate(query)
      /\ draft.checkOut = CheckOutDate(query, draft.checkIn)
  BY DEF Draft
<1>5. None \notin {draft.hotel, draft.checkIn, draft.checkOut, draft.people, draft.rooms}
  BY <1>1 DEF ReadyForCandidateLookup
<1>6. /\ draft.checkIn # Malformed /\ draft.checkOut # Malformed
      /\ draft.checkIn < draft.checkOut
      /\ Counts(draft.people) /\ Counts(draft.rooms)
  BY <1>1, <1>5 DEF ValidDraft
<1> HIDE DEF query, draft
<1>7. draft.checkIn \in Int
  <2>1. CASE ExtractFirst(query, CheckInKeys) # None
    <3>1. draft.checkIn = ExtractFirst(query, CheckInKeys)
      BY <2>1, <1>4 DEF CheckInDate
    <3>2. PICK k \in DOMAIN query : draft.checkIn = query[k] /\ k \in DateNames
      BY <2>1, <3>1, FirstFound, CheckInNames DEF DateNames
    <3> QED
      BY <3>2, <1>3, <1>6
  <2>2. CASE ExtractFirst(query, CheckInKeys) = None
    <3>1. "cid" \in DOMAIN query /\ draft.checkIn = query["cid"]
      BY <2>2, <1>4, <1>5 DEF CheckInDate
    <3> QED
      BY <3>1, <1>3, <1>6 DEF DateNames
  <2> QED
    BY <2>1, <2>2
<1>8. draft.checkOut \in Int
  <2>1. CASE ExtractFirst(query, CheckOutKeys) # None
    <3>1. draft.checkOut = ExtractFirst(query, CheckOutKeys)
      BY <2>1, <1>4 DEF CheckOutDate
    <3>2. PICK k \in DOMAIN query : draft.checkOut = query[k] /\ k \in DateNames
      BY <2>1, <3>1, FirstFound, CheckOutNames DEF DateNames
    <3> QED
      BY <3>2, <1>3, <1>6
  <2>2. CASE ExtractFirst(query, CheckOutKeys) = None
    BY <2>2, <1>4, <1>5, <1>6, <1>7 DEF CheckOutDate
  <2> QED
    BY <2>1, <2>2
<1>9. draft.people \in Int /\ draft.people > 0 /\ draft.rooms \in Int /\ draft.rooms > 0
  BY <1>5, <1>6 DEF Counts
<1> QED
  BY <1>1, <1>5, <1>6, <1>7, <1>8, <1>9 DEF SoundStay, draft

\* The draft of a URL is valid when its stay is sound.
LEMMA SoundParsed ==
    ASSUME NEW url, IsSupportedUrl(url), SoundStay(Draft(url))
    PROVE  ParseSeedUrl(url) = Draft(url)
  BY NamesAssumption DEF SoundStay, ParseSeedUrl, ValidDraft, Counts

\* The page of a target is read as the stay of the target.
LEMMA TargetPageRead ==
    ASSUME NEW target, SoundStay(target)
    PROVE  StayOf(ParseSeedUrl(TargetPageUrl(target))) = StayOf(target)
<1> DEFINE url == TargetPageUrl(target)
           query == NormalizeSeedUrl(url).query
<1>1. /\ DOMAIN query = {"cid", "rm", "pln", "ppc", "rc", "si", "top"}
      /\ query["cid"] = target.checkIn /\ query["ppc"] = target.people
      /\ query["rc"] = target.rooms /\ query["si"] = target.checkOut - target.checkIn
  BY DEF TargetPageUrl, NormalizeSeedUrl, Tracking, Nights
<1>2. Draft(url).hotel = target.hotel
  BY DEF TargetPageUrl, Draft, HotelIdFromPath, SoundStay, Last
<1>3. /\ Draft(url).checkIn = CheckInDate(query)
      /\ Draft(url).checkOut = CheckOutDate(query, CheckInDate(query))
      /\ Draft(url).people = ExtractFirst(query, PeopleKeys)
      /\ Draft(url).rooms = ExtractFirst(query, RoomsKeys)
  BY DEF Draft
<1>4. IsSupportedUrl(url)
  BY DEF IsSupportedUrl, TargetPageUrl
<1> HIDE DEF query
<1>5. CheckInDate(query) = target.checkIn
  <2>1. ExtractFirst(query, CheckInKeys) = None
    BY <1>1, FirstFound, CheckInNames
  <2> QED
    BY <2>1, <1>1, NamesAssumption DEF CheckInDate, SoundStay
<1>6. ExtractFirst(query, NightsKeys) = target.checkOut - target.checkIn
  BY <1>1, FirstFound, NightsNames
<1>7. ExtractFirst(query, PeopleKeys) = target.people
  BY <1>1, FirstFound, PeopleNames
<1>8. ExtractFirst(query, RoomsKeys) = target.rooms
  BY <1>1, FirstFound, RoomsNames
<1>9. CheckOutDate(query, target.checkIn) = target.checkOut
  <2>1. ExtractFirst(query, CheckOutKeys) = None
    BY <1>1, FirstFound, CheckOutNames
  <2>2. /\ target.checkIn \in Int /\ target.checkOut - target.checkIn \in Int
        /\ target.checkOut - target.checkIn > 0
        /\ target.checkIn + (target.checkOut - target.checkIn) = target.checkOut
    BY DEF SoundStay
  <2> QED
    BY <2>1, <2>2, <1>6 DEF CheckOutDate
<1>10. StayOf(Draft(url)) = StayOf(target)
  BY <1>2, <1>3, <1>5, <1>7, <1>8, <1>9 DEF StayOf
<1>11. SoundStay(Draft(url))
  BY <1>2, <1>3, <1>5, <1>7, <1>8, <1>9 DEF SoundStay
<1> QED
  BY <1>4, <1>10, <1>11, SoundParsed

\* The page the candidates are looked up on is read as the stay of the draft.
LEMMA SearchPageRead ==
    ASSUME NEW url, IsUrl(url), ParseSeedUrl(url) # None,
           ReadyForCandidateLookup(ParseSeedUrl(url))
    PROVE  StayOf(ParseSeedUrl(SearchPageUrl(ParseSeedUrl(url)))) = StayOf(ParseSeedUrl(url))
<1> DEFINE draft == Draft(url)
           seed == NormalizeSeedUrl(url)
           query == seed.query
           said == [cid |-> draft.checkIn,
                    si |-> IF draft.checkIn = None THEN None ELSE Nights(draft),
                    ppc |-> draft.people, rc |-> draft.rooms,
                    rm |-> draft.room, pln |-> draft.plan, top |-> "rooms"]
           more == [k \in {k \in DOMAIN said : said[k] # None} |-> said[k]]
           search == SearchPageUrl(draft)
           longer == With(query, more)
<1>1. IsSupportedUrl(url) /\ ParseSeedUrl(url) = draft /\ SoundStay(draft)
  BY PreviewSound
<1>2. /\ DOMAIN more \subseteq {"cid", "si", "ppc", "rc", "rm", "pln", "top"}
      /\ "cid" \in DOMAIN more /\ more["cid"] = draft.checkIn
      /\ "si" \in DOMAIN more /\ more["si"] = draft.checkOut - draft.checkIn
      /\ more["ppc"] = draft.people
      /\ more["rc"] = draft.rooms
  <2>1. draft.checkIn # None /\ draft.people # None /\ draft.rooms # None
    BY <1>1, NamesAssumption DEF SoundStay
  <2>2. Nights(draft) = draft.checkOut - draft.checkIn /\ Nights(draft) # None
    BY <1>1, NamesAssumption DEF Nights, SoundStay
  <2> HIDE DEF draft
  <2>3. {"cid", "si", "ppc", "rc"} \subseteq DOMAIN more
    BY SMTT(30), <2>1, <2>2
  <2> QED
    BY <2>1, <2>2, <2>3
<1>3. /\ DOMAIN longer = DOMAIN query \cup DOMAIN more
      /\ \A k \in DOMAIN more : longer[k] = more[k]
      /\ longer = [k \in DOMAIN longer |-> longer[k]]
  BY DEF With
<1>4. DOMAIN query \cap Tracking = {}
  BY SMTT(30) DEF NormalizeSeedUrl, IsUrl
<1>5. search.host = url.host /\ search.path = url.path /\ search.query = longer
  BY SMTT(30) DEF SearchPageUrl, Draft, NormalizeSeedUrl, IsUrl
<1>6. NormalizeSeedUrl(search).query = longer
  <2>1. search = [host |-> url.host, path |-> url.path, query |-> longer]
    <3>1. draft.seed = seed
      BY DEF Draft
    <3>2. search = [seed EXCEPT !.query = longer]
      BY <3>1 DEF SearchPageUrl
    <3>3. seed = [host |-> url.host, path |-> url.path, query |-> query]
      BY DEF NormalizeSeedUrl, IsUrl
    <3> HIDE DEF search, seed, query, longer
    <3> QED
      BY <3>2, <3>3
  <2>2. NormalizeSeedUrl(search).query = [k \in DOMAIN longer \ Tracking |-> longer[k]]
    BY SMTT(30), <2>1 DEF NormalizeSeedUrl
  <2>3. DOMAIN longer \ Tracking = DOMAIN longer
    BY <1>2, <1>3, <1>4 DEF Tracking
  <2> QED
    BY <2>2, <2>3, <1>3
<1>7. /\ draft.hotel = IF HotelIdFromPath(url.path) # None THEN HotelIdFromPath(url.path)
                       ELSE ExtractFirst(query, HotelKeys)
      /\ draft.checkIn = CheckInDate(query)
      /\ draft.checkOut = CheckOutDate(query, draft.checkIn)
      /\ draft.people = ExtractFirst(query, PeopleKeys)
      /\ draft.rooms = ExtractFirst(query, RoomsKeys)
  BY SMTT(30) DEF Draft
<1>8. /\ Draft(search).hotel = IF HotelIdFromPath(url.path) # None THEN HotelIdFromPath(url.path)
                               ELSE ExtractFirst(longer, HotelKeys)
      /\ Draft(search).checkIn = CheckInDate(longer)
      /\ Draft(search).checkOut = CheckOutDate(longer, CheckInDate(longer))
      /\ Draft(search).people = ExtractFirst(longer, PeopleKeys)
      /\ Draft(search).rooms = ExtractFirst(longer, RoomsKeys)
  BY <1>5, <1>6 DEF Draft
<1> HIDE DEF draft, query, more, search
<1>9. /\ ExtractFirst(longer, HotelKeys) = ExtractFirst(query, HotelKeys)
      /\ ExtractFirst(longer, CheckInKeys) = ExtractFirst(query, CheckInKeys)
      /\ ExtractFirst(longer, CheckOutKeys) = ExtractFirst(query, CheckOutKeys)
  BY <1>2, FirstMissing, HotelNames, CheckInNames, CheckOutNames
<1>10. ExtractFirst(longer, PeopleKeys) = ExtractFirst(query, PeopleKeys)
  <2>1. ExtractFirst(query, PeopleKeys) = draft.people /\ draft.people # None
    BY <1>1, <1>7, NamesAssumption DEF SoundStay, draft
  <2>2. \A k \in ToSet(PeopleKeys) \cap DOMAIN more : more[k] = draft.people
    BY <1>2, PeopleNames
  <2> QED
    BY <2>1, <2>2, FirstStays, PeopleNames
<1>11. ExtractFirst(longer, RoomsKeys) = ExtractFirst(query, RoomsKeys)
  <2>1. ExtractFirst(query, RoomsKeys) = draft.rooms /\ draft.rooms # None
    BY <1>1, <1>7, NamesAssumption DEF SoundStay, draft
  <2>2. \A k \in ToSet(RoomsKeys) \cap DOMAIN more : more[k] = draft.rooms
    BY <1>2, RoomsNames
  <2> QED
    BY <2>1, <2>2, FirstStays, RoomsNames
<1>12. CheckInDate(longer) = draft.checkIn
  <2>1. CASE ExtractFirst(query, CheckInKeys) # None
    BY <2>1, <1>7, <1>9 DEF CheckInDate
  <2>2. CASE ExtractFirst(query, CheckInKeys) = None
    <3>1. "cid" \in DOMAIN longer /\ longer["cid"] = draft.checkIn
      BY <1>2, <1>3
    <3>2. draft.checkIn # Malformed
      BY <1>1, NamesAssumption DEF SoundStay
    <3> QED
      BY <2>2, <3>1, <3>2, <1>9 DEF CheckInDate
  <2> QED
    BY <2>1, <2>2
<1>13. CheckOutDate(longer, draft.checkIn) = draft.checkOut
  <2>1. CASE ExtractFirst(query, CheckOutKeys) # None
    BY <2>1, <1>7, <1>9 DEF CheckOutDate
  <2>2. CASE ExtractFirst(query, CheckOutKeys) = None
    <3> DEFINE nights == ExtractFirst(query, NightsKeys)
    <3>1. /\ draft.checkIn \in Int /\ draft.checkOut \in Int
          /\ draft.checkOut \notin {None, Malformed}
      BY <1>1, NamesAssumption DEF SoundStay
    <3>2. nights \in Int /\ nights > 0 /\ draft.checkOut = draft.checkIn + nights
      BY <2>2, <3>1, <1>7 DEF CheckOutDate
    <3>3. nights # None /\ more["si"] = nights
      BY <3>1, <3>2, <1>2, NamesAssumption
    <3>4. \A k \in ToSet(NightsKeys) \cap DOMAIN more : more[k] = nights
      BY <3>3, <1>2, NightsNames
    <3>6. ExtractFirst(longer, NightsKeys) = nights
      BY <3>3, <3>4, FirstStays, NightsNames
    <3> HIDE DEF nights
    <3> QED
      BY <2>2, <3>1, <3>2, <3>6, <1>9 DEF CheckOutDate
  <2> QED
    BY <2>1, <2>2
<1>14. /\ Draft(search).hotel = draft.hotel
       /\ Draft(search).checkIn = draft.checkIn
       /\ Draft(search).checkOut = draft.checkOut
       /\ Draft(search).people = draft.people
       /\ Draft(search).rooms = draft.rooms
  BY <1>7, <1>8, <1>9, <1>10, <1>11, <1>12, <1>13
<1>15. SoundStay(Draft(search)) /\ IsSupportedUrl(search)
  BY <1>14, <1>1, <1>5 DEF SoundStay, IsSupportedUrl, draft
<1>16. ParseSeedUrl(search) = Draft(search)
  BY <1>15, SoundParsed
<1> QED
  BY <1>1, <1>14, <1>16 DEF StayOf, draft, search

\* What a draft says, as a target.
Exact(target) ==
    target = [hotel |-> target.hotel, room |-> target.room, plan |-> target.plan,
              checkIn |-> target.checkIn, checkOut |-> target.checkOut,
              people |-> target.people, rooms |-> target.rooms]

\* The page of a target is that of a watch if it says the same, but for the
\* nights, and only then.
LEMMA PageMarked ==
    ASSUME NEW said, NEW target, Exact(said), Exact(target),
           SoundStay(said), SoundStay(target), said.hotel \in HotelIds \/ target.hotel \in HotelIds
    PROVE  TabMatchesWatch(TargetPageUrl(said), Watch(target))
             <=> AnyNights(said) = AnyNights(target)
<1> DEFINE here == Signature(TargetPageUrl(said))
           there == Signature(TargetPageUrl(target))
<1>1. /\ here.hotel = IF said.hotel \in HotelIds THEN said.hotel ELSE None
      /\ here.room = said.room /\ here.plan = said.plan /\ here.checkIn = said.checkIn
      /\ here.people = said.people /\ here.rooms = said.rooms
  BY DEF Signature, TargetPageUrl, Value, Last
<1>2. /\ there.hotel = IF target.hotel \in HotelIds THEN target.hotel ELSE None
      /\ there.room = target.room /\ there.plan = target.plan /\ there.checkIn = target.checkIn
      /\ there.people = target.people /\ there.rooms = target.rooms
  BY DEF Signature, TargetPageUrl, Value, Last
<1>3. TabMatchesWatch(TargetPageUrl(said), Watch(target))
        <=> SignaturesMatch(there, here) \/ MatchesTarget(here, target)
  BY DEF TabMatchesWatch, Watch, UrlsMatch, IsPageUrl, TargetPageUrl
<1> HIDE DEF here, there
<1>4. AnyNights(said) = AnyNights(target)
        <=> /\ said.hotel = target.hotel /\ said.room = target.room /\ said.plan = target.plan
            /\ said.checkIn = target.checkIn /\ said.people = target.people
            /\ said.rooms = target.rooms
  BY DEF AnyNights, Exact
<1>5. /\ None \notin {said.hotel, said.checkIn, said.people, said.rooms}
      /\ None \notin {target.hotel, target.checkIn, target.people, target.rooms}
  BY NamesAssumption DEF SoundStay
<1>6. SignaturesMatch(there, here) \/ MatchesTarget(here, target)
        => AnyNights(said) = AnyNights(target)
  <2>1. ASSUME SignaturesMatch(there, here)
        PROVE  AnyNights(said) = AnyNights(target)
    BY <2>1, <1>1, <1>2, <1>4, <1>5 DEF SignaturesMatch, Agree, NoConflict
  <2>2. ASSUME MatchesTarget(here, target)
        PROVE  AnyNights(said) = AnyNights(target)
    BY <2>2, <1>1, <1>4, <1>5 DEF MatchesTarget
  <2> QED
    BY <2>1, <2>2
<1>7. ASSUME AnyNights(said) = AnyNights(target)
      PROVE  MatchesTarget(here, target)
  BY <1>7, <1>1, <1>4 DEF MatchesTarget
<1> QED
  BY <1>3, <1>6, <1>7

\* What Faithful says of every URL that can be previewed, and of every target
\* that was made of one.
Told(target) == Exact(target) /\ SoundStay(target) /\ target.hotel \in HotelIds

LEMMA AllFaithful ==
    ASSUME NEW url, IsUrl(url), IsPreviewUrl(url), NEW target, Told(target)
    PROVE  Faithful(url, target)
<1> DEFINE draft == ParseSeedUrl(url)
           said == ResolveWatchTarget(draft, target.room, target.plan)
<1>1. draft # None /\ ReadyForCandidateLookup(draft)
  BY DEF IsPreviewUrl
<1>2. SoundStay(draft)
  BY <1>1, PreviewSound
<1>3. said = [hotel |-> draft.hotel, room |-> target.room, plan |-> target.plan,
              checkIn |-> draft.checkIn, checkOut |-> draft.checkOut,
              people |-> draft.people, rooms |-> draft.rooms]
  BY <1>1 DEF ResolveWatchTarget
<1>4. StayOf(ParseSeedUrl(SearchPageUrl(draft))) = StayOf(draft)
  BY <1>1, SearchPageRead
<1> HIDE DEF draft
<1>5. Exact(said) /\ SoundStay(said) /\ StayOf(said) = StayOf(draft)
  BY <1>2, <1>3 DEF Exact, SoundStay, StayOf
<1> HIDE DEF said
<1>6. StayOf(ParseSeedUrl(TargetPageUrl(said))) = StayOf(draft)
  BY <1>5, TargetPageRead
<1>7. TabMatchesWatch(TargetPageUrl(said), Watch(target)) <=> AnyNights(said) = AnyNights(target)
  BY <1>5, PageMarked DEF Told
<1> QED
  BY <1>4, <1>6, <1>7 DEF Faithful, draft, said

\* A page that is taken for the one a draft is looked up on says the stay of the
\* draft, when the draft is for a room.
LEMMA RoomPageRead ==
    ASSUME NEW seed, IsUrl(seed), NEW draft, draft = Draft(seed),
           ReadyForCandidateLookup(draft), draft.room # None, draft.plan # None,
           NEW url, IsUrl(url), ReadyPage(url, SearchPageUrl(draft)),
           {"rm", "pln"} \subseteq DOMAIN url.query =>
              IsPreviewUrl(url) /\ SaysStay(url.query)
    PROVE  LET page == ParseSeedUrl(url) IN
           draft.checkIn = page.checkIn /\ draft.people = page.people /\ draft.rooms = page.rooms
<1> DEFINE search == SearchPageUrl(draft)
           said == [cid |-> draft.checkIn,
                    si |-> IF draft.checkIn = None THEN None ELSE Nights(draft),
                    ppc |-> draft.people, rc |-> draft.rooms,
                    rm |-> draft.room, pln |-> draft.plan, top |-> "rooms"]
           more == [k \in {k \in DOMAIN said : said[k] # None} |-> said[k]]
           query == url.query
           page == ParseSeedUrl(url)
<1>1. None \notin {draft.checkIn, draft.people, draft.rooms, draft.room, draft.plan}
  BY DEF ReadyForCandidateLookup
<1>2. /\ {"cid", "ppc", "rc", "rm", "pln"} \subseteq DOMAIN more
      /\ more["cid"] = draft.checkIn /\ more["ppc"] = draft.people /\ more["rc"] = draft.rooms
      /\ more["rm"] = draft.room /\ more["pln"] = draft.plan
  BY <1>1
<1> DEFINE asked == NormalizeSeedUrl(seed).query
           longer == With(asked, more)
<1>3. search.query = longer
  <2>1. draft.seed = [host |-> seed.host, path |-> seed.path, query |-> asked]
    BY DEF Draft, NormalizeSeedUrl, IsUrl
  <2>2. search = [draft.seed EXCEPT !.query = longer]
    BY <2>1 DEF SearchPageUrl
  <2> HIDE DEF search, asked, longer
  <2> QED
    BY <2>1, <2>2
<1> HIDE DEF more, asked
<1>4. \A k \in {"cid", "ppc", "rc", "rm", "pln"} : k \in DOMAIN search.query /\ search.query[k] = more[k]
  <2>1. /\ DOMAIN longer = DOMAIN asked \cup DOMAIN more
        /\ \A k \in DOMAIN more : longer[k] = more[k]
    BY DEF With
  <2> HIDE DEF longer, search
  <2> QED
    BY <1>2, <1>3, <2>1
<1> HIDE DEF search
<1>5. /\ Signature(search).checkIn = draft.checkIn /\ Signature(search).people = draft.people
      /\ Signature(search).rooms = draft.rooms /\ Signature(search).room = draft.room
      /\ Signature(search).plan = draft.plan
  BY <1>2, <1>4 DEF Signature, Value
<1>6. SignaturesMatch(Signature(url), Signature(search))
  BY <1>1, <1>5 DEF ReadyPage, UrlsMatch, search
<1>7. /\ Signature(url).room = Value(query, "rm") /\ Signature(url).plan = Value(query, "pln")
      /\ Signature(url).checkIn = Value(query, "cid") /\ Signature(url).people = Value(query, "ppc")
      /\ Signature(url).rooms = Value(query, "rc")
  BY DEF Signature
<1>8. /\ Value(query, "rm") # None /\ Value(query, "pln") # None
      /\ Value(query, "cid") \in {None, draft.checkIn}
      /\ Value(query, "ppc") \in {None, draft.people}
      /\ Value(query, "rc") \in {None, draft.rooms}
  BY <1>1, <1>5, <1>6, <1>7 DEF SignaturesMatch, Agree, NoConflict
<1>9. IsPreviewUrl(url) /\ SaysStay(query)
  BY <1>8 DEF Value
<1>10. {"cid", "ppc", "rc"} \subseteq DOMAIN query
  BY <1>9 DEF SaysStay
<1>11. query["cid"] = draft.checkIn /\ query["ppc"] = draft.people /\ query["rc"] = draft.rooms
  BY <1>8, <1>10 DEF Value, IsUrl
<1> DEFINE kept == NormalizeSeedUrl(url).query
<1>12. DOMAIN kept = DOMAIN query \ Tracking /\ \A k \in DOMAIN kept : kept[k] = query[k]
  BY DEF NormalizeSeedUrl, IsUrl
<1>13. page = Draft(url) /\ ReadyForCandidateLookup(page)
  BY <1>9 DEF IsPreviewUrl, ParseSeedUrl
<1>14. /\ Draft(url).checkIn = CheckInDate(kept)
       /\ Draft(url).people = ExtractFirst(kept, PeopleKeys)
       /\ Draft(url).rooms = ExtractFirst(kept, RoomsKeys)
  BY DEF Draft
<1> HIDE DEF kept, query, page
<1>15. /\ DOMAIN kept \cap ToSet(CheckInKeys) = {}
       /\ DOMAIN kept \cap ToSet(PeopleKeys) = {"ppc"}
       /\ DOMAIN kept \cap ToSet(RoomsKeys) = {"rc"}
  <2>1. DOMAIN query \cap (ToSet(CheckInKeys) \cup ToSet(PeopleKeys) \cup ToSet(RoomsKeys)) = {"ppc", "rc"}
    BY <1>9 DEF SaysStay, StayNames
  <2>2. {"ppc", "rc"} \subseteq DOMAIN kept
    BY <1>10, <1>12 DEF Tracking
  <2> QED
    BY <2>1, <2>2, <1>12, CheckInNames, PeopleNames, RoomsNames
<1>16. page.people = draft.people /\ page.rooms = draft.rooms
  BY <1>11, <1>12, <1>13, <1>14, <1>15, FirstFound, PeopleNames, RoomsNames
<1>17. page.checkIn = draft.checkIn
  <2>1. ExtractFirst(kept, CheckInKeys) = None
    BY <1>15, FirstFound, CheckInNames
  <2>2. page.checkIn # None
    BY <1>13 DEF ReadyForCandidateLookup
  <2>3. page.checkIn = kept["cid"] /\ "cid" \in DOMAIN kept
    BY <2>1, <2>2, <1>13, <1>14 DEF CheckInDate
  <2> QED
    BY <2>3, <1>11, <1>12
<1> QED
  BY <1>16, <1>17 DEF page

-----------------------------------------------------------------------------
(* Where previews come from                                                *)

\* A preview says its URL and comes from a page that shows candidates.
TabRecord == [open : BOOLEAN, url : Visits \cup {NewTab}, blocked : BOOLEAN]
Sound(preview) ==
    /\ preview.url \in DOMAIN Drafts /\ Drafts[preview.url] # None
    /\ preview.source \in DOMAIN CandidatesOn /\ Candidates(preview) # Raised
    /\ PricedForStay(preview)
Looks(url) == url \in DOMAIN Wanted /\ ReadyForCandidateLookup(Drafts[url])

\* What a request knows of its tab, its page, its preview and its target, and a
\* creation of the URL that is previewed should it fail.
Seeded(x) == x.purpose = "create" => "seed" \in DOMAIN x /\ x.seed \in DOMAIN Drafts
Sourced(x) ==
    /\ x.at # "idle" => Seeded(x)
    /\ x.at \in TabPlaces => "tab" \in DOMAIN x
    /\ x.at \in {"content", "url"} => x.tab \in DOMAIN tabs
    /\ x.at \in {"url", "ready"} => x.source \in Addresses
    /\ x.at \in SeedPlaces => Looks(x.url)
    /\ x.at = "read" => Sound(x.preview)
    /\ x.at = "save" => x.target \in Creatable

TabsKept == tabs \in Seq(TabRecord)
FormsSound == \A form \in forms : Sound(form.preview)
RequestsSourced == \A r \in Requests : Sourced(request[r])
WatchesMade == \A w \in watches : w.target \in Creatable

\* The inductive invariant of the sources, on top of that of the forms.
SourcesInv == TabsKept /\ FormsSound /\ RequestsSourced /\ WatchesMade

\* The tables of drafts, pages and candidates.
LEMMA Tables ==
    /\ DOMAIN Drafts = Visits \cup Seeds \cup {NewTab}
    /\ \A url \in DOMAIN Drafts : Drafts[url] = ParseSeedUrl(UrlOf(url))
    /\ DOMAIN Wanted = {u \in Visits \cup Seeds : Drafts[u] # None}
    /\ \A url \in DOMAIN Wanted : Wanted[url] = SearchPageUrl(Drafts[url])
    /\ \A url \in DOMAIN Wanted :
          Strategy[url].ready = {at \in Addresses : ReadyPage(UrlOf(at), Wanted[url])}
<1>1. DOMAIN Drafts = Visits \cup Seeds \cup {NewTab}
  BY DEF Drafts
<1>2. \A url \in DOMAIN Drafts : Drafts[url] = ParseSeedUrl(UrlOf(url))
  BY DEF Drafts
<1>3. DOMAIN Wanted = {u \in Visits \cup Seeds : Drafts[u] # None}
  BY DEF Wanted
<1>4. \A url \in DOMAIN Wanted : Wanted[url] = SearchPageUrl(Drafts[url])
  BY DEF Wanted
<1>5. \A url \in DOMAIN Wanted :
          Strategy[url].ready = {at \in Addresses : ReadyPage(UrlOf(at), Wanted[url])}
  BY DEF Strategy
<1> QED
  BY <1>1, <1>2, <1>3, <1>4, <1>5

LEMMA SourceTable ==
    DOMAIN CandidatesOn = Addresses \cup {Search(url) : url \in DOMAIN Wanted}
  BY DEF CandidatesOn

\* The URLs of the program's pages are URLs, and a draft is of its URL.
LEMMA UrlsAre ==
    ASSUME NEW url \in DOMAIN Drafts
    PROVE  IsUrl(UrlOf(url)) /\ (Drafts[url] # None => Drafts[url] = Draft(UrlOf(url)))
<1>1. IsUrl(StartPage)
  BY DEF IsUrl, StartPage
<1>2. IsUrl(UrlOf(url))
  <2>1. CASE url = NewTab
    BY <1>1, <2>1 DEF UrlOf
  <2>2. CASE url # NewTab
    BY <2>2, Tables, SiteAssumption
  <2> QED
    BY <2>1, <2>2
<1> QED
  BY <1>2, Tables DEF ParseSeedUrl

\* The page of a new tab is looked up nowhere.
LEMMA LooksUp ==
    ASSUME NEW url \in DOMAIN Drafts, Drafts[url] # None, ReadyForCandidateLookup(Drafts[url])
    PROVE  Looks(url)
<1>1. ASSUME url = NewTab PROVE FALSE
  <2>1. Drafts[url] = Draft(StartPage)
    BY <1>1, Tables DEF UrlOf, ParseSeedUrl
  <2>2. NormalizeSeedUrl(StartPage).query = <<>>
    <3>1. DOMAIN StartPage.query = {}
      BY DEF StartPage
    <3> QED
      BY <3>1 DEF NormalizeSeedUrl, StartPage
  <2>3. ExtractFirst(<<>>, HotelKeys) = None
    <3>1. DOMAIN <<>> = {}
      OBVIOUS
    <3> QED
      BY <3>1, FirstFound, HotelNames
  <2>4. Draft(StartPage).hotel = None
    <3>1. HotelIdFromPath(StartPage.path) = None
      BY DEF HotelIdFromPath, StartPage
    <3> QED
      BY <3>1, <2>2, <2>3 DEF Draft
  <2> QED
    BY <2>1, <2>4 DEF ReadyForCandidateLookup
<1> QED
  BY <1>1, Tables DEF Looks

\* A preview is priced for its stay: one of a tab by the page it shows, one
\* looked up over HTTP by no page of the user, and one looked up in Chrome by the
\* page that was ready.
LEMMA TabPriced ==
    ASSUME NEW preview, preview.torn = (preview.url # preview.source)
    PROVE  PricedForStay(preview)
  BY DEF PricedForStay

LEMMA ElsewherePriced ==
    ASSUME NEW preview, preview.source \notin Visits
    PROVE  PricedForStay(preview)
  BY DEF PricedForStay

LEMMA ReadyPriced ==
    ASSUME NEW preview, Looks(preview.url), NEW url \in Strategy[preview.url].ready,
           preview.torn = (url # preview.source)
    PROVE  PricedForStay(preview)
<1> DEFINE draft == Drafts[preview.url]
<1> SUFFICES ASSUME preview.source \in Visits, preview.source = url,
                    None \notin {draft.room, draft.plan}
             PROVE  /\ draft.checkIn = Drafts[url].checkIn
                    /\ draft.people = Drafts[url].people /\ draft.rooms = Drafts[url].rooms
  BY DEF PricedForStay
<1>1. preview.url \in DOMAIN Wanted /\ ReadyForCandidateLookup(draft)
  BY DEF Looks
<1>2. preview.url \in DOMAIN Drafts /\ draft # None /\ url \in DOMAIN Drafts
  BY <1>1, Tables
<1>3. draft = Draft(UrlOf(preview.url)) /\ IsUrl(UrlOf(preview.url)) /\ IsUrl(UrlOf(url))
  BY <1>2, UrlsAre
<1>4. ReadyPage(UrlOf(url), SearchPageUrl(draft)) /\ Drafts[url] = ParseSeedUrl(UrlOf(url))
  BY <1>1, <1>2, Tables
<1>5. {"rm", "pln"} \subseteq DOMAIN UrlOf(url).query =>
          IsPreviewUrl(UrlOf(url)) /\ SaysStay(UrlOf(url).query)
  BY SiteAssumption
<1> HIDE DEF draft
<1> QED
  BY <1>1, <1>3, <1>4, <1>5, RoomPageRead

\* What a request has found stays true while the tabs are only added to.
SourcedOn(r) == \E x : Becomes(r, x) /\ Sourced(x)

LEMMA SourcesKept ==
    ASSUME ShownInv, SourcesInv, NEW r \in Requests, SourcedOn(r), DOMAIN tabs \subseteq DOMAIN tabs'
    PROVE  RequestsSourced'
<1>1. PICK x : Becomes(r, x) /\ Sourced(x)
  BY DEF SourcedOn
<1>2. \A q \in Requests : request'[q] = IF q = r THEN x ELSE request[q]
  BY <1>1 DEF Becomes, ShownInv, CreationInv, RequestsWork
<1>3. ASSUME NEW y, Sourced(y) PROVE Sourced(y)'
  BY <1>3 DEF Sourced, Seeded
<1>4. ASSUME NEW q \in Requests PROVE Sourced(request'[q])
  BY <1>1, <1>2 DEF SourcesInv, RequestsSourced
<1>5. ASSUME NEW q \in Requests PROVE Sourced(request[q])'
  BY <1>4 DEF Sourced, Seeded
<1> QED
  BY <1>5 DEF RequestsSourced

LEMMA MoveSourced ==
    ASSUME ShownInv, SourcesInv, NEW r \in Requests, SourcedOn(r), UNCHANGED <<tabs, forms, watches>>
    PROVE  SourcesInv'
<1>1. RequestsSourced'
  BY SourcesKept
<1>2. FormsSound' /\ WatchesMade' /\ TabsKept'
  BY DEF SourcesInv, FormsSound, WatchesMade, TabsKept
<1> QED
  BY <1>1, <1>2 DEF SourcesInv

-----------------------------------------------------------------------------
\* A request that goes on keeps its purpose and its seed.
LEMMA SeedStays ==
    ASSUME ShownInv, SourcesInv, NEW r \in Requests, request[r].at # "idle",
           NEW from \in {request[r], Kept(r)}, NEW more, DOMAIN more \cap {"purpose", "seed"} = {}
    PROVE  Seeded(With(from, more)) /\ With(from, more).purpose = request[r].purpose
<1> DEFINE x == With(from, more)
<1>1. /\ DOMAIN x = DOMAIN from \cup DOMAIN more
      /\ \A k \in DOMAIN from \ DOMAIN more : x[k] = from[k]
  BY WithFields
<1> HIDE DEF x
<1>2. Working(request[r])
  BY AtWork DEF ShownInv
<1>3. \A k \in {"purpose", "seed"} \cap DOMAIN request[r] :
          k \in DOMAIN from /\ from[k] = request[r][k]
  BY DEF Kept, Forgotten, At
<1>4. "purpose" \in DOMAIN request[r] /\ Seeded(request[r])
  BY <1>2 DEF Working, SourcesInv, RequestsSourced, Sourced
<1>5. \A k \in {"purpose", "seed"} \cap DOMAIN request[r] :
          k \in DOMAIN x /\ x[k] = request[r][k]
  BY <1>1, <1>3
<1> QED
  BY <1>4, <1>5 DEF Seeded, x

\* What is idle or failed has no source.
LEMMA NoSource ==
    ASSUME NEW x, \/ x.at = "idle"
                  \/ x.at \in {"failed", "draft", "initial"} /\ Seeded(x)
    PROVE  Sourced(x)
  BY DEF Sourced, TabPlaces, SeedPlaces

LEMMA RespondSourced ==
    ASSUME NEW r \in Requests, Respond(r)
    PROVE  SourcedOn(r)
<1>1. Sourced(Idle)
  BY NoSource DEF Idle
<1>2. Becomes(r, Idle)
  BY DEF Respond, Becomes
<1> QED
  BY <1>1, <1>2 DEF SourcedOn

LEMMA FailedSourced ==
    ASSUME ShownInv, SourcesInv, NEW r \in Requests, request[r].at # "idle",
           NEW diagnostics, Failed(r, diagnostics)
    PROVE  SourcedOn(r)
<1> DEFINE more == [at |-> "failed", diagnostics |-> diagnostics]
           x == With(Kept(r), more)
<1>1. DOMAIN more = {"at", "diagnostics"} /\ more.at = "failed"
  OBVIOUS
<1>2. Becomes(r, x)
  BY DEF Failed, Becomes
<1> HIDE DEF more
<1>3. \A k \in DOMAIN more : x[k] = more[k]
  BY ZenonT(40), WithFields
<1>4. Seeded(x)
  BY <1>1, SeedStays
<1> HIDE DEF x
<1> QED
  BY <1>1, <1>2, <1>3, <1>4, NoSource DEF SourcedOn

\* A thread returns with a sound preview.
LEMMA ReadSourced ==
    ASSUME ShownInv, SourcesInv, NEW r \in Requests, NEW preview, Read(r, preview),
           request[r].at # "idle", Sound(preview)
    PROVE  SourcedOn(r)
<1> DEFINE more == [at |-> "read", preview |-> preview]
           x == With(Kept(r), more)
<1>1. DOMAIN more = {"at", "preview"} /\ more.at = "read" /\ more.preview = preview
  OBVIOUS
<1>2. Becomes(r, x)
  BY DEF Read, Becomes
<1> HIDE DEF more
<1>3. \A k \in DOMAIN more : x[k] = more[k]
  BY ZenonT(40), WithFields
<1>4. Seeded(x)
  BY <1>1, SeedStays
<1> HIDE DEF x
<1>5. x.at = "read" /\ x.preview = preview
  BY <1>1, <1>3
<1>6. Sourced(x)
  BY <1>4, <1>5 DEF Sourced, TabPlaces, SeedPlaces
<1> QED
  BY <1>2, <1>6 DEF SourcedOn

\* A thread that goes on keeps its tab, its URL and its purpose.
LEMMA WithSourced ==
    ASSUME ShownInv, SourcesInv, NEW r \in Requests, NEW more,
           Becomes(r, With(request[r], more)),
           "at" \in DOMAIN more, DOMAIN more \cap {"purpose", "seed", "url"} = {},
           \/ /\ request[r].at = "content" /\ more.at = "url" /\ "tab" \notin DOMAIN more
              /\ "source" \in DOMAIN more /\ more.source \in Addresses
           \/ /\ request[r].at = "attach" /\ more.at = "look"
           \/ /\ request[r].at = "look" /\ more.at = "ready"
              /\ "source" \in DOMAIN more /\ more.source \in Addresses
    PROVE  SourcedOn(r)
<1> DEFINE x == With(request[r], more)
<1>1. /\ DOMAIN x = DOMAIN request[r] \cup DOMAIN more
      /\ \A k \in DOMAIN more : x[k] = more[k]
      /\ \A k \in DOMAIN request[r] \ DOMAIN more : x[k] = request[r][k]
  BY WithFields
<1>2. Seeded(x)
  BY SeedStays
<1> HIDE DEF x
<1>3. x.at = more.at /\ ("source" \in DOMAIN more => x.source = more.source)
  BY <1>1
<1>4. Sourced(request[r]) /\ Traced(request[r])
  BY DEF ShownInv, RequestsTraced, SourcesInv, RequestsSourced
<1>5. "url" \in DOMAIN request[r] => x.url = request[r].url
  BY <1>1
<1>6. "tab" \in DOMAIN request[r] \ DOMAIN more => "tab" \in DOMAIN x /\ x.tab = request[r].tab
  BY <1>1
<1>7. Sourced(x)
  <2>1. CASE request[r].at = "content"
    BY <1>2, <1>3, <1>4, <1>6, <2>1 DEF Sourced, TabPlaces, SeedPlaces
  <2>2. CASE request[r].at \in {"attach", "look"}
    BY <1>2, <1>3, <1>4, <1>5, <2>2 DEF Sourced, Traced, TabPlaces, SeedPlaces
  <2> QED
    BY <2>1, <2>2
<1> QED
  BY <1>7 DEF SourcedOn, x

LEMMA GoSourced ==
    ASSUME ShownInv, SourcesInv, NEW r \in Requests, NEW place, Go(r, place),
           \/ request[r].at = "list" /\ place = "content" /\ request[r].tab \in DOMAIN tabs
           \/ request[r].at = "ready" /\ place = "look"
           \/ request[r].at = "draft" /\ place = "initial"
    PROVE  SourcedOn(r)
<1> DEFINE x == [request[r] EXCEPT !.at = place]
<1>1. Working(request[r]) /\ DOMAIN request = Requests
  BY AtWork DEF ShownInv
<1>2. Becomes(r, x)
  BY <1>1 DEF Go, Becomes
<1>3. /\ DOMAIN x = DOMAIN request[r] /\ x.at = place
      /\ \A k \in DOMAIN request[r] \ {"at"} : x[k] = request[r][k]
  BY <1>1 DEF Working
<1> HIDE DEF x
<1>4. Sourced(request[r]) /\ Traced(request[r])
  BY DEF ShownInv, RequestsTraced, SourcesInv, RequestsSourced
<1>5. x.purpose = request[r].purpose
  BY <1>1, <1>3 DEF Working
<1>6. \A k \in {"tab", "url", "seed"} : k \in DOMAIN request[r] =>
          k \in DOMAIN x /\ x[k] = request[r][k]
  BY <1>3
<1>7. Sourced(x)
  BY <1>3, <1>4, <1>5, <1>6 DEF Sourced, Seeded, Traced, TabPlaces, SeedPlaces
<1> QED
  BY <1>2, <1>7 DEF SourcedOn

\* A new piece of work knows its tab, or a URL that can be looked up, or a
\* sound preview.
LEMMA StartedSourced ==
    ASSUME NEW r \in Requests, NEW purpose, NEW place, NEW more,
           Started(r, purpose, place, more),
           DOMAIN more \cap {"at", "purpose", "diagnostics", "under"} = {},
           place \in {"list", "attach", "http", "read", "failed"},
           place = "list" => "tab" \in DOMAIN more,
           place \in {"attach", "http"} => "url" \in DOMAIN more /\ Looks(more.url),
           purpose = "create" => "seed" \in DOMAIN more /\ more.seed \in DOMAIN Drafts,
           place = "read" => "preview" \in DOMAIN more /\ Sound(more.preview)
    PROVE  SourcedOn(r)
<1> DEFINE first == [at |-> place, purpose |-> purpose, diagnostics |-> {},
                     under |-> IF purpose \in {"tab", "seed"} THEN guard.left ELSE 0]
           x == With(first, more)
<1>1. Becomes(r, x)
  BY DEF Started, Becomes
<1>2. /\ DOMAIN first = {"at", "purpose", "diagnostics", "under"}
      /\ first.at = place /\ first.purpose = purpose
  OBVIOUS
<1> HIDE DEF first
<1>3. /\ DOMAIN x = DOMAIN first \cup DOMAIN more
      /\ \A k \in DOMAIN more : x[k] = more[k]
      /\ \A k \in DOMAIN first \ DOMAIN more : x[k] = first[k]
  BY WithFields
<1> HIDE DEF x
<1>4. x.at = place /\ x.purpose = purpose
  BY <1>2, <1>3
<1>5. \A k \in {"tab", "url", "preview", "seed"} \cap DOMAIN more : k \in DOMAIN x /\ x[k] = more[k]
  BY <1>3
<1>6. Seeded(x)
  BY <1>4, <1>5 DEF Seeded
<1>7. Sourced(x)
  BY <1>4, <1>5, <1>6 DEF Sourced, TabPlaces, SeedPlaces
<1> QED
  BY <1>1, <1>7 DEF SourcedOn

LEMMA LookupSourced ==
    ASSUME NEW r \in Requests, NEW purpose, NEW url, NEW more,
           StartLookup(r, purpose, url, more),
           DOMAIN more \cap {"at", "purpose", "diagnostics", "under", "url"} = {},
           url \in DOMAIN Drafts,
           purpose = "create" => "seed" \in DOMAIN more /\ more.seed \in DOMAIN Drafts
    PROVE  SourcedOn(r)
<1> DEFINE first == [url |-> url]
           also == With(first, more)
<1>1. \E place \in {"attach", "http", "failed"} :
         /\ Started(r, purpose, place, also)
         /\ place # "failed" => Drafts[url] # None /\ ReadyForCandidateLookup(Drafts[url])
  BY DEF StartLookup
<1>2. DOMAIN first = {"url"} /\ first.url = url
  OBVIOUS
<1> HIDE DEF first
<1>3. /\ DOMAIN also = DOMAIN first \cup DOMAIN more
      /\ \A k \in DOMAIN more : also[k] = more[k]
      /\ \A k \in DOMAIN first \ DOMAIN more : also[k] = first[k]
  BY WithFields
<1> HIDE DEF also
<1>4. "url" \in DOMAIN also /\ also.url = url
  BY <1>2, <1>3
<1>5. DOMAIN also \cap {"at", "purpose", "diagnostics", "under"} = {}
  BY <1>2, <1>3
<1>6. PICK place \in {"attach", "http", "failed"} :
         /\ Started(r, purpose, place, also)
         /\ place # "failed" => Drafts[url] # None /\ ReadyForCandidateLookup(Drafts[url])
  BY <1>1
<1>7. place # "failed" => Looks(url)
  BY <1>6, LooksUp
<1>8. purpose = "create" => "seed" \in DOMAIN also /\ also.seed \in DOMAIN Drafts
  BY <1>3
<1> QED
  BY <1>4, <1>5, <1>6, <1>7, <1>8, StartedSourced

-----------------------------------------------------------------------------
(* The steps                                                               *)

LEMMA PreviewTabSourced ==
    ASSUME ShownInv, SourcesInv, NEW r \in Requests, NEW t, PreviewTab(r, t)
    PROVE  SourcesInv'
<1> DEFINE more == [tab |-> t]
<1>1. Started(r, "tab", "list", more) /\ UNCHANGED <<tabs, forms, watches>>
  BY DEF PreviewTab, Workflow
<1>2. DOMAIN more = {"tab"}
  OBVIOUS
<1> HIDE DEF more
<1> QED
  BY <1>1, <1>2, StartedSourced, MoveSourced

LEMMA PreviewSeedSourced ==
    ASSUME ShownInv, SourcesInv, NEW r \in Requests, NEW url \in Seeds, PreviewSeed(r, url)
    PROVE  SourcesInv'
<1>1. StartLookup(r, "seed", url, <<>>) /\ UNCHANGED <<tabs, forms, watches>>
  BY DEF PreviewSeed, Workflow
<1> QED
  BY <1>1, Tables, LookupSourced, MoveSourced

\* The tabs have each a URL; an open one that is read shows a page.
LEMMA TabShows ==
    ASSUME SourcesInv, NEW t \in DOMAIN tabs
    PROVE  /\ tabs[t] \in TabRecord /\ tabs[t].url \in DOMAIN Drafts
           /\ tabs[t].url \in Addresses /\ Shown(t) \in Addresses
<1>1. tabs[t] \in TabRecord
  BY DEF SourcesInv, TabsKept
<1>2. tabs[t].url \in Visits \cup {NewTab}
  BY <1>1 DEF TabRecord
<1> QED
  BY <1>1, <1>2, Tables DEF Shown, Addresses

LEMMA TabThreadsSourced ==
    ASSUME ShownInv, SourcesInv, NEW r \in Requests, ReadTab(r)
    PROVE  SourcedOn(r)
<1> DEFINE t == request[r].tab
<1>1. Sourced(request[r])
  BY DEF SourcesInv, RequestsSourced
<1>2. CASE FindTab(r)
  <2>1. request[r].at = "list" /\ ((t \in DOMAIN tabs /\ Go(r, "content")) \/ Failed(r, {}))
    BY <1>2 DEF FindTab, At, Open
  <2> QED
    BY <2>1, GoSourced, FailedSourced
<1>3. CASE ReadContent(r)
  <2>1. request[r].at = "content"
    BY <1>3 DEF ReadContent, At
  <2>2. ASSUME t \in DOMAIN tabs, request' = [request EXCEPT ![r] = ReadFrom(r, Shown(t))]
        PROVE  SourcedOn(r)
    <3> DEFINE more == [at |-> "url", source |-> Shown(t)]
    <3>1. Becomes(r, With(request[r], more))
      BY <2>2 DEF ReadFrom, Becomes
    <3>2. DOMAIN more = {"at", "source"} /\ more.at = "url" /\ more.source \in Addresses
      BY <2>2, TabShows
    <3> HIDE DEF more
    <3> QED
      BY <2>1, <3>1, <3>2, WithSourced
  <2> QED
    BY <1>3, <2>1, <2>2, FailedSourced DEF ReadContent, Open
<1>4. CASE ReadUrl(r)
  <2> DEFINE preview == Preview(tabs[t].url, request[r].source, IF t \in Open THEN t ELSE Fallback,
                                tabs[t].url # request[r].source)
  <2>1. request[r].at = "url" /\ t \in DOMAIN tabs /\ request[r].source \in Addresses
    BY <1>1, <1>4 DEF ReadUrl, At, Sourced
  <2>2. /\ preview.url = tabs[t].url /\ preview.source = request[r].source
        /\ preview.torn = (preview.url # preview.source)
    BY DEF Preview
  <2>3. \/ Failed(r, {})
        \/ Drafts[preview.url] # None /\ Candidates(preview) # Raised /\ Read(r, preview)
    BY <1>4, <2>2 DEF ReadUrl
  <2>4. preview.url \in DOMAIN Drafts /\ preview.source \in DOMAIN CandidatesOn
    BY <2>1, <2>2, TabShows, SourceTable
  <2>5. PricedForStay(preview)
    BY <2>2, TabPriced
  <2> HIDE DEF preview
  <2>6. CASE Drafts[preview.url] # None /\ Candidates(preview) # Raised /\ Read(r, preview)
    <3>1. Sound(preview)
      BY <2>4, <2>5, <2>6 DEF Sound
    <3> QED
      BY <2>1, <2>6, <3>1, ReadSourced
  <2> QED
    BY <2>1, <2>3, <2>6, FailedSourced
<1> QED
  BY <1>2, <1>3, <1>4 DEF ReadTab

\* A seed that is looked up on a page of the site.
LEMMA FoundSourced ==
    ASSUME ShownInv, SourcesInv, NEW r \in Requests, NEW source, NEW torn, Found(r, source, torn),
           request[r].at \in SeedPlaces, source \in DOMAIN CandidatesOn,
           PricedForStay(Preview(request[r].url, source, None, torn))
    PROVE  SourcedOn(r)
<1> DEFINE preview == Preview(request[r].url, source, None, torn)
<1>1. preview.url = request[r].url /\ preview.source = source
  BY DEF Preview
<1>2. Failed(r, {}) \/ (Read(r, preview) /\ Candidates(preview) # Raised)
  BY DEF Found
<1>3. Looks(request[r].url) /\ request[r].at # "idle"
  BY DEF SourcesInv, RequestsSourced, Sourced, SeedPlaces
<1>4. Candidates(preview) # Raised => Sound(preview)
  <2>1. Looks(preview.url) => preview.url \in DOMAIN Drafts /\ Drafts[preview.url] # None
    BY Tables DEF Looks
  <2> QED
    BY <1>1, <1>3, <2>1 DEF Sound
<1> HIDE DEF preview
<1> QED
  BY <1>2, <1>3, <1>4, FailedSourced, ReadSourced

LEMMA HttpSourced ==
    ASSUME ShownInv, SourcesInv, NEW r \in Requests, FetchHttp(r)
    PROVE  SourcedOn(r)
<1>1. request[r].at = "http" /\ request[r].at \in SeedPlaces
  BY DEF FetchHttp, At, SeedPlaces
<1>2. request[r].url \in DOMAIN Wanted
  BY <1>1 DEF SourcesInv, RequestsSourced, Sourced, Looks
<1>3. ASSUME NEW source \in {Search(request[r].url), Denied}, Found(r, source, FALSE)
      PROVE  SourcedOn(r)
  <2>1. source \in DOMAIN CandidatesOn
    BY <1>2, SourceTable DEF Addresses
  <2>2. source \notin Visits
    BY <1>2, NamesAssumption DEF Addresses
  <2>3. PricedForStay(Preview(request[r].url, source, None, FALSE))
    BY <2>2, ElsewherePriced DEF Preview
  <2> QED
    BY <1>1, <1>3, <2>1, <2>3, FoundSourced
<1>4. CASE request' = [request EXCEPT ![r].at = "attach", ![r].diagnostics = {"http_403"}]
  <2> DEFINE x == [[request[r] EXCEPT !.at = "attach"] EXCEPT !.diagnostics = {"http_403"}]
  <2>1. Working(request[r]) /\ DOMAIN request = Requests
    BY <1>1, AtWork DEF ShownInv
  <2>2. Becomes(r, x)
    BY <1>4, <2>1 DEF Becomes
  <2>3. /\ x.at = "attach" /\ x.purpose = request[r].purpose /\ DOMAIN x = DOMAIN request[r]
        /\ \A k \in DOMAIN request[r] \ {"at", "diagnostics"} : x[k] = request[r][k]
    BY <2>1 DEF Working
  <2> HIDE DEF x
  <2>4. x.url = request[r].url
    BY <1>1, <2>3 DEF ShownInv, RequestsTraced, Traced
  <2>5. Sourced(request[r]) /\ Seeded(request[r])
    BY <1>1 DEF SourcesInv, RequestsSourced, Sourced
  <2>6. Seeded(x)
    BY <2>3, <2>5 DEF Seeded
  <2>7. Sourced(x)
    BY <1>1, <2>3, <2>4, <2>5, <2>6 DEF Sourced, TabPlaces, SeedPlaces
  <2> QED
    BY <2>2, <2>7 DEF SourcedOn
<1> QED
  BY <1>1, <1>3, <1>4, FailedSourced DEF FetchHttp

\* A new tab is added to the others.
LEMMA AttachSourced ==
    ASSUME ShownInv, SourcesInv, NEW r \in Requests, AttachChrome(r)
    PROVE  SourcedOn(r) /\ TabsKept' /\ DOMAIN tabs \subseteq DOMAIN tabs'
<1>1. PICK t : request' = [request EXCEPT ![r] = With(request[r], [at |-> "look", tab |-> t])]
  BY DEF AttachChrome
<1> DEFINE more == [at |-> "look", tab |-> t]
<1>2. DOMAIN more = {"at", "tab"} /\ more.at = "look"
  OBVIOUS
<1>3. Becomes(r, With(request[r], more)) /\ request[r].at = "attach"
  BY <1>1 DEF AttachChrome, At, Becomes
<1> HIDE DEF more
<1>4. SourcedOn(r)
  BY <1>2, <1>3, WithSourced
<1>5. tabs \in Seq(TabRecord) /\ (tabs' = tabs \/ tabs' = Append(tabs, Tab(NewTab, FALSE)))
  BY DEF AttachChrome, SourcesInv, TabsKept
<1>6. Tab(NewTab, FALSE) \in TabRecord
  BY DEF Tab, TabRecord
<1>7. tabs' \in Seq(TabRecord) /\ DOMAIN tabs \subseteq DOMAIN tabs'
  <2> DEFINE tab == Tab(NewTab, FALSE)
  <2>1. tab \in TabRecord /\ tabs \in Seq(TabRecord) /\ (tabs' = tabs \/ tabs' = Append(tabs, tab))
    BY <1>5, <1>6
  <2> HIDE DEF tab
  <2>2. tabs' \in Seq(TabRecord) /\ Len(tabs) <= Len(tabs') /\ Len(tabs) \in Nat
    <3>1. CASE tabs' = Append(tabs, tab)
      BY <2>1, <3>1
    <3> QED
      BY <2>1, <3>1
  <2>3. DOMAIN tabs = 1..Len(tabs) /\ DOMAIN tabs' = 1..Len(tabs') /\ Len(tabs') \in Nat
    BY <1>5, <2>2
  <2> QED
    BY <2>2, <2>3
<1> QED
  BY <1>4, <1>7 DEF TabsKept

LEMMA LooksSourced ==
    ASSUME ShownInv, SourcesInv, NEW r \in Requests, LookAtContent(r) \/ LookAtUrl(r)
    PROVE  SourcedOn(r)
<1>1. CASE LookAtContent(r)
  <2> DEFINE more == [at |-> "ready", source |-> Shown(Looked(r)), page |-> Looked(r)]
  <2>1. request[r].at = "look" /\ Looked(r) \in DOMAIN tabs
        /\ Becomes(r, With(request[r], more))
    BY <1>1 DEF LookAtContent, At, Open, Becomes
  <2>2. DOMAIN more = {"at", "source", "page"} /\ more.at = "ready" /\ more.source \in Addresses
    BY <2>1, TabShows
  <2> HIDE DEF more
  <2> QED
    BY <2>1, <2>2, WithSourced
<1>2. CASE LookAtUrl(r)
  <2> DEFINE url == tabs[request[r].page].url
             source == request[r].source
             preview == Preview(request[r].url, source, None, url # source)
  <2>1. request[r].at = "ready" /\ request[r].at \in SeedPlaces
    BY <1>2 DEF LookAtUrl, At, SeedPlaces
  <2>2. source \in Addresses /\ Looks(request[r].url)
    BY <2>1 DEF SourcesInv, RequestsSourced, Sourced
  <2>3. ASSUME url \in Strategy[request[r].url].ready
        PROVE  PricedForStay(preview)
    <3>1. preview.url = request[r].url /\ preview.torn = (url # preview.source)
      BY DEF Preview
    <3> HIDE DEF preview, url
    <3> QED
      BY <2>2, <2>3, <3>1, ReadyPriced
  <2>4. source \in DOMAIN CandidatesOn
    BY <2>2, SourceTable
  <2>5. \/ Go(r, "look")
        \/ url \in Strategy[request[r].url].ready /\ Found(r, source, url # source)
    BY <1>2 DEF LookAtUrl
  <2>6. CASE url \in Strategy[request[r].url].ready /\ Found(r, source, url # source)
    BY <2>1, <2>3, <2>4, <2>6, FoundSourced
  <2> QED
    BY <2>1, <2>5, <2>6, GoSourced
<1> QED
  BY <1>1, <1>2

LEMMA SeedThreadsSourced ==
    ASSUME ShownInv, SourcesInv, NEW r \in Requests, LookUp(r)
    PROVE  SourcesInv'
<1>1. UNCHANGED <<forms, watches>>
  BY DEF LookUp
<1>2. FormsSound' /\ WatchesMade'
  BY <1>1 DEF SourcesInv, FormsSound, WatchesMade
<1>3. CASE AttachChrome(r)
  BY <1>2, <1>3, AttachSourced, SourcesKept DEF SourcesInv
<1>4. CASE ~AttachChrome(r)
  <2>1. UNCHANGED tabs
    BY <1>4 DEF LookUp, FetchHttp, LookAtContent, LookAtUrl, GiveUp
  <2>2. SourcedOn(r)
    BY <1>4, HttpSourced, LooksSourced, FailedSourced DEF LookUp, GiveUp
  <2> QED
    BY <1>1, <2>1, <2>2, MoveSourced
<1> QED
  BY <1>3, <1>4

\* A creation that fails has the URL of its form to look up.
LEMMA AnswersSourced ==
    ASSUME ShownInv, SourcesInv, NEW r \in Requests, ShowError(r) \/ TimeOut(r)
    PROVE  SourcesInv'
<1>1. UNCHANGED <<tabs, forms, watches>>
  BY DEF ShowError, TimeOut, Workflow
<1>2. ASSUME ShowError(r), request[r].purpose = "create" PROVE request[r].seed \in DOMAIN Drafts
  BY <1>2 DEF ShowError, At, SourcesInv, RequestsSourced, Sourced, Seeded
<1>3. ASSUME ShowError(r), request[r].purpose = "create",
             StartLookup(r, "fallback", request[r].seed, <<>>)
      PROVE  SourcedOn(r)
  BY <1>2, <1>3, LookupSourced
<1>4. SourcedOn(r)
  BY <1>3, RespondSourced DEF ShowError, TimeOut
<1> QED
  BY <1>1, <1>4, MoveSourced

\* A form shows the preview that was read.
LEMMA FormSourced ==
    ASSUME ShownInv, SourcesInv, NEW r \in Requests, ShowPreview(r) \/ EndFallback(r)
    PROVE  SourcesInv'
<1>1. Respond(r) /\ UNCHANGED <<tabs, watches>> /\ request[r].at = "read"
  BY DEF ShowPreview, EndFallback, Workflow, At
<1>2. RequestsSourced'
  BY <1>1, RespondSourced, SourcesKept
<1>3. Sound(request[r].preview)
  BY <1>1 DEF SourcesInv, RequestsSourced, Sourced
<1>4. \A form \in forms' : form \in forms \/ form.preview = request[r].preview
  BY DEF ShowPreview, EndFallback
<1>5. \A form \in forms' : Sound(form.preview)
  BY <1>3, <1>4 DEF SourcesInv, FormsSound
<1>6. FormsSound'
  BY <1>5 DEF FormsSound, Sound, PricedForStay, Candidates
<1> QED
  BY <1>1, <1>2, <1>6 DEF SourcesInv, TabsKept, WatchesMade

\* The target of a candidate that a page offers, for the draft of a URL.
LEMMA FindExistingSourced ==
    ASSUME ShownInv, SourcesInv, NEW r \in Requests, FindExisting(r)
    PROVE  SourcesInv'
<1> DEFINE preview == request[r].preview
           choice == request[r].choice
           target == TargetOf(preview, choice)
           more == [at |-> "save", target |-> target, known |-> {w.id : w \in watches}]
           x == With(request[r], more)
<1>1. UNCHANGED <<tabs, forms, watches>>
  BY DEF FindExisting, Workflow
<1>2. CASE Failed(r, {})
  BY <1>1, <1>2, FailedSourced, MoveSourced DEF FindExisting, At
<1>3. CASE Becomes(r, x) /\ choice \in Offered(preview) /\ target # None
  <2>1. Sound(preview)
    BY DEF FindExisting, At, SourcesInv, RequestsSourced, Sourced
  <2>2. choice \in Picks
    BY <1>3, <2>1 DEF Picks, Sound, Offered, Candidates
  <2>3. target \in Creatable
    BY <1>3, <2>1, <2>2 DEF Creatable, Sound, TargetOf
  <2>4. DOMAIN more = {"at", "target", "known"} /\ more.at = "save" /\ more.target = target
    OBVIOUS
  <2> HIDE DEF more, target
  <2>5. \A k \in DOMAIN more : x[k] = more[k]
    BY WithFields
  <2>6. Seeded(x)
    BY <2>4, SeedStays DEF FindExisting, At
  <2> HIDE DEF x
  <2>7. x.at = "save" /\ x.target = target
    BY <2>4, <2>5
  <2>8. Sourced(x)
    BY <2>3, <2>6, <2>7 DEF Sourced, TabPlaces, SeedPlaces
  <2> QED
    BY <1>1, <1>3, <2>8, MoveSourced DEF SourcedOn
<1> QED
  BY <1>2, <1>3 DEF FindExisting, Becomes

\* A watch is stored for its target and keeps it.
LEMMA MadeKept ==
    ASSUME ShownInv, SourcesInv, Keeps
    PROVE  WatchesMade'
<1>1. \A w \in watches : Numbered(w) /\ w.target \in Creatable
  BY DEF ShownInv, CreationInv, WatchesNumbered, SourcesInv, WatchesMade
<1>2. \A w \in watches' : w.target \in Creatable
  BY <1>1 DEF Keeps
<1> QED
  BY <1>2 DEF WatchesMade

LEMMA SaveWatchSourced ==
    ASSUME ShownInv, SourcesInv, NEW r \in Requests, SaveWatch(r)
    PROVE  SourcesInv'
<1> DEFINE new == [id |-> created + 1, target |-> request[r].target, known |-> request[r].known,
                   form |-> request[r].form, gone |-> request[r].gone,
                   draft |-> None, price |-> None]
           more == [at |-> "draft", id |-> created + 1]
           x == With(Kept(r), more)
<1>1. /\ request[r].at = "save" /\ created' = created + 1
      /\ watches' = watches \cup {new} /\ Becomes(r, x)
      /\ UNCHANGED <<tabs, forms>>
  BY DEF SaveWatch, At, Becomes
<1>2. new.target = request[r].target /\ request[r].target \in Creatable
  BY <1>1 DEF SourcesInv, RequestsSourced, Sourced
<1>3. DOMAIN more = {"at", "id"} /\ more.at = "draft"
  OBVIOUS
<1> HIDE DEF new, more
<1>4. \A k \in DOMAIN more : x[k] = more[k]
  BY ZenonT(40), WithFields
<1>5. Seeded(x)
  BY <1>1, <1>3, SeedStays
<1> HIDE DEF x
<1>6. SourcedOn(r)
  BY <1>1, <1>3, <1>4, <1>5, NoSource DEF SourcedOn
<1>7. RequestsSourced'
  BY <1>1, <1>6, SourcesKept
<1>8. \A w \in watches' : w.target \in Creatable
  BY <1>1, <1>2 DEF SourcesInv, WatchesMade
<1>9. WatchesMade'
  BY <1>8 DEF WatchesMade
<1>10. FormsSound' /\ TabsKept'
  BY <1>1 DEF SourcesInv, FormsSound, TabsKept
<1> QED
  BY <1>7, <1>9, <1>10 DEF SourcesInv

\* The draft and the initial price are added to it, and it may be deleted.
LEMMA RestSourced ==
    ASSUME ShownInv, SourcesInv, NEW r \in Requests, SourcedOn(r), Keeps, UNCHANGED <<tabs, forms>>
    PROVE  SourcesInv'
<1>1. RequestsSourced'
  BY SourcesKept
<1>2. FormsSound' /\ TabsKept'
  BY DEF SourcesInv, FormsSound, TabsKept
<1> QED
  BY <1>1, <1>2, MadeKept DEF SourcesInv

LEMMA SavesSourced ==
    ASSUME ShownInv, SourcesInv, NEW r \in Requests, SaveDraft(r) \/ PersistInitial(r)
    PROVE  SourcesInv'
<1>1. CASE SaveDraft(r)
  <2> DEFINE more == [draft |-> request[r].preview.url]
  <2>1. /\ request[r].at = "draft" /\ watches' = Updated(r, more)
        /\ UNCHANGED <<tabs, forms>> /\ (Go(r, "initial") \/ Failed(r, {}))
    BY <1>1 DEF SaveDraft, At
  <2>2. DOMAIN more = {"draft"}
    OBVIOUS
  <2> HIDE DEF more
  <2>3. Keeps
    BY <2>1, <2>2, UpdateKeeps
  <2> QED
    BY <2>1, <2>3, GoSourced, FailedSourced, RestSourced
<1>2. CASE PersistInitial(r)
  <2>1. UNCHANGED <<tabs, forms>> /\ (Respond(r) \/ Failed(r, {})) /\ request[r].at # "idle"
    BY <1>2 DEF PersistInitial, At
  <2>2. PICK snapshot : watches' = Updated(r, [price |-> snapshot]) \/ UNCHANGED watches
    BY <1>2 DEF PersistInitial
  <2>3. CASE watches' = Updated(r, [price |-> snapshot])
    <3> DEFINE more == [price |-> snapshot]
    <3>1. DOMAIN more = {"price"} /\ watches' = Updated(r, more)
      BY <2>3
    <3> HIDE DEF more
    <3>2. Keeps
      BY <3>1, UpdateKeeps
    <3> QED
      BY <2>1, <3>2, RespondSourced, FailedSourced, RestSourced
  <2> QED
    BY <2>1, <2>2, <2>3, RespondSourced, FailedSourced, MoveSourced
<1> QED
  BY <1>1, <1>2

\* A submission goes by the preview of its form, or reads its tab or its URL.
LEMMA SubmitSourced ==
    ASSUME ShownInv, SourcesInv, NEW r \in Requests, NEW form \in forms, NEW choice,
           SubmitForm(r, form, choice)
    PROVE  SourcesInv'
<1> DEFINE chosen == [form |-> form, key |-> form.key, seed |-> form.preview.url,
                      choice |-> choice, gone |-> Gone(form)]
<1>1. UNCHANGED <<tabs, forms, watches>>
  BY DEF SubmitForm, Workflow
<1>2. Cached(form.key) => Entry(form.key) = form
  BY Finds
<1>3. \/ Started(r, "create", "read", With([preview |-> form.preview], chosen))
      \/ Started(r, "create", "list", With([tab |-> form.preview.tab], chosen))
      \/ StartLookup(r, "create", form.preview.url, chosen)
  BY <1>2 DEF SubmitForm
<1>4. Sound(form.preview) /\ form.preview.url \in DOMAIN Drafts
  BY DEF SourcesInv, FormsSound, Sound
<1>5. DOMAIN chosen = {"form", "key", "seed", "choice", "gone"} /\ chosen.seed = form.preview.url
  OBVIOUS
<1> HIDE DEF chosen
<1>6. ASSUME StartLookup(r, "create", form.preview.url, chosen)
      PROVE  SourcedOn(r)
  BY <1>4, <1>5, <1>6, LookupSourced
<1>7. ASSUME NEW first, NEW place \in {"read", "list"},
             Started(r, "create", place, With(first, chosen)),
             DOMAIN first \in {{"preview"}, {"tab"}},
             place = "list" => "tab" \in DOMAIN first,
             place = "read" => "preview" \in DOMAIN first /\ first.preview = form.preview
      PROVE  SourcedOn(r)
  <2> DEFINE more == With(first, chosen)
  <2>1. /\ DOMAIN more = DOMAIN first \cup DOMAIN chosen
        /\ \A k \in DOMAIN chosen : more[k] = chosen[k]
        /\ \A k \in DOMAIN first \ DOMAIN chosen : more[k] = first[k]
    BY WithFields
  <2> HIDE DEF more
  <2>2. DOMAIN more \cap {"at", "purpose", "diagnostics", "under"} = {}
    BY <1>5, <1>7, <2>1
  <2>3. /\ place = "read" => "preview" \in DOMAIN more /\ more.preview = form.preview
        /\ place = "list" => "tab" \in DOMAIN more
        /\ "seed" \in DOMAIN more /\ more.seed = form.preview.url
    BY <1>5, <1>7, <2>1
  <2>4. Started(r, "create", place, more)
    BY <1>7 DEF more
  <2> QED
    BY <1>4, <1>7, <2>2, <2>3, <2>4, StartedSourced
<1>8. ASSUME Started(r, "create", "read", With([preview |-> form.preview], chosen))
      PROVE  SourcedOn(r)
  <2> DEFINE first == [preview |-> form.preview]
  <2>1. DOMAIN first = {"preview"} /\ first.preview = form.preview
    OBVIOUS
  <2>2. Started(r, "create", "read", With(first, chosen))
    BY <1>8
  <2> HIDE DEF first
  <2> QED
    BY <1>7, <2>1, <2>2
<1>9. ASSUME Started(r, "create", "list", With([tab |-> form.preview.tab], chosen))
      PROVE  SourcedOn(r)
  <2> DEFINE first == [tab |-> form.preview.tab]
  <2>1. DOMAIN first = {"tab"}
    OBVIOUS
  <2>2. Started(r, "create", "list", With(first, chosen))
    BY <1>9
  <2> HIDE DEF first
  <2> QED
    BY <1>7, <2>1, <2>2
<1> QED
  BY <1>1, <1>3, <1>6, <1>8, <1>9, MoveSourced

\* The user browses, deletes a watch or restarts the program; time goes by.
LEMMA BrowseSourced ==
    ASSUME SourcesInv, Browse
    PROVE  TabsKept' /\ DOMAIN tabs' = DOMAIN tabs
<1>1. PICK t \in Open :
         \/ \E url \in Visits, blocked \in BOOLEAN : tabs' = [tabs EXCEPT ![t] = Tab(url, blocked)]
         \/ tabs' = [tabs EXCEPT ![t].open = FALSE]
  BY DEF Browse
<1>2. tabs \in Seq(TabRecord) /\ t \in DOMAIN tabs /\ tabs[t] \in TabRecord
  BY DEF SourcesInv, TabsKept, Open
<1>3. \A url \in Visits, blocked \in BOOLEAN : Tab(url, blocked) \in TabRecord
  BY DEF Tab, TabRecord
<1>4. [tabs[t] EXCEPT !.open = FALSE] \in TabRecord
  BY <1>2 DEF TabRecord
<1>5. \E tab \in TabRecord : tabs' = [tabs EXCEPT ![t] = tab]
  BY <1>1, <1>3, <1>4
<1>6. PICK tab \in TabRecord : tabs' = [tabs EXCEPT ![t] = tab]
  BY <1>5
<1> QED
  BY <1>2, <1>6, ExceptSeq DEF TabsKept

LEMMA MeanwhileSourced ==
    ASSUME ShownInv, SourcesInv, UNCHANGED <<forms, request>>, Keeps,
           TabsKept', DOMAIN tabs \subseteq DOMAIN tabs'
    PROVE  SourcesInv'
<1>1. \A q \in Requests : Sourced(request'[q])
  BY DEF SourcesInv, RequestsSourced
<1>2. \A q \in Requests : Sourced(request[q])'
  BY <1>1 DEF Sourced, Seeded
<1>3. FormsSound' /\ WatchesMade'
  BY MadeKept DEF SourcesInv, FormsSound
<1> QED
  BY <1>2, <1>3 DEF SourcesInv, RequestsSourced

LEMMA RestartSourced ==
    ASSUME ShownInv, SourcesInv, Restart
    PROVE  SourcesInv'
<1>1. \A q \in Requests : request'[q].at = "idle"
  BY DEF Restart, Idle
<1>2. RequestsSourced'
  BY <1>1 DEF RequestsSourced, Sourced, TabPlaces, SeedPlaces
<1>3. TabsKept' /\ FormsSound' /\ WatchesMade'
  BY DEF Restart, SourcesInv, TabsKept, FormsSound, WatchesMade
<1> QED
  BY <1>2, <1>3 DEF SourcesInv

\* The invariant holds at the start, and every step keeps it.
LEMMA InitSourced == Init => SourcesInv
<1> SUFFICES ASSUME Init PROVE SourcesInv
  OBVIOUS
<1>1. PICK url \in Visits : tabs = <<Tab(url, FALSE)>>
  BY WatchCreationAssumption DEF Init
<1>2. Tab(url, FALSE) \in TabRecord
  BY DEF Tab, TabRecord
<1>3. TabsKept
  <2> DEFINE tab == Tab(url, FALSE)
  <2>1. tab \in TabRecord /\ tabs = <<tab>>
    BY <1>1, <1>2
  <2> HIDE DEF tab
  <2> QED
    BY <2>1 DEF TabsKept
<1>4. /\ forms = {} /\ watches = {} /\ \A r \in Requests : request[r].at = "idle"
  BY DEF Init, Idle
<1> QED
  BY <1>3, <1>4, NoSource DEF SourcesInv, FormsSound, WatchesMade, RequestsSourced

LEMMA StepSourced ==
    ASSUME ShownInv, SourcesInv, NEW r \in Requests, Step(r)
    PROVE  SourcesInv'
<1>1. CASE ReadTab(r)
  BY <1>1, TabThreadsSourced, MoveSourced DEF ReadTab
<1>2. ASSUME NEW t, PreviewTab(r, t) PROVE SourcesInv'
  BY <1>2, PreviewTabSourced
<1>3. ASSUME NEW url \in Seeds, PreviewSeed(r, url) PROVE SourcesInv'
  BY <1>3, PreviewSeedSourced
<1> QED
  BY <1>1, <1>2, <1>3, SeedThreadsSourced, SubmitSourced, FormSourced, AnswersSourced,
     FindExistingSourced, SaveWatchSourced, SavesSourced DEF Step

LEMMA NextSourced == ShownInv /\ SourcesInv /\ [Next]_vars => SourcesInv'
<1> SUFFICES ASSUME ShownInv, SourcesInv, [Next]_vars PROVE SourcesInv'
  OBVIOUS
<1>1. CASE Browse
  <2>1. Keeps /\ UNCHANGED <<forms, request>>
    BY <1>1 DEF Browse, Keeps
  <2> QED
    BY <1>1, <2>1, BrowseSourced, MeanwhileSourced
<1>2. ASSUME NEW w \in watches, Delete(w) PROVE SourcesInv'
  <2>1. watches' \subseteq watches /\ UNCHANGED <<tabs, forms, request>>
    BY <1>2 DEF Delete
  <2>2. Keeps /\ TabsKept'
    BY <2>1 DEF Keeps, SourcesInv, TabsKept
  <2> QED
    BY <2>1, <2>2, MeanwhileSourced
<1>3. CASE Tick \/ UNCHANGED vars
  <2>1. UNCHANGED <<tabs, forms, request, watches>>
    BY <1>3 DEF Tick, vars
  <2>2. Keeps /\ TabsKept'
    BY <2>1 DEF Keeps, SourcesInv, TabsKept
  <2> QED
    BY <2>1, <2>2, MeanwhileSourced
<1> QED
  BY <1>1, <1>2, <1>3, StepSourced, RestartSourced DEF Next

\* The invariant of the sources holds of every reachable state.
THEOREM SourcesInductive == Spec => []SourcesInv
  BY InitSourced, NextSourced, ShownInductive, PTL DEF Spec

\* The candidates of a form are those of the stay its watch would have
\* (is_ready_page with ikyu_signatures_match_confidently): a page that was ready
\* for a seed says the check-in, the guests and the rooms of its draft, provided
\* that the site says a stay under the names pages are compared by.
THEOREM StayOfPrices == Spec => []PricesOfStay
<1>1. SourcesInv => PricesOfStay
  BY DEF SourcesInv, FormsSound, Sound, PricesOfStay
<1> QED
  BY <1>1, SourcesInductive, PTL

\* A target that can be created is one a draft says in full.
LEMMA CreatableTold ==
    ASSUME NEW target \in Creatable
    PROVE  Told(target)
<1>1. PICK url \in DOMAIN Drafts, choice \in Picks :
         /\ Drafts[url] # None /\ target # None
         /\ target = ResolveWatchTarget(Drafts[url], choice.room, choice.plan)
  BY DEF Creatable
<1> DEFINE draft == Drafts[url]
<1>2. ReadyForCandidateLookup(draft) /\ draft # None
  BY <1>1 DEF ResolveWatchTarget
<1>3. draft = ParseSeedUrl(UrlOf(url)) /\ draft = Draft(UrlOf(url)) /\ IsUrl(UrlOf(url))
  BY <1>2, Tables, UrlsAre
<1>4. SoundStay(draft)
  BY <1>2, <1>3, PreviewSound
<1>5. draft.hotel \in HotelIds
  BY <1>2, SiteAssumption
<1> HIDE DEF draft
<1>6. target = [hotel |-> draft.hotel, room |-> choice.room, plan |-> choice.plan,
                checkIn |-> draft.checkIn, checkOut |-> draft.checkOut,
                people |-> draft.people, rooms |-> draft.rooms]
  BY <1>1, <1>2 DEF ResolveWatchTarget, draft
<1> QED
  BY <1>4, <1>5, <1>6 DEF Told, Exact, SoundStay

\* No URL is misread for a watch (parse_seed_url, build_target_page_url,
\* build_search_page_url, browser_tab_matches_watch): its stay survives the URLs
\* built from it, and its page marks the watch of its target and no other.
THEOREM TargetsTold == Spec => []TargetsIdentify
<1>1. SourcesInv => TargetsIdentify
  <2> SUFFICES ASSUME SourcesInv, NEW w \in watches PROVE Misread[w.target] = {}
    BY DEF TargetsIdentify
  <2>1. w.target \in Creatable
    BY DEF SourcesInv, WatchesMade
  <2>2. Misread[w.target] = {u \in Samples : IsPreviewUrl(u) /\ ~Faithful(u, w.target)}
    BY <2>1 DEF Misread
  <2>3. \A u \in Samples : IsUrl(u)
    BY SiteAssumption
  <2> QED
    BY <2>1, <2>2, <2>3, AllFaithful, CreatableTold
<1> QED
  BY <1>1, SourcesInductive, PTL

-----------------------------------------------------------------------------
(* The passes of the background loop                                       *)

USE WatchSyncConstants

\* What lies in the loop's hands while a pass goes from its list to its
\* dispatch: the scheduled watches, the entry about to be stored back, and the
\* entries removed under the iteration.
InHand == registered \cup ({held} \ {NoWatch}) \cup
             (IF phase = "iterating" THEN gone ELSE {})

\* Nothing in hand was unknown to the pass's list, and no watch on that list
\* had settled as paused when the list was read.
PassInv ==
    /\ phase \in {"items", "dispatch", "iterating"} => InHand \subseteq listed
    /\ settled \cap listed = {}
    /\ phase \in {"idle", "listing", "dispatch", "iterating"} => todo = {}

SyncInv == SyncTypeOK /\ PassInv

-----------------------------------------------------------------------------
\* Every action of the synchronisation, the scheduler and the web threads keeps
\* the types of the state.
LEMMA SyncTypeStep == SyncInv /\ [SyncNext]_syncVars => SyncTypeOK'
<1> SUFFICES ASSUME SyncTypeOK, PassInv, [SyncNext]_syncVars PROVE SyncTypeOK'
  BY DEF SyncInv
<1> USE DEF SyncTypeOK, Phases, syncVars, database, pass, users
<1>1. CASE ReadList
  <2>1. resumed' \in BOOLEAN
    BY <1>1 DEF ReadList
  <2>4. wakeups' = wakeups \/ (wakeups > 0 /\ wakeups' = wakeups - 1)
    BY <1>1, Zenon DEF ReadList
  <2>5. wakeups' \in 0..MaxWakeups
    BY <2>4
  <2>2. settled' \subseteq Watches \ active'
    BY <1>1 DEF ReadList
  <2>3. listed' \subseteq Watches /\ todo' \subseteq listed'
    BY <1>1 DEF ReadList, PassInv
  <2> QED
    BY <1>1, <2>1, <2>2, <2>3, <2>5 DEF ReadList
<1>2. CASE TakeRegistered
  BY <1>2 DEF StillListed, TakeRegistered
<1>3. CASE StoreEntry
  BY <1>3 DEF StoreEntry
<1>4. CASE SyncDone
  BY <1>4 DEF SyncDone
<1>5. CASE BeginDispatch
  BY <1>5 DEF BeginDispatch
<1>6. CASE Dispatch
  BY <1>6 DEF Dispatch
<1>7. CASE RestoreOutlasts
  BY <1>7 DEF RestoreOutlasts
<1>8. CASE DispatchDies
  BY <1>8 DEF DispatchDies
<1>9. ASSUME NEW w \in Watches, SyncItem(w) PROVE SyncTypeOK'
  BY <1>9 DEF SyncItem, MissingEntry
<1>10. ASSUME NEW w \in Watches, MarkFinished(w) PROVE SyncTypeOK'
  BY <1>10 DEF Ending, MarkFinished
<1>11. ASSUME NEW w \in Watches, MarkCheckCompleted(w) PROVE SyncTypeOK'
  BY <1>11 DEF MarkCheckCompleted
<1>12. ASSUME NEW w \in Watches, PersistBlocked(w) PROVE SyncTypeOK'
  BY <1>12 DEF PersistBlocked
<1>13. ASSUME NEW w \in Watches, RemoveBlocked(w) PROVE SyncTypeOK'
  BY <1>13 DEF RemoveBlocked
<1>14. ASSUME NEW w \in Watches, Activate(w) PROVE SyncTypeOK'
  BY <1>14 DEF Activate, CommandAllowed
<1>15. ASSUME NEW w \in Watches, DeleteDefinition(w) PROVE SyncTypeOK'
  BY <1>15 DEF DeleteDefinition, CommandAllowed
<1>16. ASSUME NEW t \in Threads, NEW w \in Watches, SavePaused(t, w)
       PROVE SyncTypeOK'
  BY <1>16 DEF SavePaused, CommandAllowed
<1>17. ASSUME NEW t \in Threads, RemovePaused(t) PROVE SyncTypeOK'
  BY <1>17 DEF RemovePaused
<1>18. CASE UNCHANGED syncVars
  BY <1>18
<1> QED
  BY <1>1, <1>2, <1>3, <1>4, <1>5, <1>6, <1>7, <1>8, <1>9, <1>10, <1>11,
     <1>12, <1>13, <1>14, <1>15, <1>16, <1>17, <1>18 DEF SyncNext

LEMMA SyncInitInv == SyncInit => SyncInv
<1> SUFFICES ASSUME SyncInit PROVE SyncInv
  OBVIOUS
<1>1. SyncTypeOK
  <2>1. commands \in 0..MaxCommands /\ wakeups \in 0..MaxWakeups
    BY DEF SyncInit
  <2>2. thread \in [Threads -> Watches \cup {NoWatch}]
    BY DEF SyncInit
  <2>3. QED
    BY <2>1, <2>2 DEF SyncInit, SyncTypeOK, Phases
<1>2. PassInv
  BY DEF SyncInit, PassInv
<1> QED
  BY <1>1, <1>2 DEF SyncInv

-----------------------------------------------------------------------------
\* No step of a pass, nor any step of the others between two of them, puts a
\* watch in the loop's hands that the pass's list did not hold.
LEMMA SyncPassStep == SyncInv /\ [SyncNext]_syncVars => PassInv'
<1> SUFFICES ASSUME SyncTypeOK, PassInv, [SyncNext]_syncVars PROVE PassInv'
  BY DEF SyncInv
<1> USE DEF SyncTypeOK, PassInv, InHand, Phases, database, pass, users
<1>1. CASE ReadList
  BY <1>1 DEF ReadList
<1>2. CASE TakeRegistered
  BY <1>2 DEF StillListed, TakeRegistered
<1>3. CASE StoreEntry
  BY <1>3 DEF StoreEntry
<1>4. CASE SyncDone
  BY <1>4 DEF SyncDone
<1>5. CASE BeginDispatch
  BY <1>5 DEF BeginDispatch
<1>6. CASE Dispatch
  BY <1>6 DEF Dispatch
<1>7. CASE RestoreOutlasts
  BY <1>7 DEF RestoreOutlasts
<1>8. CASE DispatchDies
  BY <1>8 DEF DispatchDies
<1>9. ASSUME NEW w \in Watches, SyncItem(w) PROVE PassInv'
  BY <1>9 DEF SyncItem, MissingEntry
<1>10. ASSUME NEW w \in Watches, MarkFinished(w) PROVE PassInv'
  BY <1>10 DEF Ending, MarkFinished, LoopCanRun
<1>11. ASSUME NEW w \in Watches, MarkCheckCompleted(w) PROVE PassInv'
  BY <1>11 DEF MarkCheckCompleted, LoopCanRun
<1>12. ASSUME NEW w \in Watches, PersistBlocked(w) PROVE PassInv'
  BY <1>12 DEF PersistBlocked
<1>13. ASSUME NEW w \in Watches, RemoveBlocked(w) PROVE PassInv'
  BY <1>13 DEF RemoveBlocked
<1>14. ASSUME NEW w \in Watches, Activate(w) PROVE PassInv'
  BY <1>14 DEF Activate
<1>15. ASSUME NEW w \in Watches, DeleteDefinition(w) PROVE PassInv'
  BY <1>15 DEF DeleteDefinition
<1>16. ASSUME NEW t \in Threads, NEW w \in Watches, SavePaused(t, w)
       PROVE PassInv'
  BY <1>16 DEF SavePaused
<1>17. ASSUME NEW t \in Threads, RemovePaused(t) PROVE PassInv'
  BY <1>17 DEF RemovePaused
<1>18. CASE UNCHANGED syncVars
  BY <1>18 DEF syncVars
<1> QED
  BY <1>1, <1>2, <1>3, <1>4, <1>5, <1>6, <1>7, <1>8, <1>9, <1>10, <1>11,
     <1>12, <1>13, <1>14, <1>15, <1>16, <1>17, <1>18 DEF SyncNext

\* The inductive invariant holds of every reachable state.
THEOREM SyncInductive == SyncSpec => []SyncInv
<1>1. SyncInv /\ [SyncNext]_syncVars => SyncInv'
  BY SyncTypeStep, SyncPassStep DEF SyncInv
<1> QED
  BY SyncInitInv, <1>1, PTL DEF SyncSpec

-----------------------------------------------------------------------------
\* The state of the synchronisation keeps its types.
THEOREM SyncTypeCorrect == SyncSpec => []SyncTypeOK
<1>1. SyncInv => SyncTypeOK
  BY DEF SyncInv
<1> QED
  BY SyncInductive, <1>1, PTL

\* Whatever the web threads, the finishing checks and the startup restore do,
\* what is scheduled when a pass comes to its dispatch was on the pass's list.
THEOREM ListedOnly == SyncSpec => []RegisteredWereListed
<1>1. SyncInv => RegisteredWereListed
  BY DEF SyncInv, PassInv, InHand, RegisteredWereListed
<1> QED
  BY SyncInductive, <1>1, PTL

\* A watch that was paused before the list of a pass was read, and whose
\* command had returned, is not dispatched by that pass.
THEOREM SettledStaysIdle == SyncSpec => SettledNotDispatched
<1>1. SyncInv /\ [SyncNext]_syncVars => [(workers' \ workers) \cap settled = {}]_syncVars
  <2> SUFFICES ASSUME SyncInv, SyncNext PROVE (workers' \ workers) \cap settled = {}
    OBVIOUS
  <2> USE DEF database, pass, users
  <2>1. CASE Dispatch
    BY <2>1 DEF Dispatch, SyncInv, PassInv, InHand
  <2>2. ASSUME ~Dispatch PROVE workers' \subseteq workers
    BY <2>2 DEF SyncNext, ReadList, TakeRegistered, StoreEntry, SyncDone,
       BeginDispatch, RestoreOutlasts, DispatchDies, SyncItem, MarkFinished,
       MarkCheckCompleted, PersistBlocked, RemoveBlocked, Activate, DeleteDefinition,
       SavePaused, RemovePaused
  <2> QED
    BY <2>1, <2>2
<1> QED
  BY SyncInductive, <1>1, PTL DEF SyncSpec, SettledNotDispatched
=============================================================================
