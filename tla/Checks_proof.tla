----------------------------- MODULE Checks_proof -----------------------------
(***************************************************************************)
(* Proofs about the checks and what they leave: which of them overlap,     *)
(* which slots do not come back and what stop() leaves behind              *)
(* (CheckTasks); when a watch is silent, when it tells an outage, that     *)
(* rooms are back or a price is low, and how long it waits after failures  *)
(* (CheckHistory, whose specification is HistorySpec).                     *)
(***************************************************************************)
EXTENDS CheckTasks, CheckHistory, FiniteSetTheorems, SequenceTheorems, TLAPS

USE CheckTasksConstants DEF endings, stops

-----------------------------------------------------------------------------
(* Sequences in which nothing occurs twice                                 *)

\* What the head and the tail of one hold.
LEMMA Popped ==
    ASSUME NEW T, NEW s \in Seq(T), s # <<>>, IsInjective(s)
    PROVE  /\ Head(s) \in ToSet(s) /\ Head(s) \in T
           /\ Tail(s) \in Seq(T)
           /\ IsInjective(Tail(s))
           /\ ToSet(Tail(s)) = ToSet(s) \ {Head(s)}
<1>1. /\ Len(s) \in Nat \ {0} /\ DOMAIN s = 1..Len(s)
      /\ Tail(s) \in Seq(T) /\ Len(Tail(s)) = Len(s) - 1
      /\ DOMAIN Tail(s) = 1..(Len(s) - 1)
      /\ \A i \in 1..(Len(s) - 1) : Tail(s)[i] = s[i + 1]
      /\ Head(s) = s[1] /\ Head(s) \in T
  BY HeadTailProperties, LenProperties, EmptySeq
<1>2. IsInjective(Tail(s))
  BY <1>1 DEF IsInjective
<1>3. ASSUME NEW x PROVE x \in ToSet(Tail(s)) <=> x \in ToSet(s) \ {Head(s)}
  <2>1. CASE x \in ToSet(Tail(s))
    <3>1. PICK i \in 1..(Len(s) - 1) : x = s[i + 1]
      BY <1>1, <2>1 DEF ToSet
    <3>2. i + 1 \in DOMAIN s /\ 1 \in DOMAIN s /\ i + 1 # 1
      BY <1>1
    <3> QED
      BY <1>1, <2>1, <3>1, <3>2 DEF ToSet, IsInjective
  <2>2. CASE x \in ToSet(s) \ {Head(s)}
    <3>1. PICK j \in 1..Len(s) : x = s[j] /\ j # 1
      BY <1>1, <2>2 DEF ToSet
    <3>2. j - 1 \in 1..(Len(s) - 1) /\ (j - 1) + 1 = j
      BY <1>1, <3>1
    <3>3. x = Tail(s)[j - 1]
      BY <1>1, <3>1, <3>2
    <3> QED
      BY <1>1, <2>2, <3>2, <3>3 DEF ToSet
  <2> QED
    BY <2>1, <2>2
<1>4. Head(s) \in ToSet(s)
  BY <1>1 DEF ToSet
<1> QED
  BY <1>1, <1>2, <1>3, <1>4

\* What two of them hold in a row.
LEMMA Joined ==
    ASSUME NEW T, NEW s \in Seq(T), NEW q \in Seq(T),
           IsInjective(s), IsInjective(q),
           \A x \in ToSet(q) : x \notin ToSet(s)
    PROVE  /\ s \o q \in Seq(T)
           /\ IsInjective(s \o q)
           /\ ToSet(s \o q) = ToSet(s) \cup ToSet(q)
<1> DEFINE r == s \o q
<1>1. /\ Len(s) \in Nat /\ DOMAIN s = 1..Len(s)
      /\ Len(q) \in Nat /\ DOMAIN q = 1..Len(q)
      /\ r \in Seq(T) /\ DOMAIN r = 1..(Len(s) + Len(q))
      /\ \A i \in 1..(Len(s) + Len(q)) :
             r[i] = IF i <= Len(s) THEN s[i] ELSE q[i - Len(s)]
  BY ConcatProperties, LenProperties
<1> HIDE DEF r
<1>2. \A i \in DOMAIN s : i \in DOMAIN r /\ r[i] = s[i]
  BY <1>1
<1>3. \A i \in DOMAIN q : /\ i + Len(s) \in DOMAIN r
                          /\ r[i + Len(s)] = q[i]
  <2> SUFFICES ASSUME NEW i \in DOMAIN q
               PROVE  i + Len(s) \in DOMAIN r /\ r[i + Len(s)] = q[i]
    OBVIOUS
  <2>1. i + Len(s) \in 1..(Len(s) + Len(q)) /\ ~(i + Len(s) <= Len(s))
        /\ (i + Len(s)) - Len(s) = i
    BY <1>1
  <2>2. r[i + Len(s)] = q[(i + Len(s)) - Len(s)]
    BY <1>1, <2>1
  <2> QED
    BY <1>1, <2>1, <2>2
<1>4. \A i \in DOMAIN r : \/ i \in DOMAIN s /\ r[i] = s[i]
                          \/ i - Len(s) \in DOMAIN q /\ r[i] = q[i - Len(s)]
  BY <1>1
<1>5. ToSet(r) = ToSet(s) \cup ToSet(q)
  BY <1>2, <1>3, <1>4 DEF ToSet
<1>6. IsInjective(r)
  <2> SUFFICES ASSUME NEW i \in DOMAIN r, NEW j \in DOMAIN r, r[i] = r[j]
               PROVE  i = j
    BY DEF IsInjective
  <2>1. CASE i \in DOMAIN s /\ r[i] = s[i] /\ j \in DOMAIN s /\ r[j] = s[j]
    BY <2>1 DEF IsInjective
  <2>2. CASE /\ i - Len(s) \in DOMAIN q /\ r[i] = q[i - Len(s)]
             /\ j - Len(s) \in DOMAIN q /\ r[j] = q[j - Len(s)]
    <3>1. i - Len(s) = j - Len(s)
      BY <2>2 DEF IsInjective
    <3> QED
      BY <1>1, <3>1
  <2>3. ~(r[i] \in ToSet(s) /\ r[i] \in ToSet(q))
    OBVIOUS
  <2> QED
    BY <1>4, <2>1, <2>2, <2>3 DEF ToSet
<1> QED
  BY <1>1, <1>5, <1>6 DEF r

\* A sequence of one element.
LEMMA Single ==
    ASSUME NEW T, NEW x \in T
    PROVE  <<x>> \in Seq(T) /\ IsInjective(<<x>>) /\ ToSet(<<x>>) = {x}
  BY DEF IsInjective, ToSet

LEMMA Nothing ==
    ASSUME NEW T
    PROVE  <<>> \in Seq(T) /\ IsInjective(<<>>) /\ ToSet(<<>>) = {}
  BY DEF IsInjective, ToSet

-----------------------------------------------------------------------------
(* The inductive invariant                                                 *)

Whats == {"call", "step", "forget", "unshield", "wake"}
LoopStep == [do |-> "loop"]
Callbacks == [do : Whats, of : Callers] \cup {LoopStep}

TypeOK ==
    /\ ready \in Seq(Callbacks)
    /\ task \in [Callers -> {"none", "created", "running", "ending", "done"}]
    /\ waiters \in [Callers -> Seq(Callers)]
    /\ inflight \in [Watches -> Callers \cup {NoTask}]
    /\ caller \in [Callers -> {"idle", "called", "waiting", "woken"}]
    /\ workers \subseteq Watches
    /\ stopping \subseteq Callers
    /\ raced \subseteq Watches

\* A callback is queued; a caller is among the waiters of a task.
Queued(what, c) == Handle(what, c) \in ToSet(ready)
WaitsFor(c, t) == c \in ToSet(waiters[t])

\* Every occurrence of a in s comes before every occurrence of b.
Precedes(s, a, b) ==
    \A i, j \in 1..Len(s) : s[i] = a /\ s[j] = b => i < j

\* stop() has reached the assignments, so that the loop has ended.
Cancelling == \/ stop \in {"assignments", "awaiting", "inflight", "done"}
              \/ stop = "raised" /\ loop = "stopped"

\* No callback is queued twice, and no caller is twice among the waiters of a
\* task.
Once ==
    /\ IsInjective(ready)
    /\ \A t \in Callers : IsInjective(waiters[t])

\* The callbacks queued for a task tell where it is.
TaskQueue ==
    \A c \in Callers :
        /\ Queued("step", c) <=> task[c] \in {"created", "ending"}
        /\ Queued("forget", c) <=> task[c] = "done"

\* Those queued for a caller tell where it is.
CallerQueue ==
    \A c \in Callers :
        /\ Queued("call", c) =>
               caller[c] = "called" \/ (caller[c] = "woken" /\ Cancelling)
        /\ Queued("wake", c) => caller[c] = "woken" /\ ~Queued("call", c)

\* A caller that does not wait has no check task, and no task will wake it; a
\* cancelled one does not come back.
Fresh ==
    \A c \in Callers :
        caller[c] # "waiting" /\ (Cancelling => caller[c] = "called") =>
            /\ task[c] = "none"
            /\ ~Queued("unshield", c)
            /\ \A t \in Callers : ~WaitsFor(c, t)

\* A caller waits for one task, its own one if it created one.
Shielded ==
    \A c, t \in Callers : WaitsFor(c, t) =>
        /\ ~Queued("unshield", c)
        /\ task[c] # "none" => t = c
        /\ \A u \in Callers : WaitsFor(c, u) => u = t

\* The registry forgets a task before its creator hears of the end.
ForgottenFirst ==
    \A c \in Callers :
        /\ Queued("unshield", c) => task[c] \in {"none", "done"}
        /\ task[c] = "done" =>
               Precedes(ready, Handle("forget", c), Handle("unshield", c))

\* The registry holds known tasks; where no task was replaced before it was
\* forgotten, it holds every one of them, until stop() clears it.
Registry ==
    \A w \in Watches :
        /\ inflight[w] # NoTask =>
               inflight[w] \in Known(w)
        /\ w \notin raced =>
               /\ \A c, d \in Known(w) : c = d
               /\ stop # "done" => Known(w) \subseteq {inflight[w]}
               /\ stop = "inflight" => Known(w) \subseteq stopping
               /\ stop = "done" => Live(w) = {}

\* What has ended when stop() goes on.
Stages ==
    /\ LoopStep \in ToSet(ready) => loop \in {"queued", "stopped"}
    /\ Cancelling => loop = "stopped"
    /\ stop # "no" => \A r \in Requests : caller[r] = "idle"
    /\ stop \in {"inflight", "done"} => \A w \in Watches : caller[w] = "idle"
    /\ \A w \in Watches : caller[w] # "idle" => w \in workers

\* A caller that is not idle has a callback queued or waits for a task.
Attended ==
    \A c \in Callers :
        /\ caller[c] = "called" => Queued("call", c)
        /\ caller[c] = "woken" => Queued("wake", c) \/ Queued("call", c)
        /\ caller[c] = "waiting" =>
               Queued("unshield", c) \/ \E t \in Callers : WaitsFor(c, t)

\* Whoever waits for a task waits for one that has not ended.
Unended ==
    \A c, t \in Callers :
        WaitsFor(c, t) => task[t] \in {"created", "running", "ending"}

\* A slot is held by an assignment at work, or by one that ended without
\* mark_finished, until stop() takes it away.
SlotsHeld ==
    /\ \A w \in workers : caller[w] # "idle" \/ w \in lost
    /\ stop = "done" => workers = {}

Served == Attended /\ Unended /\ SlotsHeld

TaskInv == /\ TypeOK /\ Once /\ TaskQueue /\ CallerQueue /\ Fresh /\ Shielded
           /\ ForgottenFirst /\ Registry /\ Stages /\ Served

-----------------------------------------------------------------------------
(* The event loop's queue                                                  *)

\* Callbacks are told apart by what they do and for whom.
LEMMA HandleIs ==
    /\ \A a, b, c, d : Handle(a, c) = Handle(b, d) <=> a = b /\ c = d
    /\ \A a, c : Handle(a, c) # LoopStep
    /\ \A a \in Whats, c \in Callers : Handle(a, c) \in Callbacks
    /\ LoopStep \in Callbacks
  BY DEF Handle, LoopStep, Callbacks, Whats

\* Handles(what, S) holds one callback per element of S.
LEMMA HandlesHold ==
    ASSUME NEW what \in Whats, NEW S \in SUBSET Callers
    PROVE  /\ Handles(what, S) \in Seq(Callbacks)
           /\ IsInjective(Handles(what, S))
           /\ ToSet(Handles(what, S)) = {Handle(what, c) : c \in S}
<1> DEFINE n == Cardinality(S)
           f == SetToSeq(S)
           r == Handles(what, S)
<1>1. IsFiniteSet(S) /\ n \in Nat /\ ExistsBijection(1..n, S)
  BY FS_Subset, FS_CardinalityType
<1>2. PICK g \in Bijection(1..n, S) : TRUE
  BY <1>1 DEF ExistsBijection
<1>3. g \in [1..n -> S] /\ IsInjective(g)
  BY <1>2 DEF Bijection, Injection
<1>4. f \in [1..n -> S] /\ IsInjective(f)
  BY <1>3 DEF SetToSeq
<1>5. f \in Surjection(1..n, S)
  <2>1. IsFiniteSet(1..n) /\ Cardinality(1..n) = n
    BY <1>1, FS_Interval
  <2>2. f \in Injection(1..n, S)
    BY <1>4 DEF Injection
  <2> QED
    BY <1>1, <2>1, <2>2, FS_Injection
<1>6. \A c \in S : \E i \in 1..n : f[i] = c
  BY <1>5 DEF Surjection
<1>7. r = [i \in 1..n |-> Handle(what, f[i])]
  BY DEF Handles
<1>8. DOMAIN r = 1..n /\ \A i \in 1..n : r[i] = Handle(what, f[i]) /\ f[i] \in S
                                         /\ r[i] \in Callbacks
  BY <1>4, <1>7, HandleIs
<1> HIDE DEF r, f, n
<1>9. r \in Seq(Callbacks)
  <2>1. r = [i \in 1..n |-> r[i]]
    BY <1>7, <1>8
  <2> QED
    BY <1>1, <2>1, <1>8, IsASeq
<1>10. IsInjective(r)
  BY <1>4, <1>8, HandleIs DEF IsInjective
<1>11. ToSet(r) = {Handle(what, c) : c \in S}
  BY <1>6, <1>8 DEF ToSet
<1> QED
  BY <1>9, <1>10, <1>11 DEF r

\* The order of two callbacks stays when the head leaves and when others are
\* queued that do not hold the first one.
LEMMA OrderStays ==
    ASSUME NEW T, NEW s \in Seq(T), NEW q \in Seq(T), NEW a, NEW b,
           Precedes(s, a, b), a \notin ToSet(q)
    PROVE  /\ Precedes(s \o q, a, b)
           /\ s # <<>> => Precedes(Tail(s), a, b)
<1>1. /\ Len(s) \in Nat /\ DOMAIN q = 1..Len(q) /\ Len(q) \in Nat
      /\ Len(s \o q) = Len(s) + Len(q)
      /\ \A i \in 1..(Len(s) + Len(q)) :
             (s \o q)[i] = IF i <= Len(s) THEN s[i] ELSE q[i - Len(s)]
  BY ConcatProperties, LenProperties
<1>2. Precedes(s \o q, a, b)
  <2> SUFFICES ASSUME NEW i \in 1..(Len(s) + Len(q)), NEW j \in 1..(Len(s) + Len(q)),
                      (s \o q)[i] = a, (s \o q)[j] = b
               PROVE  i < j
    BY <1>1 DEF Precedes
  <2>1. i <= Len(s)
    <3>1. ASSUME ~(i <= Len(s)) PROVE FALSE
      <4>1. i - Len(s) \in DOMAIN q /\ q[i - Len(s)] = a
        BY <1>1, <3>1
      <4> QED
        BY <4>1 DEF ToSet
    <3> QED
      BY <3>1
  <2> QED
    BY <1>1, <2>1 DEF Precedes
<1>3. ASSUME s # <<>> PROVE Precedes(Tail(s), a, b)
  <2>1. /\ Len(Tail(s)) = Len(s) - 1
        /\ \A i \in 1..(Len(s) - 1) : Tail(s)[i] = s[i + 1]
    BY <1>3, HeadTailProperties
  <2> SUFFICES ASSUME NEW i \in 1..(Len(s) - 1), NEW j \in 1..(Len(s) - 1),
                      Tail(s)[i] = a, Tail(s)[j] = b
               PROVE  i < j
    BY <2>1 DEF Precedes
  <2>2. i + 1 \in 1..Len(s) /\ j + 1 \in 1..Len(s)
        /\ s[i + 1] = a /\ s[j + 1] = b
    BY <1>1, <2>1
  <2>3. i + 1 < j + 1
    BY <2>2 DEF Precedes
  <2> QED
    BY <2>3
<1> QED
  BY <1>2, <1>3

\* A callback is queued after all that are there already.
LEMMA OrderNew ==
    ASSUME NEW T, NEW s \in Seq(T), NEW q \in Seq(T), NEW a, NEW b,
           b \notin ToSet(s), Precedes(q, a, b)
    PROVE  Precedes(s \o q, a, b)
<1>1. /\ Len(s) \in Nat /\ DOMAIN s = 1..Len(s) /\ Len(q) \in Nat
      /\ Len(s \o q) = Len(s) + Len(q)
      /\ \A i \in 1..(Len(s) + Len(q)) :
             (s \o q)[i] = IF i <= Len(s) THEN s[i] ELSE q[i - Len(s)]
  BY ConcatProperties, LenProperties
<1> SUFFICES ASSUME NEW i \in 1..(Len(s) + Len(q)), NEW j \in 1..(Len(s) + Len(q)),
                    (s \o q)[i] = a, (s \o q)[j] = b
             PROVE  i < j
  BY <1>1 DEF Precedes
<1>2. ~(j <= Len(s))
  BY SMTT(30), <1>1 DEF ToSet
<1>3. CASE i <= Len(s)
  BY <1>1, <1>2, <1>3
<1>4. CASE ~(i <= Len(s))
  <2>1. i - Len(s) \in 1..Len(q) /\ j - Len(s) \in 1..Len(q)
        /\ q[i - Len(s)] = a /\ q[j - Len(s)] = b
    BY <1>1, <1>2, <1>4
  <2>2. i - Len(s) < j - Len(s)
    BY <2>1 DEF Precedes
  <2> QED
    BY <1>1, <2>2
<1> QED
  BY <1>3, <1>4

\* What is behind the head cannot precede it.
LEMMA HeadIsFirst ==
    ASSUME NEW T, NEW s \in Seq(T), s # <<>>, NEW a, Precedes(s, a, Head(s))
    PROVE  a \notin ToSet(s)
<1>1. Len(s) \in Nat \ {0} /\ DOMAIN s = 1..Len(s) /\ Head(s) = s[1]
  BY LenProperties, EmptySeq
<1> QED
  BY <1>1 DEF Precedes, ToSet

\* One more element, which is not there yet.
LEMMA Appended ==
    ASSUME NEW T, NEW s \in Seq(T), NEW x \in T, IsInjective(s), x \notin ToSet(s)
    PROVE  /\ Append(s, x) \in Seq(T)
           /\ IsInjective(Append(s, x))
           /\ ToSet(Append(s, x)) = ToSet(s) \cup {x}
<1>1. Append(s, x) = s \o <<x>>
  OBVIOUS
<1> DEFINE q == <<x>>
<1>2. q \in Seq(T) /\ IsInjective(q) /\ ToSet(q) = {x}
  BY Single
<1> HIDE DEF q
<1>3. \A y \in ToSet(q) : y \notin ToSet(s)
  BY <1>2
<1>4. s \o q \in Seq(T) /\ IsInjective(s \o q)
      /\ ToSet(s \o q) = ToSet(s) \cup ToSet(q)
  BY <1>2, <1>3, Joined
<1> QED
  BY <1>1, <1>2, <1>4 DEF q

\* A step of the event loop takes the callback h from the queue and adds q.
LEMMA RunsStep ==
    ASSUME TypeOK, Once, NEW h, NEW q \in Seq(Callbacks), Runs(h, q),
           IsInjective(q), \A x \in ToSet(q) : x \notin ToSet(ready) \ {h}
    PROVE  /\ ready' \in Seq(Callbacks)
           /\ IsInjective(ready')
           /\ h \in ToSet(ready)
           /\ ToSet(ready') = (ToSet(ready) \ {h}) \cup ToSet(q)
           /\ \A a, b : Precedes(ready, a, b) /\ a \notin ToSet(q) =>
                  Precedes(ready', a, b)
           /\ \A a, b : b \notin ToSet(ready) /\ Precedes(q, a, b) =>
                  Precedes(ready', a, b)
           /\ \A a : Precedes(ready, a, h) => a \notin ToSet(ready)
<1>1. /\ ready \in Seq(Callbacks) /\ ready # <<>> /\ IsInjective(ready)
      /\ h = Head(ready) /\ ready' = Tail(ready) \o q
  BY DEF TypeOK, Once, Runs
<1>2. /\ Tail(ready) \in Seq(Callbacks) /\ IsInjective(Tail(ready))
      /\ ToSet(Tail(ready)) = ToSet(ready) \ {h} /\ h \in ToSet(ready)
  BY <1>1, Popped
<1>3. /\ ready' \in Seq(Callbacks) /\ IsInjective(ready')
      /\ ToSet(ready') = (ToSet(ready) \ {h}) \cup ToSet(q)
  <2> DEFINE r == Tail(ready)
  <2>1. /\ r \in Seq(Callbacks) /\ IsInjective(r) /\ ready' = r \o q
        /\ ToSet(r) = ToSet(ready) \ {h}
    BY <1>1, <1>2
  <2> HIDE DEF r
  <2>2. \A x \in ToSet(q) : x \notin ToSet(r)
    BY <2>1
  <2> QED
    BY <2>1, <2>2, Joined
<1>4. ASSUME NEW a, NEW b, Precedes(ready, a, b), a \notin ToSet(q)
      PROVE  Precedes(ready', a, b)
  <2>1. Precedes(Tail(ready), a, b)
    BY <1>1, <1>4, OrderStays
  <2> QED
    BY <1>1, <1>2, <1>4, <2>1, OrderStays
<1>5. ASSUME NEW a, NEW b, b \notin ToSet(ready), Precedes(q, a, b)
      PROVE  Precedes(ready', a, b)
  <2>1. b \notin ToSet(Tail(ready))
    BY <1>2, <1>5
  <2> QED
    BY <1>1, <1>2, <1>5, <2>1, OrderNew
<1>6. \A a : Precedes(ready, a, h) => a \notin ToSet(ready)
  BY <1>1, HeadIsFirst
<1> QED
  BY <1>2, <1>3, <1>4, <1>5, <1>6

\* The same for a step that queues nothing, and for one that queues x.
LEMMA RunsOnly ==
    ASSUME TypeOK, Once, NEW h, Runs(h, <<>>)
    PROVE  /\ ready' \in Seq(Callbacks)
           /\ IsInjective(ready')
           /\ h \in ToSet(ready)
           /\ ToSet(ready') = ToSet(ready) \ {h}
           /\ \A a, b : Precedes(ready, a, b) => Precedes(ready', a, b)
           /\ \A a : Precedes(ready, a, h) => a \notin ToSet(ready)
<1> DEFINE q == <<>>
<1>1. q \in Seq(Callbacks) /\ IsInjective(q) /\ ToSet(q) = {}
  BY Nothing
<1>2. Runs(h, q)
  OBVIOUS
<1> HIDE DEF q
<1> QED
  BY <1>1, <1>2, RunsStep

LEMMA RunsThen ==
    ASSUME TypeOK, Once, NEW h, NEW x \in Callbacks, Runs(h, <<x>>),
           x \notin ToSet(ready) \ {h}
    PROVE  /\ ready' \in Seq(Callbacks)
           /\ IsInjective(ready')
           /\ h \in ToSet(ready)
           /\ ToSet(ready') = (ToSet(ready) \ {h}) \cup {x}
           /\ \A a, b : Precedes(ready, a, b) /\ a # x => Precedes(ready', a, b)
           /\ \A a : Precedes(ready, a, h) => a \notin ToSet(ready)
<1> DEFINE q == <<x>>
<1>1. q \in Seq(Callbacks) /\ IsInjective(q) /\ ToSet(q) = {x}
  BY Single
<1>2. Runs(h, q)
  OBVIOUS
<1> HIDE DEF q
<1> QED
  BY <1>1, <1>2, RunsStep

\* Callbacks queued from outside the loop's queue.
LEMMA QueuesStep ==
    ASSUME TypeOK, Once, NEW q \in Seq(Callbacks), ready' = ready \o q,
           IsInjective(q), \A x \in ToSet(q) : x \notin ToSet(ready)
    PROVE  /\ ready' \in Seq(Callbacks)
           /\ IsInjective(ready')
           /\ ToSet(ready') = ToSet(ready) \cup ToSet(q)
           /\ \A a, b : Precedes(ready, a, b) /\ a \notin ToSet(q) =>
                  Precedes(ready', a, b)
<1>1. ready \in Seq(Callbacks) /\ IsInjective(ready)
  BY DEF TypeOK, Once
<1> QED
  BY <1>1, Joined, OrderStays

LEMMA QueuesOne ==
    ASSUME TypeOK, Once, NEW x \in Callbacks, ready' = Append(ready, x),
           x \notin ToSet(ready)
    PROVE  /\ ready' \in Seq(Callbacks)
           /\ IsInjective(ready')
           /\ ToSet(ready') = ToSet(ready) \cup {x}
           /\ \A a, b : Precedes(ready, a, b) /\ a # x => Precedes(ready', a, b)
<1> DEFINE q == <<x>>
<1>1. q \in Seq(Callbacks) /\ IsInjective(q) /\ ToSet(q) = {x}
  BY Single
<1>2. ready' = ready \o q
  BY DEF TypeOK
<1> HIDE DEF q
<1> QED
  BY <1>1, <1>2, QueuesStep

-----------------------------------------------------------------------------
(* The invariant is inductive                                              *)

\* A caller joins the task in the registry.
LEMMA JoinKeeps ==
    ASSUME TaskInv, NEW c \in Callers, JoinTask(c)
    PROVE  TaskInv'
<1> DEFINE t == inflight[WatchOf(c)]
<1> USE DEF TaskInv
<1>1. /\ t \in Callers /\ task[t] # "done" /\ caller[c] = "called"
      /\ task[t] # "none"
      /\ Runs(Handle("call", c), <<>>)
      /\ waiters' = [waiters EXCEPT ![t] = Append(waiters[t], c)]
      /\ caller' = [caller EXCEPT ![c] = "waiting"]
      /\ UNCHANGED <<task, inflight, workers, restore, loop, stop, stopping,
                     raced, lost>>
  BY DEF JoinTask, Reusable, TypeOK, WatchOf, Registry, Known, Callers
<1>2. /\ ready' \in Seq(Callbacks) /\ IsInjective(ready')
      /\ ToSet(ready') = ToSet(ready) \ {Handle("call", c)}
      /\ \A a, b : Precedes(ready, a, b) => Precedes(ready', a, b)
  BY <1>1, RunsOnly
<1>3. \A d \in Callers : c \notin ToSet(waiters[d])
  BY <1>1 DEF Fresh, WaitsFor
<1>4. /\ Append(waiters[t], c) \in Seq(Callers)
      /\ IsInjective(Append(waiters[t], c))
      /\ ToSet(Append(waiters[t], c)) = ToSet(waiters[t]) \cup {c}
  <2>1. /\ waiters[t] \in Seq(Callers) /\ IsInjective(waiters[t])
        /\ c \notin ToSet(waiters[t])
    BY <1>1, <1>3 DEF TypeOK, Once
  <2> DEFINE s == waiters[t]
  <2> HIDE DEF s
  <2>2. s \in Seq(Callers) /\ IsInjective(s) /\ c \notin ToSet(s)
    BY <2>1 DEF s
  <2>3. /\ Append(s, c) \in Seq(Callers)
        /\ IsInjective(Append(s, c))
        /\ ToSet(Append(s, c)) = ToSet(s) \cup {c}
    BY <2>2, Appended
  <2> QED
    BY <2>3 DEF s
<1>5. \A what, d : Queued(what, d)' <=>
          Queued(what, d) /\ ~(what = "call" /\ d = c)
  BY <1>2, HandleIs DEF Queued
<1>6. \A d, u \in Callers : WaitsFor(d, u)' <=>
          WaitsFor(d, u) \/ (d = c /\ u = t)
  BY <1>1, <1>4 DEF WaitsFor, TypeOK
<1> HIDE DEF t
<1>7. TypeOK' /\ Once'
  BY <1>1, <1>2, <1>4 DEF TypeOK, Once
<1>8. TaskQueue' /\ CallerQueue' /\ Fresh' 
  BY <1>1, <1>5, <1>6 DEF TypeOK, TaskQueue, CallerQueue, Fresh, Cancelling
<1>9. Shielded' /\ ForgottenFirst'
  BY <1>1, <1>2, <1>3, <1>5, <1>6 DEF TypeOK, Shielded, ForgottenFirst, Fresh,
     Cancelling
<1>10. Registry' /\ Stages'
  BY <1>1, <1>2 DEF Registry, Stages, Known, Live, Cancelling, TypeOK
<1>11. Served'
  <2>1. Attended'
    BY <1>1, <1>5, <1>6 DEF Served, Attended, TypeOK
  <2>2. Unended'
    BY <1>1, <1>5, <1>6 DEF Served, Unended, TypeOK
  <2>3. SlotsHeld'
    BY <1>1, <1>5, <1>6 DEF Served, SlotsHeld, TypeOK, Cancelling
  <2> QED
    BY <2>1, <2>2, <2>3 DEF Served
<1> QED
  BY <1>7, <1>8, <1>9, <1>10, <1>11

\* A caller creates a task and enters it in the registry.
LEMMA CreateKeeps ==
    ASSUME TaskInv, NEW c \in Callers, CreateTask(c)
    PROVE  TaskInv'
<1> DEFINE w == WatchOf(c)
           t == inflight[w]
<1> USE DEF TaskInv
<1>1. /\ Runs(Handle("call", c), <<Handle("step", c)>>)
      /\ caller[c] = "called"
      /\ w \in Watches
      /\ t = NoTask \/ task[t] = "done"
      /\ task' = [task EXCEPT ![c] = "created"]
      /\ waiters' = [waiters EXCEPT ![c] = <<c>>]
      /\ inflight' = [inflight EXCEPT ![w] = c]
      /\ caller' = [caller EXCEPT ![c] = "waiting"]
      /\ raced' = IF t # NoTask /\ task[t] = "done" THEN raced \cup {w} ELSE raced
      /\ UNCHANGED <<workers, restore, loop, stop, stopping, lost>>
  BY DEF CreateTask, Reusable, WatchOf, Callers
<1>2. /\ task[c] = "none" /\ ~Queued("step", c) /\ ~Queued("unshield", c)
      /\ \A d \in Callers : ~WaitsFor(c, d)
  BY <1>1 DEF Fresh, TaskQueue
<1>3. Handle("step", c) \in Callbacks
  BY HandleIs DEF Whats
<1>4. /\ ready' \in Seq(Callbacks) /\ IsInjective(ready')
      /\ ToSet(ready') = (ToSet(ready) \ {Handle("call", c)}) \cup {Handle("step", c)}
      /\ \A a, b : Precedes(ready, a, b) /\ a # Handle("step", c) =>
             Precedes(ready', a, b)
  BY <1>1, <1>2, <1>3, RunsThen DEF Queued
<1>5. \A what, d : Queued(what, d)' <=>
          \/ Queued(what, d) /\ ~(what = "call" /\ d = c)
          \/ what = "step" /\ d = c
  BY <1>4, HandleIs DEF Queued
<1>6. /\ <<c>> \in Seq(Callers) /\ IsInjective(<<c>>) /\ ToSet(<<c>>) = {c}
  BY Single
<1>7. \A d, u \in Callers : WaitsFor(d, u)' <=>
          IF u = c THEN d = c ELSE WaitsFor(d, u)
  BY <1>1, <1>6 DEF WaitsFor, TypeOK
<1> HIDE DEF t, w
<1>8. TypeOK' /\ Once'
  BY <1>1, <1>4, <1>6 DEF TypeOK, Once
<1>9. TaskQueue' /\ CallerQueue' /\ Fresh'
  BY <1>1, <1>2, <1>5, <1>7 DEF TypeOK, TaskQueue, CallerQueue, Fresh, Cancelling
<1>10. Shielded'
  BY <1>1, <1>2, <1>5, <1>7 DEF TypeOK, Shielded
<1>11. ForgottenFirst'
  BY <1>1, <1>2, <1>4, <1>5, HandleIs DEF TypeOK, ForgottenFirst
<1>12. Registry'
  <2>1. \A d \in Callers : task'[d] # "none" <=> task[d] # "none" \/ d = c
    BY <1>1 DEF TypeOK
  <2>2. \A v \in Watches : Known(v)' = Known(v) \cup (IF v = w THEN {c} ELSE {})
    BY <2>1 DEF Known, w
  <2>3. stop \notin {"inflight", "done"}
    BY <1>1, <1>4 DEF Stages, Callers
  <2>4. t # NoTask => w \in raced'
    BY <1>1
  <2>5. t = NoTask /\ w \notin raced => Known(w) = {}
    BY <1>1, <2>3 DEF Registry, Known, t
  <2>6. /\ raced \subseteq raced' /\ stop' = stop
        /\ \A v \in Watches : /\ inflight'[v] = IF v = w THEN c ELSE inflight[v]
                              /\ v # w => (v \in raced' <=> v \in raced)
    BY <1>1 DEF TypeOK
  <2> SUFFICES ASSUME NEW v \in Watches
               PROVE  /\ inflight'[v] # NoTask => inflight'[v] \in Known(v)'
                      /\ v \notin raced' =>
                             /\ \A d, e \in Known(v)' : d = e
                             /\ Known(v)' \subseteq {inflight'[v]}
    BY <2>3, <2>6 DEF Registry
  <2>7. CASE v = w
    BY <2>2, <2>4, <2>5, <2>6, <2>7
  <2>8. CASE v # w
    <3>1. /\ Known(v)' = Known(v) /\ inflight'[v] = inflight[v]
          /\ v \in raced' <=> v \in raced
      BY <2>2, <2>6, <2>8
    <3> QED
      BY <2>3, <3>1 DEF Registry
  <2> QED
    BY <2>7, <2>8
<1>13. Stages'
  BY <1>1, <1>4, HandleIs DEF Stages, Cancelling, TypeOK, Callers
<1>14. Served'
  <2>1. Attended'
    BY <1>1, <1>2, <1>5, <1>7 DEF Served, Attended, Unended, TypeOK
  <2>2. Unended'
    BY <1>1, <1>2, <1>5, <1>7 DEF Served, Unended, TypeOK
  <2>3. SlotsHeld'
    BY <1>1, <1>2, <1>5, <1>7 DEF Served, SlotsHeld, TypeOK, Cancelling
  <2> QED
    BY <2>1, <2>2, <2>3 DEF Served
<1> QED
  BY <1>8, <1>9, <1>10, <1>11, <1>12, <1>13, <1>14

\* An assignment that stop() cancelled before its first step.
LEMMA CancelledCallKeeps ==
    ASSUME TaskInv, NEW w \in Watches, CancelledCall(w)
    PROVE  TaskInv'
<1> USE DEF TaskInv
<1>1. /\ Runs(Handle("call", w), <<>>)
      /\ w \in Callers
      /\ caller[w] = "woken"
      /\ caller' = [caller EXCEPT ![w] = "idle"]
      /\ lost' = lost \cup {w}
      /\ UNCHANGED <<task, waiters, inflight, workers, restore, loop, stop,
                     stopping, raced>>
  BY DEF CancelledCall, Callers
<1>2. /\ ready' \in Seq(Callbacks) /\ IsInjective(ready')
      /\ ToSet(ready') = ToSet(ready) \ {Handle("call", w)}
      /\ Handle("call", w) \in ToSet(ready)
      /\ \A a, b : Precedes(ready, a, b) => Precedes(ready', a, b)
  BY <1>1, RunsOnly
<1>3. /\ Queued("call", w) /\ Cancelling /\ ~Queued("wake", w)
      /\ \A what, d : Queued(what, d)' <=>
             Queued(what, d) /\ ~(what = "call" /\ d = w)
  BY <1>1, <1>2, HandleIs DEF Queued, CallerQueue
<1>4. TypeOK' /\ Once'
  BY <1>1, <1>2 DEF TypeOK, Once
<1>5. TaskQueue' /\ CallerQueue' /\ Fresh'
  BY <1>1, <1>3 DEF TypeOK, TaskQueue, CallerQueue, Fresh, Cancelling, WaitsFor
<1>6. Shielded' /\ ForgottenFirst'
  BY <1>1, <1>2, <1>3 DEF TypeOK, Shielded, ForgottenFirst, WaitsFor
<1>7. Registry' /\ Stages'
  BY <1>1, <1>2 DEF Registry, Stages, Known, Live, Cancelling, TypeOK
<1>8. Served'
  <2>1. Attended'
    BY <1>1, <1>3 DEF Served, Attended, TypeOK, WaitsFor
  <2>2. Unended'
    BY <1>1, <1>3 DEF Served, Unended, TypeOK, WaitsFor
  <2>3. SlotsHeld'
    BY <1>1, <1>3 DEF Served, SlotsHeld, TypeOK, Cancelling
  <2> QED
    BY <2>1, <2>2, <2>3 DEF Served
<1> QED
  BY <1>4, <1>5, <1>6, <1>7, <1>8

\* A waiter hears that its task has ended.
LEMMA UnshieldKeeps ==
    ASSUME TaskInv, NEW c \in Callers, Unshield(c)
    PROVE  TaskInv'
<1> USE DEF TaskInv
<1>1. /\ Runs(Handle("unshield", c), <<Handle("wake", c)>>)
      /\ caller[c] = "waiting"
      /\ caller' = [caller EXCEPT ![c] = "woken"]
      /\ UNCHANGED <<task, waiters, inflight, workers, restore, loop, stop,
                     stopping, raced, lost>>
  BY DEF Unshield
<1>2. Handle("wake", c) \in Callbacks
      /\ Handle("wake", c) \notin ToSet(ready) \ {Handle("unshield", c)}
  BY <1>1, HandleIs DEF Whats, CallerQueue, Queued
<1>3. /\ ready' \in Seq(Callbacks) /\ IsInjective(ready')
      /\ ToSet(ready') = (ToSet(ready) \ {Handle("unshield", c)}) \cup {Handle("wake", c)}
      /\ Handle("unshield", c) \in ToSet(ready)
      /\ \A a, b : Precedes(ready, a, b) /\ a # Handle("wake", c) =>
             Precedes(ready', a, b)
      /\ \A a : Precedes(ready, a, Handle("unshield", c)) => a \notin ToSet(ready)
  BY <1>1, <1>2, RunsThen
<1>4. /\ Queued("unshield", c) /\ ~Queued("call", c)
      /\ \A what, d : Queued(what, d)' <=>
             \/ Queued(what, d) /\ ~(what = "unshield" /\ d = c)
             \/ what = "wake" /\ d = c
  BY <1>1, <1>3, HandleIs DEF Queued, CallerQueue
<1>5. /\ task[c] = "none"
      /\ \A t \in Callers : ~WaitsFor(c, t)
  BY <1>3, <1>4 DEF ForgottenFirst, TaskQueue, Queued, Shielded
<1>6. TypeOK' /\ Once'
  BY <1>1, <1>3 DEF TypeOK, Once
<1>7. TaskQueue' /\ CallerQueue' /\ Fresh'
  BY <1>1, <1>4, <1>5 DEF TypeOK, TaskQueue, CallerQueue, Fresh, Cancelling, WaitsFor
<1>8. Shielded' /\ ForgottenFirst'
  BY <1>1, <1>3, <1>4, HandleIs DEF TypeOK, Shielded, ForgottenFirst, WaitsFor
<1>9. Registry'
  BY <1>1 DEF Registry, Known, Live
<1>10. Stages'
  BY <1>1, <1>3, HandleIs DEF Stages, Cancelling, TypeOK, Callers
<1>11. Served'
  <2>1. Attended'
    BY <1>1, <1>4 DEF Served, Attended, TypeOK, WaitsFor
  <2>2. Unended'
    BY <1>1, <1>4 DEF Served, Unended, TypeOK, WaitsFor
  <2>3. SlotsHeld'
    BY <1>1, <1>4 DEF Served, SlotsHeld, TypeOK, Cancelling
  <2> QED
    BY <2>1, <2>2, <2>3 DEF Served
<1> QED
  BY <1>6, <1>7, <1>8, <1>9, <1>10, <1>11

\* A callback for a waiter that has left.
LEMMA UnneededKeeps ==
    ASSUME TaskInv, NEW c \in Callers, Unneeded(c)
    PROVE  TaskInv'
<1> USE DEF TaskInv
<1>1. /\ Runs(Handle("unshield", c), <<>>)
      /\ caller[c] # "waiting"
      /\ UNCHANGED <<task, waiters, inflight, caller, workers, restore, loop,
                     stop, stopping, raced, lost>>
  BY DEF Unneeded
<1>2. /\ ready' \in Seq(Callbacks) /\ IsInjective(ready')
      /\ ToSet(ready') = ToSet(ready) \ {Handle("unshield", c)}
      /\ \A a, b : Precedes(ready, a, b) => Precedes(ready', a, b)
  BY <1>1, RunsOnly
<1>3. \A what, d : Queued(what, d)' <=>
          Queued(what, d) /\ ~(what = "unshield" /\ d = c)
  BY <1>2, HandleIs DEF Queued
<1>4. TypeOK' /\ Once'
  BY <1>1, <1>2 DEF TypeOK, Once
<1>5. TaskQueue' /\ CallerQueue' /\ Fresh' /\ Shielded' /\ ForgottenFirst'
  BY <1>1, <1>2, <1>3 DEF TypeOK, TaskQueue, CallerQueue, Fresh, Cancelling,
     WaitsFor, Shielded, ForgottenFirst
<1>6. Registry' /\ Stages'
  BY <1>1, <1>2 DEF Registry, Stages, Known, Live, Cancelling, TypeOK
<1>7. Served'
  <2>1. Attended'
    BY <1>1, <1>3 DEF Served, Attended, TypeOK, WaitsFor
  <2>2. Unended'
    BY <1>1, <1>3 DEF Served, Unended, TypeOK, WaitsFor
  <2>3. SlotsHeld'
    BY <1>1, <1>3 DEF Served, SlotsHeld, TypeOK, Cancelling
  <2> QED
    BY <2>1, <2>2, <2>3 DEF Served
<1> QED
  BY <1>4, <1>5, <1>6, <1>7

\* A waiter goes on: its request is answered, or its assignment ends and gives
\* its slot back or is lost.
LEMMA WakeKeeps ==
    ASSUME TaskInv, NEW c \in Callers,
           Runs(Handle("wake", c), <<>>),
           caller' = [caller EXCEPT ![c] = "idle"],
           workers' \subseteq workers,
           \A w \in workers' : w # c \/ w \in lost',
           c \in Requests => UNCHANGED workers,
           \A w \in workers : w # c => w \in workers',
           lost \subseteq lost',
           stop' = stop \/ (AssignmentsCancelled /\ stop' = "raised"),
           UNCHANGED <<task, waiters, inflight, restore, loop, stopping, raced>>
    PROVE  TaskInv'
<1> USE DEF TaskInv
<1>1. /\ ready' \in Seq(Callbacks) /\ IsInjective(ready')
      /\ ToSet(ready') = ToSet(ready) \ {Handle("wake", c)}
      /\ Handle("wake", c) \in ToSet(ready)
      /\ \A a, b : Precedes(ready, a, b) => Precedes(ready', a, b)
  BY RunsOnly
<1>2. /\ Queued("wake", c) /\ caller[c] = "woken" /\ ~Queued("call", c)
      /\ \A what, d : Queued(what, d)' <=>
             Queued(what, d) /\ ~(what = "wake" /\ d = c)
  BY <1>1, HandleIs DEF Queued, CallerQueue
<1>3. /\ Cancelling' <=> Cancelling
      /\ stop' # stop => stop \in {"awaiting", "raised"} /\ stop' = "raised"
  <2>1. c \in Watches => stop \notin {"inflight", "done"}
    BY <1>2 DEF Stages
  <2>2. c \in Requests => stop = "no"
    BY <1>2 DEF Stages
  <2>3. stop' # stop => stop \in {"awaiting", "raised"} /\ stop' = "raised"
    BY <2>1, <2>2 DEF AssignmentsCancelled, Callers
  <2>4. stop = "awaiting" => loop = "stopped"
    BY DEF Stages, Cancelling
  <2> QED
    BY <2>3, <2>4 DEF Cancelling
<1>4. TypeOK' /\ Once'
  BY <1>1 DEF TypeOK, Once
<1>5. TaskQueue' /\ CallerQueue' /\ Fresh'
  <2> HIDE DEF Cancelling
  <2>1. TaskQueue' /\ CallerQueue'
    BY <1>2, <1>3 DEF TypeOK, TaskQueue, CallerQueue
  <2>2. Fresh'
    BY <1>2, <1>3 DEF TypeOK, Fresh, WaitsFor, Shielded
  <2> QED
    BY <2>1, <2>2
<1>6. Shielded' /\ ForgottenFirst'
  BY <1>1, <1>2 DEF TypeOK, Shielded, ForgottenFirst, WaitsFor
<1>7. Registry'
  <2>1. \A w \in Watches : Known(w)' = Known(w) /\ Live(w)' = Live(w)
    BY DEF Known, Live
  <2> QED
    BY <1>3, <2>1 DEF Registry
<1>8. Stages'
  <2>1. \A w \in Watches : caller'[w] # "idle" => w \in workers'
    BY <1>2 DEF Stages, TypeOK
  <2>2. \A d \in Callers : caller[d] = "idle" => caller'[d] = "idle"
    BY DEF TypeOK
  <2> QED
    BY <1>1, <1>2, <1>3, <2>1, <2>2 DEF Stages, Callers
<1>9. Served'
  <2>1. Attended'
    BY <1>1, <1>2 DEF Served, Attended, TypeOK, WaitsFor
  <2>2. Unended'
    BY <1>1, <1>2 DEF Served, Unended, TypeOK, WaitsFor
  <2>3. SlotsHeld'
    BY <1>2, <1>3 DEF Served, SlotsHeld, TypeOK
  <2> QED
    BY <2>1, <2>2, <2>3 DEF Served
<1> QED
  BY <1>4, <1>5, <1>6, <1>7, <1>8, <1>9

LEMMA WokenKeeps ==
    ASSUME TaskInv,
           \/ \E r \in Requests : Answer(r)
           \/ \E w \in Watches : FinishAssignment(w) \/ FinalReadRaises(w)
    PROVE  TaskInv'
<1>1. ASSUME NEW r \in Requests, Answer(r) PROVE TaskInv'
  <2>1. r \in Callers /\ r \notin workers
    BY DEF Callers, TaskInv, TypeOK
  <2> QED
    BY <1>1, <2>1, WakeKeeps DEF Answer
<1>2. ASSUME NEW w \in Watches, FinishAssignment(w) PROVE TaskInv'
  <2>1. w \in Callers /\ w \notin Requests
    BY DEF Callers
  <2> QED
    BY <1>2, <2>1, WakeKeeps DEF FinishAssignment, WorkersLeft
<1>3. ASSUME NEW w \in Watches, FinalReadRaises(w) PROVE TaskInv'
  <2>1. w \in Callers /\ w \notin Requests
    BY DEF Callers
  <2>2. /\ lost \subseteq lost' /\ w \in lost'
        /\ stop' = stop \/ (AssignmentsCancelled /\ stop' = "raised")
    BY <1>3 DEF FinalReadRaises
  <2> QED
    BY <1>3, <2>1, <2>2, WakeKeeps DEF FinalReadRaises
<1> QED
  BY <1>1, <1>2, <1>3

\* A check takes its first step.
LEMMA BeginKeeps ==
    ASSUME TaskInv, NEW c \in Callers, BeginCheck(c)
    PROVE  TaskInv'
<1> USE DEF TaskInv
<1>1. /\ Runs(Handle("step", c), <<>>)
      /\ task[c] = "created"
      /\ task' = [task EXCEPT ![c] = "running"]
      /\ UNCHANGED <<waiters, inflight, caller, workers, restore, loop, stop,
                     stopping, raced, lost>>
  BY DEF BeginCheck
<1>2. /\ ready' \in Seq(Callbacks) /\ IsInjective(ready')
      /\ ToSet(ready') = ToSet(ready) \ {Handle("step", c)}
      /\ \A a, b : Precedes(ready, a, b) => Precedes(ready', a, b)
  BY <1>1, RunsOnly
<1>3. \A what, d : Queued(what, d)' <=>
          Queued(what, d) /\ ~(what = "step" /\ d = c)
  BY <1>2, HandleIs DEF Queued
<1>4. TypeOK' /\ Once'
  BY <1>1, <1>2 DEF TypeOK, Once
<1>5. TaskQueue' /\ CallerQueue' /\ Fresh'
  BY <1>1, <1>3 DEF TypeOK, TaskQueue, CallerQueue, Fresh, Cancelling, WaitsFor
<1>6. Shielded' /\ ForgottenFirst'
  BY ZenonT(40), <1>1, <1>2, <1>3 DEF TypeOK, Shielded, ForgottenFirst, WaitsFor
<1>7. Registry' /\ Stages'
  <2>1. \A w \in Watches : Known(w)' = Known(w) /\ Live(w)' = Live(w)
    BY <1>1 DEF Known, Live, TypeOK
  <2> QED
    BY <1>1, <1>2, <2>1 DEF Registry, Stages, Cancelling
<1>8. Served'
  <2>1. Attended'
    BY <1>1, <1>3 DEF Served, Attended, TypeOK, WaitsFor
  <2>2. Unended'
    BY <1>1, <1>3 DEF Served, Unended, TypeOK, WaitsFor
  <2>3. SlotsHeld'
    BY <1>1, <1>3 DEF Served, SlotsHeld, TypeOK, Cancelling
  <2> QED
    BY <2>1, <2>2, <2>3 DEF Served
<1> QED
  BY <1>4, <1>5, <1>6, <1>7, <1>8

\* The last thing a check awaits is done.
LEMMA LastAwaitKeeps ==
    ASSUME TaskInv, NEW c \in Callers, LastAwait(c)
    PROVE  TaskInv'
<1> USE DEF TaskInv
<1>1. /\ ready' = Append(ready, Handle("step", c))
      /\ task[c] = "running"
      /\ task' = [task EXCEPT ![c] = "ending"]
      /\ UNCHANGED <<waiters, inflight, caller, workers, restore, loop, stop,
                     stopping, raced, lost>>
  BY DEF LastAwait
<1>2. /\ Handle("step", c) \in Callbacks /\ Handle("step", c) \notin ToSet(ready)
  BY <1>1, HandleIs DEF Whats, TaskQueue, Queued
<1>3. /\ ready' \in Seq(Callbacks) /\ IsInjective(ready')
      /\ ToSet(ready') = ToSet(ready) \cup {Handle("step", c)}
      /\ \A a, b : Precedes(ready, a, b) /\ a # Handle("step", c) =>
             Precedes(ready', a, b)
  BY <1>1, <1>2, QueuesOne
<1>4. \A what, d : Queued(what, d)' <=> Queued(what, d) \/ (what = "step" /\ d = c)
  BY <1>3, HandleIs DEF Queued
<1>5. TypeOK' /\ Once'
  BY <1>1, <1>3 DEF TypeOK, Once
<1>6. TaskQueue' /\ CallerQueue' /\ Fresh'
  BY <1>1, <1>4 DEF TypeOK, TaskQueue, CallerQueue, Fresh, Cancelling, WaitsFor
<1>7. Shielded' /\ ForgottenFirst'
  <2>1. \A d \in Callers : task'[d] = IF d = c THEN "ending" ELSE task[d]
    BY <1>1 DEF TypeOK
  <2>2. ~Queued("unshield", c)
    BY <1>1 DEF ForgottenFirst
  <2>3. \A d \in Callers : Queued("unshield", d)' <=> Queued("unshield", d)
    BY <1>4
  <2>4. \A d, a : Precedes(ready, Handle("forget", d), a) =>
            Precedes(ready', Handle("forget", d), a)
    BY <1>3, HandleIs
  <2>5. ForgottenFirst'
    BY <2>1, <2>2, <2>3, <2>4 DEF ForgottenFirst
  <2>6. Shielded'
    BY <1>1, <2>1, <2>3 DEF Shielded, WaitsFor
  <2> QED
    BY <2>5, <2>6
<1>8. Registry' /\ Stages'
  <2>1. \A w \in Watches : Known(w)' = Known(w) /\ Live(w)' = Live(w)
    BY <1>1 DEF Known, Live, TypeOK
  <2> QED
    BY <1>1, <1>3, <2>1, HandleIs DEF Registry, Stages, Cancelling
<1>9. Served'
  <2>1. Attended'
    BY <1>1, <1>4 DEF Served, Attended, TypeOK, WaitsFor
  <2>2. Unended'
    BY <1>1, <1>4 DEF Served, Unended, TypeOK, WaitsFor
  <2>3. SlotsHeld'
    BY <1>1, <1>4 DEF Served, SlotsHeld, TypeOK, Cancelling
  <2> QED
    BY <2>1, <2>2, <2>3 DEF Served
<1> QED
  BY <1>5, <1>6, <1>7, <1>8, <1>9

\* The done-callbacks of a task: the registry's first, then one per waiter.
LEMMA DoneCallbacksHold ==
    ASSUME TaskInv, NEW c \in Callers
    PROVE  /\ DoneCallbacks(c) \in Seq(Callbacks)
           /\ IsInjective(DoneCallbacks(c))
           /\ \A x : x \in ToSet(DoneCallbacks(c)) <=>
                  \/ x = Handle("forget", c)
                  \/ \E d \in Callers : WaitsFor(d, c) /\ x = Handle("unshield", d)
           /\ \A b : Precedes(DoneCallbacks(c), Handle("forget", c), b)
                     \/ b = Handle("forget", c)
<1> DEFINE h == <<Handle("forget", c)>>
           s == waiters[c]
           u == [i \in DOMAIN s |-> Handle("unshield", s[i])]
<1>1. s \in Seq(Callers) /\ IsInjective(s)
  BY DEF TaskInv, TypeOK, Once
<1>2. /\ Len(s) \in Nat /\ DOMAIN s = 1..Len(s)
      /\ \A i \in 1..Len(s) : s[i] \in Callers
  BY <1>1, LenProperties
<1>3. \A d : d \in ToSet(s) <=> \E i \in 1..Len(s) : d = s[i]
  BY <1>2 DEF ToSet
<1> HIDE DEF s
<1>4. u = [i \in 1..Len(s) |-> Handle("unshield", s[i])]
  BY <1>2
<1>5. \A i \in 1..Len(s) : Handle("unshield", s[i]) \in Callbacks
  BY <1>2, HandleIs DEF Whats
<1>6. u \in Seq(Callbacks) /\ DOMAIN u = 1..Len(s)
      /\ \A i \in 1..Len(s) : u[i] = Handle("unshield", s[i])
  BY <1>2, <1>4, <1>5, IsASeq
<1> HIDE DEF u
<1>7. IsInjective(u)
  BY <1>1, <1>2, <1>6, HandleIs DEF IsInjective
<1>8. \A x : x \in ToSet(u) <=> \E d \in ToSet(s) : x = Handle("unshield", d)
  BY <1>3, <1>6 DEF ToSet
<1>9. /\ h \in Seq(Callbacks) /\ IsInjective(h)
      /\ ToSet(h) = {Handle("forget", c)} /\ h = <<Handle("forget", c)>>
  BY HandleIs, Single DEF Whats
<1>10. DoneCallbacks(c) = h \o u
  BY DEF DoneCallbacks, u, s
<1>11. Len(h) = 1 /\ h[1] = Handle("forget", c)
  BY <1>9
<1> HIDE DEF h
<1>12. \A x \in ToSet(u) : x \notin ToSet(h)
  BY <1>8, <1>9, HandleIs
<1>13. /\ h \o u \in Seq(Callbacks) /\ IsInjective(h \o u)
       /\ ToSet(h \o u) = ToSet(h) \cup ToSet(u)
  <2>1. /\ h \in Seq(Callbacks) /\ u \in Seq(Callbacks)
        /\ IsInjective(h) /\ IsInjective(u)
    BY <1>6, <1>7, <1>9
  <2> QED
    BY <2>1, <1>12, Joined
<1>14. \A x : x \in ToSet(h \o u) <=>
           \/ x = Handle("forget", c)
           \/ \E d \in Callers : WaitsFor(d, c) /\ x = Handle("unshield", d)
  BY <1>2, <1>3, <1>8, <1>9, <1>13 DEF WaitsFor, s
<1>15. ASSUME NEW b, b # Handle("forget", c)
       PROVE  Precedes(h \o u, Handle("forget", c), b)
  <2>1. /\ Len(h \o u) \in Nat /\ DOMAIN (h \o u) = 1..Len(h \o u)
        /\ (h \o u)[1] = Handle("forget", c) /\ 1 \in 1..Len(h \o u)
    BY <1>6, <1>9, <1>11, <1>13, ConcatProperties, LenProperties
  <2> SUFFICES ASSUME NEW i \in 1..Len(h \o u), NEW j \in 1..Len(h \o u),
                      (h \o u)[i] = Handle("forget", c), (h \o u)[j] = b
               PROVE  i < j
    BY DEF Precedes
  <2>2. i = 1
    BY <1>13, <2>1 DEF IsInjective
  <2> QED
    BY <1>15, <2>1, <2>2
<1> QED
  BY <1>10, <1>13, <1>14, <1>15

\* A check ends; its done-callbacks are queued.
LEMMA EndKeeps ==
    ASSUME TaskInv, NEW c \in Callers, EndCheck(c)
    PROVE  TaskInv'
<1> DEFINE q == DoneCallbacks(c)
<1> USE DEF TaskInv
<1>1. /\ Runs(Handle("step", c), q)
      /\ task[c] \in {"created", "ending"}
      /\ task' = [task EXCEPT ![c] = "done"]
      /\ waiters' = [waiters EXCEPT ![c] = <<>>]
      /\ UNCHANGED <<inflight, caller, workers, restore, loop, stop, stopping,
                     raced, lost>>
  BY DEF EndCheck
<1>2. /\ q \in Seq(Callbacks) /\ IsInjective(q)
      /\ \A x : x \in ToSet(q) <=>
             \/ x = Handle("forget", c)
             \/ \E d \in Callers : WaitsFor(d, c) /\ x = Handle("unshield", d)
      /\ \A b : Precedes(q, Handle("forget", c), b) \/ b = Handle("forget", c)
  BY DoneCallbacksHold
<1> HIDE DEF q
<1>3. \A x \in ToSet(q) : x \notin ToSet(ready)
  BY <1>1, <1>2 DEF TaskQueue, Shielded, Queued
<1>4. /\ ready' \in Seq(Callbacks) /\ IsInjective(ready')
      /\ ToSet(ready') = (ToSet(ready) \ {Handle("step", c)}) \cup ToSet(q)
      /\ \A a, b : Precedes(ready, a, b) /\ a \notin ToSet(q) =>
             Precedes(ready', a, b)
      /\ \A a, b : b \notin ToSet(ready) /\ Precedes(q, a, b) =>
             Precedes(ready', a, b)
  BY <1>1, <1>2, <1>3, RunsStep
<1>5. \A what, d : Queued(what, d)' <=>
          \/ Queued(what, d) /\ ~(what = "step" /\ d = c)
          \/ what = "forget" /\ d = c
          \/ what = "unshield" /\ d \in Callers /\ WaitsFor(d, c)
  BY <1>2, <1>4, HandleIs DEF Queued
<1>6. \A d, t \in Callers : WaitsFor(d, t)' <=> WaitsFor(d, t) /\ t # c
  BY <1>1, Nothing DEF WaitsFor, TypeOK
<1>7. TypeOK' /\ Once'
  BY <1>1, <1>4, Nothing DEF TypeOK, Once
<1>8. TaskQueue' /\ CallerQueue' /\ Fresh'
  BY <1>1, <1>5, <1>6 DEF TypeOK, TaskQueue, CallerQueue, Fresh, Cancelling
<1>9. Shielded'
  BY <1>1, <1>5, <1>6 DEF TypeOK, Shielded
<1>10. ForgottenFirst'
  <2>1. ~Queued("unshield", c)
    BY <1>1 DEF ForgottenFirst
  <2>2. Precedes(ready', Handle("forget", c), Handle("unshield", c))
    BY <1>2, <1>4, <2>1, HandleIs DEF Queued
  <2>3. ASSUME NEW d \in Callers, d # c, task[d] = "done"
        PROVE  Precedes(ready', Handle("forget", d), Handle("unshield", d))
    BY <1>2, <1>4, <2>3, HandleIs DEF ForgottenFirst
  <2>4. \A d \in Callers : task'[d] = IF d = c THEN "done" ELSE task[d]
    BY <1>1 DEF TypeOK
  <2>5. \A d \in Callers : Queued("unshield", d)' => task'[d] \in {"none", "done"}
    BY <1>5, <2>4 DEF ForgottenFirst, Shielded
  <2> QED
    BY <2>2, <2>3, <2>4, <2>5 DEF ForgottenFirst
<1>11. Registry' /\ Stages'
  <2>1. \A w \in Watches : Known(w)' = Known(w) /\ Live(w)' \subseteq Live(w)
    BY <1>1 DEF Known, Live, TypeOK
  <2>2. LoopStep \in ToSet(ready') => LoopStep \in ToSet(ready)
    BY <1>2, <1>4, HandleIs
  <2> QED
    BY <1>1, <2>1, <2>2 DEF Registry, Stages, Cancelling
<1>12. Served'
  <2>1. Attended'
    BY <1>1, <1>5, <1>6 DEF Served, Attended, TypeOK
  <2>2. Unended'
    BY <1>1, <1>5, <1>6 DEF Served, Unended, TypeOK
  <2>3. SlotsHeld'
    BY <1>1, <1>5, <1>6 DEF Served, SlotsHeld, TypeOK, Cancelling
  <2> QED
    BY <2>1, <2>2, <2>3 DEF Served
<1> QED
  BY <1>7, <1>8, <1>9, <1>10, <1>11, <1>12

\* The registry forgets a task.
LEMMA ForgetKeeps ==
    ASSUME TaskInv, NEW c \in Callers, ForgetTask(c)
    PROVE  TaskInv'
<1> DEFINE w == WatchOf(c)
<1> USE DEF TaskInv
<1>1. /\ Runs(Handle("forget", c), <<>>)
      /\ w \in Watches
      /\ inflight' = [inflight EXCEPT ![w] = NoTask]
      /\ task' = [task EXCEPT ![c] = "none"]
      /\ raced' = IF Known(w) = {c} THEN raced \ {w} ELSE raced
      /\ UNCHANGED <<waiters, caller, workers, restore, loop, stop, stopping,
                     lost>>
  BY DEF ForgetTask, WatchOf, Callers
<1>2. /\ ready' \in Seq(Callbacks) /\ IsInjective(ready')
      /\ ToSet(ready') = ToSet(ready) \ {Handle("forget", c)}
      /\ Handle("forget", c) \in ToSet(ready)
      /\ \A a, b : Precedes(ready, a, b) => Precedes(ready', a, b)
  BY <1>1, RunsOnly
<1>3. /\ task[c] = "done"
      /\ \A what, d : Queued(what, d)' <=>
             Queued(what, d) /\ ~(what = "forget" /\ d = c)
  BY <1>2, HandleIs DEF Queued, TaskQueue
<1>4. TypeOK' /\ Once'
  BY <1>1, <1>2 DEF TypeOK, Once
<1>5. TaskQueue' /\ CallerQueue' /\ Fresh'
  BY <1>1, <1>3 DEF TypeOK, TaskQueue, CallerQueue, Fresh, Cancelling, WaitsFor
<1>6. Shielded' /\ ForgottenFirst'
  BY <1>1, <1>2, <1>3 DEF TypeOK, Shielded, ForgottenFirst, WaitsFor
<1>7. Registry'
  <2>1. c \in Known(w)
    BY <1>3 DEF Known
  <2>2. \A v \in Watches : /\ Known(v)' = Known(v) \ {c}
                           /\ Live(v)' = Live(v)
    BY <1>1, <1>3 DEF Known, Live, TypeOK
  <2>3. \A v \in Watches : c \in Known(v) <=> v = w
    BY <2>1 DEF Known
  <2>4. \A v \in Watches : inflight'[v] = IF v = w THEN NoTask ELSE inflight[v]
    BY <1>1 DEF TypeOK
  <2>5. w \notin raced => Known(w) = {c}
    BY <1>1, <2>1 DEF Registry
  <2> SUFFICES ASSUME NEW v \in Watches
               PROVE  /\ inflight'[v] # NoTask => inflight'[v] \in Known(v)'
                      /\ v \notin raced' =>
                             /\ \A d, e \in Known(v)' : d = e
                             /\ stop # "done" => Known(v)' \subseteq {inflight'[v]}
                             /\ stop = "inflight" => Known(v)' \subseteq stopping
                             /\ stop = "done" => Live(v)' = {}
    BY <1>1 DEF Registry
  <2>6. CASE v = w
    <3>1. v \notin raced' => Known(v)' = {} /\ Live(v)' = {}
      <4>1. v \notin raced' => Known(w) = {c}
        BY <1>1, <2>5, <2>6
      <4>2. Live(v)' \subseteq Known(v)'
        BY DEF Live
      <4> QED
        BY <2>2, <2>6, <4>1, <4>2
    <3> QED
      BY <2>4, <2>6, <3>1
  <2>7. CASE v # w
    <3>1. /\ Known(v)' = Known(v) /\ Live(v)' = Live(v)
          /\ inflight'[v] = inflight[v] /\ (v \in raced' <=> v \in raced)
      BY <1>1, <2>2, <2>3, <2>4, <2>7
    <3> QED
      BY <3>1 DEF Registry
  <2> QED
    BY <2>6, <2>7
<1>8. Stages'
  BY <1>1, <1>2 DEF Stages, Cancelling
<1>9. Served'
  <2>1. Attended'
    BY <1>1, <1>3 DEF Served, Attended, TypeOK, WaitsFor
  <2>2. Unended'
    BY <1>1, <1>3 DEF Served, Unended, TypeOK, WaitsFor
  <2>3. SlotsHeld'
    BY <1>1, <1>3 DEF Served, SlotsHeld, TypeOK, Cancelling
  <2> QED
    BY <2>1, <2>2, <2>3 DEF Served
<1> QED
  BY <1>4, <1>5, <1>6, <1>7, <1>8, <1>9

\* A "check now" reaches the server.
LEMMA RequestKeeps ==
    ASSUME TaskInv, NEW r \in Requests, RequestCheckNow(r)
    PROVE  TaskInv'
<1> USE DEF TaskInv
<1>1. /\ r \in Callers
      /\ stop = "no" /\ caller[r] = "idle"
      /\ caller' = [caller EXCEPT ![r] = "called"]
      /\ ready' = Append(ready, Handle("call", r))
      /\ UNCHANGED <<task, waiters, inflight, workers, restore, loop, stop,
                     stopping, raced, lost>>
  BY DEF RequestCheckNow, Callers
<1>2. /\ Handle("call", r) \in Callbacks /\ Handle("call", r) \notin ToSet(ready)
      /\ ~Queued("wake", r)
  BY <1>1, HandleIs DEF Whats, CallerQueue, Queued
<1>3. /\ ready' \in Seq(Callbacks) /\ IsInjective(ready')
      /\ ToSet(ready') = ToSet(ready) \cup {Handle("call", r)}
      /\ \A a, b : Precedes(ready, a, b) /\ a # Handle("call", r) =>
             Precedes(ready', a, b)
  BY <1>1, <1>2, QueuesOne
<1>4. \A what, d : Queued(what, d)' <=> Queued(what, d) \/ (what = "call" /\ d = r)
  BY <1>3, HandleIs DEF Queued
<1>5. TypeOK' /\ Once'
  BY <1>1, <1>3 DEF TypeOK, Once
<1>6. TaskQueue' /\ CallerQueue' /\ Fresh'
  BY <1>1, <1>2, <1>4 DEF TypeOK, TaskQueue, CallerQueue, Fresh, Cancelling, WaitsFor
<1>7. Shielded' /\ ForgottenFirst'
  BY <1>1, <1>3, <1>4, HandleIs DEF TypeOK, Shielded, ForgottenFirst, WaitsFor
<1>8. Registry'
  BY <1>1 DEF Registry, Known, Live
<1>9. Stages'
  BY <1>1, <1>3, HandleIs DEF Stages, Cancelling, TypeOK
<1>10. Served'
  <2>1. Attended'
    BY <1>1, <1>4 DEF Served, Attended, TypeOK, WaitsFor
  <2>2. Unended'
    BY <1>1, <1>4 DEF Served, Unended, TypeOK, WaitsFor
  <2>3. SlotsHeld'
    BY <1>1, <1>4 DEF Served, SlotsHeld, TypeOK, Cancelling
  <2> QED
    BY <2>1, <2>2, <2>3 DEF Served
<1> QED
  BY <1>5, <1>6, <1>7, <1>8, <1>9, <1>10

\* A pass of the loop is queued, runs or ends: no check is touched.
LEMMA LoopKeeps ==
    ASSUME TaskInv, LoopTick \/ LoopStarts \/ LoopDies \/ LoopCancelled
    PROVE  TaskInv'
<1> USE DEF TaskInv
<1>1. UNCHANGED <<task, waiters, inflight, caller, workers, restore, stop,
                  stopping, raced, lost>>
  BY DEF LoopTick, LoopStarts, LoopDies, LoopCancelled
<1>2. /\ ready' \in Seq(Callbacks) /\ IsInjective(ready')
      /\ \A x : x # LoopStep => (x \in ToSet(ready') <=> x \in ToSet(ready))
      /\ \A a, b : Precedes(ready, a, b) /\ a # LoopStep => Precedes(ready', a, b)
      /\ LoopStep \in ToSet(ready') => loop' \in {"queued", "stopped"}
      /\ Cancelling => loop' = "stopped"
      /\ loop' = "stopped" <=> loop = "stopped"
  <2>1. CASE LoopTick \/ LoopStarts
    <3>1. /\ ready' = Append(ready, LoopStep)
          /\ loop \in {"asleep", "queued"} /\ loop' = "queued"
          /\ LoopStep \notin ToSet(ready)
      BY <2>1 DEF LoopTick, LoopStarts, LoopStep, Stages
    <3>2. ~Cancelling
      BY <3>1 DEF Stages
    <3> QED
      BY <3>1, <3>2, HandleIs, QueuesOne
  <2>2. CASE LoopDies \/ LoopCancelled
    <3>1. Runs(LoopStep, <<>>)
      BY <2>2 DEF LoopDies, LoopCancelled, LoopStep
    <3>2. /\ ready' \in Seq(Callbacks) /\ IsInjective(ready')
          /\ ToSet(ready') = ToSet(ready) \ {LoopStep}
          /\ \A a, b : Precedes(ready, a, b) => Precedes(ready', a, b)
      BY <3>1, RunsOnly
    <3>3. /\ Cancelling => loop' = "stopped"
          /\ loop' = "stopped" <=> loop = "stopped"
      BY <2>2 DEF LoopDies, LoopCancelled, Stages
    <3> QED
      BY <3>2, <3>3
  <2> QED
    BY <2>1, <2>2
<1>3. \A what, d : Queued(what, d)' <=> Queued(what, d)
  BY <1>2, HandleIs DEF Queued
<1>4. TypeOK' /\ Once'
  BY <1>1, <1>2 DEF TypeOK, Once
<1>5. TaskQueue' /\ CallerQueue' /\ Fresh' /\ Shielded'
  BY <1>1, <1>2, <1>3 DEF TaskQueue, CallerQueue, Fresh, Cancelling, WaitsFor,
     Shielded
<1>6. ForgottenFirst'
  BY <1>1, <1>2, <1>3, HandleIs DEF ForgottenFirst
<1>7. Registry' /\ Stages'
  BY <1>1, <1>2 DEF Registry, Stages, Known, Live, Cancelling
<1>8. Served'
  <2>1. Attended'
    BY <1>1, <1>3 DEF Served, Attended, TypeOK, WaitsFor
  <2>2. Unended'
    BY <1>1, <1>3 DEF Served, Unended, TypeOK, WaitsFor
  <2>3. SlotsHeld'
    BY <1>1, <1>3 DEF Served, SlotsHeld, TypeOK, Cancelling
  <2> QED
    BY <2>1, <2>2, <2>3 DEF Served
<1> QED
  BY <1>4, <1>5, <1>6, <1>7, <1>8

\* The loop dispatches assignments to watches that hold no slot.
LEMMA DispatchKeeps ==
    ASSUME TaskInv, Dispatch
    PROVE  TaskInv'
<1> USE DEF TaskInv
<1>1. PICK S \in SUBSET (Watches \ workers) :
          /\ loop = "queued"
          /\ Runs(LoopStep, Handles("call", S))
          /\ workers' = workers \cup S
          /\ caller' = [c \in Callers |-> IF c \in S THEN "called" ELSE caller[c]]
          /\ loop' = "asleep"
          /\ UNCHANGED <<task, waiters, inflight, restore, stop, stopping,
                         raced, lost>>
  BY DEF Dispatch, LoopStep
<1>2. /\ S \subseteq Watches /\ S \subseteq Callers
      /\ \A c \in S : caller[c] = "idle"
      /\ ~Cancelling
      /\ \A c \in S : ~Queued("call", c) /\ ~Queued("wake", c)
  BY <1>1 DEF Stages, Callers, CallerQueue
<1> DEFINE q == Handles("call", S)
<1>3. /\ q \in Seq(Callbacks) /\ IsInjective(q)
      /\ ToSet(q) = {Handle("call", c) : c \in S}
  BY <1>2, HandlesHold DEF Whats
<1>4. Runs(LoopStep, q)
  BY <1>1
<1> HIDE DEF q
<1>5. \A x \in ToSet(q) : x \notin ToSet(ready) \ {LoopStep}
  BY <1>2, <1>3 DEF Queued
<1>6. /\ ready' \in Seq(Callbacks) /\ IsInjective(ready')
      /\ ToSet(ready') = (ToSet(ready) \ {LoopStep}) \cup ToSet(q)
      /\ \A a, b : Precedes(ready, a, b) /\ a \notin ToSet(q) =>
             Precedes(ready', a, b)
  BY <1>3, <1>4, <1>5, RunsStep
<1>7. \A what, d : Queued(what, d)' <=> Queued(what, d) \/ (what = "call" /\ d \in S)
  BY <1>3, <1>6, HandleIs DEF Queued
<1>8. LoopStep \notin ToSet(ready')
  BY <1>3, <1>6, HandleIs
<1>9. \A c \in Callers : caller'[c] = IF c \in S THEN "called" ELSE caller[c]
  BY <1>1
<1>10. TypeOK' /\ Once'
  BY <1>1, <1>2, <1>6 DEF TypeOK, Once
<1>11. TaskQueue' /\ CallerQueue'
  BY <1>1, <1>2, <1>7, <1>9 DEF TaskQueue, CallerQueue, Cancelling
<1>12. Fresh' /\ Shielded'
  BY <1>1, <1>2, <1>7, <1>9 DEF Fresh, Cancelling, WaitsFor, Shielded
<1>13. ForgottenFirst'
  BY <1>1, <1>3, <1>6, <1>7, HandleIs DEF ForgottenFirst
<1>14. Registry'
  BY <1>1 DEF Registry, Known, Live
<1>15. Stages'
  <2>1. /\ stop \notin {"inflight", "done"} /\ S \cap Requests = {}
        /\ stop' = stop
    BY <1>1, <1>2 DEF Cancelling
  <2>2. \A r \in Requests : caller'[r] = caller[r]
    BY <1>9, <2>1 DEF Callers
  <2>3. \A w \in Watches : caller'[w] # "idle" => w \in workers'
    BY <1>1, <1>9 DEF Callers, Stages
  <2> QED
    BY <1>1, <1>2, <1>8, <2>1, <2>2, <2>3 DEF Stages, Cancelling
<1>16. Served'
  <2>1. Attended'
    BY <1>1, <1>7, <1>9 DEF Served, Attended, TypeOK, WaitsFor
  <2>2. Unended'
    BY <1>1, <1>7, <1>9 DEF Served, Unended, TypeOK, WaitsFor
  <2>3. SlotsHeld'
    BY <1>1, <1>2, <1>9 DEF Served, SlotsHeld, TypeOK, Cancelling, Callers
  <2> QED
    BY <2>1, <2>2, <2>3 DEF Served
<1> QED
  BY <1>10, <1>11, <1>12, <1>13, <1>14, <1>15, <1>16

\* The restore, the beginning of stop(), an assignment that is forgotten and a
\* thread that ends: no check and no caller is touched.
LEMMA RestoreKeeps ==
    ASSUME TaskInv,
           \/ \E w \in Watches : \/ RestoreCheck(w) \/ ForgetAssignment(w)
                                 \/ ThreadEnds(w)
           \/ RestoreDone \/ StopBegin \/ StopRestore \/ StopLoop
    PROVE  TaskInv'
<1> USE DEF TaskInv
<1>1. /\ UNCHANGED <<ready, task, waiters, inflight, caller, workers,
                     stopping, raced, lost>>
      /\ stop' \in {stop, "restore", "loop", "raised", "assignments"}
      /\ stop' # stop => stop \in {"no", "restore", "loop"}
  BY DEF RestoreCheck, ForgetAssignment, ThreadEnds, RestoreDone,
     CutOff, StopBegin, StopRestore, StopLoop
<1>2. /\ Cancelling => Cancelling'
      /\ ~Cancelling => (Cancelling' => loop' = "stopped" /\ stop = "loop")
      /\ loop' = loop \/ loop' = "stopped"
      /\ Cancelling => loop' = loop
  BY DEF Cancelling, RestoreCheck, ForgetAssignment, ThreadEnds, RestoreDone,
     CutOff, StopBegin, StopRestore, StopLoop
<1>3. stop' # "no" => stop # "no" \/ \A r \in Requests : caller[r] = "idle"
  BY DEF RestoreCheck, ForgetAssignment, ThreadEnds, RestoreDone,
     CutOff, StopBegin, StopRestore, StopLoop
<1>4. TypeOK' /\ Once' /\ TaskQueue' /\ Shielded' /\ ForgottenFirst'
  BY <1>1 DEF TypeOK, Once, TaskQueue, Shielded, ForgottenFirst, Queued, WaitsFor
<1>5. CallerQueue' /\ Fresh'
  BY <1>1, <1>2 DEF CallerQueue, Fresh, Queued, WaitsFor
<1>6. Registry'
  BY <1>1 DEF Registry, Known, Live
<1>7. Stages'
  BY <1>1, <1>2, <1>3 DEF Stages
<1>8. Served'
  <2>1. Attended'
    BY <1>1, <1>2 DEF Served, Attended, TypeOK, WaitsFor, Queued
  <2>2. Unended'
    BY <1>1, <1>2 DEF Served, Unended, TypeOK, WaitsFor
  <2>3. SlotsHeld'
    BY <1>1, <1>2 DEF Served, SlotsHeld, TypeOK, Cancelling
  <2> QED
    BY <2>1, <2>2, <2>3 DEF Served
<1> QED
  BY <1>4, <1>5, <1>6, <1>7, <1>8

\* stop() cancels the assignments.
LEMMA CancelAssignmentsKeeps ==
    ASSUME TaskInv, CancelAssignments
    PROVE  TaskInv'
<1> DEFINE S == {w \in Watches : caller[w] = "waiting"}
           q == Handles("wake", S)
<1> USE DEF TaskInv
<1>1. /\ stop = "assignments"
      /\ caller' = [c \in Callers |->
            IF c \in Watches /\ caller[c] # "idle" THEN "woken" ELSE caller[c]]
      /\ ready' = ready \o q
      /\ UNCHANGED <<task, waiters, inflight, workers, restore, loop,
                     stopping, raced, lost>>
      /\ stop' \in {"awaiting", "raised"}
  BY DEF CancelAssignments
<1>20. Cancelling /\ Cancelling' /\ stop' # "done"
  BY <1>1 DEF Stages, Cancelling
<1>2. /\ S \in SUBSET Callers
      /\ \A c \in S : caller[c] = "waiting"
      /\ \A c \in S : c \in Watches
      /\ \A c \in Watches : caller[c] = "waiting" => c \in S
  BY DEF Callers
<1>3. /\ q \in Seq(Callbacks) /\ IsInjective(q)
      /\ ToSet(q) = {Handle("wake", c) : c \in S}
  BY <1>2, HandlesHold DEF Whats
<1> HIDE DEF q, S
<1>4. \A x \in ToSet(q) : x \notin ToSet(ready)
  BY <1>2, <1>3 DEF CallerQueue, Queued
<1>5. /\ ready' \in Seq(Callbacks) /\ IsInjective(ready')
      /\ ToSet(ready') = ToSet(ready) \cup ToSet(q)
      /\ \A a, b : Precedes(ready, a, b) /\ a \notin ToSet(q) =>
             Precedes(ready', a, b)
  BY <1>1, <1>3, <1>4, QueuesStep
<1>6. \A what, d : Queued(what, d)' <=> Queued(what, d) \/ (what = "wake" /\ d \in S)
  BY <1>3, <1>5, HandleIs DEF Queued
<1>7. \A c \in Callers : /\ caller'[c] = IF c \in Watches /\ caller[c] # "idle"
                                         THEN "woken" ELSE caller[c]
                         /\ c \notin Watches => caller[c] = "idle"
  BY <1>1 DEF Stages, Callers
<1>8. TypeOK' /\ Once'
  BY <1>1, <1>5 DEF TypeOK, Once
<1>9. TaskQueue' /\ CallerQueue'
  BY <1>1, <1>2, <1>6, <1>7, <1>20 DEF TaskQueue, CallerQueue
<1>10. Fresh' /\ Shielded'
  BY <1>1, <1>6, <1>7, <1>20 DEF Fresh, WaitsFor, Shielded
<1>11. ForgottenFirst'
  BY <1>1, <1>3, <1>5, <1>6, HandleIs DEF ForgottenFirst
<1>12. Registry'
  BY <1>1 DEF Registry, Known, Live
<1>13. Stages'
  <2>1. LoopStep \in ToSet(ready') => LoopStep \in ToSet(ready)
    BY <1>3, <1>5, HandleIs
  <2>2. \A c \in Callers : (caller'[c] = "idle") <=> (caller[c] = "idle")
    BY <1>7
  <2> QED
    BY <1>1, <2>1, <2>2 DEF Stages, Cancelling, Callers
<1>14. Served'
  <2>1. Attended'
    BY <1>1, <1>2, <1>6, <1>7 DEF Served, Attended, TypeOK, WaitsFor
  <2>2. Unended'
    BY <1>1, <1>2, <1>6, <1>7 DEF Served, Unended, TypeOK, WaitsFor
  <2>3. SlotsHeld'
    BY <1>1, <1>2, <1>6, <1>7, <1>20 DEF Served, SlotsHeld, TypeOK, Callers
  <2> QED
    BY <2>1, <2>2, <2>3 DEF Served
<1> QED
  BY <1>8, <1>9, <1>10, <1>11, <1>12, <1>13, <1>14

\* stop() cancels the tasks in the registry.
LEMMA CancelInflightKeeps ==
    ASSUME TaskInv, CancelInflight
    PROVE  TaskInv'
<1> DEFINE S == {c \in stopping' : task[c] = "running"}
           q == Handles("step", S)
<1> USE DEF TaskInv
<1>1. /\ stop = "awaiting" /\ stop' \in {"inflight", "raised"}
      /\ \A w \in Watches : caller[w] = "idle"
      /\ stopping' = {inflight[w] : w \in Watches} \ {NoTask}
      /\ task' = [c \in Callers |->
            IF c \in stopping' /\ task[c] # "done" THEN "ending" ELSE task[c]]
      /\ ready' = ready \o q
      /\ UNCHANGED <<waiters, inflight, caller, workers, restore, loop, raced,
                     lost>>
  BY DEF CancelInflight
<1>20. Cancelling /\ Cancelling' /\ stop' # "done"
  BY <1>1 DEF Stages, Cancelling
<1>2. /\ stopping' \subseteq Callers
      /\ \A w \in Watches : inflight[w] # NoTask => inflight[w] \in stopping'
      /\ \A c \in stopping' : c \in Callers /\ task[c] # "none"
  BY <1>1 DEF TypeOK, Registry, Known
<1>3. S \in SUBSET Callers
      /\ \A c \in Callers : c \in S <=> c \in stopping' /\ task[c] = "running"
  BY <1>2
<1>4. /\ q \in Seq(Callbacks) /\ IsInjective(q)
      /\ ToSet(q) = {Handle("step", c) : c \in S}
  BY <1>3, HandlesHold DEF Whats
<1> HIDE DEF q, S
<1>5. \A x \in ToSet(q) : x \notin ToSet(ready)
  BY <1>3, <1>4 DEF TaskQueue, Queued
<1>6. /\ ready' \in Seq(Callbacks) /\ IsInjective(ready')
      /\ ToSet(ready') = ToSet(ready) \cup ToSet(q)
      /\ \A a, b : Precedes(ready, a, b) /\ a \notin ToSet(q) =>
             Precedes(ready', a, b)
  BY <1>1, <1>4, <1>5, QueuesStep
<1>7. \A what, d : Queued(what, d)' <=> Queued(what, d) \/ (what = "step" /\ d \in S)
  BY <1>4, <1>6, HandleIs DEF Queued
<1>8. \A c \in Callers : /\ task'[c] = IF c \in stopping' /\ task[c] # "done"
                                       THEN "ending" ELSE task[c]
                         /\ task'[c] = "none" <=> task[c] = "none"
                         /\ task'[c] = "done" <=> task[c] = "done"
  BY <1>1, <1>2
<1>9. TypeOK' /\ Once'
  BY <1>1, <1>2, <1>6 DEF TypeOK, Once
<1>10. TaskQueue'
  <2> SUFFICES ASSUME NEW c \in Callers
               PROVE  /\ Queued("step", c)' <=> task'[c] \in {"created", "ending"}
                      /\ Queued("forget", c)' <=> task'[c] = "done"
    BY DEF TaskQueue
  <2>1. task[c] \in {"none", "created", "running", "ending", "done"}
    BY DEF TypeOK
  <2> QED
    BY <1>2, <1>3, <1>7, <1>8, <2>1 DEF TaskQueue
<1>11. CallerQueue' /\ Fresh' /\ Shielded'
  BY <1>1, <1>7, <1>8, <1>20 DEF CallerQueue, Fresh, WaitsFor, Shielded
<1>12. ForgottenFirst'
  BY <1>1, <1>4, <1>6, <1>7, <1>8, HandleIs DEF ForgottenFirst
<1>13. Registry'
  <2>1. \A w \in Watches : Known(w)' = Known(w)
    BY <1>8 DEF Known
  <2>2. \A w \in Watches : w \notin raced => Known(w) \subseteq stopping'
    BY <1>1, <1>2 DEF Registry, Known, TypeOK
  <2> QED
    BY <1>1, <2>1, <2>2 DEF Registry
<1>14. Stages'
  <2>1. LoopStep \in ToSet(ready') => LoopStep \in ToSet(ready)
    BY <1>4, <1>6, HandleIs
  <2> QED
    BY <1>1, <2>1 DEF Stages, Cancelling
<1>15. Served'
  <2>1. Attended'
    BY <1>1, <1>7, <1>8 DEF Served, Attended, TypeOK, WaitsFor
  <2>2. Unended'
    BY <1>1, <1>7, <1>8 DEF Served, Unended, TypeOK, WaitsFor
  <2>3. SlotsHeld'
    BY <1>1, <1>7, <1>8 DEF Served, SlotsHeld, TypeOK, Cancelling
  <2> QED
    BY <2>1, <2>2, <2>3 DEF Served
<1> QED
  BY <1>9, <1>10, <1>11, <1>12, <1>13, <1>14, <1>15

\* stop() returns.
LEMMA StopDoneKeeps ==
    ASSUME TaskInv, StopDone
    PROVE  TaskInv'
<1> USE DEF TaskInv
<1>1. /\ stop = "inflight" /\ stop' = "done"
      /\ \A c \in stopping : task[c] \in {"none", "done"}
      /\ inflight' = [w \in Watches |-> NoTask]
      /\ workers' = {} /\ stopping' = {}
      /\ UNCHANGED <<ready, task, waiters, caller, restore, loop, raced, lost>>
  BY DEF StopDone, Ended
<1>2. TypeOK' /\ Once' /\ TaskQueue' /\ Shielded' /\ ForgottenFirst'
  BY <1>1 DEF TypeOK, Once, TaskQueue, Shielded, ForgottenFirst, Queued, WaitsFor
<1>3. CallerQueue' /\ Fresh' /\ Stages'
  BY <1>1 DEF CallerQueue, Fresh, Queued, WaitsFor, Stages, Cancelling
<1>4. Registry'
  <2>1. \A w \in Watches : /\ Known(w)' = Known(w) /\ Live(w)' = Live(w)
                           /\ inflight'[w] = NoTask
    BY <1>1 DEF Known, Live
  <2>2. \A w \in Watches : w \notin raced => Live(w) = {}
    BY <1>1 DEF Registry, Live, Known
  <2> QED
    BY <1>1, <2>1, <2>2 DEF Registry
<1>5. Served'
  <2>1. Attended'
    BY <1>1 DEF Served, Attended, TypeOK, WaitsFor, Queued
  <2>2. Unended'
    BY <1>1 DEF Served, Unended, TypeOK, WaitsFor
  <2>3. SlotsHeld'
    BY <1>1 DEF Served, SlotsHeld, TypeOK, Cancelling
  <2> QED
    BY <2>1, <2>2, <2>3 DEF Served
<1> QED
  BY <1>2, <1>3, <1>4, <1>5

\* Where every check is, which callback is queued for it and in which order,
\* in every reachable state.
THEOREM TasksInductive == Spec => []TaskInv
<1>1. Init => TaskInv
  <2> SUFFICES ASSUME Init PROVE TaskInv
    OBVIOUS
  <2>1. /\ ready = <<>> /\ ready \in Seq(Callbacks) /\ IsInjective(ready)
        /\ ToSet(ready) = {}
    BY Nothing DEF Init
  <2>2. \A c \in Callers : /\ waiters[c] \in Seq(Callers) /\ IsInjective(waiters[c])
                           /\ ToSet(waiters[c]) = {}
    BY Nothing DEF Init
  <2>3. TypeOK /\ Once
    BY <2>1, <2>2 DEF Init, TypeOK, Once
  <2>4. TaskQueue /\ CallerQueue /\ Fresh /\ Shielded /\ ForgottenFirst
    BY <2>1, <2>2 DEF Init, TaskQueue, CallerQueue, Fresh, Shielded,
       ForgottenFirst, Queued, WaitsFor
  <2>5. Registry /\ Stages
    BY <2>1 DEF Init, Registry, Stages, Known, Live, Cancelling, Callers
  <2>6. Served
    BY <2>2 DEF Init, Served, Attended, Unended, SlotsHeld, WaitsFor
  <2> QED
    BY <2>3, <2>4, <2>5, <2>6 DEF TaskInv
<1>2. TaskInv /\ [Next]_vars => TaskInv'
  <2>1. ASSUME TaskInv, RunHandle PROVE TaskInv'
    BY <2>1, JoinKeeps, CreateKeeps, UnshieldKeeps, UnneededKeeps, WokenKeeps,
       BeginKeeps, EndKeeps, ForgetKeeps, CancelledCallKeeps, DispatchKeeps,
       LoopKeeps DEF RunHandle
  <2>2. ASSUME TaskInv, Stop PROVE TaskInv'
    BY <2>2, RestoreKeeps, CancelAssignmentsKeeps, CancelInflightKeeps,
       StopDoneKeeps DEF Stop
  <2>3. ASSUME TaskInv, Next PROVE TaskInv'
    BY <2>1, <2>2, <2>3, RequestKeeps, LastAwaitKeeps, LoopKeeps, RestoreKeeps
       DEF Next
  <2>4. ASSUME TaskInv, UNCHANGED vars PROVE TaskInv'
    BY <2>4 DEF vars, TaskInv, TypeOK, Once, TaskQueue, CallerQueue, Fresh,
       Shielded, ForgottenFirst, Registry, Stages, Served, Attended, Unended,
       SlotsHeld, Queued, WaitsFor, Cancelling, Known, Live
  <2> QED
    BY <2>3, <2>4
<1> QED
  BY <1>1, <1>2, PTL DEF Spec

\* Two checks of the registry run beside each other only where a caller came
\* between the end of a check and its done-callback (_get_or_create_
\* watch_check_task, _forget_inflight_task), for any number of watches and of
\* requests and any order of the event loop's callbacks.
THEOREM Overlap == Spec => []OverlapOnlyAfterRace
<1>1. TaskInv => OverlapOnlyAfterRace
  <2> SUFFICES ASSUME TaskInv, NEW w \in Watches, w \notin raced
               PROVE  ~(Cardinality(Live(w)) > 1)
    BY DEF OverlapOnlyAfterRace
  <2>1. \A c, d \in Live(w) : c = d
    BY DEF TaskInv, Registry, Live
  <2>2. Live(w) = {} \/ \E c : Live(w) = {c}
    BY <2>1
  <2> DEFINE n == Cardinality(Live(w))
  <2>3. Live(w) = {} => n = 0
    BY FS_EmptySet
  <2>4. ASSUME NEW c, Live(w) = {c} PROVE n = 1
    BY <2>4, FS_Singleton
  <2>5. n = 0 \/ n = 1
    BY <2>2, <2>3, <2>4
  <2> HIDE DEF n
  <2>6. ~(n > 1)
    BY <2>5
  <2> QED
    BY <2>6 DEF n
<1> QED
  BY <1>1, TasksInductive, PTL

\* Only a check that stop() cancelled leaves a thread behind.
ThreadsCut == orphans \subseteq cut

\* When stop() has returned no assignment and no slot is left, a check that
\* still runs is one that such a race had dropped from the registry, and a
\* thread that still works is one that a cancelled check had awaited (stop,
\* cancel_assignment_tasks, cancel_inflight_tasks, asyncio.to_thread).
THEOREM CleanStop == Spec => []StopCleans
<1>1. Init => ThreadsCut
  BY DEF Init, ThreadsCut
<1>2. ThreadsCut /\ [Next]_vars => ThreadsCut'
  <2> SUFFICES ASSUME orphans \subseteq cut, [Next]_vars
               PROVE  orphans' \subseteq cut'
    BY DEF ThreadsCut
  <2>1. CASE RunHandle
    BY <2>1 DEF RunHandle, JoinTask, CreateTask, Unshield, Unneeded, BeginCheck,
       EndCheck, ForgetTask, Answer, FinishAssignment, FinalReadRaises,
       CancelledCall, Dispatch, LoopCancelled
  <2>2. CASE Stop
    BY <2>2 DEF Stop, StopRestore, StopLoop, CancelAssignments, CancelInflight,
       StopDone, CutOff
  <2>3. CASE ~RunHandle /\ ~Stop
    BY <2>3 DEF Next, vars, RequestCheckNow, LastAwait, LoopStarts, LoopTick,
       LoopDies, RestoreCheck, ForgetAssignment, ThreadEnds, RestoreDone,
       StopBegin
  <2> QED
    BY <2>1, <2>2, <2>3
<1>3. TaskInv /\ ThreadsCut => StopCleans
  BY DEF TaskInv, Stages, Registry, Served, SlotsHeld, StopCleans, ThreadsCut
<1> QED
  BY <1>1, <1>2, <1>3, TasksInductive, PTL DEF Spec

\* Nothing is left to run: the event loop has queued no callback but its own
\* pass, and no check awaits a thread or the browser.
Quiet == /\ \A x \in ToSet(ready) : x = LoopStep
         /\ \A c \in Callers : task[c] # "running"

\* Nobody waits in vain: whenever nothing is left to run, every "check now" has
\* its answer and every assignment has ended, having given its slot back unless
\* it ended without mark_finished (its last read raised, or stop() cancelled it
\* before its first step).  No end of a check is missed by a caller that joined
\* or replaced its task (the shields of request_check_now and run_assignment,
\* _forget_inflight_task), which is what RequestAnswered and SlotReleased need
\* beside fairness.
THEOREM NobodyWaitsInVain ==
    Spec => [](Quiet => /\ \A c \in Callers : caller[c] = "idle"
                        /\ workers \subseteq lost)
<1>1. ASSUME TaskInv, Quiet
      PROVE  /\ \A c \in Callers : caller[c] = "idle"
             /\ workers \subseteq lost
  <2>1. \A what, c : ~Queued(what, c)
    BY <1>1, HandleIs DEF Quiet, Queued
  <2>2. \A c, t \in Callers : ~WaitsFor(c, t)
    BY <1>1, <2>1 DEF Quiet, TaskInv, Served, Unended, TaskQueue
  <2>3. \A c \in Callers : caller[c] = "idle"
    BY <1>1, <2>1, <2>2 DEF TaskInv, TypeOK, Served, Attended
  <2> QED
    BY <1>1, <2>3 DEF TaskInv, TypeOK, Served, SlotsHeld, Callers
<1> QED
  BY <1>1, TasksInductive, PTL

-----------------------------------------------------------------------------
(* The history a check leaves                                              *)

\* If the next check sees what the last one saw, the rule has nothing to say of
\* it and the availability is the one looked back to.
QuietInv ==
    repeat # None =>
        /\ RuleEvents(rule, repeat) = {}
        /\ repeat.availability \in Definite => effective = repeat.availability

\* The notification state counts the outage, and holds whether it was told.
StreakInv == /\ outage \in Nat
             /\ state.parseFailures = outage
             /\ state.alerted <=> outage >= 3

\* Sold out has yet to be followed by "became available" exactly while it is
\* the availability looked back to.
SoldOutInv == /\ soldOut \in BOOLEAN
              /\ soldOut <=> effective = "sold_out"

HistoryInv == rule \in Rules /\ QuietInv /\ StreakInv /\ SoldOutInv

USE CheckHistoryConstants

-----------------------------------------------------------------------------
(* The rule's events                                                       *)

\* A rule speaks of prices only.
LEMMA PricesOnly ==
    ASSUME NEW r, NEW seen
    PROVE  RuleEvents(r, seen) \subseteq {"price_drop", "below_target_price"}
<1>1. \A l : LeafEvents(l, seen) \subseteq {"price_drop", "below_target_price"}
  BY DEF LeafEvents
<1>2. CASE r.kind \in {"and", "or"}
  BY <1>1, <1>2 DEF RuleEvents
<1>3. CASE ~(r.kind \in {"and", "or"})
  BY <1>1, <1>3 DEF RuleEvents
<1> QED
  BY <1>2, <1>3

\* What a check sends, kind by kind.
LEMMA Kinds ==
    ASSUME NEW seen
    PROVE  /\ "became_available" \in MatchedEvents(seen) <=> BecameAvailable(seen)
           /\ "parse_failed" \in MatchedEvents(seen) <=> Alert(seen)
           /\ RuleEvents(rule, seen) \subseteq MatchedEvents(seen)
  BY PricesOnly DEF MatchedEvents

\* The state a check leaves silences every leaf that spoke of what it saw, and
\* wakes no other.
LEMMA LeavesSilenced ==
    ASSUME NEW seen \in Captures, StoreCheck(seen), NEW l, Leaf(l)
    PROVE  /\ events' # {} => LeafEvents(l, seen)' = {}
           /\ events' = {} => LeafEvents(l, seen)' \subseteq LeafEvents(l, seen)
<1>1. latest'.price = seen.price
  BY DEF StoreCheck, NextSnapshot
<1>2. seen.price \in Prices \cup {None}
  BY DEF Captures, Seen
<1>3. ~PriceDropped(seen)'
  <2>1. PriceDropped(seen)' => seen.price # None /\ seen.price < seen.price
    BY <1>1 DEF PriceDropped
  <2>2. seen.price # None => seen.price \in Nat
    BY <1>2
  <2>3. \A p \in Nat : ~(p < p)
    OBVIOUS
  <2> QED
    BY <2>1, <2>2, <2>3
<1>4. events' # {} => SameContext(seen)'
  BY DEF StoreCheck, NextState, SameContext
<1>5. events' = {} => (SameContext(seen)' <=> SameContext(seen))
  BY DEF StoreCheck, NextState, SameContext
<1>6. CASE l = [kind |-> "any_drop"]
  BY <1>3, <1>6 DEF LeafEvents
<1>7. CASE l.kind = "below_target_price"
  BY <1>4, <1>5, <1>7 DEF LeafEvents
<1> QED
  BY <1>6, <1>7 DEF Leaf

\* So the rule itself has nothing to say when the page is seen again.
LEMMA RuleSilenced ==
    ASSUME rule \in Rules, NEW seen \in Captures, StoreCheck(seen)
    PROVE  RuleEvents(rule, seen)' = {}
<1>1. rule' = rule /\ events' = MatchedEvents(seen)
  BY DEF StoreCheck
<1>2. events' = {} => RuleEvents(rule, seen) = {}
  BY <1>1, Kinds
<1>3. CASE ~(rule.kind \in {"and", "or"})
  <2>1. Leaf(rule)
    BY <1>3
  <2>2. RuleEvents(rule, seen)' = LeafEvents(rule, seen)'
        /\ RuleEvents(rule, seen) = LeafEvents(rule, seen)
    BY <1>1, <1>3 DEF RuleEvents
  <2>3. LeafEvents(rule, seen)' = {}
    <3>1. PICK l : l = rule
      OBVIOUS
    <3>2. LeafEvents(l, seen)' = LeafEvents(rule, seen)'
      BY <3>1, <1>1 DEF LeafEvents, SameContext, PriceDropped
    <3> QED
      BY <3>1, <3>2, <2>1, <2>2, <1>2, LeavesSilenced
  <2> QED
    BY <2>2, <2>3
<1>4. CASE rule.kind \in {"and", "or"}
  <2> DEFINE before == {LeafEvents(l, seen) : l \in rule.children}
             after == {LeafEvents(l, seen)' : l \in rule.children}
  <2>1. \A l \in rule.children : Leaf(l)
    BY <1>4
  <2>2. RuleEvents(rule, seen)' =
            (IF rule.kind = "and" /\ {} \in after THEN {} ELSE UNION after)
    BY <1>1, <1>4 DEF RuleEvents, LeafEvents, SameContext, PriceDropped
  <2>3. CASE events' # {}
    <3>1. \A e \in after : e = {}
      BY <2>1, <2>3, LeavesSilenced
    <3> QED
      BY <2>2, <3>1
  <2>4. CASE events' = {}
    <3>1. (IF rule.kind = "and" /\ {} \in before THEN {} ELSE UNION before) = {}
      BY <1>2, <1>4, <2>4 DEF RuleEvents
    <3>2. \A l \in rule.children :
              LeafEvents(l, seen)' \subseteq LeafEvents(l, seen)
      BY <2>1, <2>4, LeavesSilenced
    <3>3. CASE rule.kind = "and" /\ {} \in before
      <4>1. {} \in after
        BY <3>2, <3>3
      <4> QED
        BY <2>2, <3>3, <4>1
    <3>4. CASE ~(rule.kind = "and" /\ {} \in before)
      <4>1. \A l \in rule.children : LeafEvents(l, seen) = {}
        BY <3>1, <3>4
      <4>2. \A e \in after : e = {}
        BY <3>2, <4>1
      <4> QED
        BY <2>2, <4>2
    <3> QED
      BY <3>3, <3>4
  <2> QED
    BY <2>3, <2>4
<1> QED
  BY <1>3, <1>4

-----------------------------------------------------------------------------
(* The invariant                                                           *)

LEMMA HistoryInitInv == HistoryInit => HistoryInv
<1> SUFFICES ASSUME HistoryInit PROVE HistoryInv
  OBVIOUS
<1>1. rule \in Rules /\ QuietInv
  BY DEF HistoryInit, QuietInv
<1>2. outage = 0 /\ state.parseFailures = 0 /\ state.alerted = FALSE
  BY DEF HistoryInit
<1>3. soldOut = FALSE /\ effective # "sold_out"
  BY DEF HistoryInit
<1>4. StreakInv
  BY <1>2 DEF StreakInv
<1>5. SoldOutInv
  BY <1>3 DEF SoldOutInv
<1> QED
  BY <1>1, <1>4, <1>5 DEF HistoryInv

LEMMA StoreKeeps ==
    ASSUME HistoryInv, NEW seen \in Captures, StoreCheck(seen)
    PROVE  HistoryInv'
<1>1. repeat' = seen /\ effective' = Effective(seen) /\ events' = MatchedEvents(seen)
      /\ state' = NextState(seen) /\ rule' = rule
  BY DEF StoreCheck, Remember
<1>2. rule' \in Rules
  BY <1>1 DEF HistoryInv
<1>3. QuietInv'
  <2>1. RuleEvents(rule, seen)' = {}
    BY RuleSilenced DEF HistoryInv
  <2>2. RuleEvents(rule, repeat)' = RuleEvents(rule, seen)'
    BY <1>1 DEF RuleEvents, LeafEvents, SameContext, PriceDropped
  <2>3. seen.availability \in Definite => effective' = seen.availability
    BY <1>1 DEF Effective
  <2> QED
    BY <1>1, <2>1, <2>2, <2>3 DEF QuietInv
<1>4. StreakInv'
  <2>1. outage' = IF ParseFailed(seen) THEN outage + 1 ELSE 0
    BY DEF StoreCheck, Remember
  <2>2. state'.parseFailures = outage'
    BY <1>1, <2>1 DEF NextState, ParseFailures, HistoryInv, StreakInv
  <2>3. state'.alerted <=> ParseFailed(seen) /\ (state.alerted \/ Alert(seen))
    BY <1>1 DEF NextState
  <2>4. state'.alerted <=> outage' >= 3
    BY <2>1, <2>3 DEF Alert, ParseFailures, HistoryInv, StreakInv
  <2> QED
    BY <2>1, <2>2, <2>4 DEF HistoryInv, StreakInv
<1>5. SoldOutInv'
  <2>1. soldOut' <=> \/ seen.availability = "sold_out"
                     \/ soldOut /\ "became_available" \notin events'
    BY DEF StoreCheck, Remember
  <2>2. "became_available" \in events' <=> BecameAvailable(seen)
    BY <1>1, Kinds
  <2>3. soldOut' \in BOOLEAN
    BY DEF StoreCheck, Remember
  <2>4. CASE seen.availability \in Definite
    BY <1>1, <2>1, <2>2, <2>4 DEF Effective, BecameAvailable, Definite, HistoryInv, SoldOutInv
  <2>5. CASE seen.availability \notin Definite
    BY <1>1, <2>1, <2>2, <2>5 DEF Effective, BecameAvailable, Definite, HistoryInv, SoldOutInv
  <2> QED
    BY <2>3, <2>4, <2>5 DEF SoldOutInv
<1> QED
  BY <1>2, <1>3, <1>4, <1>5 DEF HistoryInv

LEMMA EditKeeps ==
    ASSUME HistoryInv, NEW r \in Rules, EditRule(r)
    PROVE  HistoryInv'
  BY DEF EditRule, HistoryInv, QuietInv, StreakInv, SoldOutInv

LEMMA HistoryStepInv == HistoryInv /\ [HistoryNext]_historyVars => HistoryInv'
<1> SUFFICES ASSUME HistoryInv, [HistoryNext]_historyVars PROVE HistoryInv'
  OBVIOUS
<1>1. ASSUME NEW seen \in Captures, StoreCheck(seen) PROVE HistoryInv'
  BY <1>1, StoreKeeps
<1>2. ASSUME NEW r \in Rules, EditRule(r) PROVE HistoryInv'
  BY <1>2, EditKeeps
<1>3. CASE UNCHANGED historyVars
  <2>1. QuietInv'
    BY <1>3 DEF historyVars, history, HistoryInv, QuietInv, RuleEvents, LeafEvents, SameContext,
                PriceDropped
  <2>2. rule' \in Rules /\ StreakInv' /\ SoldOutInv'
    BY <1>3 DEF historyVars, history, HistoryInv, StreakInv, SoldOutInv
  <2> QED
    BY <2>1, <2>2 DEF HistoryInv
<1> QED
  BY <1>1, <1>2, <1>3 DEF HistoryNext

THEOREM HistoryInductive == HistorySpec => []HistoryInv
  BY HistoryInitInv, HistoryStepInv, PTL DEF HistorySpec

-----------------------------------------------------------------------------
(* Types                                                                   *)

\* An outage is part of the failures in a row, so that their bound is one for
\* both.
OutageInv == outage <= Previous

HistoryTypesInv == HistoryTypeOK /\ OutageInv

\* What a capture holds.
LEMMA CaptureTypes ==
    ASSUME NEW seen \in Captures
    PROVE  /\ seen.price \in Prices \cup {None}
           /\ seen.availability \in Availabilities
           /\ seen.error \in Errors \cup {None}
           /\ ParseFailed(seen) => seen.error # None
<1>1. seen.error \in Errors \cup {None}
  BY DEF Errors
<1>2. seen.price \in Prices \cup {None} /\ seen.availability \in Availabilities
  BY DEF Captures, Seen, Availabilities, Definite
<1>3. ParseFailed(seen) => seen.error # None
  BY DEF Captures, Seen, ParseFailed, Definite
<1> QED
  BY <1>1, <1>2, <1>3

\* The powers of two grow: they are the numbers of subsets.
LEMMA PowersGrow ==
    ASSUME NEW n \in Nat
    PROVE  2 ^ n \in Nat /\ 2 ^ (n + 1) \in Nat /\ 2 ^ n <= 2 ^ (n + 1)
<1>1. \A m \in Nat : /\ IsFiniteSet(SUBSET (1..m))
                     /\ Cardinality(SUBSET (1..m)) = 2 ^ m
  <2> TAKE m \in Nat
  <2>1. IsFiniteSet(1..m) /\ Cardinality(1..m) = m
    BY FS_Interval
  <2> QED
    BY <2>1, FS_SUBSET
<1> DEFINE fewer == SUBSET (1..n)
           more == SUBSET (1..(n + 1))
<1>2. fewer \in SUBSET more
  OBVIOUS
<1>3. n + 1 \in Nat
  OBVIOUS
<1>4. /\ IsFiniteSet(fewer) /\ Cardinality(fewer) = 2 ^ n
      /\ IsFiniteSet(more) /\ Cardinality(more) = 2 ^ (n + 1)
  BY <1>1, <1>3
<1> HIDE DEF fewer, more
<1>5. Cardinality(fewer) \in Nat /\ Cardinality(more) \in Nat
  BY <1>4, FS_CardinalityType
<1>6. Cardinality(fewer) <= Cardinality(more)
  BY <1>2, <1>4, FS_Subset
<1> QED
  BY <1>4, <1>5, <1>6

\* A backoff after a failure is a number, and never shorter than after one
\* failure less.
LEMMA BackoffGrows ==
    ASSUME NEW e, NEW n \in Nat \ {0}
    PROVE  /\ BackoffMinutes(e, n) \in Nat /\ BackoffMinutes(e, n + 1) \in Nat
           /\ BackoffMinutes(e, n) <= BackoffMinutes(e, n + 1)
<1>1. PICK f \in Nat, g \in Nat : f = 2 ^ (n - 1) /\ g = 2 ^ n /\ f <= g
  <2>1. n - 1 \in Nat /\ (n - 1) + 1 = n
    OBVIOUS
  <2> QED
    BY <2>1, PowersGrow
<1> DEFINE Minutes(k) == CASE e = "http_429"        -> Capped(15 * k, 120)
                           [] e = "network_error"   -> Capped(5 * k, 30)
                           [] e = "parse_failed"    -> Capped(5 * k, 30)
                           [] e = "target_missing"  -> Capped(30 * k, 240)
                           [] OTHER                 -> 0
<1>2. (n + 1) - 1 = n
  OBVIOUS
<1>3. BackoffMinutes(e, n) = Minutes(f) /\ BackoffMinutes(e, n + 1) = Minutes(g)
  BY <1>1, <1>2 DEF BackoffMinutes
<1>4. \A k, l, most \in Nat : /\ Capped(k, most) \in Nat
                              /\ k <= l => Capped(k, most) <= Capped(l, most)
  BY DEF Capped
<1>5. /\ 5 * f \in Nat /\ 5 * g \in Nat /\ 5 * f <= 5 * g
      /\ 15 * f \in Nat /\ 15 * g \in Nat /\ 15 * f <= 15 * g
      /\ 30 * f \in Nat /\ 30 * g \in Nat /\ 30 * f <= 30 * g
  BY <1>1
<1>6. Minutes(f) \in Nat /\ Minutes(g) \in Nat /\ Minutes(f) <= Minutes(g)
  <2>1. CASE e = "http_429"
    BY <1>4, <1>5, <2>1
  <2>2. CASE e \in {"network_error", "parse_failed"}
    BY <1>4, <1>5, <2>2
  <2>3. CASE e = "target_missing"
    BY <1>4, <1>5, <2>3
  <2> QED
    BY <2>1, <2>2, <2>3
<1> QED
  BY <1>3, <1>6

\* Without a failure there is no backoff.
LEMMA NoFailureNoBackoff == BackoffMinutes(None, 0) = 0
  BY DEF BackoffMinutes

\* A backoff is a number.
LEMMA BackoffType ==
    ASSUME NEW e, NEW n \in Nat, n = 0 => e = None
    PROVE  BackoffMinutes(e, n) \in Nat
  BY BackoffGrows, NoFailureNoBackoff

LEMMA HistoryInitTypes == HistoryInit => HistoryTypesInv
<1> SUFFICES ASSUME HistoryInit PROVE HistoryTypesInv
  OBVIOUS
<1>1. /\ latest \in Snapshots \cup {None}
      /\ effective \in Definite \cup {None}
      /\ Previous = 0
  <2>1. CASE latest = None /\ effective = None
    BY <2>1 DEF Previous
  <2>2. ASSUME NEW p \in Prices, latest = Initial(p), effective = "available"
        PROVE  latest \in Snapshots /\ Previous = 0
    <3>1. p \in Prices \cup {None} /\ "available" \in Availabilities
          /\ 0 \in 0..MaxFailures
      BY DEF Availabilities, Definite
    <3>2. latest \in Snapshots
      BY <2>2, <3>1 DEF Initial, Snapshots
    <3>3. latest.failures = 0
      BY <2>2 DEF Initial
    <3> QED
      BY <3>2, <3>3, NoneIsNoRecord DEF Previous
  <2> QED
    BY <2>1, <2>2 DEF HistoryInit, Definite
<1>2. state \in States /\ outage = 0
  <2>1. 0 \in 0..MaxFailures
    OBVIOUS
  <2> QED
    BY <2>1 DEF HistoryInit, States
<1>3. /\ rule \in Rules /\ events \subseteq EventKinds
      /\ repeat \in Captures \cup {None} /\ sent \in Captures \cup {None}
      /\ soldOut \in BOOLEAN /\ alertSince \in BOOLEAN
  BY DEF HistoryInit
<1>4. OutageInv
  BY <1>1, <1>2 DEF OutageInv
<1> QED
  BY <1>1, <1>2, <1>3, <1>4 DEF HistoryTypesInv, HistoryTypeOK

LEMMA StoreTypes ==
    ASSUME HistoryTypesInv, HistoryInv, NEW seen \in Captures, StoreCheck(seen)
    PROVE  HistoryTypesInv'
<1>1. Previous \in Nat /\ outage <= Previous
  BY DEF HistoryTypesInv, HistoryTypeOK, OutageInv, Previous, Snapshots
<1>2. Failures(seen) \in 0..MaxFailures
  BY <1>1 DEF StoreCheck, Failures
<1>3. latest' \in Snapshots /\ latest' # None /\ latest'.failures = Failures(seen)
  <2>1. BackoffMinutes(seen.error, Failures(seen)) \in Int
    <3>1. Failures(seen) = 0 => seen.error = None
      BY <1>1 DEF Failures
    <3> QED
      BY <1>2, <3>1, BackoffType
  <2>2. (NextState(seen).parseFailures >= 3) \in BOOLEAN
    OBVIOUS
  <2>3. latest' = NextSnapshot(seen)
    BY DEF StoreCheck
  <2>4. latest' \in Snapshots
    BY <1>2, <2>1, <2>2, <2>3, CaptureTypes DEF NextSnapshot, Snapshots
  <2>5. latest' # None
    BY <2>4, NoneIsNoRecord
  <2> QED
    BY <2>3, <2>4, <2>5 DEF NextSnapshot
<1>4. outage' \in Nat /\ outage' <= Failures(seen)
  <2>1. outage' = IF ParseFailed(seen) THEN outage + 1 ELSE 0
    BY DEF StoreCheck, Remember
  <2>2. outage \in Nat
    BY DEF HistoryInv, StreakInv
  <2>3. ParseFailed(seen) => Failures(seen) = Previous + 1
    BY CaptureTypes DEF Failures
  <2> QED
    BY <1>1, <1>2, <2>1, <2>2, <2>3
<1>5. OutageInv'
  BY <1>3, <1>4 DEF OutageInv, Previous
<1>6. state' \in States
  <2>1. ParseFailures(seen) = outage'
    BY DEF StoreCheck, Remember, ParseFailures, HistoryInv, StreakInv
  <2>2. ParseFailures(seen) \in 0..MaxFailures
    BY <1>2, <1>4, <2>1
  <2>3. (ParseFailed(seen) /\ (state.alerted \/ Alert(seen))) \in BOOLEAN
    OBVIOUS
  <2>4. state.price \in Prices \cup {None}
        /\ state.availability \in Availabilities \cup {None}
    BY DEF HistoryTypesInv, HistoryTypeOK, States
  <2>5. state' = NextState(seen)
    BY DEF StoreCheck
  <2> QED
    BY <2>2, <2>3, <2>4, <2>5, CaptureTypes DEF NextState, States
<1>7. events' \subseteq EventKinds
  BY PricesOnly DEF StoreCheck, MatchedEvents, EventKinds
<1>8. effective' \in Definite \cup {None}
  BY DEF StoreCheck, Effective, HistoryTypesInv, HistoryTypeOK
<1>9. repeat' = seen /\ rule' = rule
  BY DEF StoreCheck, Remember
<1>10. sent' \in Captures \cup {None}
  BY DEF StoreCheck, Remember, HistoryTypesInv, HistoryTypeOK
<1>11. soldOut' \in BOOLEAN /\ alertSince' \in BOOLEAN
  BY DEF StoreCheck, Remember
<1>12. outage' \in 0..MaxFailures
  BY <1>2, <1>4
<1>13. HistoryTypeOK'
  BY <1>3, <1>6, <1>7, <1>8, <1>9, <1>10, <1>11, <1>12 DEF HistoryTypesInv, HistoryTypeOK
<1> QED
  BY <1>5, <1>13 DEF HistoryTypesInv

\* The snapshot, the notification state and what the properties remember keep
\* their types; above all, no streak outgrows the failures in a row.
THEOREM HistoryTypeCorrect == HistorySpec => []HistoryTypeOK
<1>1. HistoryTypesInv /\ HistoryInv /\ [HistoryNext]_historyVars => HistoryTypesInv'
  <2> SUFFICES ASSUME HistoryTypesInv, HistoryInv, [HistoryNext]_historyVars PROVE HistoryTypesInv'
    OBVIOUS
  <2>1. ASSUME NEW r \in Rules, EditRule(r) PROVE HistoryTypesInv'
    BY <2>1 DEF EditRule, HistoryTypesInv, HistoryTypeOK, OutageInv, Previous
  <2>2. CASE UNCHANGED historyVars
    BY <2>2 DEF historyVars, history, HistoryTypesInv, HistoryTypeOK, OutageInv, Previous
  <2> QED
    BY <2>1, <2>2, StoreTypes DEF HistoryNext
<1>2. HistoryTypesInv => HistoryTypeOK
  BY DEF HistoryTypesInv
<1> QED
  BY HistoryInitTypes, HistoryInductive, <1>1, <1>2, PTL DEF HistorySpec

-----------------------------------------------------------------------------
(* The properties                                                          *)

\* Parse failures are told by the third in a row of an outage, and only by it,
\* whatever else happened before (_update_parse_failure_state).
THEOREM ToldAtThird == HistorySpec => AlertAtThird
<1>1. ASSUME HistoryInv, NEW seen \in Captures, Checks(seen)
      PROVE  "parse_failed" \in events' <=> outage' = 3
  <2>1. "parse_failed" \in events' <=> Alert(seen)
    BY <1>1, Kinds DEF Checks, StoreCheck
  <2>2. outage' = IF ParseFailed(seen) THEN outage + 1 ELSE 0
    BY <1>1 DEF Checks, StoreCheck, Remember
  <2> QED
    BY <1>1, <2>1, <2>2 DEF Alert, ParseFailures, HistoryInv, StreakInv
<1>2. HistoryInv /\ [HistoryNext]_historyVars =>
          [\A seen \in Captures :
                Checks(seen) => ("parse_failed" \in events' <=> outage' = 3)]_historyVars
  BY <1>1
<1> QED
  BY <1>2, HistoryInductive, PTL DEF HistorySpec, AlertAtThird

\* A return to "available" is told exactly once, failed checks in between or
\* not (compare_snapshots with get_last_effective_availability).
THEOREM ToldAvailableOnce == HistorySpec => AvailableOnce
<1>1. ASSUME HistoryInv, NEW seen \in Captures, Checks(seen)
      PROVE  "became_available" \in events'
                 <=> soldOut /\ seen.availability = "available"
  <2>1. "became_available" \in events' <=> BecameAvailable(seen)
    BY <1>1, Kinds DEF Checks, StoreCheck
  <2> QED
    BY <1>1, <2>1 DEF BecameAvailable, HistoryInv, SoldOutInv
<1>2. HistoryInv /\ [HistoryNext]_historyVars =>
          [\A seen \in Captures :
                Checks(seen) =>
                    ("became_available" \in events'
                        <=> soldOut /\ seen.availability = "available")]_historyVars
  BY <1>1
<1> QED
  BY <1>2, HistoryInductive, PTL DEF HistorySpec, AvailableOnce

\* A check that sees what the check before it saw notifies nothing, for every
\* rule and every history before (evaluate_notification_rule).
THEOREM SilentOnRepeat == HistorySpec => RepeatSilent
<1>1. ASSUME HistoryInv, NEW seen \in Captures, Checks(seen), repeat = seen,
             ~ParseFailed(seen)
      PROVE  events' = {}
  <2>1. RuleEvents(rule, seen) = {}
    BY <1>1, NoneIsNoRecord DEF HistoryInv, QuietInv
  <2>2. ~BecameAvailable(seen)
    BY <1>1, NoneIsNoRecord DEF HistoryInv, QuietInv, BecameAvailable, Definite
  <2>3. ~Alert(seen)
    BY <1>1 DEF Alert
  <2>4. MatchedEvents(seen) = {}
    BY <2>1, <2>2, <2>3 DEF MatchedEvents
  <2> QED
    BY <1>1, <2>4 DEF Checks, StoreCheck
<1>2. HistoryInv /\ [HistoryNext]_historyVars =>
          [\A seen \in Captures :
                Checks(seen) /\ repeat = seen /\ ~ParseFailed(seen) => events' = {}]_historyVars
  BY <1>1
<1> QED
  BY <1>2, HistoryInductive, PTL DEF HistorySpec, RepeatSilent

\* What was notified last is what the notification state holds, but for an alert
\* about parse failures since.
SentInv ==
    sent # None /\ ~alertSince =>
        state.price = sent.price /\ state.availability = sent.availability

LEMMA SentKept ==
    ASSUME SentInv, NEW seen \in Captures, StoreCheck(seen)
    PROVE  SentInv'
<1> DEFINE told == events' \cap {"price_drop", "below_target_price", "became_available"}
<1>1. /\ events' = MatchedEvents(seen)
      /\ state' = NextState(seen)
      /\ sent' = IF told # {} THEN seen ELSE sent
      /\ alertSince' = (sent' = sent /\ (alertSince \/ "parse_failed" \in events'))
  BY DEF StoreCheck, Remember
<1>2. /\ state'.price = IF events' # {} THEN seen.price ELSE state.price
      /\ state'.availability = IF events' # {} THEN seen.availability ELSE state.availability
  BY <1>1 DEF NextState
<1>3. CASE told # {}
  BY <1>1, <1>2, <1>3 DEF SentInv
<1>4. CASE told = {} /\ "parse_failed" \in events'
  BY <1>1, <1>4 DEF SentInv
<1>5. CASE told = {} /\ "parse_failed" \notin events'
  <2>1. events' = {}
    BY <1>1, <1>5, PricesOnly DEF MatchedEvents
  <2> QED
    BY <1>1, <1>2, <1>5, <2>1 DEF SentInv
<1> QED
  BY <1>3, <1>4, <1>5

\* A price below the target that was notified last, at the same availability, is
\* not notified again, through whatever checks and edits lie between, unless
\* parse failures were alerted since (_is_same_notification_context).
THEOREM LowPriceOnce == HistorySpec => SamePriceOnce
<1>1. HistoryInit => SentInv
  BY DEF HistoryInit, SentInv
<1>2. SentInv /\ [HistoryNext]_historyVars => SentInv'
  BY SentKept DEF HistoryNext, EditRule, historyVars, history, SentInv
<1>3. ASSUME SentInv, NEW seen \in Captures, Checks(seen),
             "below_target_price" \in events', sent = seen, ~alertSince
      PROVE  FALSE
  <2>1. SameContext(seen)
    BY <1>3, NoneIsNoRecord DEF SentInv, SameContext
  <2>2. \A l : "below_target_price" \notin LeafEvents(l, seen)
    BY <2>1 DEF LeafEvents
  <2>3. "below_target_price" \in RuleEvents(rule, seen)
    BY <1>3 DEF Checks, StoreCheck, MatchedEvents
  <2> QED
    BY <2>2, <2>3 DEF RuleEvents
<1>4. SentInv /\ [HistoryNext]_historyVars =>
          [\A seen \in Captures :
                Checks(seen) /\ "below_target_price" \in events' /\ sent = seen
                => alertSince]_historyVars
  BY <1>3
<1> QED
  BY <1>1, <1>2, <1>4, PTL DEF HistorySpec, SamePriceOnce

\* The stored backoff is the one of the stored failures.
BackoffInv ==
    latest # None =>
        /\ latest.failures \in Nat
        /\ latest.error # None => /\ latest.failures # 0
                                 /\ latest.backoff = BackoffMinutes(latest.error, latest.failures)

\* The failure that follows another of the same kind waits at least as long
\* (decide_error_handling), since a failure of any kind counts.
THEOREM BackoffGrowing == HistorySpec => BackoffNeverShrinks
<1>1. HistoryInit => BackoffInv
  BY DEF HistoryInit, Initial, BackoffInv
<1>2. ASSUME BackoffInv, NEW seen \in Captures, StoreCheck(seen)
      PROVE  /\ latest'.failures = Failures(seen) /\ latest'.error = seen.error
             /\ latest'.backoff = BackoffMinutes(seen.error, Failures(seen))
             /\ Failures(seen) \in Nat
             /\ seen.error # None => Failures(seen) # 0
  BY <1>2 DEF StoreCheck, NextSnapshot, Failures, Previous, BackoffInv
<1>3. BackoffInv /\ [HistoryNext]_historyVars => BackoffInv'
  <2> SUFFICES ASSUME BackoffInv, [HistoryNext]_historyVars PROVE BackoffInv'
    OBVIOUS
  <2>1. ASSUME NEW seen \in Captures, StoreCheck(seen) PROVE BackoffInv'
    BY <1>2, <2>1 DEF BackoffInv
  <2>2. CASE latest' = latest
    BY <2>2 DEF BackoffInv
  <2> QED
    BY <2>1, <2>2 DEF HistoryNext, EditRule, historyVars
<1>4. BackoffInv /\ [HistoryNext]_historyVars =>
          [latest # None /\ latest.error # None /\ latest'.error = latest.error
              => latest'.backoff >= latest.backoff]_historyVars
  <2> SUFFICES ASSUME BackoffInv, HistoryNext, latest # None, latest.error # None,
                      latest'.error = latest.error
               PROVE  latest'.backoff >= latest.backoff
    OBVIOUS
  <2>1. /\ latest.failures \in Nat \ {0}
        /\ latest.backoff = BackoffMinutes(latest.error, latest.failures)
    BY DEF BackoffInv
  <2>2. BackoffMinutes(latest.error, latest.failures) \in Nat
        /\ BackoffMinutes(latest.error, latest.failures + 1) \in Nat
        /\ BackoffMinutes(latest.error, latest.failures)
               <= BackoffMinutes(latest.error, latest.failures + 1)
    BY <2>1, BackoffGrows
  <2>3. ASSUME NEW seen \in Captures, StoreCheck(seen)
        PROVE  latest'.backoff >= latest.backoff
    <3>1. seen.error = latest.error /\ Failures(seen) = latest.failures + 1
      BY <1>2, <2>3 DEF Failures, Previous
    <3> QED
      BY <1>2, <2>1, <2>2, <2>3, <3>1
  <2>4. CASE latest' = latest
    BY <2>1, <2>2, <2>4
  <2> QED
    BY <2>3, <2>4 DEF HistoryNext, EditRule
<1> QED
  BY <1>1, <1>3, <1>4, PTL DEF HistorySpec, BackoffNeverShrinks
=============================================================================
