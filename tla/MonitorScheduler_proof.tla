------------------------ MODULE MonitorScheduler_proof ------------------------
(***************************************************************************)
(* Proofs about MonitorScheduler: its types, the limit on its workers, the *)
(* backoffs its dispatches respect, and that it implements WorkerPool.     *)
(***************************************************************************)
EXTENDS MonitorScheduler, FiniteSetTheorems, TLAPS

\* Only workers run checks, and a backoff is always stored with a check time.
CheckInv ==
    /\ \A w \in Watches : check[w] # "none" => w \in workers
    /\ \A w \in Watches : checkedAgo[w] = NoTime => backoffIn[w] = NoTime

\* The due time of an idle watch whose schedule missed no backoff waits for the
\* backoff of its latest snapshot.
Respects(w, due) ==
    w \notin workers \cup bypassed /\ InBackoff(backoffIn[w])
        => due >= backoffIn[w]

\* So does every entry of the schedule, but the one that is being rebuilt: the
\* rebuilt entry does.
BackoffInv ==
    /\ \A w \in registered :
          (pending # None => pending.watch # w) => Respects(w, dueIn[w])
    /\ pending # None => Respects(pending.watch, pending.due)

IInv == TypeOK /\ WorkerLimit /\ CheckInv /\ BackoffInv

USE SchedulerConstants

-----------------------------------------------------------------------------
(* Times                                                                   *)

\* The first run of a watch is a time, never before a backoff still to come.
LEMMA FirstRun ==
    ASSUME NEW c \in Ages, NEW b \in Ages, NEW i \in Intervals
    PROVE  /\ ComputeNextRunAt(c, b, i) \in Int
           /\ c # NoTime /\ InBackoff(b) => ComputeNextRunAt(c, b, i) >= b
  BY DEF ComputeNextRunAt, InBackoff, Ages

\* So is every run after a check.
LEMMA LaterRun ==
    ASSUME NEW b \in Ages, NEW i \in Intervals, NEW d \in NextRuns(b, i)
    PROVE  /\ d \in Int
           /\ InBackoff(b) => d >= b
  BY DEF NextRuns, InBackoff, Ages

\* A unit later an entry of the schedule has a time still, and one that was not
\* overdue is one unit closer.
LEMMA AgedTime ==
    ASSUME TypeOK, NEW w \in Watches
    PROVE  /\ Aged(dueIn)[w] \in Int
           /\ w \in registered /\ dueIn[w] > 0 => Aged(dueIn)[w] = dueIn[w] - 1
<1> DEFINE later == [x \in Watches |-> dueIn[x] - 1]
           behind == {y \in registered : later[w] <= later[y] /\ later[y] < 0}
           times == {later[x] : x \in behind}
<1>1. later \in [Watches -> Int]
  BY DEF TypeOK
<1>2. IsFiniteSet(behind)
  BY FS_Subset DEF TypeOK
<1>3. IsFiniteSet(times)
  <2> DEFINE f == [y \in behind |-> later[y]]
  <2>1. f \in Surjection(behind, times)
    BY DEF Surjection
  <2> QED
    BY <1>2, <2>1, FS_Surjection
<1>4. Cardinality(times) \in Nat
  BY <1>3, FS_CardinalityType
<1>5. Aged(dueIn)[w] =
          CASE w \notin registered -> 0
            [] w \in registered /\ later[w] >= 0 -> later[w]
            [] OTHER -> -Cardinality(times)
  BY DEF Aged
<1> HIDE DEF times
<1>6. CASE w \notin registered
  BY <1>5, <1>6
<1>7. CASE w \in registered /\ later[w] >= 0
  BY <1>1, <1>5, <1>7 DEF TypeOK
<1>8. CASE w \in registered /\ ~(later[w] >= 0)
  BY <1>1, <1>4, <1>5, <1>8 DEF TypeOK
<1> QED
  BY <1>6, <1>7, <1>8

\* The union of disjoint finite sets of watches has as many as both together.
LEMMA Disjoint ==
    ASSUME NEW S \in SUBSET Watches, NEW T \in SUBSET Watches, S \cap T = {}
    PROVE  /\ Cardinality(S) \in Nat /\ Cardinality(T) \in Nat
           /\ Cardinality(S \cup T) = Cardinality(S) + Cardinality(T)
<1>1. IsFiniteSet(S) /\ IsFiniteSet(T)
  BY FS_Subset
<1>2. Cardinality(S) \in Nat /\ Cardinality(T) \in Nat
  BY <1>1, FS_CardinalityType
<1>3. Cardinality(S \cap T) = 0
  BY FS_EmptySet
<1>4. Cardinality(S \cup T) = Cardinality(S) + Cardinality(T) - Cardinality(S \cap T)
  BY <1>1, FS_Union
<1> QED
  BY <1>2, <1>3, <1>4

-----------------------------------------------------------------------------
(* Types                                                                   *)

LEMMA InitInv == Init => IInv
<1> SUFFICES ASSUME Init PROVE IInv
  OBVIOUS
<1>1. TypeOK
  BY DEF Init, TypeOK, None, Idle, Ages
<1>2. WorkerLimit
  BY FS_EmptySet DEF Init, WorkerLimit
<1>3. CheckInv /\ BackoffInv
  BY DEF Init, CheckInv, BackoffInv, None
<1> QED
  BY <1>1, <1>2, <1>3 DEF IInv

\* Every action keeps the types of the state.
LEMMA TypeStep == IInv /\ [Next]_vars => TypeOK'
<1> SUFFICES ASSUME TypeOK, CheckInv, [Next]_vars PROVE TypeOK'
  BY DEF IInv
<1> USE DEF TypeOK, None, Idle, Entries, Ages
<1>1. ASSUME NEW w \in Watches, SyncRead(w) PROVE TypeOK'
  BY <1>1 DEF SyncRead
<1>2. ASSUME NEW w \in Watches, MarkFinished(w) PROVE TypeOK'
  <2>1. pending' \in {None} \cup Entries
    <3>1. ASSUME NEW d \in NextRuns(backoffIn[w], interval[w])
          PROVE  [step |-> "store", watch |-> w, interval |-> interval[w],
                  due |-> d] \in Entries
      BY LaterRun
    <3> QED
      BY <1>2, <3>1 DEF MarkFinished
  <2>2. budget' \in [wakeups : Nat, failures : Nat]
    BY <1>2 DEF MarkFinished
  <2>3. removedWhileRunning' \subseteq Watches /\ bypassed' \subseteq Watches
    BY <1>2 DEF MarkFinished
  <2> QED
    BY <1>2, <2>1, <2>2, <2>3 DEF MarkFinished
<1>3. ASSUME NEW w \in Watches, RemoveWatch(w) PROVE TypeOK'
  BY <1>3 DEF RemoveWatch
<1>4. ASSUME NEW w \in Watches, NEW b \in Backoffs, PersistCheck(w, b)
      PROVE  TypeOK'
  BY <1>4 DEF PersistCheck
<1>5. ASSUME NEW w \in Watches, NEW b \in Backoffs, PersistRestored(w, b)
      PROVE  TypeOK'
  BY <1>5 DEF PersistRestored
<1>6. ASSUME NEW w \in Checkable, NEW b \in Backoffs, PersistCheckNow(w, b)
      PROVE  TypeOK'
  BY <1>6 DEF PersistCheckNow
<1>7. CASE RegisterWatch
  <2>1. item.watch \in Watches /\ item.checked \in Ages /\ item.backoff \in Ages
    BY <1>7 DEF RegisterWatch
  <2>2. \A i \in Intervals :
            ComputeNextRunAt(item.checked, item.backoff, i) \in Int
    BY <2>1, FirstRun
  <2>3. interval' \in [Watches -> Intervals] /\ dueIn' \in [Watches -> Int]
    BY <1>7, <2>1, <2>2 DEF RegisterWatch
  <2>4. bypassed' \subseteq Watches
    BY <1>7, <2>1 DEF RegisterWatch
  <2> QED
    BY <1>7, <2>1, <2>3, <2>4 DEF RegisterWatch
<1>8. CASE RescheduleNow
  BY <1>8 DEF RescheduleNow
<1>9. CASE UpdateInterval
  BY <1>9 DEF UpdateInterval
<1>10. CASE LoopDies
  BY <1>10 DEF LoopDies
<1>11. CASE StoreEntry
  BY <1>11 DEF StoreEntry
<1>12. CASE DequeueDueWork
  BY <1>12 DEF DequeueDueWork, Due
<1>13. CASE RestoreDone
  BY <1>13 DEF RestoreDone
<1>14. ASSUME NEW t \in Threads, NEW w \in Removable, RemoveBegin(t, w)
       PROVE  TypeOK'
  BY <1>14 DEF RemoveBegin
<1>15. ASSUME NEW t \in Threads, RemoveCheck(t) PROVE TypeOK'
  BY <1>15 DEF RemoveCheck
<1>16. ASSUME NEW t \in Threads, RemoveMark(t) PROVE TypeOK'
  BY <1>16 DEF RemoveMark
<1>17. CASE Tick
  <2>1. dueIn' \in [Watches -> Int]
    <3>1. \A w \in Watches : Aged(dueIn)[w] \in Int
      BY AgedTime
    <3>2. Aged(dueIn) = [w \in Watches |-> Aged(dueIn)[w]]
      BY DEF Aged
    <3> QED
      BY <1>17, <3>1, <3>2 DEF Tick
  <2>2. checkedAgo' \in [Watches -> Ages] /\ backoffIn' \in [Watches -> Ages]
    BY <1>17 DEF Tick
  <2> QED
    BY <1>17, <2>1, <2>2 DEF Tick
<1>18. CASE Restart
  BY <1>18 DEF Restart
<1>19. CASE UNCHANGED vars
  BY <1>19 DEF vars
<1>20. CASE MarkCheckCompleted
  <2> DEFINE w == restored.watch
  <2>1. w \in Watches /\ restored.backoff \in Ages
    BY <1>20 DEF MarkCheckCompleted
  <2>2. pending' \in {None} \cup Entries
    <3>1. ASSUME NEW d \in NextRuns(restored.backoff, interval[w])
          PROVE  [step |-> "store", watch |-> w, interval |-> interval[w],
                  due |-> d] \in Entries
      BY <2>1, LaterRun
    <3> QED
      BY <1>20, <3>1 DEF MarkCheckCompleted
  <2>3. bypassed' \subseteq Watches
    BY <1>20, <2>1 DEF MarkCheckCompleted
  <2> QED
    BY <1>20, <2>2, <2>3 DEF MarkCheckCompleted
<1> QED
  BY <1>1, <1>2, <1>3, <1>4, <1>5, <1>6, <1>7, <1>8, <1>9, <1>10, <1>11,
     <1>12, <1>13, <1>14, <1>15, <1>16, <1>17, <1>18, <1>19, <1>20 DEF Next

-----------------------------------------------------------------------------
(* Workers                                                                 *)

\* How each step changes the workers: a dispatch fills free slots, a finish
\* frees one, a restart frees all.
LEMMA WorkersStep ==
    ASSUME TypeOK, [Next]_vars
    PROVE  \/ workers' = workers
           \/ \E S \in SUBSET Watches :
                 /\ S # {} /\ S \cap workers = {}
                 /\ Cardinality(S) <= Slots
                 /\ workers' = workers \cup S
           \/ \E w \in workers : workers' = workers \ {w}
           \/ workers' = {}
<1>1. CASE DequeueDueWork
  BY <1>1 DEF DequeueDueWork, Due, TypeOK
<1>2. ASSUME NEW w \in Watches, MarkFinished(w)
      PROVE  w \in workers /\ workers' = workers \ {w}
  BY <1>2 DEF MarkFinished
<1>3. CASE Restart
  BY <1>3 DEF Restart
<1>4. ASSUME ~DequeueDueWork, ~Restart, \A w \in Watches : ~MarkFinished(w)
      PROVE  workers' = workers
  BY <1>4 DEF Next, vars, SyncRead, RemoveWatch, PersistCheck,
     PersistRestored, MarkCheckCompleted, PersistCheckNow, RegisterWatch,
     RescheduleNow, UpdateInterval, LoopDies, StoreEntry, RestoreDone, RemoveBegin,
     RemoveCheck, RemoveMark, Tick
<1> QED
  BY <1>1, <1>2, <1>3, <1>4

LEMMA LimitStep == IInv /\ [Next]_vars => WorkerLimit'
<1> SUFFICES ASSUME TypeOK, WorkerLimit, [Next]_vars PROVE WorkerLimit'
  BY DEF IInv
<1>1. workers \subseteq Watches
  BY DEF TypeOK
<1>2. CASE workers' = workers
  BY <1>2 DEF WorkerLimit
<1>3. ASSUME NEW S \in SUBSET Watches, S \cap workers = {},
             Cardinality(S) <= Slots, workers' = workers \cup S
      PROVE  WorkerLimit'
  BY <1>1, <1>3, Disjoint DEF WorkerLimit, Slots
<1>4. ASSUME NEW w \in workers, workers' = workers \ {w} PROVE WorkerLimit'
  <2>1. IsFiniteSet(workers)
    BY <1>1, FS_Subset
  <2>2. Cardinality(workers) \in Nat
    BY <2>1, FS_CardinalityType
  <2>3. Cardinality(workers \ {w}) = Cardinality(workers) - 1
    BY <2>1, FS_RemoveElement
  <2> QED
    BY <1>4, <2>2, <2>3 DEF WorkerLimit
<1>5. CASE workers' = {}
  BY <1>5, FS_EmptySet DEF WorkerLimit
<1> QED
  BY <1>2, <1>3, <1>4, <1>5, WorkersStep

-----------------------------------------------------------------------------
(* Checks and snapshots                                                    *)

LEMMA CheckStep == IInv /\ [Next]_vars => CheckInv'
<1> SUFFICES ASSUME TypeOK, CheckInv, [Next]_vars PROVE CheckInv'
  BY DEF IInv
<1> USE DEF TypeOK, CheckInv, Ages
<1>1. ASSUME NEW w \in Watches, SyncRead(w) PROVE CheckInv'
  BY <1>1 DEF SyncRead
<1>2. ASSUME NEW w \in Watches, MarkFinished(w) PROVE CheckInv'
  BY <1>2 DEF MarkFinished
<1>3. ASSUME NEW w \in Watches, RemoveWatch(w) PROVE CheckInv'
  BY <1>3 DEF RemoveWatch
<1>4. ASSUME NEW w \in Watches, NEW b \in Backoffs, PersistCheck(w, b)
      PROVE  CheckInv'
  BY <1>4 DEF PersistCheck
<1>5. ASSUME NEW w \in Watches, NEW b \in Backoffs, PersistRestored(w, b)
      PROVE  CheckInv'
  BY <1>5 DEF PersistRestored
<1>6. ASSUME NEW w \in Checkable, NEW b \in Backoffs, PersistCheckNow(w, b)
      PROVE  CheckInv'
  BY <1>6 DEF PersistCheckNow
<1>7. CASE RegisterWatch
  BY <1>7 DEF RegisterWatch
<1>8. CASE RescheduleNow
  BY <1>8 DEF RescheduleNow
<1>9. CASE UpdateInterval
  BY <1>9 DEF UpdateInterval
<1>10. CASE LoopDies
  BY <1>10 DEF LoopDies
<1>11. CASE StoreEntry
  BY <1>11 DEF StoreEntry
<1>12. CASE DequeueDueWork
  BY <1>12 DEF DequeueDueWork
<1>13. CASE RestoreDone
  BY <1>13 DEF RestoreDone
<1>14. ASSUME NEW t \in Threads, NEW w \in Removable, RemoveBegin(t, w)
       PROVE  CheckInv'
  BY <1>14 DEF RemoveBegin
<1>15. ASSUME NEW t \in Threads, RemoveCheck(t) PROVE CheckInv'
  BY <1>15 DEF RemoveCheck
<1>16. ASSUME NEW t \in Threads, RemoveMark(t) PROVE CheckInv'
  BY <1>16 DEF RemoveMark
<1>17. CASE Tick
  BY <1>17 DEF Tick
<1>18. CASE Restart
  BY <1>18 DEF Restart
<1>19. CASE UNCHANGED vars
  BY <1>19 DEF vars
<1>20. CASE MarkCheckCompleted
  BY <1>20 DEF MarkCheckCompleted
<1> QED
  BY <1>1, <1>2, <1>3, <1>4, <1>5, <1>6, <1>7, <1>8, <1>9, <1>10, <1>11,
     <1>12, <1>13, <1>14, <1>15, <1>16, <1>17, <1>18, <1>19, <1>20
     DEF Next

-----------------------------------------------------------------------------
(* Backoffs                                                                *)

\* No step leaves an idle watch scheduled, or about to be, before its backoff,
\* unless that step is one of those that bypass it.
LEMMA BackoffStep == IInv /\ [Next]_vars => BackoffInv'
<1> SUFFICES ASSUME TypeOK, CheckInv, BackoffInv, [Next]_vars PROVE BackoffInv'
  BY DEF IInv
<1> USE DEF TypeOK, CheckInv, BackoffInv, Respects, Ages, None, Entries
<1>1. ASSUME NEW w \in Watches, SyncRead(w) PROVE BackoffInv'
  BY <1>1 DEF SyncRead
<1>2. ASSUME NEW w \in Watches, MarkFinished(w) PROVE BackoffInv'
  <2>1. \A d \in NextRuns(backoffIn[w], interval[w]) :
            InBackoff(backoffIn[w]) => d >= backoffIn[w]
    BY LaterRun
  <2>2. /\ pending = None /\ workers' = workers \ {w}
        /\ UNCHANGED <<registered, interval, dueIn, backoffIn>>
    BY <1>2 DEF MarkFinished
  <2>3. CASE w \in removedWhileRunning
    BY <1>2, <2>2, <2>3 DEF MarkFinished
  <2>4. CASE w \notin removedWhileRunning /\ w \in registered
    <3>1. /\ pending'.step = "store"
          /\ pending'.watch = w
          /\ pending'.due \in NextRuns(backoffIn[w], interval[w])
          /\ bypassed' = bypassed \ {w}
      BY <1>2, <2>4 DEF MarkFinished
    <3>2. pending' # None
      BY <3>1
    <3> QED
      BY <2>1, <2>2, <3>1, <3>2
  <2>5. CASE w \notin removedWhileRunning /\ w \notin registered
    BY <1>2, <2>2, <2>5 DEF MarkFinished
  <2> QED
    BY <2>3, <2>4, <2>5
<1>3. ASSUME NEW w \in Watches, RemoveWatch(w) PROVE BackoffInv'
  BY <1>3 DEF RemoveWatch
<1>4. ASSUME NEW w \in Watches, NEW b \in Backoffs, PersistCheck(w, b)
      PROVE  BackoffInv'
  BY <1>4 DEF PersistCheck
<1>5. ASSUME NEW w \in Watches, NEW b \in Backoffs, PersistRestored(w, b)
      PROVE  BackoffInv'
  BY <1>5 DEF PersistRestored
<1>6. ASSUME NEW w \in Checkable, NEW b \in Backoffs, PersistCheckNow(w, b)
      PROVE  BackoffInv'
  BY <1>6 DEF PersistCheckNow
<1>7. CASE RegisterWatch
  <2> DEFINE w == item.watch
  <2>1. w \in Watches /\ item.checked \in Ages /\ item.backoff \in Ages
    BY <1>7 DEF RegisterWatch
  <2>2. /\ pending = None /\ registered' = registered \cup {w}
        /\ UNCHANGED <<pending, workers, checkedAgo, backoffIn>>
    BY <1>7 DEF RegisterWatch
  <2>3. PICK i \in Intervals :
          dueIn' = [dueIn EXCEPT
              ![w] = ComputeNextRunAt(item.checked, item.backoff, i)]
    BY <1>7 DEF RegisterWatch
  <2>4. CASE StaleItem
    BY <1>7, <2>1, <2>2, <2>3, <2>4 DEF RegisterWatch
  <2>5. CASE ~StaleItem
    <3>1. item.checked = checkedAgo[w] /\ item.backoff = backoffIn[w]
      BY <2>5 DEF StaleItem
    <3>2. InBackoff(backoffIn[w]) => dueIn'[w] >= backoffIn[w]
      BY <2>1, <2>3, <3>1, FirstRun DEF InBackoff
    <3> QED
      BY <1>7, <2>1, <2>2, <2>3, <2>5, <3>2 DEF RegisterWatch
  <2> QED
    BY <2>4, <2>5
<1>8. CASE RescheduleNow
  BY <1>8 DEF RescheduleNow, WakeupRescan, StaleItem
<1>9. CASE UpdateInterval
  BY <1>9 DEF UpdateInterval
<1>10. CASE LoopDies
  BY <1>10 DEF LoopDies
<1>11. CASE StoreEntry
  BY <1>11 DEF StoreEntry
<1>12. CASE DequeueDueWork
  BY <1>12 DEF DequeueDueWork
<1>13. CASE RestoreDone
  BY <1>13 DEF RestoreDone
<1>14. ASSUME NEW t \in Threads, NEW w \in Removable, RemoveBegin(t, w)
       PROVE  BackoffInv'
  BY <1>14 DEF RemoveBegin
<1>15. ASSUME NEW t \in Threads, RemoveCheck(t) PROVE BackoffInv'
  BY <1>15 DEF RemoveCheck
<1>16. ASSUME NEW t \in Threads, RemoveMark(t) PROVE BackoffInv'
  BY <1>16 DEF RemoveMark
<1>17. CASE Tick
  <2>1. ASSUME NEW w \in registered, w \notin workers \cup bypassed,
               InBackoff(backoffIn'[w])
        PROVE  Aged(dueIn)[w] >= backoffIn'[w]
    <3>1. InBackoff(backoffIn[w]) /\ backoffIn'[w] = backoffIn[w] - 1
      BY <1>17, <2>1 DEF Tick, InBackoff
    <3>2. dueIn[w] >= backoffIn[w]
      BY <1>17, <2>1, <3>1 DEF Tick, LoopFree
    <3>3. dueIn[w] > 0 /\ Aged(dueIn)[w] = dueIn[w] - 1
      BY <3>1, <3>2, AgedTime DEF InBackoff
    <3> QED
      BY <3>1, <3>2, <3>3 DEF InBackoff
  <2> QED
    BY <1>17, <2>1 DEF Tick, LoopFree
<1>18. CASE Restart
  BY <1>18 DEF Restart
<1>19. CASE UNCHANGED vars
  BY <1>19 DEF vars
<1>20. CASE MarkCheckCompleted
  <2> DEFINE w == restored.watch
  <2>1. /\ w \in Watches /\ restored.backoff \in Ages /\ pending = None
        /\ UNCHANGED <<registered, dueIn, workers, backoffIn>>
    BY <1>20 DEF MarkCheckCompleted
  <2>2. CASE w \in registered
    <3>1. \A d \in NextRuns(restored.backoff, interval[w]) :
              InBackoff(restored.backoff) => d >= restored.backoff
      BY <2>1, LaterRun
    <3>2. /\ pending'.step = "store" /\ pending'.watch = w
          /\ pending'.due \in NextRuns(restored.backoff, interval[w])
          /\ bypassed' = IF restored.backoff = backoffIn[w]
                         THEN bypassed \ {w} ELSE bypassed \cup {w}
      BY <1>20, <2>2 DEF MarkCheckCompleted
    <3>3. pending' # None
      BY <3>2
    <3> QED
      BY <2>1, <3>1, <3>2, <3>3
  <2>3. CASE w \notin registered
    BY <1>20, <2>1, <2>3 DEF MarkCheckCompleted
  <2> QED
    BY <2>2, <2>3
<1> QED
  BY <1>1, <1>2, <1>3, <1>4, <1>5, <1>6, <1>7, <1>8, <1>9, <1>10, <1>11,
     <1>12, <1>13, <1>14, <1>15, <1>16, <1>17, <1>18, <1>19, <1>20
     DEF Next

-----------------------------------------------------------------------------
(* Theorems                                                                *)

\* The inductive invariant holds of every reachable state.
THEOREM Inductive == Spec => []IInv
<1>1. IInv /\ [Next]_vars => IInv'
  BY TypeStep, LimitStep, CheckStep, BackoffStep DEF IInv
<1> QED
  BY InitInv, <1>1, PTL DEF Spec

\* The scheduler's state keeps its types; due times stay integers although only
\* their order is kept once they have passed.
THEOREM TypeCorrect == Spec => []TypeOK
<1>1. IInv => TypeOK
  BY DEF IInv
<1> QED
  BY Inductive, <1>1, PTL

\* The scheduler never runs more checks than max_workers, however dispatches,
\* finishes, removals by web threads and restarts interleave.
THEOREM WorkersLimited == Spec => []WorkerLimit
<1>1. IInv => WorkerLimit
  BY DEF IInv
<1> QED
  BY Inductive, <1>1, PTL

\* A dispatch that starts a watch before its stored backoff has passed starts
\* one whose schedule missed that backoff: there is no fourth way.
THEOREM OnlyBypassed == Spec => BackoffBypassed
<1>1. IInv /\ [Next]_vars
        => [\A w \in workers' \ workers :
                InBackoff(backoffIn[w]) => w \in bypassed]_vars
  <2> SUFFICES ASSUME IInv, Next, NEW w \in workers' \ workers,
                      InBackoff(backoffIn[w])
               PROVE  w \in bypassed
    OBVIOUS
  <2>1. DequeueDueWork
    BY DEF Next, SyncRead, MarkFinished, RemoveWatch, PersistCheck,
       PersistRestored, MarkCheckCompleted, PersistCheckNow, RegisterWatch,
       RescheduleNow, UpdateInterval, LoopDies, StoreEntry, RestoreDone, RemoveBegin,
       RemoveCheck, RemoveMark, Tick, Restart
  <2>2. w \in Due /\ pending = None
    BY <2>1 DEF DequeueDueWork, LoopFree
  <2>3. w \in registered /\ w \notin workers /\ dueIn[w] <= 0
    BY <2>2 DEF Due
  <2>4. w \notin bypassed => dueIn[w] >= backoffIn[w]
    BY <2>2, <2>3 DEF IInv, BackoffInv, Respects
  <2> QED
    BY <2>3, <2>4 DEF IInv, TypeOK, InBackoff, Ages
<1> QED
  BY Inductive, <1>1, PTL DEF Spec, BackoffBypassed

\* The scheduler, with all its callers, uses its slots as WorkerPool promises.
THEOREM Refinement == Spec => ImplementsPool
<1>1. Init => Pool!Init
  BY DEF Init, Pool!Init
<1>2. IInv /\ [Next]_vars => [Pool!Next]_workers
  <2> SUFFICES ASSUME TypeOK, WorkerLimit, [Next]_vars
               PROVE  [Pool!Next]_workers
    BY DEF IInv
  <2>1. workers \subseteq Watches
    BY DEF TypeOK
  <2>2. ASSUME NEW S \in SUBSET Watches, S # {}, S \cap workers = {},
               Cardinality(S) <= Slots, workers' = workers \cup S
        PROVE  Pool!Take(S)
    <3>1. \A T : Pool!Cardinality(T) = Cardinality(T)
      BY DEF Pool!Cardinality, Cardinality
    <3>2. Cardinality(workers) \in Nat /\ Cardinality(S) \in Nat
      BY <2>1, <2>2, Disjoint
    <3>3. Cardinality(workers) + Cardinality(S) <= MaxWorkers
      BY <2>2, <3>2 DEF Slots
    <3> QED
      BY <2>2, <3>1, <3>3 DEF Pool!Take
  <2>3. ASSUME NEW w \in workers, workers' = workers \ {w}
        PROVE  Pool!Release(w)
    BY <2>3 DEF Pool!Release
  <2>4. CASE workers' = {}
    BY <2>4 DEF Pool!Next, Pool!Reset
  <2> QED
    BY <2>1, <2>2, <2>3, <2>4, WorkersStep DEF Pool!Next
<1> QED
  BY Inductive, <1>1, <1>2, PTL DEF Spec, ImplementsPool, Pool!Spec
=============================================================================
