-------------------------- MODULE CheckPipeline_proof --------------------------
(***************************************************************************)
(* Proofs about CheckPipeline: its types, the gates of its checks, and when*)
(* a message is repeated.                                                  *)
(***************************************************************************)
EXTENDS CheckPipeline, TLAPS

Copies == [item : Items, notified : Prices \cup {None}]

\* A check that has begun holds its copy, one that has captured what it saw,
\* and one that is to notify has a reason for it.
CopyInv ==
    \A c \in Checks :
        /\ pc[c] # "idle" => copy[c] \in Copies
        /\ pc[c] \notin {"idle", "capture"} => capture[c] \in Prices \cup Errors
        /\ pc[c] \in {"gate notify", "notify"} => ShouldNotify(c)

\* At a gate the history is the watch's state; past it, the gate was open.
GateInv ==
    \A c \in Checks : /\ pc[c] \in AtGate => (open[c] <=> Active)
                      /\ pc[c] \in {"notify", "persist"} => open[c]

\* While the last message is recorded, the stored state holds its price.  So
\* do the copies of the checks that began then, whatever became of the record;
\* and the sender that may still record it will.
RecordInv ==
    /\ record # None => lastSent # None
    /\ record = "kept" => notified = lastSent
    /\ \A c \in Checks :
          /\ c \in fresh => record # None
          /\ c \in fresh /\ pc[c] # "idle" => copy[c].notified = lastSent
          /\ record = c => /\ pc[c] \in {"gate persist", "persist"}
                          /\ ShouldNotify(c)
                          /\ capture[c] = lastSent

IInv == TypeOK /\ CopyInv /\ GateInv /\ RecordInv

USE CheckPipelineConstants

-----------------------------------------------------------------------------
LEMMA InitInv == Init => IInv
<1> SUFFICES ASSUME Init PROVE IInv
  OBVIOUS
<1>1. TypeOK
  BY DEF Init, TypeOK, Items, Controls, PCs
<1>2. CopyInv /\ GateInv
  BY DEF Init, CopyInv, GateInv, AtGate
<1>3. RecordInv
  BY DEF Init, RecordInv
<1> QED
  BY <1>1, <1>2, <1>3 DEF IInv

\* Only prices are below a target, and the notified one is left out.
LEMMA NotifiesPrice ==
    ASSUME NEW c \in Checks, copy[c] \in Copies, ShouldNotify(c)
    PROVE  capture[c] \in Prices /\ capture[c] # copy[c].notified
  BY DEF Copies, Items, ShouldNotify

\* The history keeps its type, whatever the step.
LEMMA HistoryType == TypeOK /\ RememberGates => open' \in [Checks -> BOOLEAN]
  BY DEF TypeOK, RememberGates, Active

\* What a check holds while its steps leave the copies, or end it.
LEMMA Discarded ==
    ASSUME TypeOK, NEW c \in Checks, Discard(c)
    PROVE  /\ pc' \in [Checks -> PCs]
           /\ copy' \in [Checks -> {None} \cup Copies]
           /\ capture' \in [Checks -> Prices \cup Errors \cup {None}]
  BY DEF TypeOK, Discard, Goes, PCs, Copies

\* The history of the record keeps its type, too.
LEMMA RecordType ==
    ASSUME TypeOK, NEW c \in Checks, Abandon(c) \/ UNCHANGED sent \/ Recorded(c)
    PROVE  /\ lastSent' \in Prices \cup {None}
           /\ record' \in Checks \cup {"kept", "lost", None}
           /\ fresh' \subseteq Checks
  BY DEF TypeOK, Abandon, sent, Recorded

LEMMA DeliverType ==
    ASSUME TypeOK, NEW c \in Checks, NEW state \in {c, "lost"},
           capture[c] \in Prices, Delivers(c, state)
    PROVE  /\ lastSent' \in Prices \cup {None}
           /\ record' \in Checks \cup {"kept", "lost", None}
           /\ fresh' \subseteq Checks
  BY DEF TypeOK, Delivers

LEMMA Went ==
    ASSUME TypeOK, NEW c \in Checks, NEW s \in PCs, Goes(c, s)
    PROVE  pc' \in [Checks -> PCs]
  BY DEF TypeOK, Goes

\* The bound on the commands counts down to zero.
LEMMA Budget == TypeOK /\ budget > 0 => budget - 1 \in 0..MaxCommands
  BY DEF TypeOK

\* Every step of a check, of a command and of the environment keeps the types
\* of the state...
LEMMA TypeStep == TypeOK /\ CopyInv /\ Step /\ RememberGates => TypeOK'
<1> SUFFICES ASSUME TypeOK, CopyInv, Step, open' \in [Checks -> BOOLEAN]
             PROVE  TypeOK'
  BY HistoryType
<1> USE DEF TypeOK, database, check, sent, Copies
<1>1. ASSUME NEW c \in Checks, Begin(c) PROVE TypeOK'
  <2>1. [item |-> item, notified |-> notified] \in Copies
    BY <1>1 DEF Begin, Active
  <2>2. pc' \in [Checks -> PCs]
    BY <1>1, Went DEF Begin, PCs
  <2> QED
    BY <1>1, <2>1, <2>2 DEF Begin
<1>2. ASSUME NEW c \in Checks, NEW seen \in Prices \cup Errors, Capture(c, seen)
      PROVE  TypeOK'
  <2>1. pc' \in [Checks -> PCs]
    BY <1>2, Went DEF Capture, PCs
  <2> QED
    BY <1>2, <2>1 DEF Capture
<1>3. ASSUME NEW c \in Checks, GateAfterCapture(c) PROVE TypeOK'
  <2>1. CASE Active
    <3>1. pc' \in [Checks -> PCs]
      BY <1>3, <2>1, Went DEF GateOpen, GateAfterCapture, PCs
    <3> QED
      BY <1>3, <2>1, <3>1 DEF GateOpen, GateAfterCapture
  <2>2. CASE ~Active
    BY <1>3, <2>2, Discarded, RecordType DEF GateOpen, GateAfterCapture, Abandon
  <2> QED
    BY <2>1, <2>2
<1>4. ASSUME NEW c \in Checks, GateBeforeNotification(c) PROVE TypeOK'
  <2>1. CASE Active
    <3>1. pc' \in [Checks -> PCs]
      BY <1>4, <2>1, Went DEF GateOpen, GateBeforeNotification, PCs
    <3> QED
      BY <1>4, <2>1, <3>1 DEF GateOpen, GateBeforeNotification
  <2>2. CASE ~Active
    BY <1>4, <2>2, Discarded, RecordType DEF GateOpen, GateBeforeNotification, Abandon
  <2> QED
    BY <2>1, <2>2
<1>5. ASSUME NEW c \in Checks, GateBeforePersist(c) PROVE TypeOK'
  <2>1. CASE Active
    <3>1. pc' \in [Checks -> PCs]
      BY <1>5, <2>1, Went DEF GateOpen, GateBeforePersist, PCs
    <3> QED
      BY <1>5, <2>1, <3>1 DEF GateOpen, GateBeforePersist
  <2>2. CASE ~Active
    BY <1>5, <2>2, Discarded, RecordType DEF GateOpen, GateBeforePersist, Abandon
  <2> QED
    BY <2>1, <2>2
<1>6. ASSUME NEW c \in Checks, DispatchNotification(c) PROVE TypeOK'
  <2>1. pc' \in [Checks -> PCs]
    BY <1>6, Went DEF DispatchNotification, PCs
  <2>2. capture[c] \in Prices
    BY <1>6, NotifiesPrice DEF DispatchNotification, CopyInv
  <2>3. cooling' \subseteq Prices
    BY <1>6, <2>2 DEF DispatchNotification
  <2>4. /\ lastSent' \in Prices \cup {None}
        /\ record' \in Checks \cup {"kept", "lost", None}
        /\ fresh' \subseteq Checks
    BY <1>6, <2>2, DeliverType, RecordType DEF DispatchNotification
  <2> QED
    BY <1>6, <2>1, <2>3, <2>4 DEF DispatchNotification
<1>13. ASSUME NEW c \in Checks, Raises(c) PROVE TypeOK'
  <2>1. Discard(c)
    BY <1>13 DEF Raises, Abandon
  <2>2. /\ pc' \in [Checks -> PCs]
        /\ copy' \in [Checks -> {None} \cup Copies]
        /\ capture' \in [Checks -> Prices \cup Errors \cup {None}]
    BY <2>1, Discarded
  <2>3. budget' \in 0..MaxCommands
    BY <1>13, Budget DEF Raises
  <2>4. CASE Abandon(c) /\ UNCHANGED cooling
    BY <1>13, <2>2, <2>3, <2>4, RecordType DEF Raises
  <2>5. CASE Delivers(c, "lost") /\ cooling' \in {cooling, cooling \cup {capture[c]}}
    <3>1. capture[c] \in Prices
      BY <2>5, NotifiesPrice DEF Delivers, Sends, CopyInv
    <3>2. cooling' \subseteq Prices
      BY <2>5, <3>1
    <3> QED
      BY <1>13, <2>2, <2>3, <2>5, <3>1, <3>2, DeliverType DEF Raises
  <2> QED
    BY <1>13, <2>4, <2>5 DEF Raises
<1>7. ASSUME NEW c \in Checks, Persist(c) PROVE TypeOK'
  <2>1. /\ pc' \in [Checks -> PCs]
        /\ copy' \in [Checks -> {None} \cup Copies]
        /\ capture' \in [Checks -> Prices \cup Errors \cup {None}]
    BY <1>7, Discarded DEF Persist, Abandon
  <2>2. copy[c] \in Copies
    BY <1>7 DEF Persist, CopyInv
  <2>3. [copy[c].item EXCEPT !.control = "blocked"] \in Items
    BY <2>2 DEF Items, Controls
  <2>4. item' \in Items \cup {None}
    BY <1>7, <2>3 DEF RolledBack, Persist
  <2>5. latest' \in Errors \cup {"ok", None}
    BY <1>7 DEF Outcome, RolledBack, Persist
  <2>6. notified' \in Prices \cup {None}
    BY <1>7, <2>2, NotifiesPrice DEF RolledBack, Persist, NextNotified
  <2>7. /\ lastSent' \in Prices \cup {None}
        /\ record' \in Checks \cup {"kept", "lost", None}
        /\ fresh' \subseteq Checks
    BY <1>7, RecordType DEF Persist
  <2> QED
    BY <1>7, <2>1, <2>4, <2>5, <2>6, <2>7 DEF Persist
<1>8. ASSUME NEW p \in Prices, CooldownEnds(p) PROVE TypeOK'
  BY <1>8 DEF CooldownEnds
<1>9. ASSUME NEW t \in Threads, ReadCommand(t) PROVE TypeOK'
  <2>1. \A row \in Commanded(item) : row \in Items
    BY <1>9 DEF ReadCommand, Commanded, Commands, Items, Controls
  <2>2. command' \in [Threads -> Items \cup {None}]
    BY <1>9, <2>1 DEF ReadCommand
  <2>3. budget' \in 0..MaxCommands
    BY <1>9, Budget DEF ReadCommand
  <2> QED
    BY <1>9, <2>2, <2>3 DEF ReadCommand
<1>10. ASSUME NEW t \in Threads, SaveCommand(t) PROVE TypeOK'
  BY <1>10 DEF SaveCommand
<1>11. CASE Delete
  <2>1. budget' \in 0..MaxCommands
    BY <1>11, Budget DEF Delete
  <2> QED
    BY <1>11, <2>1 DEF Delete
<1>12. CASE Crash
  <2>1. budget' \in 0..MaxCommands
    BY <1>12, Budget DEF Crash
  <2>2. pc' \in [Checks -> PCs]
    BY <1>12 DEF Crash, PCs
  <2> QED
    BY <1>12, <2>1, <2>2 DEF Crash
<1> QED
  BY <1>1, <1>2, <1>3, <1>4, <1>5, <1>6, <1>7, <1>8, <1>9, <1>10, <1>11, <1>12,
     <1>13 DEF Step, CheckStep, Gate

\* ... and what the checks hold.
LEMMA CopyStep == TypeOK /\ CopyInv /\ Step => CopyInv'
<1> SUFFICES ASSUME TypeOK, CopyInv, Step PROVE CopyInv'
  OBVIOUS
<1> USE DEF CopyInv, database, check, Goes, ShouldNotify
<1>0. /\ pc \in [Checks -> PCs]
      /\ copy \in [Checks -> {None} \cup Copies]
      /\ capture \in [Checks -> Prices \cup Errors \cup {None}]
  BY DEF TypeOK, Copies
<1>a. ASSUME NEW c \in Checks, Discard(c) PROVE CopyInv'
  BY <1>0, <1>a DEF Discard
<1>1. ASSUME NEW c \in Checks, Begin(c) PROVE CopyInv'
  <2>1. [item |-> item, notified |-> notified] \in Copies
    BY <1>1 DEF Begin, Active, TypeOK, Copies
  <2> QED
    BY <1>0, <1>1, <2>1 DEF Begin
<1>2. ASSUME NEW c \in Checks, NEW seen \in Prices \cup Errors, Capture(c, seen)
      PROVE  CopyInv'
  BY <1>0, <1>2 DEF Capture
<1>3. ASSUME NEW c \in Checks, GateAfterCapture(c) PROVE CopyInv'
  <2>1. CASE Active
    BY <1>0, <1>3, <2>1 DEF GateOpen, GateAfterCapture
  <2>2. CASE ~Active
    BY <1>a, <1>3, <2>2 DEF GateOpen, GateAfterCapture, Abandon
  <2> QED
    BY <2>1, <2>2
<1>4. ASSUME NEW c \in Checks, GateBeforeNotification(c) PROVE CopyInv'
  <2>1. CASE Active
    BY <1>0, <1>4, <2>1 DEF GateOpen, GateBeforeNotification
  <2>2. CASE ~Active
    BY <1>a, <1>4, <2>2 DEF GateOpen, GateBeforeNotification, Abandon
  <2> QED
    BY <2>1, <2>2
<1>5. ASSUME NEW c \in Checks, GateBeforePersist(c) PROVE CopyInv'
  <2>1. CASE Active
    BY <1>0, <1>5, <2>1 DEF GateOpen, GateBeforePersist
  <2>2. CASE ~Active
    BY <1>a, <1>5, <2>2 DEF GateOpen, GateBeforePersist, Abandon
  <2> QED
    BY <2>1, <2>2
<1>6. ASSUME NEW c \in Checks, DispatchNotification(c) PROVE CopyInv'
  BY <1>0, <1>6 DEF DispatchNotification
<1>7. ASSUME NEW c \in Checks, Persist(c) PROVE CopyInv'
  BY <1>a, <1>7 DEF Persist, Abandon
<1>13. ASSUME NEW c \in Checks, Raises(c) PROVE CopyInv'
  BY <1>a, <1>13 DEF Raises, Abandon
<1>8. ASSUME NEW p \in Prices, CooldownEnds(p) PROVE CopyInv'
  BY <1>8 DEF CooldownEnds
<1>9. ASSUME NEW t \in Threads, ReadCommand(t) PROVE CopyInv'
  BY <1>9 DEF ReadCommand
<1>10. ASSUME NEW t \in Threads, SaveCommand(t) PROVE CopyInv'
  BY <1>10 DEF SaveCommand
<1>11. CASE Delete
  BY <1>11 DEF Delete
<1>12. CASE Crash
  BY <1>12 DEF Crash
<1> QED
  BY <1>1, <1>2, <1>3, <1>4, <1>5, <1>6, <1>7, <1>8, <1>9, <1>10, <1>11, <1>12,
     <1>13 DEF Step, CheckStep, Gate

-----------------------------------------------------------------------------
Past == {"notify", "persist"}

\* No step brings a check to an effect but the gate before that effect, and
\* only while the watch is active.
LEMMA ThroughGate ==
    ASSUME TypeOK, Step, NEW d \in Checks, pc'[d] \in Past
    PROVE  pc[d] \in Past \/ (pc[d] \in AtGate /\ Active)
<1> USE DEF Past, AtGate, database, check, Goes
<1>0. pc \in [Checks -> PCs]
  BY DEF TypeOK
<1>1. ASSUME NEW c \in Checks, CheckStep(c)
      PROVE  pc[d] \in Past \/ (pc[d] \in AtGate /\ Active)
  <2>1. CASE Begin(c)
    BY <1>0, <2>1 DEF Begin
  <2>2. ASSUME NEW seen \in Prices \cup Errors, Capture(c, seen)
        PROVE  pc[d] \in Past \/ (pc[d] \in AtGate /\ Active)
    BY <1>0, <2>2 DEF Capture
  <2>3. CASE GateAfterCapture(c)
    BY <1>0, <2>3 DEF GateOpen, GateAfterCapture, Abandon, Discard
  <2>4. CASE GateBeforeNotification(c)
    BY <1>0, <2>4 DEF GateOpen, GateBeforeNotification, Abandon, Discard
  <2>5. CASE GateBeforePersist(c)
    BY <1>0, <2>5 DEF GateOpen, GateBeforePersist, Abandon, Discard
  <2>6. CASE DispatchNotification(c)
    BY <1>0, <2>6 DEF DispatchNotification
  <2>7. CASE Persist(c)
    BY <1>0, <2>7 DEF Persist, Abandon, Discard
  <2> QED
    BY <1>1, <2>1, <2>2, <2>3, <2>4, <2>5, <2>6, <2>7 DEF CheckStep, Gate
<1>6. ASSUME NEW c \in Checks, Raises(c) PROVE pc[d] \in Past
  BY <1>0, <1>6 DEF Raises, Abandon, Discard
<1>2. ASSUME NEW p \in Prices, CooldownEnds(p) PROVE pc[d] \in Past
  BY <1>2 DEF CooldownEnds
<1>3. ASSUME NEW t \in Threads, ReadCommand(t) \/ SaveCommand(t)
      PROVE  pc[d] \in Past
  BY <1>3 DEF ReadCommand, SaveCommand
<1>4. CASE Delete
  BY <1>4 DEF Delete
<1>5. CASE Crash
  BY <1>5 DEF Crash
<1> QED
  BY <1>1, <1>2, <1>3, <1>4, <1>5, <1>6 DEF Step

LEMMA GateStep == TypeOK /\ GateInv /\ Step /\ RememberGates => GateInv'
<1> SUFFICES ASSUME TypeOK, GateInv, Step, RememberGates, NEW c \in Checks
             PROVE  /\ pc'[c] \in AtGate => (open'[c] <=> Active')
                    /\ pc'[c] \in Past => open'[c]
  BY DEF GateInv, Past, AtGate
<1>1. pc'[c] \in AtGate => (open'[c] <=> Active')
  <2>1. ASSUME pc'[c] \in AtGate PROVE open'[c] = Active'
    <3>1. pc'[c] \notin {"idle", "capture"}
      BY <2>1 DEF AtGate
    <3> QED
      BY <2>1, <3>1, Zenon DEF RememberGates
  <2> QED
    BY <2>1, Zenon
<1>2. ASSUME pc'[c] \in Past PROVE open'[c]
  <2>1. open'[c] = open[c]
    BY <1>2 DEF RememberGates, Past, AtGate
  <2>2. CASE pc[c] \in Past
    BY <2>1, <2>2 DEF GateInv, Past
  <2>3. CASE pc[c] \in AtGate /\ Active
    BY <2>1, <2>3 DEF GateInv
  <2> QED
    BY <1>2, <2>2, <2>3, ThroughGate
<1> QED
  BY <1>1, <1>2

-----------------------------------------------------------------------------
\* A check that ends takes what it held with it; the others keep theirs.
LEMMA RecordAbandoned ==
    ASSUME TypeOK, RecordInv, NEW c \in Checks, Abandon(c), UNCHANGED notified
    PROVE  RecordInv'
<1>1. /\ pc' = [pc EXCEPT ![c] = "idle"]
      /\ copy' = [copy EXCEPT ![c] = None]
      /\ capture' = [capture EXCEPT ![c] = None]
      /\ record' = IF record = c THEN "lost" ELSE record
      /\ UNCHANGED <<lastSent, fresh>>
  BY DEF Abandon, Discard, Goes
<1>2. /\ pc \in [Checks -> PCs]
      /\ copy \in [Checks -> {None} \cup Copies]
      /\ capture \in [Checks -> Prices \cup Errors \cup {None}]
  BY DEF TypeOK, Copies
<1> QED
  BY <1>1, <1>2 DEF RecordInv, ShouldNotify

\* A message that goes out is the last one: nobody has its record yet.
LEMMA RecordDelivered ==
    ASSUME TypeOK, CopyInv, NEW c \in Checks, NEW state \in {c, "lost"},
           Delivers(c, state),
           state = c => Goes(c, "gate persist") /\ UNCHANGED <<copy, capture>>
    PROVE  RecordInv'
<1>1. pc[c] = "notify" /\ pc \in [Checks -> PCs]
  BY DEF Delivers, Sends, TypeOK
<1>2. ShouldNotify(c) /\ copy[c] \in Copies
  BY <1>1 DEF CopyInv
<1>3. capture[c] \in Prices
  BY <1>2, NotifiesPrice
<1>4. lastSent' = capture[c] /\ record' = state /\ fresh' = {}
  BY DEF Delivers
<1>5. ASSUME state = c
      PROVE  /\ pc'[c] = "gate persist" /\ capture'[c] = lastSent'
             /\ ShouldNotify(c)'
  BY <1>1, <1>2, <1>4, <1>5 DEF Goes, ShouldNotify
<1> QED
  BY <1>3, <1>4, <1>5 DEF RecordInv

\* The transaction of the sender stores what it sent, that of a check which
\* began later keeps what it read.
LEMMA RecordPersisted ==
    ASSUME TypeOK, CopyInv, RecordInv, NEW c \in Checks, pc[c] = "persist",
           notified' = NextNotified(c), Recorded(c), Discard(c)
    PROVE  RecordInv'
<1>1. /\ pc' = [pc EXCEPT ![c] = "idle"]
      /\ copy' = [copy EXCEPT ![c] = None]
      /\ capture' = [capture EXCEPT ![c] = None]
  BY DEF Discard, Goes
<1>2. /\ pc \in [Checks -> PCs]
      /\ copy \in [Checks -> {None} \cup Copies]
      /\ capture \in [Checks -> Prices \cup Errors \cup {None}]
  BY DEF TypeOK, Copies
<1>3. CASE ShouldNotify(c) /\ capture[c] # lastSent
  BY <1>3 DEF Recorded, RecordInv
<1>4. CASE ~(ShouldNotify(c) /\ capture[c] # lastSent)
  <2>1. /\ record' = CASE record = c -> "kept"
                       [] record = "kept" /\ c \notin fresh -> "lost"
                       [] OTHER -> record
        /\ UNCHANGED <<lastSent, fresh>>
    BY <1>4 DEF Recorded
  <2>2. record # None => lastSent' # None /\ record' # None
    BY <2>1 DEF RecordInv
  <2>3. ASSUME record = c PROVE record' = "kept" /\ notified' = lastSent'
    <3>1. ShouldNotify(c) /\ capture[c] = lastSent
      BY <2>3 DEF RecordInv
    <3> QED
      BY <2>1, <2>3, <3>1 DEF NextNotified
  <2>4. ASSUME record # c, record' = "kept" PROVE notified' = lastSent'
    <3>1. record = "kept" /\ c \in fresh
      BY <2>1, <2>4
    <3>2. copy[c].notified = lastSent
      BY <3>1 DEF RecordInv
    <3>3. ~ShouldNotify(c)
      BY <1>4, <3>2 DEF ShouldNotify
    <3> QED
      BY <2>1, <3>2, <3>3 DEF NextNotified
  <2>5. ASSUME NEW d \in Checks, record' = d PROVE d # c /\ record = d
    BY <2>1, <2>5
  <2>6. record' # None => lastSent' # None
    BY <2>1 DEF RecordInv
  <2>7. record' = "kept" => notified' = lastSent'
    BY <2>3, <2>4
  <2>8. ASSUME NEW d \in Checks
        PROVE  /\ d \in fresh' => record' # None
               /\ d \in fresh' /\ pc'[d] # "idle" => copy'[d].notified = lastSent'
               /\ record' = d => /\ pc'[d] \in {"gate persist", "persist"}
                                /\ ShouldNotify(d)'
                                /\ capture'[d] = lastSent'
    BY <1>1, <1>2, <2>1, <2>2, <2>5 DEF RecordInv, ShouldNotify
  <2> QED
    BY <2>6, <2>7, <2>8 DEF RecordInv
<1> QED
  BY <1>3, <1>4

LEMMA RecordStep == TypeOK /\ CopyInv /\ RecordInv /\ Step => RecordInv'
<1> SUFFICES ASSUME TypeOK, CopyInv, RecordInv, Step PROVE RecordInv'
  OBVIOUS
<1>0. /\ pc \in [Checks -> PCs]
      /\ copy \in [Checks -> {None} \cup Copies]
      /\ capture \in [Checks -> Prices \cup Errors \cup {None}]
  BY DEF TypeOK, Copies
<1> USE DEF database, check, sent, Goes
<1>1. ASSUME NEW c \in Checks, Begin(c) PROVE RecordInv'
  <2>1. /\ pc[c] = "idle" /\ pc' = [pc EXCEPT ![c] = "capture"]
        /\ copy'[c].notified = notified
        /\ \A d \in Checks \ {c} : copy'[d] = copy[d]
        /\ fresh' = IF record = "kept" THEN fresh \cup {c} ELSE fresh \ {c}
        /\ UNCHANGED <<notified, capture, lastSent, record>>
    BY <1>0, <1>1 DEF Begin
  <2>2. record # c
    BY <2>1 DEF RecordInv
  <2>3. ASSUME NEW d \in Checks, d # c
        PROVE  pc'[d] = pc[d] /\ ShouldNotify(d)' = ShouldNotify(d)
    BY <1>0, <2>1, <2>3 DEF ShouldNotify
  <2>4. c \in fresh' => record = "kept"
    BY <2>1
  <2> QED
    BY <2>1, <2>2, <2>3, <2>4 DEF RecordInv
<1>2. ASSUME NEW c \in Checks, NEW seen \in Prices \cup Errors, Capture(c, seen)
      PROVE  RecordInv'
  <2>1. record # c
    BY <1>2 DEF Capture, RecordInv
  <2> QED
    BY <1>0, <1>2, <2>1 DEF Capture, RecordInv, ShouldNotify
<1>3. ASSUME NEW c \in Checks, Gate(c) PROVE RecordInv'
  <2>1. CASE Abandon(c)
    BY <1>3, <2>1, RecordAbandoned
       DEF Gate, GateAfterCapture, GateBeforeNotification, GateBeforePersist
  <2>2. CASE /\ \E s \in {"gate notify", "gate persist"} : Goes(c, s)
             /\ pc[c] = "gate capture"
             /\ UNCHANGED <<database, copy, capture, sent>>
    BY <1>0, <2>2 DEF RecordInv, ShouldNotify
  <2>3. CASE /\ \/ pc[c] = "gate notify" /\ Goes(c, "notify")
                \/ pc[c] = "gate persist" /\ Goes(c, "persist")
             /\ UNCHANGED <<database, copy, capture, sent>>
    BY <1>0, <2>3 DEF RecordInv, ShouldNotify
  <2> QED
    BY <1>3, <2>1, <2>2, <2>3
       DEF Gate, GateAfterCapture, GateBeforeNotification, GateBeforePersist
<1>4. ASSUME NEW c \in Checks, DispatchNotification(c) PROVE RecordInv'
  <2>1. CASE Delivers(c, c)
    BY <1>4, <2>1, RecordDelivered DEF DispatchNotification
  <2>2. CASE UNCHANGED sent
    BY <1>0, <1>4, <2>2 DEF DispatchNotification, RecordInv, ShouldNotify
  <2> QED
    BY <1>4, <2>1, <2>2 DEF DispatchNotification
<1>5. ASSUME NEW c \in Checks, Raises(c) PROVE RecordInv'
  <2>1. CASE Abandon(c)
    BY <1>5, <2>1, RecordAbandoned DEF Raises
  <2>2. CASE Delivers(c, "lost")
    BY <2>2, RecordDelivered
  <2> QED
    BY <1>5, <2>1, <2>2 DEF Raises
<1>6. ASSUME NEW c \in Checks, Persist(c) PROVE RecordInv'
  BY <1>6, RecordAbandoned, RecordPersisted DEF Persist
<1>7. CASE \/ \E p \in Prices : CooldownEnds(p)
           \/ \E t \in Threads : ReadCommand(t) \/ SaveCommand(t)
  BY <1>7 DEF CooldownEnds, ReadCommand, SaveCommand, RecordInv, ShouldNotify
<1>8. CASE Delete
  BY <1>8 DEF Delete, RecordInv
<1>9. CASE Crash
  BY <1>0, <1>9 DEF Crash, RecordInv
<1> QED
  BY <1>1, <1>2, <1>3, <1>4, <1>5, <1>6, <1>7, <1>8, <1>9 DEF Step, CheckStep

LEMMA Stutter == IInv /\ UNCHANGED vars => IInv'
<1> SUFFICES ASSUME IInv, UNCHANGED vars PROVE IInv'
  OBVIOUS
<1> USE DEF vars, database, check, sent
<1>1. TypeOK'
  BY ZenonT(40) DEF IInv, TypeOK
<1>2. CopyInv'
  BY ZenonT(40) DEF IInv, CopyInv, ShouldNotify
<1>3. GateInv'
  BY ZenonT(40) DEF IInv, GateInv, Active
<1>4. RecordInv'
  BY ZenonT(40) DEF IInv, RecordInv, ShouldNotify
<1> QED
  BY <1>1, <1>2, <1>3, <1>4 DEF IInv

-----------------------------------------------------------------------------
\* The types, what the checks hold and what their gates saw hold together in
\* every reachable state: the strengthening the other theorems rest on.
THEOREM Inductive == Spec => []IInv
<1>1. Init => IInv
  BY InitInv
<1>2. IInv /\ [Next]_vars => IInv'
  BY TypeStep, CopyStep, GateStep, RecordStep, Stutter DEF IInv, Next
<1> QED
  BY <1>1, <1>2, PTL DEF Spec

\* The state of the watch, of its checks and of its commands keeps its types.
THEOREM TypeCorrect == Spec => []TypeOK
<1>1. IInv => TypeOK
  BY DEF IInv
<1> QED
  BY <1>1, Inductive, PTL

\* For any number of overlapping checks, commands and rules: no result is
\* stored and nothing is sent by a check whose last gate found the watch paused,
\* disabled, blocked or deleted (run_watch_check_once).
THEOREM GatesHonoured == Spec => GateHonoured
<1>1. IInv /\ [Next]_vars
        => [\A c \in Checks : Persists(c) \/ Notifies(c) => open[c]]_vars
  <2>1. ASSUME IInv, NEW c \in Checks, Persists(c) \/ Notifies(c)
        PROVE  open[c]
    <3>1. pc[c] \in {"notify", "persist"}
      BY <2>1 DEF Persists, Notifies, Delivers, Sends
    <3> QED
      BY <2>1, <3>1 DEF IInv, GateInv
  <2> QED
    BY <2>1
<1> QED
  BY <1>1, Inductive, PTL DEF Spec, GateHonoured

\* For any number of overlapping checks, crashes, failures and commands: a
\* check that began when the last message was recorded does not send it again
\* (_evaluate_leaf_rule compares with the copy, persist_check_outcome writes the
\* state computed from it).
THEOREM ResentUnrecorded == Spec => ResentOnlyUnrecorded
<1>1. IInv /\ [Next]_vars
        => [\A c \in Checks :
              Notifies(c) /\ capture[c] = lastSent => c \notin fresh]_vars
  <2>1. ASSUME IInv, NEW c \in Checks, Notifies(c), capture[c] = lastSent
        PROVE  c \notin fresh
    <3>1. pc[c] = "notify"
      BY <2>1 DEF Notifies, Delivers, Sends
    <3>2. ShouldNotify(c)
      BY <2>1, <3>1 DEF IInv, CopyInv
    <3>3. copy[c].notified # lastSent
      BY <2>1, <3>2 DEF ShouldNotify
    <3> QED
      BY <2>1, <3>1, <3>3 DEF IInv, RecordInv
  <2> QED
    BY <2>1
<1> QED
  BY <1>1, Inductive, PTL DEF Spec, ResentOnlyUnrecorded
=============================================================================
