---------------------- MODULE NotificationDispatch_proof ----------------------
(***************************************************************************)
(* Theorems about NotificationDispatch, for any checks, keys, channels,    *)
(* cooldowns and bounds.                                                   *)
(***************************************************************************)
EXTENDS NotificationDispatch, TLAPS

\* A check in flight has a message, which is not newer than the clock.
FlightInv ==
    \A c \in Checks :
        /\ key[c] = None <=> pc[c] = "idle"
        /\ attempted[c] <= now
        /\ pc[c] \notin {"idle", "check"} => seen[c] \in Settings

Dispatching == {"throttle", "send", "mark", "done"}

\* A dispatcher is the one of the settings read; what was tried and what is left
\* are its channels.
TriedInv ==
    \A c \in Checks :
        /\ pc[c] \notin Dispatching => outcome[c] = Untried
        /\ pc[c] \in Dispatching =>
              /\ using[c] = seen[c]
              /\ left[c] \subseteq seen[c].enabled
              /\ \A n \in Channels :
                    outcome[c][n] # "untried" <=> n \in seen[c].enabled \ left[c]
              /\ pc[c] = "done" <=> left[c] = {}

\* What was recorded was delivered; what is about to be recorded is, too.
ToldInv ==
    /\ \A p \in Pairs : throttle[p] # None => /\ told[p] # None
                                              /\ throttle[p] <= told[p]
    /\ \A c \in Checks, n \in Channels :
          pc[c] = "mark" /\ Turn(c, n) => /\ told[Message(c, n)] # None
                                          /\ told[Message(c, n)] >= attempted[c]
    /\ \A c \in Checks, n \in Channels :
          /\ outcome[c][n] = "sent" => /\ told[Message(c, n)] # None
                                       /\ told[Message(c, n)] >= attempted[c]
          /\ outcome[c][n] = "throttled" =>
                /\ told[Message(c, n)] # None
                /\ attempted[c] < told[Message(c, n)] + Cooldown[n]

\* Without a dispatcher where there was one, all channels have been off.
SilenceInv ==
    /\ settings.enabled = {} => silent
    /\ \A c \in Checks :
          /\ pc[c] \notin {"idle", "check"} /\ seen[c].enabled = {} => silent
          /\ pc[c] = "unpack" /\ cache = None => silent

\* A check alone with its message finds no newer delivery of it.
AloneInv ==
    /\ \A p \in Pairs : told[p] # None => told[p] <= now
    /\ \A c \in Checks : alone[c] =>
          /\ pc[c] # "idle"
          /\ \A d \in Checks \ {c} : key[d] # key[c]
          /\ \A n \in Channels :
                told[Message(c, n)] # None => told[Message(c, n)] <= attempted[c]

\* Where nothing disturbed it, the record is the latest delivery, unless that
\* is just being recorded; a check alone that is about to send is not throttled.
RecordInv ==
    /\ \A n \in Channels, k \in Keys :
          <<n, k>> \notin disturbed =>
              \/ throttle[<<n, k>>] = told[<<n, k>>]
              \/ \E c \in Checks : pc[c] = "mark" /\ Turn(c, n) /\ key[c] = k
    /\ \A c \in Checks, n \in Channels :
          alone[c] /\ pc[c] = "send" /\ Turn(c, n) => ~IsThrottled(c, n)

IInv == /\ TypeOK /\ FlightInv /\ TriedInv /\ ToldInv
        /\ SilenceInv /\ AloneInv /\ RecordInv

USE NotificationDispatchConstants

-----------------------------------------------------------------------------
LEMMA InitInv == Init => IInv
<1> SUFFICES ASSUME Init PROVE IInv
  OBVIOUS
<1>1. TypeOK
  BY DEF Init, TypeOK, Times, Settings, PCs, Outcomes, Untried
<1>2. FlightInv /\ TriedInv
  BY DEF Init, FlightInv, TriedInv, Dispatching
<1>3. ToldInv /\ SilenceInv
  BY DEF Init, ToldInv, SilenceInv, Untried, Pairs
<1>4. AloneInv /\ RecordInv
  BY DEF Init, AloneInv, RecordInv, Pairs
<1> QED
  BY <1>1, <1>2, <1>3, <1>4 DEF IInv

\* The channel whose turn it is, is one.
LEMMA OneTurn ==
    ASSUME TypeOK, NEW c \in Checks, NEW n \in Channels, NEW m \in Channels,
           Turn(c, n), Turn(c, m)
    PROVE  n = m
  BY DEF Turn, TypeOK

\* What the two helpers of several actions leave.
LEMMA TakesTypes ==
    ASSUME TypeOK, NEW c \in Checks, NEW s \in Settings, Takes(c, s)
    PROVE  /\ pc' \in [Checks -> PCs]
           /\ using' \in [Checks -> Settings \cup {None}]
           /\ left' \in [Checks -> SUBSET Channels]
<1>1. s.enabled \subseteq Channels
  BY DEF Settings
<1> QED
  BY <1>1 DEF TypeOK, Takes, Goes, PCs

LEMMA TriedTypes ==
    ASSUME TypeOK, NEW c \in Checks, NEW n \in Channels, NEW how \in Outcomes,
           Tried(c, n, how)
    PROVE  /\ pc' \in [Checks -> PCs]
           /\ left' \in [Checks -> SUBSET Channels]
           /\ outcome' \in [Checks -> [Channels -> Outcomes]]
  BY DEF TypeOK, Tried, Goes, PCs

LEMMA TypeStep == TypeOK /\ FlightInv /\ [Next]_vars => TypeOK'
<1> SUFFICES ASSUME TypeOK, FlightInv, [Next]_vars PROVE TypeOK'
  OBVIOUS
<1> USE DEF TypeOK, Goes, Times, PCs, Outcomes
<1>1. ASSUME NEW c \in Checks, NEW k \in Keys, Begin(c, k) PROVE TypeOK'
  BY <1>1 DEF Begin, database, limits
<1>2. ASSUME NEW c \in Checks, ReadSettings(c) PROVE TypeOK'
  BY <1>2 DEF ReadSettings, database, limits, history
<1>3. ASSUME NEW c \in Checks, Look(c) PROVE TypeOK'
  BY <1>3 DEF Look, database, limits, history
<1>4. ASSUME NEW c \in Checks, Unpack(c) PROVE TypeOK'
  <2>1. CASE Reusable(c)
    <3>1. cache \in Settings /\ Takes(c, cache) /\ UNCHANGED cache
      BY <1>4, <2>1 DEF Unpack
    <3> QED
      BY <1>4, <3>1, TakesTypes DEF Unpack, database, limits, history
  <2>2. CASE ~Reusable(c)
    BY <1>4, <2>2 DEF Unpack, Kept, database, limits, history
  <2> QED
    BY <2>1, <2>2
<1>5. ASSUME NEW c \in Checks, Dies(c) PROVE TypeOK'
  BY <1>5 DEF Dies, Ends, Untried, database, limits
<1>6. ASSUME NEW c \in Checks, Build(c) PROVE TypeOK'
  BY <1>6 DEF Build, Takes, FlightInv, Settings, database, limits, history
<1>7. ASSUME NEW c \in Checks, NEW n \in Channels, CheckThrottle(c, n) PROVE TypeOK'
  <2>1. CASE IsThrottled(c, n)
    <3>1. Tried(c, n, "throttled")
      BY <1>7, <2>1 DEF CheckThrottle
    <3> QED
      BY <1>7, <3>1, TriedTypes DEF CheckThrottle, database, limits, history
  <2>2. CASE ~IsThrottled(c, n)
    BY <1>7, <2>2 DEF CheckThrottle, database, limits, history
  <2> QED
    BY <2>1, <2>2
<1>8. ASSUME NEW c \in Checks, NEW n \in Channels, Send(c, n) PROVE TypeOK'
  BY <1>8 DEF Send, Later, Message, Pairs, FlightInv, database, limits
<1>9. ASSUME NEW c \in Checks, NEW n \in Channels, SendFails(c, n) PROVE TypeOK'
  BY <1>9 DEF SendFails, AfterFailure, database, limits, history
<1>10. ASSUME NEW c \in Checks, NEW n \in Channels, Mark(c, n) PROVE TypeOK'
  BY <1>10 DEF Mark, Tried, Stored, Message, Pairs, FlightInv, limits
<1>11. ASSUME NEW c \in Checks, NEW n \in Channels, MarkFails(c, n) PROVE TypeOK'
  BY <1>11 DEF MarkFails, Ends, Untried, Message, Pairs, FlightInv, database
<1>12. ASSUME NEW c \in Checks, End(c) PROVE TypeOK'
  BY <1>12 DEF End, Ends, Untried, database, limits
<1>13. ASSUME NEW s \in Settings, SaveSettings(s) PROVE TypeOK'
  BY <1>13 DEF SaveSettings, thread
<1>14. CASE Tick
  BY <1>14 DEF Tick, database, thread, history
<1>15. CASE Crash
  BY <1>15 DEF Crash, Untried, Pairs, database
<1>16. CASE UNCHANGED vars
  BY <1>16 DEF vars, database, thread, limits, history
<1>17. ASSUME NEW c \in Checks, ReadFails(c) PROVE TypeOK'
  BY <1>17 DEF ReadFails, Ends, Untried, database
<1> QED
  BY <1>1, <1>2, <1>3, <1>4, <1>5, <1>6, <1>7, <1>8, <1>9, <1>10, <1>11,
     <1>12, <1>13, <1>14, <1>15, <1>16, <1>17 DEF Next, Try
LEMMA FlightStep == TypeOK /\ FlightInv /\ [Next]_vars => FlightInv'
<1> SUFFICES ASSUME TypeOK, FlightInv, [Next]_vars PROVE FlightInv'
  OBVIOUS
<1> USE DEF TypeOK, FlightInv, Goes, Times, PCs, limits
<1>1. ASSUME NEW c \in Checks, NEW k \in Keys, Begin(c, k) PROVE FlightInv'
  BY <1>1 DEF Begin
<1>2. ASSUME NEW c \in Checks, ReadSettings(c) PROVE FlightInv'
  BY <1>2 DEF ReadSettings
<1>3. ASSUME NEW c \in Checks, Look(c) PROVE FlightInv'
  BY <1>3 DEF Look
<1>4. ASSUME NEW c \in Checks, Unpack(c) PROVE FlightInv'
  BY <1>4 DEF Unpack, Takes
<1>5. ASSUME NEW c \in Checks, Dies(c) PROVE FlightInv'
  BY <1>5 DEF Dies, Ends
<1>6. ASSUME NEW c \in Checks, Build(c) PROVE FlightInv'
  BY <1>6 DEF Build, Takes
<1>7. ASSUME NEW c \in Checks, NEW n \in Channels, CheckThrottle(c, n) PROVE FlightInv'
  BY <1>7 DEF CheckThrottle, Tried
<1>8. ASSUME NEW c \in Checks, NEW n \in Channels, Send(c, n) PROVE FlightInv'
  BY <1>8 DEF Send
<1>9. ASSUME NEW c \in Checks, NEW n \in Channels, SendFails(c, n) PROVE FlightInv'
  BY <1>9 DEF SendFails
<1>10. ASSUME NEW c \in Checks, NEW n \in Channels, Mark(c, n) PROVE FlightInv'
  BY <1>10 DEF Mark, Tried
<1>11. ASSUME NEW c \in Checks, NEW n \in Channels, MarkFails(c, n) PROVE FlightInv'
  BY <1>11 DEF MarkFails, Ends
<1>12. ASSUME NEW c \in Checks, End(c) PROVE FlightInv'
  BY <1>12 DEF End, Ends
<1>13. ASSUME NEW s \in Settings, SaveSettings(s) PROVE FlightInv'
  BY <1>13 DEF SaveSettings, thread
<1>14. CASE Tick
  BY <1>14 DEF Tick, thread
<1>15. CASE Crash
  BY <1>15 DEF Crash
<1>16. CASE UNCHANGED vars
  BY <1>16 DEF vars, database, thread, limits, history
<1>17. ASSUME NEW c \in Checks, ReadFails(c) PROVE FlightInv'
  BY <1>17 DEF ReadFails, Ends
<1> QED
  BY <1>1, <1>2, <1>3, <1>4, <1>5, <1>6, <1>7, <1>8, <1>9, <1>10, <1>11,
     <1>12, <1>13, <1>14, <1>15, <1>16, <1>17 DEF Next, Try

LEMMA SilenceStep == TypeOK /\ FlightInv /\ SilenceInv /\ [Next]_vars => SilenceInv'
<1> SUFFICES ASSUME TypeOK, FlightInv, SilenceInv, [Next]_vars PROVE SilenceInv'
  OBVIOUS
<1> USE DEF TypeOK, FlightInv, SilenceInv, Goes, PCs, database, history
<1>1. ASSUME NEW c \in Checks, NEW k \in Keys, Begin(c, k) PROVE SilenceInv'
  BY <1>1 DEF Begin
<1>2. ASSUME NEW c \in Checks, ReadSettings(c) PROVE SilenceInv'
  BY <1>2 DEF ReadSettings
<1>3. ASSUME NEW c \in Checks, Look(c) PROVE SilenceInv'
  BY <1>3 DEF Look
<1>4. ASSUME NEW c \in Checks, Unpack(c) PROVE SilenceInv'
  BY <1>4 DEF Unpack, Takes, Kept
<1>5. ASSUME NEW c \in Checks, Dies(c) PROVE SilenceInv'
  BY <1>5 DEF Dies, Ends
<1>6. ASSUME NEW c \in Checks, Build(c) PROVE SilenceInv'
  BY <1>6 DEF Build, Takes
<1>7. ASSUME NEW c \in Checks, NEW n \in Channels, CheckThrottle(c, n) PROVE SilenceInv'
  BY ZenonT(40), <1>7 DEF CheckThrottle, Tried
<1>8. ASSUME NEW c \in Checks, NEW n \in Channels, Send(c, n) PROVE SilenceInv'
  BY <1>8 DEF Send
<1>9. ASSUME NEW c \in Checks, NEW n \in Channels, SendFails(c, n) PROVE SilenceInv'
  BY <1>9 DEF SendFails
<1>10. ASSUME NEW c \in Checks, NEW n \in Channels, Mark(c, n) PROVE SilenceInv'
  BY <1>10 DEF Mark, Tried
<1>11. ASSUME NEW c \in Checks, NEW n \in Channels, MarkFails(c, n) PROVE SilenceInv'
  BY <1>11 DEF MarkFails, Ends
<1>12. ASSUME NEW c \in Checks, End(c) PROVE SilenceInv'
  BY <1>12 DEF End, Ends
<1>13. ASSUME NEW s \in Settings, SaveSettings(s) PROVE SilenceInv'
  BY <1>13 DEF SaveSettings, thread
<1>14. CASE Tick
  BY <1>14 DEF Tick, thread
<1>15. CASE Crash
  BY <1>15 DEF Crash
<1>16. CASE UNCHANGED vars
  BY <1>16 DEF vars, database, thread, limits, history
<1>17. ASSUME NEW c \in Checks, ReadFails(c) PROVE SilenceInv'
  BY <1>17 DEF ReadFails, Ends
<1> QED
  BY <1>1, <1>2, <1>3, <1>4, <1>5, <1>6, <1>7, <1>8, <1>9, <1>10, <1>11,
     <1>12, <1>13, <1>14, <1>15, <1>16, <1>17 DEF Next, Try

LEMMA TriedStep == TypeOK /\ FlightInv /\ TriedInv /\ [Next]_vars => TriedInv'
<1> SUFFICES ASSUME TypeOK, FlightInv, TriedInv, [Next]_vars PROVE TriedInv'
  OBVIOUS
<1> USE DEF TypeOK, FlightInv, TriedInv, Dispatching, Goes, PCs
<1>1. ASSUME NEW c \in Checks, NEW k \in Keys, Begin(c, k) PROVE TriedInv'
  BY <1>1 DEF Begin
<1>2. ASSUME NEW c \in Checks, ReadSettings(c) PROVE TriedInv'
  BY <1>2 DEF ReadSettings
<1>3. ASSUME NEW c \in Checks, Look(c) PROVE TriedInv'
  BY <1>3 DEF Look
<1>4. ASSUME NEW c \in Checks, Unpack(c) PROVE TriedInv'
  BY <1>4 DEF Unpack, Takes, Kept, Reusable, Untried
<1>5. ASSUME NEW c \in Checks, Dies(c) PROVE TriedInv'
  BY <1>5 DEF Dies, Ends
<1>6. ASSUME NEW c \in Checks, Build(c) PROVE TriedInv'
  BY <1>6 DEF Build, Takes, Untried
<1>7. ASSUME NEW c \in Checks, NEW n \in Channels, CheckThrottle(c, n) PROVE TriedInv'
  <2>1. CASE IsThrottled(c, n)
    BY <1>7, <2>1 DEF CheckThrottle, Tried, Turn
  <2>2. CASE ~IsThrottled(c, n)
    BY SMTT(30), <1>7, <2>2 DEF CheckThrottle
  <2> QED
    BY <2>1, <2>2
<1>8. ASSUME NEW c \in Checks, NEW n \in Channels, Send(c, n) PROVE TriedInv'
  BY ZenonT(40), <1>8 DEF Send
<1>9. ASSUME NEW c \in Checks, NEW n \in Channels, SendFails(c, n) PROVE TriedInv'
  BY <1>9 DEF SendFails, AfterFailure, Turn
<1>10. ASSUME NEW c \in Checks, NEW n \in Channels, Mark(c, n) PROVE TriedInv'
  BY <1>10 DEF Mark, Tried, Turn
<1>11. ASSUME NEW c \in Checks, NEW n \in Channels, MarkFails(c, n) PROVE TriedInv'
  BY <1>11 DEF MarkFails, Ends
<1>12. ASSUME NEW c \in Checks, End(c) PROVE TriedInv'
  BY <1>12 DEF End, Ends
<1>13. ASSUME NEW s \in Settings, SaveSettings(s) PROVE TriedInv'
  BY <1>13 DEF SaveSettings, thread
<1>14. CASE Tick
  BY <1>14 DEF Tick, thread
<1>15. CASE Crash
  BY <1>15 DEF Crash
<1>16. CASE UNCHANGED vars
  BY <1>16 DEF vars, database, thread, limits, history
<1>17. ASSUME NEW c \in Checks, ReadFails(c) PROVE TriedInv'
  BY <1>17 DEF ReadFails, Ends
<1> QED
  BY <1>1, <1>2, <1>3, <1>4, <1>5, <1>6, <1>7, <1>8, <1>9, <1>10, <1>11,
     <1>12, <1>13, <1>14, <1>15, <1>16, <1>17 DEF Next, Try

\* A step that delivers and records nothing: every check goes on with the message
\* it has, or has tried nothing yet.
LEMMA ToldFrame ==
    ASSUME ToldInv, UNCHANGED <<throttle, told>>,
           \A c \in Checks :
              /\ pc'[c] = "mark" => /\ pc[c] = "mark"
                                    /\ left'[c] = left[c]
                                    /\ key'[c] = key[c]
                                    /\ attempted'[c] = attempted[c]
              /\ \/ outcome'[c] = Untried
                 \/ /\ outcome'[c] = outcome[c]
                    /\ key'[c] = key[c]
                    /\ attempted'[c] = attempted[c]
    PROVE  ToldInv'
<1>1. \A p \in Pairs : throttle'[p] # None => /\ told'[p] # None
                                               /\ throttle'[p] <= told'[p]
  BY DEF ToldInv
<1>2. ASSUME NEW c \in Checks, NEW n \in Channels, pc'[c] = "mark", Turn(c, n)'
      PROVE  /\ told'[Message(c, n)'] # None
             /\ told'[Message(c, n)'] >= attempted'[c]
  BY <1>2 DEF ToldInv, Turn, Message
<1>3. ASSUME NEW c \in Checks, NEW n \in Channels
      PROVE  /\ outcome'[c][n] = "sent" => /\ told'[Message(c, n)'] # None
                                           /\ told'[Message(c, n)'] >= attempted'[c]
             /\ outcome'[c][n] = "throttled" =>
                   /\ told'[Message(c, n)'] # None
                   /\ attempted'[c] < told'[Message(c, n)'] + Cooldown[n]
  <2>1. CASE outcome'[c] = Untried
    BY <2>1 DEF Untried
  <2>2. CASE /\ outcome'[c] = outcome[c]
             /\ key'[c] = key[c] /\ attempted'[c] = attempted[c]
    BY <2>2 DEF ToldInv, Message
  <2> QED
    BY <2>1, <2>2
<1> QED
  BY <1>1, <1>2, <1>3 DEF ToldInv

\* Facts on types, ready for arithmetic.
LEMMA ToldTypes ==
    ASSUME TypeOK
    PROVE  /\ \A p \in Pairs : /\ throttle[p] \in Nat \cup {None}
                              /\ told[p] \in Nat \cup {None}
           /\ \A c \in Checks : attempted[c] \in Nat
           /\ \A n \in Channels : Cooldown[n] \in Nat
  BY DEF TypeOK, Times

LEMMA InFlight ==
    ASSUME TypeOK, FlightInv, NEW c \in Checks, NEW n \in Channels, pc[c] # "idle"
    PROVE  Message(c, n) \in Pairs
  BY DEF TypeOK, FlightInv, Message, Pairs

LEMMA TriedInFlight ==
    ASSUME TypeOK, FlightInv, TriedInv, NEW c \in Checks, NEW n \in Channels,
           outcome[c][n] # "untried"
    PROVE  Message(c, n) \in Pairs
<1>1. pc[c] # "idle"
  BY DEF TriedInv, Dispatching, Untried
<1> QED
  BY <1>1, InFlight

LEMMA ToldStep ==
    TypeOK /\ FlightInv /\ TriedInv /\ ToldInv /\ [Next]_vars => ToldInv'
<1> SUFFICES ASSUME TypeOK, FlightInv, TriedInv, ToldInv, [Next]_vars
             PROVE  ToldInv'
  OBVIOUS
<1> USE DEF TypeOK, Goes, database, history
<1>1. ASSUME NEW c \in Checks, NEW k \in Keys, Begin(c, k) PROVE ToldInv'
  BY <1>1, ToldFrame DEF Begin, TriedInv, Dispatching
<1>2. ASSUME NEW c \in Checks, ReadSettings(c) PROVE ToldInv'
  BY <1>2, ToldFrame DEF ReadSettings
<1>3. ASSUME NEW c \in Checks, Look(c) PROVE ToldInv'
  BY <1>3, ToldFrame DEF Look
<1>4. ASSUME NEW c \in Checks, Unpack(c) PROVE ToldInv'
  BY <1>4, ToldFrame DEF Unpack, Takes
<1>5. ASSUME NEW c \in Checks, Dies(c) PROVE ToldInv'
  BY <1>5, ToldFrame DEF Dies, Ends
<1>6. ASSUME NEW c \in Checks, Build(c) PROVE ToldInv'
  BY <1>6, ToldFrame DEF Build, Takes
<1>7. ASSUME NEW c \in Checks, NEW n \in Channels, CheckThrottle(c, n) PROVE ToldInv'
  <2>1. CASE ~IsThrottled(c, n)
    BY <1>7, <2>1, ToldFrame DEF CheckThrottle
  <2>2. CASE IsThrottled(c, n)
    <3>1. /\ Tried(c, n, "throttled") /\ pc' = [pc EXCEPT ![c] = pc'[c]]
          /\ pc'[c] # "mark"
      BY <1>7, <2>2 DEF CheckThrottle, Tried
    <3>2. /\ Message(c, n) \in Pairs
          /\ told[Message(c, n)] # None
          /\ attempted[c] < told[Message(c, n)] + Cooldown[n]
      BY <1>7, <2>2, InFlight, ToldTypes DEF CheckThrottle, IsThrottled, ToldInv
    <3>3. /\ outcome' = [outcome EXCEPT ![c][n] = "throttled"]
          /\ left' = [left EXCEPT ![c] = @ \ {n}]
          /\ UNCHANGED <<throttle, told, key, attempted>>
      BY <1>7, <3>1 DEF CheckThrottle, Tried
    <3> QED
      BY ZenonT(40), <3>1, <3>2, <3>3 DEF ToldInv, Turn, Message
  <2> QED
    BY <2>1, <2>2
<1>8. ASSUME NEW c \in Checks, NEW n \in Channels, Send(c, n) PROVE ToldInv'
  <2>1. /\ Message(c, n) \in Pairs
        /\ \A p \in Pairs \ {Message(c, n)} : told'[p] = told[p]
        /\ told'[Message(c, n)] # None
        /\ told'[Message(c, n)] >= attempted[c]
        /\ told[Message(c, n)] # None => told'[Message(c, n)] >= told[Message(c, n)]
        /\ told'[Message(c, n)] \in Nat
    BY <1>8, InFlight, ToldTypes DEF Send, Later
  <2>2. \A p \in Pairs : told[p] # None => /\ told'[p] \in Nat
                                            /\ told'[p] >= told[p]
    BY <2>1, ToldTypes
  <2>3. \A p \in Pairs : throttle'[p] # None => /\ told'[p] # None
                                                 /\ throttle'[p] <= told'[p]
    BY <1>8, <2>2, ToldTypes DEF Send, ToldInv
  <2>4. ASSUME NEW d \in Checks, NEW m \in Channels, pc'[d] = "mark", Turn(d, m)'
        PROVE  /\ told'[Message(d, m)'] # None
               /\ told'[Message(d, m)'] >= attempted'[d]
    <3>1. Turn(d, m) /\ Message(d, m)' = Message(d, m) /\ attempted' = attempted
      BY <1>8, <2>4 DEF Send, Turn, Message
    <3>2. CASE d = c
      BY <1>8, <2>1, <3>1, <3>2, OneTurn DEF Send
    <3>3. CASE d # c
      <4>1. pc[d] = "mark"
        BY <1>8, <2>4, <3>3 DEF Send, Goes, TypeOK
      <4>2. Message(d, m) \in Pairs
        BY <4>1, InFlight
      <4> QED
        BY <2>2, <3>1, <4>1, <4>2, ToldTypes DEF ToldInv
    <3> QED
      BY <3>2, <3>3
  <2>5. ASSUME NEW d \in Checks, NEW m \in Channels
        PROVE  /\ outcome'[d][m] = "sent" => /\ told'[Message(d, m)'] # None
                                             /\ told'[Message(d, m)'] >= attempted'[d]
               /\ outcome'[d][m] = "throttled" =>
                     /\ told'[Message(d, m)'] # None
                     /\ attempted'[d] < told'[Message(d, m)'] + Cooldown[m]
    <3>1. /\ Message(d, m)' = Message(d, m)
          /\ UNCHANGED <<attempted, outcome>>
      BY <1>8 DEF Send, Message
    <3>2. CASE outcome[d][m] \in {"sent", "throttled"}
      <4>1. Message(d, m) \in Pairs
        BY <3>2, TriedInFlight
      <4> QED
        BY <2>2, <3>1, <4>1, ToldTypes DEF ToldInv
    <3>3. CASE outcome[d][m] \notin {"sent", "throttled"}
      BY <3>1, <3>3
    <3> QED
      BY <3>2, <3>3
  <2> QED
    BY <2>3, <2>4, <2>5 DEF ToldInv
<1>9. ASSUME NEW c \in Checks, NEW n \in Channels, SendFails(c, n) PROVE ToldInv'
  <2>1. /\ outcome' = [outcome EXCEPT ![c][n] = "failed"]
        /\ UNCHANGED <<throttle, told, key, attempted>>
        /\ pc' = [pc EXCEPT ![c] = pc'[c]]
        /\ pc'[c] # "mark"
        /\ \A d \in Checks \ {c} : left'[d] = left[d]
    BY <1>9 DEF SendFails
  <2> QED
    BY ZenonT(40), <2>1 DEF ToldInv, Turn, Message
<1>10. ASSUME NEW c \in Checks, NEW n \in Channels, Mark(c, n) PROVE ToldInv'
  <2>1. /\ outcome' = [outcome EXCEPT ![c][n] = "sent"]
        /\ throttle' = [throttle EXCEPT ![Message(c, n)] = attempted[c]]
        /\ UNCHANGED <<told, key, attempted>>
        /\ pc' = [pc EXCEPT ![c] = pc'[c]]
        /\ pc'[c] # "mark"
        /\ \A d \in Checks \ {c} : left'[d] = left[d]
    BY <1>10 DEF Mark, Tried, Stored
  <2>2. /\ Message(c, n) \in Pairs
        /\ told[Message(c, n)] # None
        /\ told[Message(c, n)] >= attempted[c]
    BY <1>10, InFlight DEF Mark, ToldInv
  <2>3. \A p \in Pairs : throttle'[p] # None => /\ told'[p] # None
                                                 /\ throttle'[p] <= told'[p]
    BY <2>1, <2>2, ToldTypes DEF ToldInv
  <2>4. \A d \in Checks, m \in Channels :
            pc'[d] = "mark" /\ Turn(d, m)' =>
                /\ told'[Message(d, m)'] # None
                /\ told'[Message(d, m)'] >= attempted'[d]
    BY <2>1 DEF ToldInv, Turn, Message
  <2>5. \A d \in Checks, m \in Channels :
            /\ outcome'[d][m] = "sent" => /\ told'[Message(d, m)'] # None
                                          /\ told'[Message(d, m)'] >= attempted'[d]
            /\ outcome'[d][m] = "throttled" =>
                  /\ told'[Message(d, m)'] # None
                  /\ attempted'[d] < told'[Message(d, m)'] + Cooldown[m]
    <3>1. TAKE d \in Checks, m \in Channels
    <3>2. Message(d, m)' = Message(d, m)
      BY <2>1 DEF Message
    <3>3. CASE d = c /\ m = n
      BY <2>1, <2>2, <3>2, <3>3
    <3>4. CASE ~(d = c /\ m = n)
      <4>1. outcome'[d][m] = outcome[d][m]
        BY <2>1, <3>4
      <4> QED
        BY <2>1, <3>2, <4>1 DEF ToldInv
    <3> QED
      BY <3>3, <3>4
  <2> QED
    BY <2>3, <2>4, <2>5 DEF ToldInv
<1>11. ASSUME NEW c \in Checks, NEW n \in Channels, MarkFails(c, n) PROVE ToldInv'
  BY <1>11, ToldFrame DEF MarkFails, Ends
<1>12. ASSUME NEW c \in Checks, End(c) PROVE ToldInv'
  BY <1>12, ToldFrame DEF End, Ends
<1>13. ASSUME NEW s \in Settings, SaveSettings(s) PROVE ToldInv'
  BY <1>13, ToldFrame DEF SaveSettings, thread
<1>14. CASE Tick
  BY <1>14, ToldFrame DEF Tick, thread
<1>15. CASE Crash
  BY <1>15, ToldFrame DEF Crash
<1>16. CASE UNCHANGED vars
  BY <1>16, ToldFrame DEF vars, thread
<1>17. ASSUME NEW c \in Checks, ReadFails(c) PROVE ToldInv'
  BY <1>17, ToldFrame DEF ReadFails, Ends
<1> QED
  BY <1>1, <1>2, <1>3, <1>4, <1>5, <1>6, <1>7, <1>8, <1>9, <1>10, <1>11,
     <1>12, <1>13, <1>14, <1>15, <1>16, <1>17 DEF Next, Try

LEMMA AloneStep == TypeOK /\ FlightInv /\ AloneInv /\ [Next]_vars => AloneInv'
<1> SUFFICES ASSUME TypeOK, FlightInv, AloneInv, [Next]_vars PROVE AloneInv'
  OBVIOUS
<1> USE DEF TypeOK, FlightInv, AloneInv, Goes, Times, PCs, Pairs, Message, database, history, limits
<1>1. ASSUME NEW c \in Checks, NEW k \in Keys, Begin(c, k) PROVE AloneInv'
  BY <1>1 DEF Begin
<1>2. ASSUME NEW c \in Checks, ReadSettings(c) PROVE AloneInv'
  BY <1>2 DEF ReadSettings
<1>3. ASSUME NEW c \in Checks, Look(c) PROVE AloneInv'
  BY <1>3 DEF Look
<1>4. ASSUME NEW c \in Checks, Unpack(c) PROVE AloneInv'
  BY <1>4 DEF Unpack, Takes
<1>5. ASSUME NEW c \in Checks, Dies(c) PROVE AloneInv'
  BY <1>5 DEF Dies, Ends
<1>6. ASSUME NEW c \in Checks, Build(c) PROVE AloneInv'
  BY <1>6 DEF Build, Takes
<1>7. ASSUME NEW c \in Checks, NEW n \in Channels, CheckThrottle(c, n) PROVE AloneInv'
  BY <1>7 DEF CheckThrottle, Tried
<1>8. ASSUME NEW c \in Checks, NEW n \in Channels, Send(c, n) PROVE AloneInv'
  BY <1>8 DEF Send, Later
<1>9. ASSUME NEW c \in Checks, NEW n \in Channels, SendFails(c, n) PROVE AloneInv'
  BY <1>9 DEF SendFails
<1>10. ASSUME NEW c \in Checks, NEW n \in Channels, Mark(c, n) PROVE AloneInv'
  BY <1>10 DEF Mark, Tried
<1>11. ASSUME NEW c \in Checks, NEW n \in Channels, MarkFails(c, n) PROVE AloneInv'
  BY <1>11 DEF MarkFails, Ends
<1>12. ASSUME NEW c \in Checks, End(c) PROVE AloneInv'
  BY <1>12 DEF End, Ends
<1>13. ASSUME NEW s \in Settings, SaveSettings(s) PROVE AloneInv'
  BY <1>13 DEF SaveSettings, thread
<1>14. CASE Tick
  BY <1>14 DEF Tick, thread
<1>15. CASE Crash
  BY <1>15 DEF Crash
<1>16. CASE UNCHANGED vars
  BY <1>16 DEF vars, database, thread, limits, history
<1>17. ASSUME NEW c \in Checks, ReadFails(c) PROVE AloneInv'
  BY <1>17 DEF ReadFails, Ends
<1> QED
  BY <1>1, <1>2, <1>3, <1>4, <1>5, <1>6, <1>7, <1>8, <1>9, <1>10, <1>11,
     <1>12, <1>13, <1>14, <1>15, <1>16, <1>17 DEF Next, Try

\* A step that delivers and records nothing, lets no check go on to send, and
\* drops a record that is being made only where that is remembered.
LEMMA RecordFrame ==
    ASSUME RecordInv, UNCHANGED <<throttle, told>>, disturbed \subseteq disturbed',
           \A c \in Checks, n \in Channels : pc[c] = "mark" /\ Turn(c, n) =>
              \/ <<n, key[c]>> \in disturbed'
              \/ pc'[c] = "mark" /\ Turn(c, n)' /\ key'[c] = key[c],
           \A c \in Checks : alone'[c] /\ pc'[c] = "send" =>
              /\ alone[c] /\ pc[c] = "send"
              /\ left'[c] = left[c]
              /\ key'[c] = key[c]
              /\ attempted'[c] = attempted[c]
    PROVE  RecordInv'
<1>1. ASSUME NEW n \in Channels, NEW k \in Keys, <<n, k>> \notin disturbed'
      PROVE  \/ throttle'[<<n, k>>] = told'[<<n, k>>]
             \/ \E c \in Checks : pc'[c] = "mark" /\ Turn(c, n)' /\ key'[c] = k
  <2>1. CASE throttle[<<n, k>>] = told[<<n, k>>]
    BY <2>1
  <2>2. CASE \E c \in Checks : pc[c] = "mark" /\ Turn(c, n) /\ key[c] = k
    <3>1. PICK c \in Checks : pc[c] = "mark" /\ Turn(c, n) /\ key[c] = k
      BY <2>2
    <3> QED
      BY <1>1, <3>1
  <2> QED
    BY <1>1, <2>1, <2>2 DEF RecordInv
<1>2. ASSUME NEW c \in Checks, NEW n \in Channels,
             alone'[c], pc'[c] = "send", Turn(c, n)'
      PROVE  ~IsThrottled(c, n)'
  <2>1. Turn(c, n) /\ alone[c] /\ pc[c] = "send"
    BY <1>2 DEF Turn
  <2>2. IsThrottled(c, n)' <=> IsThrottled(c, n)
    BY <1>2 DEF IsThrottled, Message
  <2> QED
    BY <2>1, <2>2 DEF RecordInv
<1> QED
  BY <1>1, <1>2 DEF RecordInv

LEMMA RecordStep ==
    TypeOK /\ FlightInv /\ ToldInv /\ AloneInv /\ RecordInv /\ [Next]_vars
        => RecordInv'
<1> SUFFICES ASSUME TypeOK, FlightInv, ToldInv, AloneInv, RecordInv, [Next]_vars
             PROVE  RecordInv'
  OBVIOUS
<1> USE DEF TypeOK, Goes, Turn, database, history
<1>1. ASSUME NEW c \in Checks, NEW k \in Keys, Begin(c, k) PROVE RecordInv'
  BY <1>1, RecordFrame DEF Begin
<1>2. ASSUME NEW c \in Checks, ReadSettings(c) PROVE RecordInv'
  BY <1>2, RecordFrame DEF ReadSettings
<1>3. ASSUME NEW c \in Checks, Look(c) PROVE RecordInv'
  BY <1>3, RecordFrame DEF Look
<1>4. ASSUME NEW c \in Checks, Unpack(c) PROVE RecordInv'
  BY ZenonT(40), <1>4, RecordFrame DEF Unpack, Takes
<1>5. ASSUME NEW c \in Checks, Dies(c) PROVE RecordInv'
  BY <1>5, RecordFrame DEF Dies, Ends
<1>6. ASSUME NEW c \in Checks, Build(c) PROVE RecordInv'
  BY <1>6, RecordFrame DEF Build, Takes
<1>7. ASSUME NEW c \in Checks, NEW n \in Channels, CheckThrottle(c, n)
      PROVE  RecordInv'
  <2>1. CASE IsThrottled(c, n)
    BY ZenonT(40), <1>7, <2>1, RecordFrame DEF CheckThrottle, Tried
  <2>2. CASE ~IsThrottled(c, n)
    <3>1. /\ UNCHANGED <<throttle, told, disturbed, alone, key, attempted, left>>
          /\ pc[c] = "throttle"
          /\ pc' = [pc EXCEPT ![c] = "send"]
      BY <1>7, <2>2 DEF CheckThrottle
    <3>2. ASSUME NEW m \in Channels, NEW k \in Keys, <<m, k>> \notin disturbed'
          PROVE  \/ throttle'[<<m, k>>] = told'[<<m, k>>]
                 \/ \E d \in Checks : pc'[d] = "mark" /\ Turn(d, m)' /\ key'[d] = k
      BY <3>1, <3>2 DEF RecordInv
    <3>3. ASSUME NEW d \in Checks, NEW m \in Channels,
                 alone'[d], pc'[d] = "send", Turn(d, m)'
          PROVE  ~IsThrottled(d, m)'
      <4>1. IsThrottled(d, m)' <=> IsThrottled(d, m)
        BY <3>1 DEF IsThrottled, Message
      <4>2. Turn(d, m) /\ alone[d]
        BY <3>1, <3>3
      <4>3. CASE d = c
        <5>1. m = n
          BY <1>7, <4>2, <4>3, OneTurn DEF CheckThrottle
        <5> QED
          BY <2>2, <4>1, <4>3, <5>1
      <4>4. CASE d # c
        BY <3>1, <3>3, <4>1, <4>2, <4>4 DEF RecordInv
      <4> QED
        BY <4>3, <4>4
    <3> QED
      BY <3>2, <3>3 DEF RecordInv
  <2> QED
    BY <2>1, <2>2
<1>8. ASSUME NEW c \in Checks, NEW n \in Channels, Send(c, n)
      PROVE  RecordInv'
  <2>1. /\ UNCHANGED <<throttle, disturbed, alone, key, attempted, left>>
        /\ pc[c] = "send" /\ pc' = [pc EXCEPT ![c] = "mark"]
        /\ \A p \in Pairs \ {Message(c, n)} : told'[p] = told[p]
    BY <1>8 DEF Send
  <2>2. ASSUME NEW m \in Channels, NEW k \in Keys, <<m, k>> \notin disturbed'
        PROVE  \/ throttle'[<<m, k>>] = told'[<<m, k>>]
               \/ \E d \in Checks : pc'[d] = "mark" /\ Turn(d, m)' /\ key'[d] = k
    <3>1. CASE <<m, k>> = Message(c, n)
      <4>1. pc'[c] = "mark" /\ Turn(c, m)' /\ key'[c] = k
        BY <1>8, <2>1, <3>1 DEF Send, Message
      <4> QED
        BY <4>1
    <3>2. CASE <<m, k>> # Message(c, n)
      <4>1. told'[<<m, k>>] = told[<<m, k>>]
        BY <2>1, <3>2 DEF Pairs
      <4> QED
        BY <2>1, <2>2, <4>1 DEF RecordInv
    <3> QED
      BY <3>1, <3>2
  <2>3. ASSUME NEW d \in Checks, NEW m \in Channels,
               alone'[d], pc'[d] = "send", Turn(d, m)'
        PROVE  ~IsThrottled(d, m)'
    <3>1. IsThrottled(d, m)' <=> IsThrottled(d, m)
      BY <2>1 DEF IsThrottled, Message
    <3>2. Turn(d, m) /\ alone[d] /\ pc[d] = "send"
      BY <2>1, <2>3
    <3> QED
      BY <3>1, <3>2 DEF RecordInv
  <2> QED
    BY <2>2, <2>3 DEF RecordInv
<1>9. ASSUME NEW c \in Checks, NEW n \in Channels, SendFails(c, n) PROVE RecordInv'
  BY <1>9, RecordFrame DEF SendFails
<1>10. ASSUME NEW c \in Checks, NEW n \in Channels, Mark(c, n)
      PROVE  RecordInv'
  <2>1. /\ throttle' = [throttle EXCEPT ![Message(c, n)] = attempted[c]]
        /\ UNCHANGED <<told, alone, key, attempted>>
        /\ left' = [left EXCEPT ![c] = @ \ {n}]
        /\ pc[c] = "mark" /\ pc' = [pc EXCEPT ![c] = pc'[c]]
        /\ pc'[c] \in {"done", "throttle"}
        /\ Message(c, n) \in Pairs
    BY <1>10, InFlight DEF Mark, Tried, Stored
  <2>2. ASSUME NEW m \in Channels, NEW k \in Keys, <<m, k>> \notin disturbed'
        PROVE  \/ throttle'[<<m, k>>] = told'[<<m, k>>]
               \/ \E d \in Checks : pc'[d] = "mark" /\ Turn(d, m)' /\ key'[d] = k
    <3>1. CASE <<m, k>> = Message(c, n)
      <4>1. alone[c]
        BY <1>10, <2>2, <3>1 DEF Mark
      <4>2. told[Message(c, n)] = attempted[c]
        <5>1. told[Message(c, n)] # None /\ told[Message(c, n)] >= attempted[c]
          BY <1>10 DEF Mark, ToldInv
        <5>2. told[Message(c, n)] <= attempted[c]
          BY <4>1, <5>1 DEF AloneInv, Message
        <5>3. told[Message(c, n)] \in Nat /\ attempted[c] \in Nat
          BY <2>1, <5>1, ToldTypes
        <5> QED
          BY ONLY <5>1, <5>2, <5>3
      <4>3. throttle'[Message(c, n)] = attempted[c]
        BY <2>1
      <4> QED
        BY <2>1, <3>1, <4>2, <4>3
    <3>2. CASE <<m, k>> # Message(c, n)
      <4>1. <<m, k>> \notin disturbed /\ throttle'[<<m, k>>] = throttle[<<m, k>>]
        BY <1>10, <2>1, <2>2, <3>2 DEF Mark, Pairs
      <4>2. CASE throttle[<<m, k>>] = told[<<m, k>>]
        BY <2>1, <4>1, <4>2
      <4>3. CASE \E d \in Checks : pc[d] = "mark" /\ Turn(d, m) /\ key[d] = k
        <5>1. PICK d \in Checks : pc[d] = "mark" /\ Turn(d, m) /\ key[d] = k
          BY <4>3
        <5>2. d # c
          <6>1. SUFFICES ASSUME d = c PROVE m = n /\ key[c] = k
            BY <3>2 DEF Message
          <6> QED
            BY <1>10, <5>1, <6>1, OneTurn DEF Mark
        <5> QED
          BY <2>1, <5>1, <5>2
      <4> QED
        BY <4>1, <4>2, <4>3 DEF RecordInv
    <3> QED
      BY <3>1, <3>2
  <2>3. ASSUME NEW d \in Checks, NEW m \in Channels,
               alone'[d], pc'[d] = "send", Turn(d, m)'
        PROVE  ~IsThrottled(d, m)'
    <3>1. d # c /\ alone[d] /\ pc[d] = "send" /\ Turn(d, m)
      BY <2>1, <2>3
    <3>2. key[c] # key[d]
      BY <3>1 DEF AloneInv
    <3>3. IsThrottled(d, m)' <=> IsThrottled(d, m)
      <4>1. Message(d, m)' = Message(d, m) /\ Message(d, m) # Message(c, n)
        BY <2>1, <3>2 DEF Message
      <4>2. throttle'[Message(d, m)] = throttle[Message(d, m)]
        BY <2>1, <3>1, <4>1, InFlight
      <4> QED
        BY <2>1, <4>1, <4>2 DEF IsThrottled
    <3> QED
      BY <3>1, <3>3 DEF RecordInv
  <2> QED
    BY <2>2, <2>3 DEF RecordInv
<1>11. ASSUME NEW c \in Checks, NEW n \in Channels, MarkFails(c, n) PROVE RecordInv'
  BY <1>11, RecordFrame DEF MarkFails, Ends, Message
<1>12. ASSUME NEW c \in Checks, End(c) PROVE RecordInv'
  BY <1>12, RecordFrame DEF End, Ends
<1>13. ASSUME NEW s \in Settings, SaveSettings(s) PROVE RecordInv'
  BY <1>13, RecordFrame DEF SaveSettings, thread
<1>14. CASE Tick
  BY <1>14, RecordFrame DEF Tick, thread
<1>15. CASE Crash
  BY <1>15, RecordFrame DEF Crash, Pairs, FlightInv
<1>16. CASE UNCHANGED vars
  BY <1>16, RecordFrame DEF vars, thread
<1>17. ASSUME NEW c \in Checks, ReadFails(c) PROVE RecordInv'
  BY <1>17, RecordFrame DEF ReadFails, Ends
<1> QED
  BY <1>1, <1>2, <1>3, <1>4, <1>5, <1>6, <1>7, <1>8, <1>9, <1>10, <1>11,
     <1>12, <1>13, <1>14, <1>15, <1>16, <1>17 DEF Next, Try

-----------------------------------------------------------------------------
LEMMA StepInv == IInv /\ [Next]_vars => IInv'
  BY TypeStep, FlightStep, TriedStep, ToldStep, SilenceStep, AloneStep, RecordStep
     DEF IInv

THEOREM Inductive == Spec => []IInv
  BY InitInv, StepInv, PTL DEF Spec

\* The settings, the records and what the threads hold keep their types.
THEOREM TypeCorrect == Spec => []TypeOK
  BY Inductive, PTL DEF IInv

\* A channel is not sent the same message twice within its cooldown, except after
\* the disturbances that PersistentNotificationThrottle does not guard against.
THEOREM OncePerCooldown == Spec => CooldownKept
<1>1. ASSUME IInv, NEW c \in Checks, NEW n \in Channels, Send(c, n), alone[c],
             Message(c, n) \notin disturbed, told[Message(c, n)] # None
      PROVE  attempted[c] >= told[Message(c, n)] + Cooldown[n]
  <2>1. pc[c] = "send" /\ Turn(c, n) /\ ~IsThrottled(c, n)
    BY <1>1 DEF Send, IInv, RecordInv
  <2>2. Message(c, n) \in Pairs /\ key[c] \in Keys
    BY <1>1, <2>1, InFlight DEF IInv, Message, Pairs
  <2>3. throttle[Message(c, n)] = told[Message(c, n)]
    <3>1. SUFFICES ASSUME NEW d \in Checks, pc[d] = "mark", key[d] = key[c]
                   PROVE  FALSE
      BY <1>1, <2>2 DEF IInv, RecordInv, Message
    <3>2. d # c
      BY <2>1, <3>1
    <3> QED
      BY <1>1, <3>1, <3>2 DEF IInv, AloneInv
  <2>4. /\ told[Message(c, n)] \in Nat
        /\ attempted[c] \in Nat
        /\ Cooldown[n] \in Nat
    BY <1>1, <2>2, ToldTypes DEF IInv
  <2> QED
    BY <1>1, <2>1, <2>3, <2>4 DEF IsThrottled
<1>2. IInv /\ [Next]_vars =>
        [\A c \in Checks, n \in Channels :
            Send(c, n) /\ alone[c] /\ Message(c, n) \notin disturbed
            => \/ told[Message(c, n)] = None
               \/ attempted[c] >= told[Message(c, n)] + Cooldown[n]]_vars
  BY <1>1
<1> QED
  BY <1>2, Inductive, PTL DEF Spec, CooldownKept

\* A dispatch result tells every channel of the settings read, and tells the truth.
THEOREM Outcome == Spec => []OutcomeTrue
<1>1. ASSUME IInv PROVE OutcomeTrue
  <2>1. SUFFICES ASSUME NEW c \in Checks, pc[c] = "done"
                 PROVE  /\ {n \in Channels : outcome[c][n] # "untried"}
                                = seen[c].enabled
                        /\ \A n \in seen[c].enabled :
                              /\ outcome[c][n] = "sent" =>
                                    /\ told[Message(c, n)] # None
                                    /\ told[Message(c, n)] >= attempted[c]
                              /\ outcome[c][n] = "throttled" =>
                                    /\ told[Message(c, n)] # None
                                    /\ attempted[c] < told[Message(c, n)] + Cooldown[n]
    BY DEF OutcomeTrue
  <2>2. left[c] = {} /\ \A n \in Channels : outcome[c][n] # "untried"
                                             <=> n \in seen[c].enabled
    BY <1>1, <2>1 DEF IInv, TriedInv, Dispatching
  <2>3. seen[c].enabled \subseteq Channels
    BY <1>1, <2>1 DEF IInv, FlightInv, Settings
  <2> QED
    BY <1>1, <2>2, <2>3 DEF IInv, ToldInv
<1> QED
  BY <1>1, Inductive, PTL

\* No thread sends with the dispatcher another thread built from other settings.
THEOREM OwnSettings == Spec => SettingsHonoured
<1>1. IInv /\ [Next]_vars =>
        [\A c \in Checks, n \in Channels :
            Send(c, n) => n \in seen[c].enabled /\ using[c] = seen[c]]_vars
  BY DEF IInv, TriedInv, Dispatching, Send, Turn
<1> QED
  BY <1>1, Inductive, PTL DEF Spec, SettingsHonoured

\* The race for the cache needs settings without any channel.
THEOREM RaceNeedsSilence == Spec => DiesOnlyAfterSilence
<1>1. IInv /\ [Next]_vars => [\A c \in Checks : Dies(c) => silent]_vars
  BY DEF IInv, SilenceInv, Dies
<1> QED
  BY <1>1, Inductive, PTL DEF Spec, DiesOnlyAfterSilence

=============================================================================
