---------------------------- MODULE EngineProofs ----------------------------
(***************************************************************************)
(* Proofs about SessionTable and Engine, for every value of their           *)
(* constants: sessions and their announcements; then what the logic server   *)
(* reads, with no frame of a session after its SessionClose, the data of a   *)
(* session in order, and no data of a session that was not named.            *)
(***************************************************************************)
EXTENDS Engine, FiniteSetTheorems, TLAPS

\* The assumptions in the form the provers use them.
LEMMA Constants ==
    /\ MaxSessions \in Nat /\ MaxChallenges \in Nat /\ MaxData \in Nat /\ MaxGaps \in Nat
    /\ MaxConnects \in Nat /\ MaxTicks \in Nat /\ MaxKicks \in Nat
    /\ UpQueueCap \in Nat \ {0} /\ CanDrain \in BOOLEAN
    /\ Bursts \subseteq Nat
    /\ WorkerOf \in [Peers -> Workers]
    /\ Workers \subseteq Tasks /\ "maintenance" \in Tasks /\ "drain" \in Tasks
    /\ Ids = 1 .. MaxSessions /\ Challenges = 1 .. MaxChallenges
  BY TableAssumption, EngineAssumption DEF Tasks, Ids, Challenges
-----------------------------------------------------------------------------
(* Sequences and the sets of their elements.                               *)

LEMMA ToSetType ==
    ASSUME NEW S, NEW q \in Seq(S)
    PROVE  ToSet(q) \subseteq S
  BY DEF ToSet

LEMMA ToSetAppend ==
    ASSUME NEW S, NEW q \in Seq(S), NEW e \in S
    PROVE  ToSet(Append(q, e)) = ToSet(q) \cup {e}
<1>1. /\ DOMAIN Append(q, e) = DOMAIN q \cup {Len(q) + 1}
      /\ Append(q, e)[Len(q) + 1] = e
      /\ \A i \in DOMAIN q : Append(q, e)[i] = q[i]
  OBVIOUS
<1>. QED  BY <1>1 DEF ToSet

LEMMA ToSetTail ==
    ASSUME NEW S, NEW q \in Seq(S), q # <<>>
    PROVE  /\ Head(q) \in S /\ Tail(q) \in Seq(S)
           /\ Len(Tail(q)) = Len(q) - 1
           /\ ToSet(q) = ToSet(Tail(q)) \cup {Head(q)}
<1>1. /\ Len(q) \in Nat /\ Len(q) # 0 /\ Head(q) = q[1] /\ 1 \in DOMAIN q
      /\ Tail(q) \in Seq(S) /\ Len(Tail(q)) = Len(q) - 1
      /\ DOMAIN Tail(q) = 1 .. Len(q) - 1 /\ DOMAIN q = 1 .. Len(q)
      /\ \A i \in DOMAIN Tail(q) : Tail(q)[i] = q[i + 1]
  OBVIOUS
<1>2. ASSUME NEW i \in DOMAIN q, i # 1 PROVE q[i] \in ToSet(Tail(q))
  <2>1. i - 1 \in DOMAIN Tail(q) /\ (i - 1) + 1 = i
    BY <1>1, <1>2
  <2>2. Tail(q)[i - 1] = q[i]
    BY <1>1, <2>1
  <2>. QED  BY <2>1, <2>2 DEF ToSet
<1>3. ASSUME NEW i \in DOMAIN Tail(q) PROVE Tail(q)[i] \in ToSet(q)
  <2>1. i + 1 \in DOMAIN q /\ Tail(q)[i] = q[i + 1]
    BY <1>1
  <2>. QED  BY <2>1 DEF ToSet
<1>4. ToSet(q) \subseteq ToSet(Tail(q)) \cup {Head(q)}
  BY <1>1, <1>2 DEF ToSet
<1>5. ToSet(Tail(q)) \subseteq ToSet(q) /\ Head(q) \in ToSet(q)
  BY <1>1, <1>3 DEF ToSet
<1>. QED  BY <1>1, <1>4, <1>5

\* A task pushes its events from the front.
LEMMA PushedFirst ==
    ASSUME NEW S, NEW q \in Seq(S), q # <<>>
    PROVE  RemoveAt(q, 1) = Tail(q)
  BY DEF RemoveAt

LEMMA ToSetEmpty == ToSet(<<>>) = {}
  BY DEF ToSet

\* An enumeration of a finite set leaves nothing out.
LEMMA Enumeration ==
    ASSUME NEW S, IsFiniteSet(S), NEW order \in SetToSeqs(S)
    PROVE  order \in Seq(S) /\ ToSet(order) = S
<1>. DEFINE D == 1 .. Cardinality(S)
<1>1. Cardinality(S) \in Nat
  BY FS_CardinalityType
<1>2. order \in [D -> S] /\ \A i, j \in D : i # j => order[i] # order[j]
  BY DEF SetToSeqs
<1>3. order \in Injection(D, S)
  BY <1>2 DEF Injection, IsInjective
<1>4. Cardinality(D) = Cardinality(S)
  BY <1>1, FS_Interval
<1>5. order \in Surjection(D, S)
  BY <1>3, <1>4, FS_Injection
<1>. QED  BY <1>1, <1>2, <1>5 DEF ToSet, Surjection
-----------------------------------------------------------------------------
(* The events and the outboxes.                                            *)

\* All the events that some task has still to push.
Held == UNION {ToSet(outbox[t]) : t \in Tasks}

LEMMA EventType ==
    /\ \A s \in Ids : {Open(s), Close(s), Resume(s), Stats(s)} \subseteq Events
    /\ \A s \in Ids, n \in 0 .. MaxData : Data(s, n) \in Events
    /\ Overload \in Events
  BY Constants DEF Events, Event, Open, Close, Resume, Stats, Data, Overload

\* Events of different kinds, or of different sessions, are different.
LEMMA EventsDiffer ==
    ASSUME NEW s, NEW r
    PROVE  /\ Open(s) = Open(r) => s = r
           /\ Resume(s) = Resume(r) => s = r
           /\ Open(s) # Resume(r) /\ Open(s) # Close(r) /\ Resume(s) # Close(r)
           /\ Open(s) # Stats(r) /\ Resume(s) # Stats(r)
           /\ Open(s) # Overload /\ Resume(s) # Overload
           /\ \A n : Open(s) # Data(r, n) /\ Resume(s) # Data(r, n)
  BY DEF Event, Open, Close, Resume, Stats, Data, Overload

\* A task that has nothing in hand takes the events it has produced.
LEMMA ProduceHolds ==
    ASSUME outbox \in [Tasks -> Seq(Events)], NEW t \in Tasks,
           NEW events \in Seq(Events), Produce(t, events)
    PROVE  /\ outbox' \in [Tasks -> Seq(Events)]
           /\ Idle(t) => Held' = Held \cup ToSet(events)
<1>1. outbox' \in [Tasks -> Seq(Events)]
  BY DEF Produce
<1>2. ASSUME Idle(t) PROVE Held' = Held \cup ToSet(events)
  <2>1. /\ outbox'[t] = events /\ ToSet(outbox[t]) = {}
        /\ \A r \in Tasks \ {t} : outbox'[r] = outbox[r]
    BY <1>2, ToSetEmpty DEF Produce, Idle
  <2>2. Held' = UNION {ToSet(outbox'[r]) : r \in Tasks}
    BY DEF Held
  <2>3. ASSUME NEW e \in Held' PROVE e \in Held \cup ToSet(events)
    <3>1. PICK r \in Tasks : e \in ToSet(outbox'[r])
      BY <2>2, <2>3
    <3>. QED  BY <2>1, <3>1 DEF Held
  <2>4. ASSUME NEW e \in Held PROVE e \in Held'
    <3>1. PICK r \in Tasks : e \in ToSet(outbox[r])
      BY <2>4 DEF Held
    <3>2. r # t
      BY <2>1, <3>1
    <3>. QED  BY <2>1, <2>2, <3>1, <3>2
  <2>5. ToSet(events) \subseteq Held'
    BY <2>1, <2>2
  <2>. QED  BY <2>3, <2>4, <2>5
<1>. QED  BY <1>1, <1>2
-----------------------------------------------------------------------------
(* Type correctness.                                                       *)

LEMMA SessionTypes ==
    ASSUME TableTypeOK, NEW s \in Ids, sessions[s].state # "none"
    PROVE  /\ sessions[s] \in [peer : Peers, state : {"active", "grace"},
                               rx : 0 .. MaxData, gaps : 0 .. MaxGaps]
           /\ Live(s)
  BY DEF TableTypeOK, Live, NoSession

\* A session of the table is active or in its grace period.
LEMMA LiveState ==
    ASSUME TableTypeOK, NEW s \in Ids
    PROVE  /\ Live(s) => sessions[s].state \in {"active", "grace"}
           /\ ~Live(s) => sessions[s].state = "none"
  BY DEF TableTypeOK, Live, NoSession

LEMMA FiniteIds == IsFiniteSet(Ids) /\ \A S \in SUBSET Ids : IsFiniteSet(S)
<1>1. IsFiniteSet(Ids)
  BY Constants, FS_Interval
<1>. QED  BY <1>1, FS_Subset

\* The events of an enumeration of sessions: Closes, and the round of statistics.
LEMMA EnumeratedEvents ==
    ASSUME NEW S \in SUBSET Ids, NEW order \in SetToSeqs(S)
    PROVE  /\ Closes(order) \in Seq(Events)
           /\ ToSet(Closes(order)) = {Close(s) : s \in S}
           /\ [i \in DOMAIN order |-> Stats(order[i])] \in Seq(Events)
           /\ ToSet([i \in DOMAIN order |-> Stats(order[i])]) = {Stats(s) : s \in S}
<1>1. order \in Seq(S) /\ ToSet(order) = S
  BY FiniteIds, Enumeration
<1>2. /\ \A i \in DOMAIN order : order[i] \in S
      /\ \A s \in S : \E i \in DOMAIN order : order[i] = s
      /\ DOMAIN order = 1 .. Len(order) /\ Len(order) \in Nat
  BY <1>1 DEF ToSet
<1>3. \A i \in DOMAIN order : Close(order[i]) \in Events /\ Stats(order[i]) \in Events
  BY <1>2, EventType
<1>. QED  BY <1>2, <1>3 DEF ToSet, Closes

\* handle_handshake.
LEMMA HandleHandshakeType ==
    ASSUME TableTypeOK, NEW p \in Peers, NEW body, NEW expired \in SUBSET Peers,
           HandleHandshake(p, body, expired)
    PROVE  TableTypeOK'
<1>. DEFINE open == Unexpired(expired)
<1>1. open \in [Peers -> Challenges \cup {NoChallenge}]
  BY DEF Unexpired, TableTypeOK
<1>. HIDE DEF open
<1>2. CASE IssueChallenge(p, body, open)
  <2>1. issued + 1 \in Challenges /\ issued' \in 0 .. MaxChallenges
    BY <1>2, Constants DEF IssueChallenge, TableTypeOK
  <2>2. pending' \in [Peers -> Challenges \cup {NoChallenge}]
    BY <1>1, <1>2, <2>1 DEF IssueChallenge
  <2>3. told' \in [Peers -> SUBSET Challenges]
    BY <1>2, <2>1 DEF IssueChallenge, TableTypeOK
  <2>4. UNCHANGED <<sessions, nextId, outbox, origin, gone>>
    BY <1>2 DEF IssueChallenge, HandleHandshake
  <2>. QED  BY <2>1, <2>2, <2>3, <2>4 DEF TableTypeOK
<1>3. CASE open[p] # NoChallenge /\ CreateSession(p, open)
  <2>1. nextId \in Ids /\ nextId' \in 1 .. MaxSessions + 1
    BY <1>3, Constants DEF CreateSession, TableTypeOK
  <2>2. pending' \in [Peers -> Challenges \cup {NoChallenge}]
    BY <1>1, <1>3 DEF CreateSession, Spent
  <2>3. NewSession(p) \in [peer : Peers, state : {"active", "grace"},
                           rx : 0 .. MaxData, gaps : 0 .. MaxGaps]
    BY Constants DEF NewSession
  <2>4. sessions' \in [Ids -> [peer : Peers, state : {"active", "grace"},
                               rx : 0 .. MaxData, gaps : 0 .. MaxGaps]
                              \cup {NoSession}]
    BY <1>3, <2>1, <2>3 DEF CreateSession, TableTypeOK
  <2>5. <<p, open[p]>> \in Peers \X Challenges
    BY <1>1, <1>3
  <2>6. origin' \in [Ids -> (Peers \X Challenges) \cup {NoOrigin}]
    BY <1>3, <2>1, <2>5 DEF CreateSession, TableTypeOK
  <2>7. outbox' \in [Tasks -> Seq(Events)]
    <3>1. WorkerOf[p] \in Tasks /\ <<Open(nextId)>> \in Seq(Events)
      BY <2>1, Constants, EventType
    <3>. QED  BY <1>3, <3>1, ProduceHolds DEF CreateSession, TableTypeOK
  <2>8. UNCHANGED <<issued, told, gone>>
    BY <1>3 DEF CreateSession, HandleHandshake
  <2>. QED  BY <2>1, <2>2, <2>4, <2>6, <2>7, <2>8 DEF TableTypeOK
<1>4. CASE pending' = open
           /\ UNCHANGED <<sessions, nextId, outbox, issued, told, origin>>
  <2>1. UNCHANGED gone
    BY DEF HandleHandshake
  <2>. QED  BY <1>1, <1>4, <2>1 DEF TableTypeOK
<1>. QED  BY <1>2, <1>3, <1>4 DEF HandleHandshake, open

\* handle_session_packet: what it releases is numbered on.
LEMMA ReleasedType ==
    ASSUME TableTypeOK, NEW s \in Ids, NEW released \in Bursts,
           sessions[s].state = "active", sessions[s].rx + released <= MaxData
    PROVE  /\ [i \in 1 .. released |-> Data(s, sessions[s].rx + i)] \in Seq(Events)
           /\ sessions[s].rx + released \in 0 .. MaxData
           /\ released \in Nat
<1>1. released \in Nat /\ sessions[s].rx \in 0 .. MaxData
  BY Constants, SessionTypes
<1>2. ASSUME NEW i \in 1 .. released PROVE Data(s, sessions[s].rx + i) \in Events
  <2>1. sessions[s].rx + i \in 0 .. MaxData
    BY <1>1, Constants
  <2>. QED  BY <2>1, EventType
<1>. QED  BY <1>1, <1>2, Constants

LEMMA HandleSessionPacketType ==
    ASSUME TableTypeOK, NEW p \in Peers, NEW s \in Ids, NEW released \in Bursts,
           HandleSessionPacket(p, s, released)
    PROVE  TableTypeOK'
<1>. DEFINE old == sessions[s]
            new == [old EXCEPT !.peer = p, !.state = "active"]
            Row == [peer : Peers, state : {"active", "grace"},
                    rx : 0 .. MaxData, gaps : 0 .. MaxGaps]
<1>1. old \in Row /\ new \in Row /\ new.gaps = old.gaps /\ new.rx = old.rx
  <2>1. old \in Row
    BY LiveState, SessionTypes DEF HandleSessionPacket
  <2>. QED  BY <2>1
<1>2. WorkerOf[p] \in Tasks
  BY Constants
<1>3. CASE /\ old.gaps < MaxGaps
           /\ sessions' = [sessions EXCEPT ![s] = [new EXCEPT !.gaps = @ + 1]]
           /\ Produce(WorkerOf[p], <<Resume(s)>>)
  <2>1. [new EXCEPT !.gaps = @ + 1] \in Row
    <3>1. old.gaps + 1 \in 0 .. MaxGaps
      <4>1. old.gaps \in 0 .. MaxGaps /\ old.gaps < MaxGaps
        BY <1>1, <1>3
      <4>. QED  BY <4>1, Constants
    <3>. QED  BY <1>1, <3>1
  <2>2. <<Resume(s)>> \in Seq(Events)
    BY EventType
  <2>3. outbox' \in [Tasks -> Seq(Events)]
    BY <1>2, <1>3, <2>2, ProduceHolds DEF TableTypeOK
  <2>4. sessions' \in [Ids -> Row \cup {NoSession}]
    BY <1>3, <2>1 DEF TableTypeOK
  <2>. QED  BY <2>3, <2>4 DEF TableTypeOK, HandleSessionPacket, handshakeVars
<1>4. CASE /\ old.state = "active" /\ old.rx + released <= MaxData
           /\ sessions' = [sessions EXCEPT ![s] = [new EXCEPT !.rx = @ + released]]
           /\ Produce(WorkerOf[p], [i \in 1 .. released |-> Data(s, old.rx + i)])
  <2>1. /\ [i \in 1 .. released |-> Data(s, old.rx + i)] \in Seq(Events)
        /\ old.rx + released \in 0 .. MaxData
    BY <1>4, ReleasedType
  <2>2. [new EXCEPT !.rx = @ + released] \in Row
    BY <1>1, <2>1
  <2>3. outbox' \in [Tasks -> Seq(Events)]
    BY <1>2, <1>4, <2>1, ProduceHolds DEF TableTypeOK
  <2>4. sessions' \in [Ids -> Row \cup {NoSession}]
    BY <1>4, <2>2 DEF TableTypeOK
  <2>. QED  BY <2>3, <2>4 DEF TableTypeOK, HandleSessionPacket, handshakeVars
<1>. QED  BY <1>3, <1>4 DEF HandleSessionPacket

LEMMA VanishType ==
    ASSUME TableTypeOK, NEW s \in Ids, Vanish(s)
    PROVE  TableTypeOK'
  BY DEF TableTypeOK, Vanish, handshakeVars

LEMMA MaintainType ==
    ASSUME TableTypeOK, NEW idle, NEW over, Maintain(idle, over)
    PROVE  TableTypeOK'
<1>1. over \in SUBSET Ids /\ idle \in SUBSET InState("active")
  BY DEF Maintain, InState
<1>2. sessions' \in [Ids -> [peer : Peers, state : {"active", "grace"},
                             rx : 0 .. MaxData, gaps : 0 .. MaxGaps]
                            \cup {NoSession}]
  <2>1. ASSUME NEW s \in Ids, s \in idle
        PROVE  [sessions[s] EXCEPT !.state = "grace"]
                  \in [peer : Peers, state : {"active", "grace"},
                       rx : 0 .. MaxData, gaps : 0 .. MaxGaps]
    BY <1>1, <2>1, SessionTypes DEF InState
  <2>. QED  BY <2>1 DEF Maintain, TableTypeOK
<1>3. PICK order \in SetToSeqs(over) : Produce("maintenance", Closes(order))
  BY DEF Maintain, Ended
<1>4. outbox' \in [Tasks -> Seq(Events)]
  BY <1>1, <1>3, Constants, EnumeratedEvents, ProduceHolds DEF TableTypeOK
<1>. QED  BY <1>2, <1>4 DEF Maintain, TableTypeOK, handshakeVars

LEMMA KickType ==
    ASSUME TableTypeOK, NEW s \in Ids, Kick(s)
    PROVE  TableTypeOK'
  BY DEF TableTypeOK, Kick, Without, handshakeVars

LEMMA ShutdownAllType ==
    ASSUME TableTypeOK, ShutdownAll
    PROVE  TableTypeOK'
<1>1. LiveIds \in SUBSET Ids
  BY DEF LiveIds
<1>2. PICK order \in SetToSeqs(LiveIds) : Produce("drain", Closes(order))
  BY DEF ShutdownAll
<1>3. outbox' \in [Tasks -> Seq(Events)]
  BY <1>1, <1>2, Constants, EnumeratedEvents, ProduceHolds DEF TableTypeOK
<1>. QED  BY <1>3 DEF ShutdownAll, Without, TableTypeOK, handshakeVars
-----------------------------------------------------------------------------
(* The queue.                                                              *)

\* push_up: the event leaves the task that held it.
LEMMA Pushed ==
    ASSUME outbox \in [Tasks -> Seq(Events)], NEW t \in Tasks, PushUp(t)
    PROVE  /\ outbox[t] # <<>> /\ outbox[t][1] \in Events
           /\ outbox' \in [Tasks -> Seq(Events)]
           /\ outbox[t][1] \in Held
           /\ Held' \subseteq Held /\ Held \subseteq Held' \cup {outbox[t][1]}
<1>. DEFINE e == outbox[t][1]
<1>1. /\ outbox[t] # <<>> /\ outbox[t] \in Seq(Events)
      /\ outbox' = [outbox EXCEPT ![t] = RemoveAt(outbox[t], 1)]
  BY DEF PushUp, Idle, NextOf
<1>2. /\ outbox' = [outbox EXCEPT ![t] = Tail(outbox[t])]
      /\ e \in Events /\ Tail(outbox[t]) \in Seq(Events)
      /\ ToSet(outbox[t]) = ToSet(Tail(outbox[t])) \cup {e}
  <2>1. RemoveAt(outbox[t], 1) = Tail(outbox[t])
    BY <1>1, PushedFirst
  <2>2. e = Head(outbox[t])
    BY <1>1
  <2>. QED  BY <1>1, <2>1, <2>2, ToSetTail
<1>3. /\ ToSet(outbox[t]) = ToSet(outbox'[t]) \cup {e}
      /\ \A r \in Tasks \ {t} : outbox'[r] = outbox[r]
  BY <1>2
<1>4. Held' = UNION {ToSet(outbox'[r]) : r \in Tasks}
  BY DEF Held
<1>5. \A r \in Tasks : /\ ToSet(outbox'[r]) \subseteq ToSet(outbox[r])
                       /\ ToSet(outbox[r]) \subseteq ToSet(outbox'[r]) \cup {e}
  BY <1>3
<1>6. Held' \subseteq Held /\ Held \subseteq Held' \cup {e} /\ e \in Held
  <2>. HIDE DEF e
  <2>. QED  BY <1>3, <1>4, <1>5 DEF Held
<1>. QED  BY <1>1, <1>2, <1>6

\* push_frame, whatever the event: it is in the queue afterwards, or it is one
\* that may be lost, or nobody listens, or a reliable event has been dropped.
LEMMA PushedUp ==
    ASSUME outbox \in [Tasks -> Seq(Events)], upQueue \in Seq(Events),
           Len(upQueue) <= UpQueueCap, NEW t \in Tasks, PushUp(t)
    PROVE  LET e == outbox[t][1] IN
           /\ upQueue' \in Seq(Events) /\ Len(upQueue') <= UpQueueCap
           /\ \/ upQueue' = upQueue
              \/ Online /\ ToSet(upQueue') = ToSet(upQueue) \cup {e}
           /\ \/ e \in ToSet(upQueue')
              \/ link = "down" \/ e = Overload
              \/ Droppable(e) \/ "reliable" \in dropped'
           /\ dropped' \subseteq dropped \cup {"reliable", "stats"}
           /\ dropped \subseteq dropped'
<1>. DEFINE e == outbox[t][1]
<1>1. e \in Events
  BY Pushed
<1>2. UpQueueCap \in Nat
  BY Constants
<1>3. CASE UNCHANGED <<upQueue, dropped>> /\ e = Overload
  BY <1>3
<1>4. ASSUME NEW flag, PushFrame(e, flag)
      PROVE  /\ upQueue' \in Seq(Events) /\ Len(upQueue') <= UpQueueCap
             /\ \/ upQueue' = upQueue
                \/ Online /\ ToSet(upQueue') = ToSet(upQueue) \cup {e}
             /\ \/ e \in ToSet(upQueue')
                \/ link = "down"
                \/ Droppable(e) \/ "reliable" \in dropped'
             /\ dropped' \subseteq dropped \cup {"reliable", "stats"}
             /\ dropped \subseteq dropped'
  <2>. HIDE DEF e
  <2>1. CASE ~Online /\ UNCHANGED <<upQueue, dropped>>
    BY <2>1 DEF Online
  <2>2. CASE Online /\ ~Full /\ upQueue' = Append(upQueue, e) /\ UNCHANGED dropped
    <3>1. Len(upQueue) < UpQueueCap
      BY <1>2, <2>2 DEF Full
    <3>2. Append(upQueue, e) \in Seq(Events) /\ Len(Append(upQueue, e)) = Len(upQueue) + 1
      BY <1>1
    <3>3. ToSet(upQueue') = ToSet(upQueue) \cup {e}
      BY <1>1, <2>2, ToSetAppend
    <3>. QED  BY <1>2, <2>2, <3>1, <3>2, <3>3
  <2>3. CASE /\ UNCHANGED upQueue
             /\ dropped' = dropped \cup {IF Droppable(e) THEN "stats" ELSE "reliable"}
    BY <2>3
  <2>. QED  BY <1>4, <2>1, <2>2, <2>3 DEF PushFrame
<1>. QED  BY <1>3, <1>4 DEF PushUp, NextOf

LEMMA PushUpType ==
    ASSUME TypeOK, NEW t \in Tasks, PushUp(t)
    PROVE  TypeOK'
<1>1. /\ outbox \in [Tasks -> Seq(Events)] /\ upQueue \in Seq(Events)
      /\ Len(upQueue) <= UpQueueCap /\ dropped \subseteq {"reliable", "stats"}
  BY DEF TypeOK, TableTypeOK
<1>2. /\ outbox' \in [Tasks -> Seq(Events)] /\ upQueue' \in Seq(Events)
      /\ Len(upQueue') <= UpQueueCap /\ dropped' \subseteq {"reliable", "stats"}
  BY <1>1, Pushed, PushedUp
<1>3. pendingOverload' \in BOOLEAN
  BY DEF PushUp, PushFrame, NotifyOverload, TypeOK
<1>4. TableTypeOK'
  BY <1>2 DEF PushUp, TypeOK, TableTypeOK, handshakeVars
<1>. QED  BY <1>2, <1>3, <1>4 DEF PushUp, TypeOK

LEMMA SecondTickType ==
    ASSUME TypeOK, SecondTick
    PROVE  TypeOK'
<1>1. LiveIds \in SUBSET Ids
  BY DEF LiveIds
<1>2. PICK order \in SetToSeqs(LiveIds) :
         Produce("maintenance",
                 [i \in DOMAIN order |-> Stats(order[i])] \o <<Overload>>)
  BY DEF SecondTick
<1>3. [i \in DOMAIN order |-> Stats(order[i])] \o <<Overload>> \in Seq(Events)
  <2>1. [i \in DOMAIN order |-> Stats(order[i])] \in Seq(Events)
    BY <1>1, EnumeratedEvents
  <2>2. <<Overload>> \in Seq(Events)
    BY EventType
  <2>. QED  BY <2>1, <2>2
<1>4. outbox' \in [Tasks -> Seq(Events)]
  BY <1>2, <1>3, Constants, ProduceHolds DEF TypeOK, TableTypeOK
<1>5. ticks' \in 0 .. MaxTicks
  BY Constants DEF SecondTick, TypeOK
<1>6. TableTypeOK'
  BY <1>4 DEF SecondTick, TypeOK, TableTypeOK, handshakeVars
<1>. QED  BY <1>5, <1>6 DEF SecondTick, TypeOK, linkVars

\* The link: what it writes was in the queue, or names a session.
LEMMA LinkType ==
    ASSUME TypeOK,
           \/ Connect \/ Hello \/ RunLogicLink \/ WriteFrame \/ LinkBreak
           \/ \E s \in Ids : WriteResume(s)
    PROVE  TypeOK'
<1>1. /\ UNCHANGED tableVars
      /\ UNCHANGED <<mode, kicked, dropped, ticks, pendingOverload>>
  BY DEF Connect, Hello, RunLogicLink, WriteFrame, LinkBreak, WriteResume, linkOnly
<1>2. TableTypeOK'
  BY <1>1 DEF tableVars, TypeOK, TableTypeOK
<1>3. /\ link' \in LinkStates /\ resumes' \subseteq Ids
      /\ connects' \in 0 .. MaxConnects
  <2>1. /\ link \in LinkStates /\ resumes \subseteq Ids
        /\ connects \in 0 .. MaxConnects
    BY DEF TypeOK
  <2>2. CASE Connect
    BY <2>1, <2>2, Constants DEF Connect, LinkStates
  <2>3. CASE Hello
    BY <2>1, <2>3 DEF Hello, LinkStates, ToAnnounce, LiveIds
  <2>4. CASE RunLogicLink
    BY <2>1, <2>4 DEF RunLogicLink, LinkStates
  <2>5. CASE WriteFrame
    BY <2>1, <2>5 DEF WriteFrame
  <2>6. CASE LinkBreak
    BY <2>1, <2>6 DEF LinkBreak, LinkStates
  <2>7. CASE \E s \in Ids : WriteResume(s)
    BY <2>1, <2>7 DEF WriteResume
  <2>. QED  BY <2>2, <2>3, <2>4, <2>5, <2>6, <2>7
<1>4. /\ upQueue' \in Seq(Events) /\ Len(upQueue') <= UpQueueCap
      /\ feed' \in Seq(Events)
  <2>1. CASE WriteFrame
    <3>1. /\ upQueue \in Seq(Events) /\ upQueue # <<>> /\ feed \in Seq(Events)
          /\ Len(upQueue) <= UpQueueCap /\ Len(upQueue) \in Nat
      BY <2>1 DEF WriteFrame, TypeOK
    <3>2. /\ Head(upQueue) \in Events /\ Tail(upQueue) \in Seq(Events)
          /\ Len(Tail(upQueue)) = Len(upQueue) - 1
      BY <3>1, ToSetTail
    <3>. QED  BY <2>1, <3>1, <3>2, Constants DEF WriteFrame
  <2>2. CASE \E s \in Ids : WriteResume(s)
    BY <2>2, EventType DEF WriteResume, TypeOK
  <2>3. CASE Connect \/ Hello \/ RunLogicLink \/ LinkBreak
    <3>1. upQueue' \in {upQueue, <<>>} /\ feed' \in {feed, <<>>}
      BY <2>3 DEF Connect, Hello, RunLogicLink, LinkBreak
    <3>2. <<>> \in Seq(Events) /\ Len(<<>>) = 0 /\ 0 <= UpQueueCap
      BY Constants
    <3>. QED  BY <3>1, <3>2 DEF TypeOK
  <2>. QED  BY <2>1, <2>2, <2>3
<1>. QED  BY <1>1, <1>2, <1>3, <1>4 DEF TypeOK

LEMMA InitType == Init => TypeOK
<1>. SUFFICES ASSUME Init PROVE TypeOK
  OBVIOUS
<1>1. TableTypeOK
  BY Constants DEF Init, TableInit, TableTypeOK
<1>2. <<>> \in Seq(Events) /\ Len(<<>>) = 0 /\ 0 <= UpQueueCap
  BY Constants
<1>3. 0 \in 0 .. MaxConnects /\ 0 \in 0 .. MaxTicks
  BY Constants
<1>. QED  BY <1>1, <1>2, <1>3 DEF Init, TypeOK, LinkStates

\* What the clients do leaves the engine's own variables alone.
LEMMA ClientType ==
    ASSUME TableTypeOK, ClientNext
    PROVE  TableTypeOK'
  BY HandleHandshakeType, HandleSessionPacketType, VanishType DEF ClientNext

LEMMA NextType == TypeOK /\ [Next]_vars => TypeOK'
<1>. SUFFICES ASSUME TypeOK, [Next]_vars PROVE TypeOK'
  OBVIOUS
<1>1. TableTypeOK
  BY DEF TypeOK
<1>2. CASE ClientNext /\ UNCHANGED engineVars
  BY <1>1, <1>2, ClientType DEF TypeOK, engineVars, linkVars
<1>3. ASSUME NEW idle, NEW over, MaintainTick(idle, over) PROVE TypeOK'
  BY <1>1, <1>3, MaintainType DEF MaintainTick, TypeOK, engineVars, linkVars
<1>4. ASSUME NEW t \in Tasks, PushUp(t) PROVE TypeOK'
  BY <1>4, PushUpType
<1>5. CASE SecondTick
  BY <1>5, SecondTickType
<1>6. CASE \/ Connect \/ Hello \/ RunLogicLink \/ WriteFrame \/ LinkBreak
           \/ \E s \in Ids : WriteResume(s)
  BY <1>6, LinkType
<1>7. ASSUME NEW s \in Ids, LogicKick(s) PROVE TypeOK'
  BY <1>1, <1>7, KickType DEF LogicKick, TypeOK, linkVars
<1>8. CASE Drain
  BY <1>1, <1>8, ShutdownAllType DEF Drain, TypeOK, linkVars
<1>9. CASE Exit
  BY <1>9 DEF Exit, TypeOK, TableTypeOK, tableVars, linkVars
<1>10. CASE UNCHANGED vars
  BY <1>10 DEF vars, tableVars, engineVars, linkVars, TypeOK, TableTypeOK
<1>. QED  BY <1>2, <1>3, <1>4, <1>5, <1>6, <1>7, <1>8, <1>9, <1>10 DEF Next, Step

\* Every variable of the engine keeps its shape, and the upstream queue never
\* exceeds UP_QUEUE_CAP, whichever task pushes (push_frame, try_send).
THEOREM TypeCorrect == Spec => []TypeOK
  BY InitType, NextType, PTL DEF Spec
-----------------------------------------------------------------------------
(* The handshake: one challenge, one session.                              *)

\* A challenge that is pending is its peer's alone, and nobody else knows it.
PendingIsOwn ==
    \A p \in Peers : pending[p] # NoChallenge =>
        \A q \in Peers \ {p} : pending[q] # pending[p] /\ pending[p] \notin told[q]

\* The challenge of a session is spent.
SpentIsPast ==
    \A s \in Ids : s < nextId =>
        /\ origin[s] \in Peers \X (1 .. issued)
        /\ \A p \in Peers : pending[p] # origin[s][2]

\* Challenges are numbered as they are issued.
IssuedSoFar ==
    \A p \in Peers : pending[p] \in 0 .. issued /\ told[p] \subseteq 1 .. issued

ChallengeInv == PendingIsOwn /\ SpentIsPast /\ IssuedSoFar /\ ChallengeUsedOnce

LEMMA ChallengeInit == Init => ChallengeInv
<1>. SUFFICES ASSUME Init PROVE ChallengeInv
  OBVIOUS
<1>1. nextId = 1 /\ issued = 0 /\ Ids \subseteq Nat \ {0}
  BY Constants DEF Init, TableInit
<1>2. \A p \in Peers : pending[p] = NoChallenge /\ told[p] = {}
  BY DEF Init, TableInit
<1>3. PendingIsOwn /\ IssuedSoFar
  BY <1>1, <1>2 DEF PendingIsOwn, IssuedSoFar, NoChallenge
<1>4. \A s \in Ids : ~(s < nextId)
  BY <1>1
<1>. QED  BY <1>3, <1>4 DEF ChallengeInv, SpentIsPast, ChallengeUsedOnce

\* handle_handshake, in each of its three outcomes.
LEMMA ChallengeHandshake ==
    ASSUME TableTypeOK, ChallengeInv, NEW p \in Peers,
           NEW body \in {Token} \cup UNION {told[q] : q \in Peers},
           NEW expired \in SUBSET Peers,
           HandleHandshake(p, body, expired)
    PROVE  ChallengeInv'
<1>. DEFINE open == Unexpired(expired)
<1>1. /\ issued \in Nat /\ nextId \in Nat /\ Ids \subseteq Nat
      /\ pending \in [Peers -> Challenges \cup {NoChallenge}]
      /\ told \in [Peers -> SUBSET Challenges]
      /\ origin \in [Ids -> (Peers \X Challenges) \cup {NoOrigin}]
      /\ NoChallenge = 0 /\ Challenges \subseteq Nat \ {0} /\ Token = -1
  <2>1. issued \in Nat /\ nextId \in Nat
    BY Constants DEF TableTypeOK
  <2>2. Ids \subseteq Nat /\ Challenges \subseteq Nat \ {0}
    BY Constants
  <2>. QED  BY <2>1, <2>2 DEF TableTypeOK, NoChallenge, Token
<1>2. /\ open \in [Peers -> Challenges \cup {NoChallenge}]
      /\ \A q \in Peers : open[q] = pending[q] \/ open[q] = NoChallenge
  BY <1>1 DEF Unexpired
<1>. HIDE DEF open
<1>3. CASE IssueChallenge(p, body, open)
  <2>1. /\ issued' = issued + 1 /\ issued' \in Nat
        /\ pending' = [open EXCEPT ![p] = issued + 1]
        /\ \A q \in Peers : told'[q] \subseteq told[q] \cup {issued + 1}
        /\ \A q \in Peers \ {p} : told'[q] = told[q]
        /\ \A q \in Peers : told[q] \subseteq told'[q]
        /\ UNCHANGED <<nextId, origin>>
    BY <1>1, <1>3 DEF IssueChallenge
  <2>2. \A q \in Peers : \/ q = p /\ pending'[q] = issued + 1
                         \/ q # p /\ pending'[q] = open[q]
    BY <1>2, <2>1
  <2>3. IssuedSoFar'
    BY <1>1, <1>2, <2>1, <2>2 DEF ChallengeInv, IssuedSoFar
  <2>4. PendingIsOwn'
    BY <1>1, <1>2, <2>1, <2>2 DEF ChallengeInv, IssuedSoFar, PendingIsOwn
  <2>5. SpentIsPast'
    <3>1. ASSUME NEW s \in Ids, s < nextId
          PROVE  /\ origin[s] \in Peers \X (1 .. issued')
                 /\ \A q \in Peers : pending'[q] # origin[s][2]
      <4>1. /\ origin[s] \in Peers \X (1 .. issued)
            /\ \A q \in Peers : pending[q] # origin[s][2]
        BY <3>1 DEF ChallengeInv, SpentIsPast
      <4>2. origin[s][2] \in 1 .. issued
        BY <4>1
      <4>3. \A q \in Peers : pending'[q] # origin[s][2]
        BY <1>1, <1>2, <2>2, <4>1, <4>2
      <4>. QED  BY <1>1, <2>1, <4>1, <4>3
    <3>. QED  BY <2>1, <3>1 DEF SpentIsPast
  <2>6. ChallengeUsedOnce'
    <3>1. \A s \in Ids : s < nextId => origin[s][1] \in Peers
      BY DEF ChallengeInv, SpentIsPast
    <3>. QED  BY <2>1, <3>1 DEF ChallengeInv, ChallengeUsedOnce
  <2>. QED  BY <2>3, <2>4, <2>5, <2>6 DEF ChallengeInv
<1>4. CASE open[p] # NoChallenge /\ body = open[p] /\ CreateSession(p, open)
  <2>1. /\ nextId \in Ids /\ nextId' = nextId + 1
        /\ pending' = [open EXCEPT ![p] = NoChallenge]
        /\ origin' = [origin EXCEPT ![nextId] = <<p, open[p]>>]
        /\ UNCHANGED <<issued, told>>
    BY <1>4, Constants DEF CreateSession, Spent, TableTypeOK
  <2>2. open[p] = pending[p] /\ pending[p] \in Challenges /\ pending[p] \in told[p]
    <3>1. open[p] = pending[p] /\ pending[p] \in Challenges
      BY <1>1, <1>2, <1>4
    <3>2. PICK q \in Peers : pending[p] \in told[q]
      BY <1>1, <1>4, <3>1
    <3>3. q = p
      BY <1>4, <3>1, <3>2 DEF ChallengeInv, PendingIsOwn
    <3>. QED  BY <3>1, <3>2, <3>3
  <2>3. \A q \in Peers : \/ pending'[q] = NoChallenge
                         \/ q # p /\ pending'[q] = pending[q]
    BY <1>2, <2>1
  <2>4. IssuedSoFar'
    BY <1>1, <2>1, <2>3 DEF ChallengeInv, IssuedSoFar
  <2>5. PendingIsOwn'
    BY <1>1, <2>1, <2>3 DEF ChallengeInv, PendingIsOwn
  <2>6. /\ origin'[nextId] = <<p, pending[p]>>
        /\ \A s \in Ids : s < nextId => origin'[s] = origin[s]
        /\ \A s \in Ids : s < nextId' => s < nextId \/ s = nextId
    BY <1>1, <2>1, <2>2
  <2>7. SpentIsPast'
    <3>1. ASSUME NEW s \in Ids, s < nextId
          PROVE  /\ origin'[s] \in Peers \X (1 .. issued')
                 /\ \A q \in Peers : pending'[q] # origin'[s][2]
      <4>1. /\ origin[s] \in Peers \X (1 .. issued)
            /\ \A q \in Peers : pending[q] # origin[s][2]
        BY <3>1 DEF ChallengeInv, SpentIsPast
      <4>2. origin[s][2] # NoChallenge
        BY <1>1, <4>1
      <4>. QED  BY <2>1, <2>3, <2>6, <3>1, <4>1, <4>2
    <3>2. /\ origin'[nextId] \in Peers \X (1 .. issued')
          /\ \A q \in Peers : pending'[q] # origin'[nextId][2]
      <4>1. pending[p] \in 1 .. issued
        BY <1>1, <2>2 DEF ChallengeInv, IssuedSoFar
      <4>2. \A q \in Peers : pending'[q] # pending[p]
        BY <1>1, <2>2, <2>3 DEF ChallengeInv, PendingIsOwn
      <4>. QED  BY <2>1, <2>6, <4>1, <4>2
    <3>. QED  BY <2>6, <3>1, <3>2 DEF SpentIsPast
  <2>8. ChallengeUsedOnce'
    <3>1. \A s \in Ids : s < nextId =>
             /\ origin'[s][2] \in told'[origin'[s][1]]
             /\ \A r \in Ids : r < s => origin'[r][2] # origin'[s][2]
      <4>1. \A r, s \in Ids : r < s /\ s < nextId => r < nextId
        BY <1>1
      <4>. QED  BY <2>1, <2>6, <4>1 DEF ChallengeInv, ChallengeUsedOnce
    <3>2. origin'[nextId][2] \in told'[origin'[nextId][1]]
      BY <2>1, <2>2, <2>6
    <3>3. \A r \in Ids : r < nextId => origin'[r][2] # origin'[nextId][2]
      BY <2>6 DEF ChallengeInv, SpentIsPast
    <3>. QED  BY <2>6, <3>1, <3>2, <3>3 DEF ChallengeUsedOnce
  <2>. QED  BY <2>4, <2>5, <2>7, <2>8 DEF ChallengeInv
<1>5. CASE pending' = open /\ UNCHANGED <<nextId, issued, told, origin>>
  <2>1. PendingIsOwn' /\ IssuedSoFar'
    BY <1>1, <1>2, <1>5 DEF ChallengeInv, PendingIsOwn, IssuedSoFar
  <2>2. SpentIsPast'
    <3>1. \A s \in Ids : s < nextId => origin[s][2] # NoChallenge
      BY <1>1 DEF ChallengeInv, SpentIsPast
    <3>. QED  BY <1>2, <1>5, <3>1 DEF ChallengeInv, SpentIsPast
  <2>3. ChallengeUsedOnce'
    BY <1>5 DEF ChallengeInv, ChallengeUsedOnce
  <2>. QED  BY <2>1, <2>2, <2>3 DEF ChallengeInv
<1>. QED  BY <1>3, <1>4, <1>5 DEF HandleHandshake, open

\* Nothing else touches what the handshake keeps.
LEMMA ChallengeNext ==
    TypeOK /\ ChallengeInv /\ [Next]_vars => ChallengeInv'
<1>. SUFFICES ASSUME TypeOK, ChallengeInv, [Next]_vars PROVE ChallengeInv'
  OBVIOUS
<1>1. ASSUME NEW p \in Peers,
             NEW body \in {Token} \cup UNION {told[q] : q \in Peers},
             NEW expired \in SUBSET {q \in Peers : pending[q] # NoChallenge},
             HandleHandshake(p, body, expired)
      PROVE  ChallengeInv'
  BY <1>1, ChallengeHandshake DEF TypeOK
<1>2. CASE UNCHANGED handshakeVars
  BY <1>2 DEF handshakeVars, ChallengeInv, PendingIsOwn, SpentIsPast, IssuedSoFar,
              ChallengeUsedOnce
<1>3. \/ UNCHANGED handshakeVars
      \/ \E p \in Peers : \E body \in {Token} \cup UNION {told[q] : q \in Peers} :
            \E expired \in SUBSET {q \in Peers : pending[q] # NoChallenge} :
               HandleHandshake(p, body, expired)
  BY DEF Next, Step, ClientNext, HandleSessionPacket, Vanish, MaintainTick, Maintain,
         PushUp, SecondTick, Connect, Hello, RunLogicLink, WriteFrame, LinkBreak,
         WriteResume, LogicKick, Kick, Drain, ShutdownAll, Exit, vars, tableVars,
         linkOnly, handshakeVars
<1>. QED  BY <1>1, <1>2, <1>3

\* A challenge admits one session, to the address it was sent to, whatever the
\* clients answer twice, late or from another address (handle_handshake).
THEOREM OneSessionPerChallenge == Spec => []ChallengeUsedOnce
<1>1. ChallengeInv => ChallengeUsedOnce
  BY DEF ChallengeInv
<1>. QED  BY <1>1, InitType, NextType, ChallengeInit, ChallengeNext, PTL DEF Spec
-----------------------------------------------------------------------------
(* What a step does to the events between the table and the logic server.  *)

Queued == ToSet(upQueue)
Fed == ToSet(feed)
Seen == Held \cup Queued \cup Fed

\* Some frame tells the logic server of s, or is going to.
Known(s) == Open(s) \in Seen \/ Resume(s) \in Seen \/ s \in resumes

LEMMA WhereEventsAre ==
    ASSUME NEW e
    PROVE  /\ InFeed(e) <=> e \in Fed
           /\ InTransit(e) <=> e \in Queued \cup Held
<1>1. InFeed(e) <=> e \in Fed
  BY DEF InFeed, Fed, ToSet
<1>2. (\E i \in DOMAIN upQueue : upQueue[i] = e) <=> e \in Queued
  BY DEF Queued, ToSet
<1>3. (\E t \in Tasks : \E i \in DOMAIN outbox[t] : outbox[t][i] = e) <=> e \in Held
  BY DEF Held, ToSet
<1>. QED  BY <1>1, <1>2, <1>3 DEF InTransit

\* A client's packet or request: a session is created and announced, or a live
\* one becomes active and releases events, or neither.
LEMMA ClientEffect ==
    ASSUME TypeOK, ClientNext
    PROVE  \/ UNCHANGED <<sessions, nextId>> /\ Held' = Held
           \/ /\ nextId \in Ids /\ nextId' = nextId + 1
              /\ sessions'[nextId].state = "active"
              /\ \A r \in Ids \ {nextId} : sessions'[r] = sessions[r]
              /\ Held' = Held \cup {Open(nextId)}
           \/ /\ UNCHANGED nextId
              /\ \E s \in Ids :
                    /\ Live(s) /\ sessions'[s].state = "active"
                    /\ \A r \in Ids \ {s} : sessions'[r] = sessions[r]
                    /\ Held \subseteq Held'
                    /\ Held' \subseteq Held \cup {Resume(s)}
                                       \cup {Data(s, n) : n \in 0 .. MaxData}
<1>1. /\ TableTypeOK /\ outbox \in [Tasks -> Seq(Events)]
      /\ sessions \in [Ids -> [peer : Peers, state : {"active", "grace"},
                               rx : 0 .. MaxData, gaps : 0 .. MaxGaps]
                              \cup {NoSession}]
  BY DEF TypeOK, TableTypeOK
<1>2. ASSUME UNCHANGED outbox PROVE Held' = Held
  BY <1>2 DEF Held
<1>3. ASSUME NEW p \in Peers, NEW body, NEW expired \in SUBSET Peers,
             HandleHandshake(p, body, expired)
      PROVE  \/ UNCHANGED <<sessions, nextId, outbox>>
             \/ /\ nextId \in Ids /\ nextId' = nextId + 1
                /\ sessions'[nextId].state = "active"
                /\ \A r \in Ids \ {nextId} : sessions'[r] = sessions[r]
                /\ Held' = Held \cup {Open(nextId)}
  <2>1. CASE CreateSession(p, Unexpired(expired))
    <3>1. /\ nextId \in Ids /\ WorkerOf[p] \in Tasks /\ Idle(WorkerOf[p])
          /\ <<Open(nextId)>> \in Seq(Events)
      <4>1. nextId \in Ids
        BY <2>1, Constants DEF CreateSession, TypeOK, TableTypeOK
      <4>. QED  BY <1>3, <4>1, Constants, EventType DEF HandleHandshake
    <3>2. Held' = Held \cup ToSet(<<Open(nextId)>>)
      BY <1>1, <2>1, <3>1, ProduceHolds DEF CreateSession
    <3>3. ToSet(<<Open(nextId)>>) = {Open(nextId)}
      BY DEF ToSet
    <3>4. sessions' = [sessions EXCEPT ![nextId] = NewSession(p)]
          /\ nextId' = nextId + 1
      BY <2>1 DEF CreateSession
    <3>. QED  BY <1>1, <3>1, <3>2, <3>3, <3>4 DEF NewSession
  <2>2. CASE UNCHANGED <<sessions, nextId, outbox>>
    BY <2>2
  <2>. QED  BY <1>3, <2>1, <2>2 DEF HandleHandshake, IssueChallenge
<1>4. ASSUME NEW p \in Peers, NEW s \in Ids, NEW released \in Bursts,
             HandleSessionPacket(p, s, released)
      PROVE  /\ UNCHANGED nextId
             /\ Live(s) /\ sessions'[s].state = "active"
             /\ \A r \in Ids \ {s} : sessions'[r] = sessions[r]
             /\ Held \subseteq Held'
             /\ Held' \subseteq Held \cup {Resume(s)}
                                \cup {Data(s, n) : n \in 0 .. MaxData}
  <2>. DEFINE old == sessions[s]
              new == [old EXCEPT !.peer = p, !.state = "active"]
              data == [i \in 1 .. released |-> Data(s, old.rx + i)]
  <2>1. WorkerOf[p] \in Tasks /\ Idle(WorkerOf[p]) /\ Live(s) /\ UNCHANGED nextId
    BY <1>4, Constants DEF HandleSessionPacket, handshakeVars
  <2>2. old \in [peer : Peers, state : {"active", "grace"},
                 rx : 0 .. MaxData, gaps : 0 .. MaxGaps]
    BY <1>1, <2>1 DEF Live
  <2>3. CASE /\ sessions' = [sessions EXCEPT ![s] = [new EXCEPT !.gaps = @ + 1]]
             /\ Produce(WorkerOf[p], <<Resume(s)>>)
    <3>1. <<Resume(s)>> \in Seq(Events) /\ ToSet(<<Resume(s)>>) = {Resume(s)}
      BY EventType DEF ToSet
    <3>2. Held' = Held \cup {Resume(s)}
      BY <1>1, <2>1, <2>3, <3>1, ProduceHolds
    <3>3. sessions'[s].state = "active"
          /\ \A r \in Ids \ {s} : sessions'[r] = sessions[r]
      BY <1>1, <2>2, <2>3
    <3>. QED  BY <2>1, <3>2, <3>3
  <2>4. CASE /\ old.state = "active" /\ old.rx + released <= MaxData
             /\ sessions' = [sessions EXCEPT ![s] = [new EXCEPT !.rx = @ + released]]
             /\ Produce(WorkerOf[p], data)
    <3>1. /\ data \in Seq(Events) /\ released \in Nat
          /\ old.rx + released \in 0 .. MaxData /\ old.rx \in Nat
      BY <1>1, <2>2, <2>4, ReleasedType
    <3>2. Held' = Held \cup ToSet(data)
      BY <1>1, <2>1, <2>4, <3>1, ProduceHolds
    <3>3. ToSet(data) \subseteq {Data(s, n) : n \in 0 .. MaxData}
      <4>1. ASSUME NEW i \in 1 .. released PROVE old.rx + i \in 0 .. MaxData
        <5>. DEFINE rx == old.rx
        <5>1. /\ rx \in Nat /\ released \in Nat /\ MaxData \in Nat
              /\ rx + released <= MaxData
          BY <2>4, <3>1, Constants
        <5>. HIDE DEF rx
        <5>2. rx + i \in 0 .. MaxData
          BY <5>1
        <5>. QED  BY <5>2 DEF rx
      <4>2. ToSet(data) = {Data(s, old.rx + i) : i \in 1 .. released}
        BY DEF ToSet
      <4>. QED  BY <4>1, <4>2
    <3>4. sessions'[s].state = "active"
          /\ \A r \in Ids \ {s} : sessions'[r] = sessions[r]
      BY <1>1, <2>2, <2>4
    <3>. QED  BY <2>1, <3>2, <3>3, <3>4
  <2>. QED  BY <1>4, <2>3, <2>4 DEF HandleSessionPacket
<1>5. ASSUME NEW s \in Ids, Vanish(s) PROVE UNCHANGED <<sessions, nextId, outbox>>
  BY <1>5 DEF Vanish, handshakeVars
<1>. QED  BY <1>2, <1>3, <1>4, <1>5 DEF ClientNext

\* maintain: who falls silent has nothing under way, who is over is announced.
LEMMA MaintainEffect ==
    ASSUME TypeOK, NEW idle, NEW over, Maintain(idle, over)
    PROVE  /\ idle \subseteq Ids /\ over \subseteq Ids /\ UNCHANGED nextId
           /\ \A s \in over : sessions[s].state = "grace"
           /\ \A s \in Ids : \/ s \in over /\ ~Live(s)'
                             \/ s \notin over /\ Live(s) = Live(s)'
           /\ \A s \in Ids \ (idle \cup over) : sessions'[s] = sessions[s]
           /\ Held' = Held \cup {Close(s) : s \in over}
           /\ \A s \in idle : Open(s) \notin Held /\ Resume(s) \notin Held
<1>1. /\ TableTypeOK /\ outbox \in [Tasks -> Seq(Events)]
      /\ idle \subseteq InState("active") /\ over \subseteq InState("grace")
      /\ idle \subseteq Ids /\ over \subseteq Ids /\ UNCHANGED nextId
  BY DEF TypeOK, TableTypeOK, Maintain, InState, handshakeVars
<1>2. \A s \in over : sessions[s].state = "grace"
  BY <1>1 DEF InState
<1>3. ASSUME NEW s \in Ids
      PROVE  \/ s \in over /\ ~Live(s)'
             \/ s \notin over /\ Live(s) = Live(s)'
  <2>1. CASE s \in over
    BY <2>1 DEF Maintain, Live
  <2>2. CASE s \notin over /\ s \notin idle
    BY <2>2 DEF Maintain, Live
  <2>3. CASE s \notin over /\ s \in idle
    <3>1. /\ sessions[s] \in [peer : Peers, state : {"active", "grace"},
                              rx : 0 .. MaxData, gaps : 0 .. MaxGaps]
          /\ Live(s)
      BY <1>1, <2>3, SessionTypes DEF InState
    <3>2. sessions'[s].state = "grace"
      BY <2>3, <3>1 DEF Maintain
    <3>. QED  BY <2>3, <3>1, <3>2 DEF Live, NoSession
  <2>. QED  BY <2>1, <2>2, <2>3
<1>4. \A s \in Ids \ (idle \cup over) : sessions'[s] = sessions[s]
  BY DEF Maintain
<1>5. PICK order \in SetToSeqs(over) : Produce("maintenance", Closes(order))
  BY DEF Maintain, Ended
<1>6. Held' = Held \cup {Close(s) : s \in over}
  <2>1. /\ Closes(order) \in Seq(Events)
        /\ ToSet(Closes(order)) = {Close(s) : s \in over}
    BY <1>1, EnumeratedEvents
  <2>. QED  BY <1>1, <1>5, <2>1, Constants, ProduceHolds DEF Maintain
<1>7. ASSUME NEW s \in idle PROVE Open(s) \notin Held /\ Resume(s) \notin Held
  <2>1. \A t \in Tasks : \A i \in DOMAIN outbox[t] : outbox[t][i].s # s
    BY DEF Maintain, Settled
  <2>2. Open(s).s = s /\ Resume(s).s = s
    BY DEF Open, Resume, Event
  <2>. QED  BY <2>1, <2>2 DEF Held, ToSet
<1>. QED  BY <1>1, <1>2, <1>3, <1>4, <1>6, <1>7

\* push_up: what a task lets go of is queued, or there is an excuse.
LEMMA PushEffect ==
    ASSUME TypeOK, NEW t \in Tasks, PushUp(t)
    PROVE  /\ UNCHANGED <<sessions, nextId, link, feed, resumes, kicked, mode>>
           /\ dropped \subseteq dropped'
           /\ link = "down" => UNCHANGED upQueue
           /\ \E e \in Held :
                 /\ Held' \subseteq Held /\ Held \subseteq Held' \cup {e}
                 /\ Queued \subseteq Queued' /\ Queued' \subseteq Queued \cup {e}
                 /\ \/ e \in Queued' \/ link = "down" \/ "reliable" \in dropped'
                    \/ e = Overload \/ e.ev = "stats"
<1>. DEFINE e == outbox[t][1]
<1>1. /\ outbox \in [Tasks -> Seq(Events)] /\ upQueue \in Seq(Events)
      /\ Len(upQueue) <= UpQueueCap
  BY DEF TypeOK, TableTypeOK
<1>2. e \in Held /\ Held' \subseteq Held /\ Held \subseteq Held' \cup {e}
  BY <1>1, Pushed
<1>3. /\ \/ upQueue' = upQueue
         \/ Online /\ ToSet(upQueue') = ToSet(upQueue) \cup {e}
      /\ \/ e \in ToSet(upQueue') \/ link = "down" \/ e = Overload
         \/ Droppable(e) \/ "reliable" \in dropped'
      /\ dropped \subseteq dropped'
  BY <1>1, PushedUp
<1>4. UNCHANGED <<sessions, nextId, link, feed, resumes, kicked, mode>>
  BY DEF PushUp, handshakeVars
<1>. HIDE DEF e
<1>5. Queued \subseteq Queued' /\ Queued' \subseteq Queued \cup {e}
  BY <1>3 DEF Queued
<1>. QED  BY <1>2, <1>3, <1>4, <1>5 DEF Queued, Droppable, Online

\* The link only moves what has been queued, and names the sessions it collected.
LEMMA WriteEffect ==
    ASSUME TypeOK, WriteFrame
    PROVE  Seen' = Seen /\ Held' = Held /\ UNCHANGED resumes
<1>1. upQueue \in Seq(Events) /\ upQueue # <<>> /\ feed \in Seq(Events)
  BY DEF WriteFrame, TypeOK
<1>2. Head(upQueue) \in Events /\ Queued = ToSet(Tail(upQueue)) \cup {Head(upQueue)}
  BY <1>1, ToSetTail DEF Queued
<1>3. Fed' = Fed \cup {Head(upQueue)} /\ Queued' = ToSet(Tail(upQueue))
  BY <1>1, <1>2, ToSetAppend DEF WriteFrame, Fed, Queued
<1>4. Held' = Held
  BY DEF WriteFrame, linkOnly, tableVars, Held
<1>5. UNCHANGED resumes
  BY DEF WriteFrame
<1>. QED  BY <1>2, <1>3, <1>4, <1>5 DEF Seen

LEMMA ResumeEffect ==
    ASSUME TypeOK, NEW s \in Ids, WriteResume(s)
    PROVE  /\ Held' = Held /\ Seen' = Seen \cup {Resume(s)}
           /\ s \in resumes /\ resumes' = resumes \ {s}
<1>1. feed \in Seq(Events) /\ Resume(s) \in Events
  BY EventType DEF TypeOK
<1>2. Fed' = Fed \cup {Resume(s)}
  BY <1>1, ToSetAppend DEF WriteResume, Fed
<1>3. Held' = Held /\ Queued' = Queued
  BY DEF WriteResume, linkOnly, tableVars, Held, Queued
<1>. QED  BY <1>2, <1>3 DEF Seen, WriteResume

\* The round of statistics brings nothing new about any session.
LEMMA SecondTickEffect ==
    ASSUME TypeOK, SecondTick
    PROVE  Held' = Held \cup {Stats(s) : s \in LiveIds} \cup {Overload}
<1>1. LiveIds \in SUBSET Ids /\ outbox \in [Tasks -> Seq(Events)]
  BY DEF LiveIds, TypeOK, TableTypeOK
<1>2. PICK order \in SetToSeqs(LiveIds) :
         Produce("maintenance",
                 [i \in DOMAIN order |-> Stats(order[i])] \o <<Overload>>)
  BY DEF SecondTick
<1>. DEFINE stats == [i \in DOMAIN order |-> Stats(order[i])]
<1>3. stats \in Seq(Events) /\ ToSet(stats) = {Stats(s) : s \in LiveIds}
  BY <1>1, EnumeratedEvents
<1>. HIDE DEF stats
<1>4. stats \o <<Overload>> = Append(stats, Overload) /\ Overload \in Events
  BY <1>3, EventType
<1>5. Append(stats, Overload) \in Seq(Events)
      /\ ToSet(Append(stats, Overload)) = ToSet(stats) \cup {Overload}
  BY <1>3, <1>4, ToSetAppend
<1>6. Idle("maintenance") /\ "maintenance" \in Tasks
  BY Constants DEF SecondTick
<1>7. Held' = Held \cup ToSet(Append(stats, Overload))
  BY <1>1, <1>2, <1>4, <1>5, <1>6, ProduceHolds DEF stats
<1>. QED  BY <1>3, <1>5, <1>7
-----------------------------------------------------------------------------
(* Every session is announced.                                             *)

\* EverySessionAnnounced in the terms of the proof; it is inductive.
AllKnown ==
    link \in {"resume", "up"} /\ "reliable" \notin dropped =>
        \A s \in Ids : Live(s) => Known(s)

LEMMA KnownGrows ==
    ASSUME NEW s, Known(s), Seen \subseteq Seen', resumes \subseteq resumes'
    PROVE  Known(s)'
  BY DEF Known

LEMMA AllKnownNext ==
    ASSUME TypeOK, AllKnown, [Next]_vars
    PROVE  AllKnown'
<1>. SUFFICES ASSUME link' \in {"resume", "up"}, "reliable" \notin dropped',
                     NEW s \in Ids, Live(s)'
              PROVE  Known(s)'
  BY DEF AllKnown
<1>1. CASE ClientNext /\ UNCHANGED engineVars
  <2>1. Queued' = Queued /\ Fed' = Fed /\ UNCHANGED <<link, dropped, resumes>>
    BY <1>1 DEF engineVars, linkVars, Queued, Fed
  <2>2. Held \subseteq Held' /\ Seen \subseteq Seen'
    BY <1>1, <2>1, ClientEffect DEF Seen
  <2>3. CASE Live(s)
    BY <2>1, <2>2, <2>3, KnownGrows DEF AllKnown
  <2>4. CASE ~Live(s)
    <3>1. s = nextId /\ Held' = Held \cup {Open(nextId)}
      BY <1>1, <2>4, ClientEffect DEF Live
    <3>. QED  BY <3>1 DEF Known, Seen
  <2>. QED  BY <2>3, <2>4
<1>2. ASSUME NEW idle, NEW over, MaintainTick(idle, over) PROVE Known(s)'
  <2>1. /\ Queued' = Queued /\ Fed' = Fed /\ UNCHANGED <<link, dropped, resumes>>
        /\ Maintain(idle, over)
    BY <1>2 DEF MaintainTick, engineVars, linkVars, Queued, Fed
  <2>2. Live(s) /\ Seen \subseteq Seen'
    BY <2>1, MaintainEffect DEF Seen
  <2>. QED  BY <2>1, <2>2, KnownGrows DEF AllKnown
<1>3. ASSUME NEW t \in Tasks, PushUp(t) PROVE Known(s)'
  <2>1. /\ UNCHANGED <<sessions, link, feed, resumes>> /\ dropped \subseteq dropped'
        /\ link # "down"
    BY <1>3, PushEffect
  <2>2. PICK e \in Held :
           /\ Held \subseteq Held' \cup {e} /\ Queued \subseteq Queued'
           /\ e \in Queued' \/ e = Overload \/ e.ev = "stats"
    BY <1>3, <2>1, PushEffect
  <2>3. Known(s) /\ Fed' = Fed
    BY <2>1 DEF AllKnown, Live, Fed
  <2>4. Seen \subseteq Seen' \cup {e} /\ (e \in Seen' \/ e = Overload \/ e.ev = "stats")
    BY <2>2, <2>3 DEF Seen
  <2>5. Open(s).ev = "open" /\ Resume(s).ev = "resume" /\ Overload.ev = "overload"
    BY DEF Open, Resume, Overload, Event
  <2>. QED  BY <2>1, <2>3, <2>4, <2>5 DEF Known
<1>4. CASE SecondTick
  <2>1. /\ UNCHANGED <<sessions, link, dropped, resumes>>
        /\ Queued' = Queued /\ Fed' = Fed
    BY <1>4 DEF SecondTick, linkVars, Queued, Fed
  <2>2. Seen \subseteq Seen'
    BY <1>4, <2>1, SecondTickEffect DEF Seen
  <2>. QED  BY <2>1, <2>2, KnownGrows DEF AllKnown, Live
<1>5. CASE Connect
  BY <1>5 DEF Connect
<1>6. CASE Hello
  <2>1. Live(s)
    BY <1>6 DEF Hello, linkOnly, tableVars, Live
  <2>. QED  BY <1>6, <2>1 DEF Hello, ToAnnounce, LiveIds, Known
<1>7. CASE RunLogicLink
  <2>1. /\ Held' = Held /\ Queued' = Queued /\ Fed' = Fed
        /\ UNCHANGED <<sessions, dropped, resumes>>
    BY <1>7 DEF RunLogicLink, linkOnly, tableVars, Held, Queued, Fed
  <2>. QED  BY <1>7, <2>1 DEF RunLogicLink, AllKnown, Known, Seen, Live
<1>8. CASE WriteFrame
  <2>1. UNCHANGED <<sessions, link, dropped>>
    BY <1>8 DEF WriteFrame, linkOnly, tableVars
  <2>. QED  BY <1>8, <2>1, WriteEffect DEF AllKnown, Known, Live
<1>9. ASSUME NEW r \in Ids, WriteResume(r) PROVE Known(s)'
  <2>1. UNCHANGED <<sessions, link, dropped>>
    BY <1>9 DEF WriteResume, linkOnly, tableVars
  <2>. QED  BY <1>9, <2>1, ResumeEffect DEF AllKnown, Known, Live
<1>10. CASE LinkBreak
  BY <1>10 DEF LinkBreak
<1>11. ASSUME NEW r \in Ids, LogicKick(r) PROVE Known(s)'
  <2>1. /\ Held' = Held /\ Queued' = Queued /\ Fed' = Fed
        /\ UNCHANGED <<link, dropped, resumes>>
    BY <1>11 DEF LogicKick, Kick, linkVars, Held, Queued, Fed
  <2>2. Live(s)
    BY <1>11 DEF LogicKick, Kick, Without, Live
  <2>. QED  BY <2>1, <2>2 DEF AllKnown, Known, Seen
<1>12. CASE Drain
  BY <1>12 DEF Drain, ShutdownAll, Without, Live
<1>13. CASE Exit \/ UNCHANGED vars
  <2>1. UNCHANGED <<sessions, outbox, upQueue, feed, link, dropped, resumes>>
    BY <1>13 DEF Exit, vars, tableVars, engineVars, linkVars
  <2>. QED  BY <2>1 DEF AllKnown, Known, Seen, Held, Queued, Fed, Live
<1>. QED  BY <1>1, <1>2, <1>3, <1>4, <1>5, <1>6, <1>7, <1>8, <1>9, <1>10, <1>11,
             <1>12, <1>13 DEF Next, Step

\* "逻辑服可以热重启": however the connection is lost and made again, each
\* session of the table is announced in the connection that stands, or is about
\* to be (for_each_session, push_up and logic_write_loop together).
THEOREM AnnouncedOrComing == Spec => []EverySessionAnnounced
<1>1. Init => AllKnown
  BY DEF Init, AllKnown
<1>2. AllKnown => EverySessionAnnounced
  <2>1. ASSUME NEW s \in Ids, Known(s)
        PROVE  \/ Announced(s) \/ s \in resumes
               \/ InTransit(Open(s)) \/ InTransit(Resume(s))
    BY <2>1, WhereEventsAre DEF Known, Seen, Announced
  <2>. QED  BY <2>1 DEF AllKnown, EverySessionAnnounced
<1>3. TypeOK /\ AllKnown /\ [Next]_vars => AllKnown'
  BY AllKnownNext
<1>. QED  BY <1>1, <1>2, <1>3, InitType, NextType, PTL DEF Spec
-----------------------------------------------------------------------------
(* No ghosts.  NoGhosts is not inductive: a SessionClose may be lost, on a  *)
(* connection that breaks or while there is none.  Then nothing may be on   *)
(* its way that would announce the session in the next connection; so the   *)
(* invariant says when a session has still an announcement in a task's hand.*)

\* A number that no session has had is nowhere.
FreshIsUnknown ==
    \A s \in Ids : s >= nextId => ~Live(s) /\ ~Known(s)

\* A task holds the announcement of active sessions only.
HeldIsActive ==
    \A s \in Ids \ kicked :
        Open(s) \in Held \/ Resume(s) \in Held => sessions[s].state = "active"

\* Without a connection nothing is queued or written.
DownIsEmpty == link = "down" => upQueue = <<>> /\ feed = <<>> /\ resumes = {}

KnownIsLiveOrClosing ==
    "reliable" \notin dropped =>
        \A s \in Ids \ kicked : Known(s) => Live(s) \/ Close(s) \in Seen

GhostInv == FreshIsUnknown /\ HeldIsActive /\ DownIsEmpty /\ KnownIsLiveOrClosing

\* A step that announces nothing, closes no session and loses no SessionClose.
LEMMA GhostFrame ==
    ASSUME TypeOK, GhostInv,
           \A s \in Ids : Live(s) = Live(s)',
           \A s \in Ids : sessions[s].state = "active" => sessions'[s].state = "active",
           UNCHANGED nextId, kicked \subseteq kicked', dropped \subseteq dropped',
           \A s \in Ids : (Open(s) \in Held' => Open(s) \in Held)
                          /\ (Resume(s) \in Held' => Resume(s) \in Held),
           \A s \in Ids : Known(s)' => Known(s),
           \A s \in Ids : Close(s) \in Seen => Close(s) \in Seen',
           DownIsEmpty'
    PROVE  GhostInv'
<1>1. FreshIsUnknown'
  BY DEF GhostInv, FreshIsUnknown
<1>2. HeldIsActive'
  BY DEF GhostInv, HeldIsActive
<1>3. KnownIsLiveOrClosing'
  BY DEF GhostInv, KnownIsLiveOrClosing
<1>. QED  BY <1>1, <1>2, <1>3 DEF GhostInv

\* The clients: what is created or resumed is active.
LEMMA GhostClient ==
    ASSUME TypeOK, GhostInv, ClientNext, UNCHANGED engineVars
    PROVE  GhostInv'
<1>1. /\ Queued' = Queued /\ Fed' = Fed
      /\ UNCHANGED <<link, upQueue, feed, resumes, dropped, kicked>>
  BY DEF engineVars, linkVars, Queued, Fed
<1>2. nextId \in Nat /\ Ids \subseteq Nat
  BY Constants DEF TypeOK, TableTypeOK
<1>3. DownIsEmpty'
  BY <1>1 DEF GhostInv, DownIsEmpty
<1>4. CASE UNCHANGED <<sessions, nextId>> /\ Held' = Held
  BY <1>1, <1>3, <1>4, GhostFrame DEF Known, Seen, Live
<1>5. CASE /\ nextId \in Ids /\ nextId' = nextId + 1
           /\ sessions'[nextId].state = "active"
           /\ \A r \in Ids \ {nextId} : sessions'[r] = sessions[r]
           /\ Held' = Held \cup {Open(nextId)}
  <2>1. /\ \A s \in Ids \ {nextId} : /\ Live(s)' = Live(s) /\ Known(s)' = Known(s)
                                     /\ Open(s) \in Held' <=> Open(s) \in Held
        /\ \A s \in Ids : Resume(s) \in Held' <=> Resume(s) \in Held
        /\ sessions'[nextId] # NoSession
        /\ Seen \subseteq Seen'
    <3>1. /\ \A s \in Ids \ {nextId} : Open(s) \in Held' <=> Open(s) \in Held
          /\ \A s \in Ids : Resume(s) \in Held' <=> Resume(s) \in Held
      BY <1>5, EventsDiffer
    <3>2. Seen \subseteq Seen'
      BY <1>1, <1>5 DEF Seen
    <3>3. /\ sessions'[nextId] # NoSession
          /\ \A s \in Ids \ {nextId} : Live(s)' = Live(s)
      BY <1>5 DEF Live, NoSession
    <3>4. \A s \in Ids \ {nextId} : Known(s)' = Known(s)
      BY <1>1, <3>1 DEF Known, Seen
    <3>. QED  BY <3>1, <3>2, <3>3, <3>4
  <2>2. FreshIsUnknown'
    <3>1. \A s \in Ids : s >= nextId' => s >= nextId /\ s # nextId
      BY <1>2, <1>5
    <3>. QED  BY <2>1, <3>1 DEF GhostInv, FreshIsUnknown
  <2>3. HeldIsActive'
    BY <1>1, <1>5, <2>1 DEF GhostInv, HeldIsActive
  <2>4. KnownIsLiveOrClosing'
    <3>1. ASSUME "reliable" \notin dropped, NEW s \in Ids \ kicked, Known(s)'
          PROVE  Live(s)' \/ Close(s) \in Seen'
      <4>1. CASE s = nextId
        BY <2>1, <4>1 DEF Live
      <4>2. CASE s # nextId
        <5>1. Live(s)' = Live(s) /\ Known(s)
          BY <2>1, <3>1, <4>2
        <5>. QED  BY <2>1, <3>1, <5>1 DEF GhostInv, KnownIsLiveOrClosing
      <4>. QED  BY <4>1, <4>2
    <3>. QED  BY <1>1, <3>1 DEF KnownIsLiveOrClosing
  <2>. QED  BY <1>3, <2>2, <2>3, <2>4 DEF GhostInv
<1>6. ASSUME NEW s \in Ids, UNCHANGED nextId,
             Live(s), sessions'[s].state = "active",
             \A r \in Ids \ {s} : sessions'[r] = sessions[r],
             Held \subseteq Held',
             Held' \subseteq Held \cup {Resume(s)} \cup {Data(s, n) : n \in 0 .. MaxData}
      PROVE  GhostInv'
  <2>1. /\ \A r \in Ids : Live(r)' = Live(r)
        /\ \A r \in Ids : Open(r) \in Held' <=> Open(r) \in Held
        /\ \A r \in Ids \ {s} : Resume(r) \in Held' <=> Resume(r) \in Held
        /\ Seen \subseteq Seen'
    BY <1>1, <1>6, EventsDiffer DEF Live, Seen, NoSession
  <2>2. \A r \in Ids \ {s} : Known(r)' = Known(r)
    BY <1>1, <2>1 DEF Known, Seen
  <2>3. FreshIsUnknown'
    BY <1>6, <2>1, <2>2 DEF GhostInv, FreshIsUnknown
  <2>4. HeldIsActive'
    BY <1>1, <1>6, <2>1 DEF GhostInv, HeldIsActive
  <2>5. KnownIsLiveOrClosing'
    BY <1>1, <1>6, <2>1, <2>2 DEF GhostInv, KnownIsLiveOrClosing
  <2>. QED  BY <1>3, <2>3, <2>4, <2>5 DEF GhostInv
<1>. QED  BY <1>4, <1>5, <1>6, ClientEffect

\* maintain: nothing is under way of a session that falls silent, and a session
\* that is over is announced as closed.
LEMMA GhostMaintain ==
    ASSUME TypeOK, GhostInv, NEW idle, NEW over, MaintainTick(idle, over)
    PROVE  GhostInv'
<1>1. /\ Maintain(idle, over) /\ Queued' = Queued /\ Fed' = Fed
      /\ UNCHANGED <<link, upQueue, feed, resumes, dropped, kicked>>
  BY DEF MaintainTick, engineVars, linkVars, Queued, Fed
<1>2. /\ UNCHANGED nextId
      /\ \A s \in over : s \in Ids /\ sessions[s].state = "grace"
      /\ \A s \in Ids : \/ s \in over /\ ~Live(s)'
                        \/ s \notin over /\ Live(s) = Live(s)'
      /\ \A s \in Ids \ (idle \cup over) : sessions'[s] = sessions[s]
      /\ Held' = Held \cup {Close(s) : s \in over}
      /\ \A s \in idle : Open(s) \notin Held /\ Resume(s) \notin Held
  BY <1>1, MaintainEffect
<1>3. /\ \A s \in Ids : /\ Open(s) \in Held' <=> Open(s) \in Held
                        /\ Resume(s) \in Held' <=> Resume(s) \in Held
      /\ Seen \subseteq Seen'
  BY <1>1, <1>2, EventsDiffer DEF Seen
<1>4. \A s \in Ids : Known(s)' = Known(s)
  <2>1. \A s \in Ids : /\ Open(s) \in Seen' <=> Open(s) \in Seen
                       /\ Resume(s) \in Seen' <=> Resume(s) \in Seen
    BY <1>1, <1>3 DEF Seen
  <2>. QED  BY <1>1, <2>1 DEF Known
<1>5. FreshIsUnknown'
  BY <1>2, <1>4 DEF GhostInv, FreshIsUnknown
<1>6. HeldIsActive'
  BY <1>1, <1>2, <1>3 DEF GhostInv, HeldIsActive
<1>7. DownIsEmpty'
  BY <1>1 DEF GhostInv, DownIsEmpty
<1>8. KnownIsLiveOrClosing'
  <2>1. \A s \in over : Close(s) \in Seen'
    BY <1>2 DEF Seen
  <2>. QED  BY <1>1, <1>2, <1>3, <1>4, <2>1 DEF GhostInv, KnownIsLiveOrClosing
<1>. QED  BY <1>5, <1>6, <1>7, <1>8 DEF GhostInv

\* push_up: a SessionClose that finds no connection is lost, but whatever would
\* announce its session has been lost before it.
LEMMA GhostPush ==
    ASSUME TypeOK, GhostInv, NEW t \in Tasks, PushUp(t)
    PROVE  GhostInv'
<1>1. /\ UNCHANGED <<sessions, nextId, link, feed, resumes, kicked>>
      /\ dropped \subseteq dropped' /\ (link = "down" => UNCHANGED upQueue)
      /\ Fed' = Fed
  BY PushEffect DEF Fed
<1>2. PICK e \in Held :
         /\ Held' \subseteq Held /\ Held \subseteq Held' \cup {e}
         /\ Queued \subseteq Queued' /\ Queued' \subseteq Queued \cup {e}
         /\ \/ e \in Queued' \/ link = "down" \/ "reliable" \in dropped'
            \/ e = Overload \/ e.ev = "stats"
  BY PushEffect
<1>3. \A s \in Ids : Live(s)' = Live(s)
  BY <1>1 DEF Live
<1>4. Seen' \subseteq Seen /\ \A s \in Ids : Known(s)' => Known(s)
  <2>1. Seen' \subseteq Seen
    BY <1>1, <1>2 DEF Seen
  <2>. QED  BY <1>1, <2>1 DEF Known
<1>5. FreshIsUnknown'
  BY <1>1, <1>3, <1>4 DEF GhostInv, FreshIsUnknown
<1>6. HeldIsActive'
  BY <1>1, <1>2 DEF GhostInv, HeldIsActive
<1>7. DownIsEmpty'
  BY <1>1 DEF GhostInv, DownIsEmpty
<1>8. ASSUME "reliable" \notin dropped', NEW s \in Ids \ kicked', Known(s)'
      PROVE  Live(s)' \/ Close(s) \in Seen'
  <2>1. "reliable" \notin dropped /\ s \in Ids \ kicked /\ Known(s)
    BY <1>1, <1>4, <1>8
  <2>2. CASE link = "down"
    <3>1. Queued' = {} /\ Fed' = {} /\ resumes' = {}
      BY <1>1, <2>2, ToSetEmpty DEF GhostInv, DownIsEmpty, Queued, Fed
    <3>2. Open(s) \in Held \/ Resume(s) \in Held
      BY <1>2, <1>8, <3>1 DEF Known, Seen
    <3>3. sessions[s].state = "active"
      BY <2>1, <3>2 DEF GhostInv, HeldIsActive
    <3>. QED  BY <1>1, <3>3 DEF Live, NoSession
  <2>3. CASE link # "down"
    <3>1. Close(s).ev = "close" /\ Overload.ev = "overload"
      BY DEF Close, Overload, Event
    <3>2. Close(s) \in Seen => Close(s) \in Seen'
      BY <1>1, <1>2, <1>8, <2>3, <3>1 DEF Seen
    <3>. QED  BY <1>3, <2>1, <3>2 DEF GhostInv, KnownIsLiveOrClosing
  <2>. QED  BY <2>2, <2>3
<1>9. KnownIsLiveOrClosing'
  BY <1>8 DEF KnownIsLiveOrClosing
<1>. QED  BY <1>5, <1>6, <1>7, <1>9 DEF GhostInv

\* The link: a new connection announces live sessions, and one that breaks takes
\* every announcement with it but those of active sessions.
LEMMA GhostLink ==
    ASSUME TypeOK, GhostInv,
           \/ Connect \/ Hello \/ RunLogicLink \/ WriteFrame \/ LinkBreak
           \/ \E s \in Ids : WriteResume(s)
    PROVE  GhostInv'
<1>1. /\ UNCHANGED <<sessions, nextId, kicked, dropped, outbox>> /\ Held' = Held
      /\ \A s \in Ids : Live(s)' = Live(s)
  BY DEF Connect, Hello, RunLogicLink, WriteFrame, LinkBreak, WriteResume, linkOnly,
         tableVars, Held, Live
<1>2. CASE Connect
  <2>1. /\ upQueue = <<>> /\ feed = <<>> /\ UNCHANGED <<upQueue, feed, resumes>>
        /\ link' # "down"
    BY <1>2 DEF Connect, GhostInv, DownIsEmpty
  <2>2. Queued' = Queued /\ Fed' = Fed /\ Seen' = Seen
    BY <1>1, <2>1 DEF Queued, Fed, Seen
  <2>3. \A s \in Ids : Known(s)' => Known(s)
    BY <2>1, <2>2 DEF Known
  <2>4. DownIsEmpty'
    BY <2>1 DEF DownIsEmpty
  <2>. QED  BY <1>1, <2>2, <2>3, <2>4, GhostFrame
<1>3. CASE Hello
  <2>1. /\ resumes' = {s \in Ids : Live(s)} /\ UNCHANGED <<upQueue, feed>>
        /\ link' # "down"
    BY <1>3 DEF Hello, ToAnnounce, LiveIds
  <2>2. Seen' = Seen
    BY <1>1, <2>1 DEF Queued, Fed, Seen
  <2>3. \A s \in Ids : Known(s)' => Known(s) \/ Live(s)
    BY <2>1, <2>2 DEF Known
  <2>4. FreshIsUnknown' /\ HeldIsActive'
    BY <1>1, <2>3 DEF GhostInv, FreshIsUnknown, HeldIsActive
  <2>5. KnownIsLiveOrClosing'
    BY <1>1, <2>2, <2>3 DEF GhostInv, KnownIsLiveOrClosing
  <2>. QED  BY <2>1, <2>4, <2>5 DEF GhostInv, DownIsEmpty
<1>4. CASE RunLogicLink
  <2>1. UNCHANGED <<upQueue, feed, resumes>> /\ link' # "down"
    BY <1>4 DEF RunLogicLink
  <2>2. Seen' = Seen
    BY <1>1, <2>1 DEF Queued, Fed, Seen
  <2>3. \A s \in Ids : Known(s)' => Known(s)
    BY <2>1, <2>2 DEF Known
  <2>4. DownIsEmpty'
    BY <2>1 DEF DownIsEmpty
  <2>. QED  BY <1>1, <2>2, <2>3, <2>4, GhostFrame
<1>5. CASE WriteFrame
  <2>1. Seen' = Seen /\ UNCHANGED resumes /\ link' # "down"
    BY <1>5, WriteEffect DEF WriteFrame
  <2>2. \A s \in Ids : Known(s)' => Known(s)
    BY <2>1 DEF Known
  <2>3. DownIsEmpty'
    BY <2>1 DEF DownIsEmpty
  <2>. QED  BY <1>1, <2>1, <2>2, <2>3, GhostFrame
<1>6. CASE LinkBreak
  <2>1. Queued' = {} /\ Fed' = {} /\ resumes' = {} /\ DownIsEmpty'
    BY <1>6, ToSetEmpty DEF LinkBreak, Queued, Fed, DownIsEmpty
  <2>2. \A s \in Ids : Known(s)' => Open(s) \in Held \/ Resume(s) \in Held
    BY <1>1, <2>1 DEF Known, Seen
  <2>3. \A s \in Ids : Known(s)' => Known(s)
    BY <2>2 DEF Known, Seen
  <2>4. FreshIsUnknown' /\ HeldIsActive'
    BY <1>1, <2>3 DEF GhostInv, FreshIsUnknown, HeldIsActive
  <2>5. \A s \in Ids \ kicked : Known(s)' => Live(s)
    BY <2>2 DEF GhostInv, HeldIsActive, Live, NoSession
  <2>6. KnownIsLiveOrClosing'
    BY <1>1, <2>5 DEF KnownIsLiveOrClosing
  <2>. QED  BY <2>1, <2>4, <2>6 DEF GhostInv
<1>7. ASSUME NEW r \in Ids, WriteResume(r) PROVE GhostInv'
  <2>1. /\ Seen' = Seen \cup {Resume(r)} /\ r \in resumes /\ resumes' = resumes \ {r}
        /\ link' # "down"
    BY <1>7, ResumeEffect DEF WriteResume
  <2>2. \A s \in Ids : Known(s)' => Known(s)
    BY <2>1, EventsDiffer DEF Known
  <2>3. DownIsEmpty'
    BY <2>1 DEF DownIsEmpty
  <2>. QED  BY <1>1, <2>1, <2>2, <2>3, GhostFrame
<1>. QED  BY <1>2, <1>3, <1>4, <1>5, <1>6, <1>7

\* The round of statistics, and a kick: the logic server knows whom it kicked.
LEMMA GhostTick ==
    ASSUME TypeOK, GhostInv, SecondTick
    PROVE  GhostInv'
<1>1. /\ UNCHANGED <<sessions, nextId, link, upQueue, feed, resumes, kicked, dropped>>
      /\ Queued' = Queued /\ Fed' = Fed
  BY DEF SecondTick, linkVars, handshakeVars, Queued, Fed
<1>2. Held' = Held \cup {Stats(s) : s \in LiveIds} \cup {Overload}
  BY SecondTickEffect
<1>3. /\ \A s \in Ids : /\ Open(s) \in Held' <=> Open(s) \in Held
                        /\ Resume(s) \in Held' <=> Resume(s) \in Held
      /\ Seen \subseteq Seen'
  BY <1>1, <1>2, EventsDiffer DEF Seen
<1>4. \A s \in Ids : Known(s)' => Known(s)
  BY <1>1, <1>3 DEF Known, Seen
<1>5. DownIsEmpty' /\ \A s \in Ids : Live(s)' = Live(s)
  BY <1>1 DEF GhostInv, DownIsEmpty, Live
<1>. QED  BY <1>1, <1>3, <1>4, <1>5, GhostFrame

LEMMA GhostKick ==
    ASSUME TypeOK, GhostInv, NEW r \in Ids, LogicKick(r)
    PROVE  GhostInv'
<1>1. /\ UNCHANGED <<nextId, outbox, link, upQueue, feed, resumes, dropped>>
      /\ kicked' = kicked \cup {r}
      /\ \A s \in Ids \ {r} : sessions'[s] = sessions[s]
      /\ \A s \in Ids : Live(s)' => Live(s)
  BY DEF LogicKick, Kick, Without, linkVars, handshakeVars, Live
<1>2. Held' = Held /\ Seen' = Seen
  BY <1>1 DEF Held, Queued, Fed, Seen
<1>3. \A s \in Ids : Known(s)' = Known(s)
  BY <1>1, <1>2 DEF Known
<1>4. FreshIsUnknown' /\ HeldIsActive' /\ DownIsEmpty'
  BY <1>1, <1>2, <1>3 DEF GhostInv, FreshIsUnknown, HeldIsActive, DownIsEmpty
<1>5. KnownIsLiveOrClosing'
  BY <1>1, <1>2, <1>3 DEF GhostInv, KnownIsLiveOrClosing, Live
<1>. QED  BY <1>4, <1>5 DEF GhostInv

RunningGhostInv == mode = "running" => GhostInv

LEMMA GhostInit == Init => RunningGhostInv
<1>. SUFFICES ASSUME Init PROVE GhostInv
  BY DEF RunningGhostInv
<1>1. Held = {} /\ Seen = {}
  BY ToSetEmpty DEF Init, TableInit, Held, Queued, Fed, Seen
<1>2. \A s \in Ids : ~Live(s) /\ ~Known(s)
  BY <1>1 DEF Init, TableInit, Live, Known
<1>. QED  BY <1>1, <1>2 DEF Init, GhostInv, FreshIsUnknown, HeldIsActive,
             DownIsEmpty, KnownIsLiveOrClosing

LEMMA GhostNext == TypeOK /\ RunningGhostInv /\ [Next]_vars => RunningGhostInv'
<1>. SUFFICES ASSUME TypeOK, RunningGhostInv, [Next]_vars, mode' = "running"
              PROVE  GhostInv'
  BY DEF RunningGhostInv
<1>1. CASE UNCHANGED vars
  <2>1. mode = "running" /\ Held' = Held /\ Seen' = Seen
    BY <1>1 DEF vars, tableVars, engineVars, linkVars, Held, Queued, Fed, Seen
  <2>2. \A s \in Ids : Live(s)' = Live(s) /\ Known(s)' = Known(s)
    BY <1>1, <2>1 DEF vars, tableVars, engineVars, linkVars, Live, Known
  <2>3. GhostInv
    BY <2>1 DEF RunningGhostInv
  <2>4. DownIsEmpty'
    BY <1>1, <2>3 DEF vars, engineVars, linkVars, GhostInv, DownIsEmpty
  <2>. QED  BY <1>1, <2>1, <2>2, <2>3, <2>4, GhostFrame
            DEF vars, tableVars, engineVars
<1>2. CASE Next
  <2>1. mode = "running" /\ ~Drain /\ ~Exit
    <3>1. ~Drain /\ ~Exit
      BY DEF Drain, Exit
    <3>2. UNCHANGED mode
      BY <1>2, <3>1
         DEF Next, Step, MaintainTick, PushUp, SecondTick, Connect, Hello,
             RunLogicLink, WriteFrame, LinkBreak, WriteResume, LogicKick,
             engineVars, linkOnly
    <3>. QED  BY <3>1, <3>2
  <2>2. GhostInv
    BY <2>1 DEF RunningGhostInv
  <2>. QED  BY <1>2, <2>1, <2>2, GhostClient, GhostMaintain, GhostPush, GhostTick,
               GhostLink, GhostKick DEF Next, Step
<1>. QED  BY <1>1, <1>2

\* As long as the engine runs, a session that the logic server takes for open is
\* in the table or its SessionClose is coming: the maintenance loop closes it
\* once, and a connection that breaks meanwhile leaves nothing behind that the
\* next one would announce (maintain, push_up, logic_link_loop).
THEOREM NoGhostSessions == Spec => [](mode = "running" => NoGhosts)
<1>1. RunningGhostInv => (mode = "running" => NoGhosts)
  <2>1. ASSUME NEW s \in Ids, Announced(s) PROVE Known(s)
    BY <2>1, WhereEventsAre DEF Announced, Known, Seen
  <2>2. ASSUME NEW s \in Ids, Close(s) \in Seen
        PROVE  InFeed(Close(s)) \/ InTransit(Close(s))
    BY <2>2, WhereEventsAre DEF Seen
  <2>. QED  BY <2>1, <2>2 DEF RunningGhostInv, GhostInv, KnownIsLiveOrClosing, NoGhosts
<1>. QED  BY <1>1, InitType, NextType, GhostInit, GhostNext, PTL DEF Spec
-----------------------------------------------------------------------------
(* The order of the events on their way.  A session's events go from a       *)
(* task's hands through the queue into the feed; Ahead says which of two     *)
(* events will be, or is, before the other in the feed.                      *)

\* e stands before f in q.
Before(q, e, f) == \E i, j \in DOMAIN q : i < j /\ q[i] = e /\ q[j] = f

Ahead(e, f) ==
    \/ Before(feed, e, f)
    \/ e \in Fed /\ f \in Queued
    \/ Before(upQueue, e, f)
    \/ e \in Fed \cup Queued /\ f \in Held
    \/ \E t \in Tasks : Before(outbox[t], e, f)

LEMMA BeforeElements ==
    ASSUME NEW q, NEW e, NEW f, Before(q, e, f)
    PROVE  e \in ToSet(q) /\ f \in ToSet(q)
  BY DEF Before, ToSet

LEMMA BeforeShort ==
    ASSUME NEW e, NEW f
    PROVE  ~Before(<<>>, e, f) /\ \A x : ~Before(<<x>>, e, f)
  BY DEF Before

LEMMA BeforeAppend ==
    ASSUME NEW S, NEW q \in Seq(S), NEW x \in S, NEW e, NEW f,
           Before(Append(q, x), e, f)
    PROVE  Before(q, e, f) \/ (e \in ToSet(q) /\ f = x)
<1>. DEFINE r == Append(q, x)
<1>1. /\ Len(q) \in Nat /\ DOMAIN q = 1 .. Len(q)
      /\ DOMAIN r = 1 .. Len(q) + 1
      /\ r[Len(q) + 1] = x /\ \A i \in DOMAIN q : r[i] = q[i]
  OBVIOUS
<1>. HIDE DEF r
<1>2. PICK i, j \in DOMAIN r : i < j /\ r[i] = e /\ r[j] = f
  BY DEF Before, r
<1>3. i \in DOMAIN q
  BY <1>1, <1>2
<1>4. j \in DOMAIN q \/ j = Len(q) + 1
  BY <1>1, <1>2
<1>. QED  BY <1>1, <1>2, <1>3, <1>4 DEF Before, ToSet

LEMMA BeforeTail ==
    ASSUME NEW S, NEW q \in Seq(S), q # <<>>, NEW e, NEW f
    PROVE  /\ Before(Tail(q), e, f) => Before(q, e, f)
           /\ f \in ToSet(Tail(q)) => Before(q, Head(q), f)
<1>. DEFINE r == Tail(q)
<1>1. /\ Len(q) \in Nat /\ Head(q) = q[1] /\ 1 \in DOMAIN q
      /\ DOMAIN q = 1 .. Len(q) /\ DOMAIN r = 1 .. Len(q) - 1
      /\ \A i \in DOMAIN r : r[i] = q[i + 1]
  OBVIOUS
<1>. HIDE DEF r
<1>2. ASSUME NEW i \in DOMAIN r PROVE i + 1 \in DOMAIN q /\ r[i] = q[i + 1] /\ 1 < i + 1
  BY <1>1
<1>3. ASSUME NEW i \in DOMAIN r, NEW j \in DOMAIN r, i < j PROVE i + 1 < j + 1
  BY <1>1, <1>3
<1>4. Before(r, e, f) => Before(q, e, f)
  BY <1>2, <1>3 DEF Before
<1>5. f \in ToSet(r) => Before(q, Head(q), f)
  BY <1>1, <1>2 DEF Before, ToSet
<1>. QED  BY <1>4, <1>5 DEF r

\* push_frame adds the event at the end of the queue, or not at all.
LEMMA QueueGrows ==
    ASSUME NEW t \in Tasks, PushUp(t)
    PROVE  /\ upQueue' \in {upQueue, Append(upQueue, outbox[t][1])}
           /\ link = "down" => upQueue' = upQueue
<1>. DEFINE e == outbox[t][1]
<1>1. ASSUME NEW flag, PushFrame(e, flag)
      PROVE  /\ upQueue' = upQueue \/ upQueue' = Append(upQueue, e)
             /\ link = "down" => upQueue' = upQueue
  BY <1>1 DEF PushFrame, Online
<1>. QED  BY <1>1 DEF PushUp, NextOf

\* The outboxes after a push.
LEMMA OutboxPushed ==
    ASSUME outbox \in [Tasks -> Seq(Events)], NEW t \in Tasks, PushUp(t)
    PROVE  /\ outbox[t] # <<>> /\ outbox[t] \in Seq(Events)
           /\ outbox[t][1] = Head(outbox[t])
           /\ outbox' = [outbox EXCEPT ![t] = Tail(outbox[t])]
<1>1. /\ outbox[t] # <<>> /\ outbox[t] \in Seq(Events)
      /\ outbox' = [outbox EXCEPT ![t] = RemoveAt(outbox[t], 1)]
  BY DEF PushUp, Idle, NextOf
<1>2. RemoveAt(outbox[t], 1) = Tail(outbox[t])
  BY <1>1, PushedFirst
<1>3. outbox[t][1] = Head(outbox[t])
  BY <1>1
<1>. QED  BY <1>1, <1>2, <1>3

\* push_up: the event that is queued is put before what the other tasks hold.
LEMMA AheadPush ==
    ASSUME TypeOK, NEW t \in Tasks, PushUp(t), NEW e, NEW f, Ahead(e, f)'
    PROVE  \/ Ahead(e, f)
           \/ /\ e = outbox[t][1]
              /\ \E u \in Tasks \ {t} : f \in ToSet(outbox[u])
<1>. DEFINE x == outbox[t][1]
<1>1. /\ outbox \in [Tasks -> Seq(Events)] /\ upQueue \in Seq(Events)
      /\ UNCHANGED feed
  BY DEF TypeOK, TableTypeOK, PushUp
<1>2. /\ outbox[t] # <<>> /\ outbox[t] \in Seq(Events) /\ x = Head(outbox[t])
      /\ outbox'[t] = Tail(outbox[t])
      /\ \A u \in Tasks \ {t} : outbox'[u] = outbox[u]
  BY <1>1, OutboxPushed
<1>3. x \in Events /\ x \in Held /\ Held' \subseteq Held
  BY <1>1, Pushed
<1>4. upQueue' = upQueue \/ upQueue' = Append(upQueue, x)
  BY QueueGrows
<1>. HIDE DEF x
<1>5. Fed' = Fed /\ Queued' \subseteq Queued \cup {x}
  <2>1. ToSet(Append(upQueue, x)) = ToSet(upQueue) \cup {x}
    BY <1>1, <1>3, ToSetAppend
  <2>2. ToSet(upQueue') \subseteq ToSet(upQueue) \cup {x}
    BY <1>4, <2>1
  <2>. QED  BY <1>1, <2>2 DEF Fed, Queued
<1>6. CASE Before(feed', e, f)
  BY <1>1, <1>6 DEF Ahead
<1>7. CASE e \in Fed' /\ f \in Queued'
  BY <1>3, <1>5, <1>7 DEF Ahead
<1>8. CASE Before(upQueue', e, f)
  <2>1. Before(upQueue, e, f) \/ (e \in Queued /\ f = x)
    BY <1>1, <1>3, <1>4, <1>8, BeforeAppend DEF Queued
  <2>. QED  BY <1>3, <2>1 DEF Ahead
<1>9. CASE e \in Fed' \cup Queued' /\ f \in Held'
  <2>1. CASE e \in Fed \cup Queued
    BY <1>3, <1>9, <2>1 DEF Ahead
  <2>2. CASE e = x
    <3>1. PICK u \in Tasks : f \in ToSet(outbox'[u])
      BY <1>9 DEF Held
    <3>2. CASE u = t
      BY <1>2, <2>2, <3>1, <3>2, BeforeTail DEF Ahead
    <3>. QED  BY <1>2, <2>2, <3>1, <3>2 DEF x
  <2>. QED  BY <1>5, <1>9, <2>1, <2>2
<1>10. ASSUME NEW u \in Tasks, Before(outbox'[u], e, f) PROVE Ahead(e, f)
  <2>1. Before(outbox[u], e, f)
    BY <1>2, <1>10, BeforeTail
  <2>. QED  BY <2>1 DEF Ahead
<1>. QED  BY <1>6, <1>7, <1>8, <1>9, <1>10 DEF Ahead, x

\* A task that was idle takes new events: they come after all that is queued.
LEMMA AheadProduce ==
    ASSUME TypeOK, NEW t \in Tasks, Idle(t), NEW new \in Seq(Events),
           Produce(t, new), UNCHANGED <<upQueue, feed>>, NEW e, NEW f, Ahead(e, f)'
    PROVE  \/ Ahead(e, f)
           \/ e \in Fed \cup Queued /\ f \in ToSet(new)
           \/ Before(new, e, f)
<1>1. /\ outbox \in [Tasks -> Seq(Events)] /\ Fed' = Fed /\ Queued' = Queued
  BY DEF TypeOK, TableTypeOK, Fed, Queued
<1>2. Held' = Held \cup ToSet(new)
  BY <1>1, ProduceHolds
<1>3. outbox'[t] = new /\ \A u \in Tasks \ {t} : outbox'[u] = outbox[u]
  BY <1>1 DEF Produce
<1>. QED  BY <1>1, <1>2, <1>3 DEF Ahead

\* shutdown_all, whose events go into the outbox of the drain alone.
LEMMA AheadDrain ==
    ASSUME TypeOK, NEW t \in Tasks, NEW new \in Seq(Events), Produce(t, new),
           UNCHANGED <<upQueue, feed>>, NEW e, NEW f, Ahead(e, f)'
    PROVE  Ahead(e, f) \/ f \in ToSet(new) \/ Before(new, e, f)
<1>1. /\ outbox \in [Tasks -> Seq(Events)] /\ Fed' = Fed /\ Queued' = Queued
  BY DEF TypeOK, TableTypeOK, Fed, Queued
<1>2. outbox'[t] = new /\ \A u \in Tasks \ {t} : outbox'[u] = outbox[u]
  BY <1>1 DEF Produce
<1>3. Held' \subseteq Held \cup ToSet(new)
  BY <1>2 DEF Held
<1>. QED  BY <1>1, <1>2, <1>3 DEF Ahead

\* The link, apart from the names it writes itself, keeps the order.
LEMMA AheadLink ==
    ASSUME TypeOK, NEW e, NEW f, Ahead(e, f)',
           Connect \/ Hello \/ RunLogicLink \/ WriteFrame \/ LinkBreak
    PROVE  Ahead(e, f)
<1>1. UNCHANGED outbox /\ Held' = Held
  BY DEF Connect, Hello, RunLogicLink, WriteFrame, LinkBreak, linkOnly, tableVars,
         Held
<1>2. CASE UNCHANGED <<upQueue, feed>>
  BY <1>1, <1>2 DEF Ahead, Fed, Queued
<1>3. CASE upQueue' = <<>> /\ feed' = <<>>
  BY <1>1, <1>3, BeforeShort, ToSetEmpty DEF Ahead, Fed, Queued
<1>4. CASE WriteFrame
  <2>. DEFINE x == Head(upQueue)
  <2>1. /\ upQueue \in Seq(Events) /\ upQueue # <<>> /\ feed \in Seq(Events)
        /\ upQueue' = Tail(upQueue) /\ feed' = Append(feed, x)
    BY <1>4 DEF WriteFrame, TypeOK
  <2>2. x \in Events /\ Queued = Queued' \cup {x}
    BY <2>1, ToSetTail DEF Queued
  <2>3. Fed' = Fed \cup {x}
    BY <2>1, <2>2, ToSetAppend DEF Fed
  <2>4. /\ Before(upQueue', e, f) => Before(upQueue, e, f)
        /\ f \in Queued' => Before(upQueue, x, f)
    BY <2>1, BeforeTail DEF Queued
  <2>5. Before(feed', e, f) => Before(feed, e, f) \/ (e \in Fed /\ f = x)
    BY <2>1, <2>2, BeforeAppend DEF Fed
  <2>. HIDE DEF x
  <2>. QED  BY <1>1, <2>2, <2>3, <2>4, <2>5 DEF Ahead
<1>5. CASE Connect
  BY <1>3, <1>5 DEF Connect
<1>. QED  BY <1>2, <1>3, <1>4, <1>5 DEF Hello, RunLogicLink, LinkBreak

LEMMA AheadResume ==
    ASSUME TypeOK, NEW s \in Ids, WriteResume(s), NEW e, NEW f, Ahead(e, f)'
    PROVE  Ahead(e, f) \/ e = Resume(s) \/ (e \in Fed /\ f = Resume(s))
<1>1. /\ UNCHANGED outbox /\ Held' = Held /\ UNCHANGED upQueue /\ Queued' = Queued
      /\ feed \in Seq(Events) /\ feed' = Append(feed, Resume(s))
  BY DEF WriteResume, linkOnly, tableVars, Held, Queued, TypeOK
<1>2. Resume(s) \in Events
  BY EventType
<1>3. Fed' = Fed \cup {Resume(s)}
  BY <1>1, <1>2, ToSetAppend DEF Fed
<1>4. Before(feed', e, f) => Before(feed, e, f) \/ (e \in Fed /\ f = Resume(s))
  BY <1>1, <1>2, BeforeAppend DEF Fed
<1>. QED  BY <1>1, <1>3, <1>4 DEF Ahead
-----------------------------------------------------------------------------
(* What each kind of step puts into an outbox.                             *)

\* The events that a packet of s releases, when rx are out already.
Batch(s, rx, n) == [i \in 1 .. n |-> Data(s, rx + i)]

\* A session is made, and announced by task t.
Creates(t) ==
    /\ Idle(t) /\ nextId \in Ids /\ nextId' = nextId + 1
    /\ sessions'[nextId].state = "active"
    /\ \A r \in Ids \ {nextId} : sessions'[r] = sessions[r]
    /\ Produce(t, <<Open(nextId)>>)

\* Session s returns from Grace.
Returns(t, s) ==
    /\ Idle(t) /\ UNCHANGED nextId
    /\ sessions[s].state = "grace" /\ sessions'[s].state = "active"
    /\ sessions'[s].rx = sessions[s].rx
    /\ \A r \in Ids \ {s} : sessions'[r] = sessions[r]
    /\ Produce(t, <<Resume(s)>>)

\* Session s, which is active, releases n events.
Releases(t, s, n) ==
    /\ Idle(t) /\ UNCHANGED nextId
    /\ sessions[s].state = "active" /\ sessions'[s].state = "active"
    /\ sessions'[s].rx = sessions[s].rx + n
    /\ \A r \in Ids \ {s} : sessions'[r] = sessions[r]
    /\ Batch(s, sessions[s].rx, n) \in Seq(Events)
    /\ Produce(t, Batch(s, sessions[s].rx, n))

\* What a client can do, with the events in their order.
LEMMA ClientBatch ==
    ASSUME TypeOK, ClientNext
    PROVE  \/ UNCHANGED <<sessions, nextId, outbox>>
           \/ \E t \in Workers : Creates(t)
           \/ \E t \in Workers, s \in Ids : Returns(t, s)
           \/ \E t \in Workers, s \in Ids, n \in Nat : Releases(t, s, n)
<1>1. /\ TableTypeOK
      /\ sessions \in [Ids -> [peer : Peers, state : {"active", "grace"},
                               rx : 0 .. MaxData, gaps : 0 .. MaxGaps]
                              \cup {NoSession}]
  BY DEF TypeOK, TableTypeOK
<1>2. ASSUME NEW p \in Peers, NEW body, NEW expired,
             HandleHandshake(p, body, expired)
      PROVE  \/ UNCHANGED <<sessions, nextId, outbox>>
             \/ \E t \in Workers : Creates(t)
  <2>1. CASE CreateSession(p, Unexpired(expired))
    <3>1. nextId \in Ids /\ nextId' = nextId + 1 /\ WorkerOf[p] \in Workers
      BY <1>1, <2>1, Constants DEF CreateSession, TableTypeOK
    <3>2. sessions' = [sessions EXCEPT ![nextId] = NewSession(p)]
      BY <2>1 DEF CreateSession
    <3>3. Produce(WorkerOf[p], <<Open(nextId)>>)
      BY <2>1 DEF CreateSession
    <3>. QED  BY <1>1, <1>2, <3>1, <3>2, <3>3 DEF NewSession, HandleHandshake, Creates
  <2>2. CASE UNCHANGED <<sessions, nextId, outbox>>
    BY <2>2
  <2>. QED  BY <1>2, <2>1, <2>2 DEF HandleHandshake, IssueChallenge
<1>3. ASSUME NEW p \in Peers, NEW s \in Ids, NEW released \in Bursts,
             HandleSessionPacket(p, s, released)
      PROVE  \E t \in Workers :
                Returns(t, s) \/ (released \in Nat /\ Releases(t, s, released))
  <2>. DEFINE old == sessions[s]
              new == [old EXCEPT !.peer = p, !.state = "active"]
  <2>1. WorkerOf[p] \in Workers /\ Idle(WorkerOf[p]) /\ Live(s) /\ UNCHANGED nextId
    BY <1>3, Constants DEF HandleSessionPacket, handshakeVars
  <2>2. old \in [peer : Peers, state : {"active", "grace"},
                 rx : 0 .. MaxData, gaps : 0 .. MaxGaps]
    BY <1>1, <2>1 DEF Live
  <2>3. CASE /\ old.state = "grace"
             /\ sessions' = [sessions EXCEPT ![s] = [new EXCEPT !.gaps = @ + 1]]
             /\ Produce(WorkerOf[p], <<Resume(s)>>)
    <3>1. sessions'[s] = [new EXCEPT !.gaps = @ + 1]
          /\ \A r \in Ids \ {s} : sessions'[r] = sessions[r]
      BY <1>1, <2>3
    <3>2. sessions'[s].state = "active" /\ sessions'[s].rx = old.rx
      BY <2>2, <3>1
    <3>. QED  BY <2>1, <2>3, <3>1, <3>2 DEF Returns
  <2>4. CASE /\ old.state = "active" /\ old.rx + released <= MaxData
             /\ sessions' = [sessions EXCEPT ![s] = [new EXCEPT !.rx = @ + released]]
             /\ Produce(WorkerOf[p], [i \in 1 .. released |-> Data(s, old.rx + i)])
    <3>1. sessions'[s] = [new EXCEPT !.rx = @ + released]
          /\ \A r \in Ids \ {s} : sessions'[r] = sessions[r]
      BY <1>1, <2>4
    <3>2. sessions'[s].state = "active" /\ sessions'[s].rx = old.rx + released
      BY <2>2, <3>1
    <3>3. released \in Nat /\ Batch(s, old.rx, released) \in Seq(Events)
      BY <1>1, <2>4, ReleasedType DEF Batch
    <3>. QED  BY <2>1, <2>4, <3>1, <3>2, <3>3 DEF Batch, Releases
  <2>. QED  BY <1>3, <2>3, <2>4 DEF HandleSessionPacket
<1>4. ASSUME NEW s \in Ids, Vanish(s) PROVE UNCHANGED <<sessions, nextId, outbox>>
  BY <1>4 DEF Vanish, handshakeVars
<1>. QED  BY <1>2, <1>3, <1>4 DEF ClientNext

\* maintain and shutdown_all announce each end once.
LEMMA ClosesOnce ==
    ASSUME NEW S \in SUBSET Ids, NEW order \in SetToSeqs(S)
    PROVE  /\ Closes(order) \in Seq(Events)
           /\ ToSet(Closes(order)) = {Close(s) : s \in S}
           /\ \A e, f : Before(Closes(order), e, f) => e.s # f.s
<1>1. \A i, j \in DOMAIN order : i # j => order[i] # order[j]
  <2>1. /\ order \in [1 .. Cardinality(S) -> S]
        /\ \A i, j \in 1 .. Cardinality(S) : i # j => order[i] # order[j]
    BY DEF SetToSeqs
  <2>. QED  BY <2>1
<1>2. /\ DOMAIN Closes(order) = DOMAIN order
      /\ \A i \in DOMAIN order : Closes(order)[i].s = order[i]
  BY DEF Closes, Close, Event
<1>3. DOMAIN order \subseteq Int
  BY FiniteIds, Enumeration
<1>4. ASSUME NEW e, NEW f, Before(Closes(order), e, f) PROVE e.s # f.s
  <2>1. PICK i, j \in DOMAIN order : i < j /\ Closes(order)[i] = e /\ Closes(order)[j] = f
    BY <1>2, <1>4 DEF Before
  <2>2. i # j
    BY <1>3, <2>1
  <2>. QED  BY <1>1, <1>2, <2>1, <2>2
<1>. QED  BY <1>4, EnumeratedEvents

LEMMA MaintainBatch ==
    ASSUME TypeOK, NEW idle, NEW over, Maintain(idle, over)
    PROVE  \E new \in Seq(Events) :
              /\ Idle("maintenance") /\ Produce("maintenance", new)
              /\ ToSet(new) = {Close(s) : s \in over}
              /\ \A e, f : Before(new, e, f) => e.s # f.s
<1>1. over \in SUBSET Ids
  BY DEF Maintain, InState
<1>2. PICK order \in SetToSeqs(over) : Produce("maintenance", Closes(order))
  BY DEF Maintain, Ended
<1>. QED  BY <1>1, <1>2, ClosesOnce DEF Maintain

LEMMA SecondTickBatch ==
    ASSUME TypeOK, SecondTick
    PROVE  \E new \in Seq(Events) :
              /\ Idle("maintenance") /\ Produce("maintenance", new)
              /\ ToSet(new) = {Stats(s) : s \in LiveIds} \cup {Overload}
<1>1. LiveIds \in SUBSET Ids
  BY DEF LiveIds
<1>2. PICK order \in SetToSeqs(LiveIds) :
         Produce("maintenance",
                 [i \in DOMAIN order |-> Stats(order[i])] \o <<Overload>>)
  BY DEF SecondTick
<1>. DEFINE stats == [i \in DOMAIN order |-> Stats(order[i])]
<1>3. stats \in Seq(Events) /\ ToSet(stats) = {Stats(s) : s \in LiveIds}
  BY <1>1, EnumeratedEvents
<1>4. Produce("maintenance", stats \o <<Overload>>)
  BY <1>2
<1>. HIDE DEF stats
<1>5. stats \o <<Overload>> = Append(stats, Overload) /\ Overload \in Events
  BY <1>3, EventType
<1>6. Append(stats, Overload) \in Seq(Events)
      /\ ToSet(Append(stats, Overload)) = ToSet(stats) \cup {Overload}
  BY <1>3, <1>5, ToSetAppend
<1>. QED  BY <1>3, <1>4, <1>5, <1>6 DEF SecondTick
-----------------------------------------------------------------------------
(* Where events may be.                                                    *)

\* Sessions are numbered as they are made, and events are of sessions.
OldIds ==
    /\ \A e \in Seen : e.s < nextId
    /\ \A s \in Ids : Live(s) \/ s \in resumes \/ s \in kicked => s < nextId

\* What a task may hold.
InHands(t) ==
    \A e \in ToSet(outbox[t]) :
        \/ t \in Workers /\ e.ev \in {"open", "resume", "data"}
        \/ t = "maintenance" /\ e.ev \in {"stats", "close", "overload"}
        \/ t = "drain" /\ e.ev = "close"

Hands == \A t \in Tasks : InHands(t)

Places == OldIds /\ Hands

LEMMA ProduceHands ==
    ASSUME TypeOK, NEW t \in Tasks, NEW new \in Seq(Events), Produce(t, new)
    PROVE  /\ outbox'[t] = new /\ \A u \in Tasks \ {t} : outbox'[u] = outbox[u]
           /\ Held' \subseteq Held \cup ToSet(new)
<1>1. outbox'[t] = new /\ \A u \in Tasks \ {t} : outbox'[u] = outbox[u]
  BY DEF Produce, TypeOK, TableTypeOK
<1>2. ASSUME NEW e \in Held' PROVE e \in Held \cup ToSet(new)
  <2>1. PICK u \in Tasks : e \in ToSet(outbox'[u])
    BY <1>2 DEF Held
  <2>. QED  BY <1>1, <2>1 DEF Held
<1>. QED  BY <1>1, <1>2

\* The kinds and the sessions of the events.
LEMMA EventFields ==
    /\ \A s : /\ Open(s).ev = "open" /\ Open(s).s = s
              /\ Close(s).ev = "close" /\ Close(s).s = s
              /\ Resume(s).ev = "resume" /\ Resume(s).s = s
              /\ Stats(s).ev = "stats" /\ Stats(s).s = s
    /\ \A s, n : Data(s, n).ev = "data" /\ Data(s, n).s = s /\ Data(s, n).n = n
    /\ Overload.ev = "overload" /\ Overload.s = 0
  BY DEF Event, Open, Close, Resume, Stats, Data, Overload

\* The events that a single one or a batch holds.
LEMMA NewEvents ==
    ASSUME NEW s \in Ids
    PROVE  /\ <<Open(s)>> \in Seq(Events) /\ ToSet(<<Open(s)>>) = {Open(s)}
           /\ <<Resume(s)>> \in Seq(Events) /\ ToSet(<<Resume(s)>>) = {Resume(s)}
           /\ \A rx, n : ToSet(Batch(s, rx, n)) = {Data(s, rx + i) : i \in 1 .. n}
<1>1. <<Open(s)>> \in Seq(Events) /\ <<Resume(s)>> \in Seq(Events)
  BY EventType
<1>2. ToSet(<<Open(s)>>) = {Open(s)} /\ ToSet(<<Resume(s)>>) = {Resume(s)}
  BY DEF ToSet
<1>3. \A rx, n : ToSet(Batch(s, rx, n)) = {Data(s, rx + i) : i \in 1 .. n}
  BY DEF ToSet, Batch
<1>. QED  BY <1>1, <1>2, <1>3

\* A step in which task t takes events of its kind, of sessions that exist.
LEMMA PlacesProduce ==
    ASSUME TypeOK, Places, NEW t \in Tasks, NEW new \in Seq(Events), Produce(t, new),
           UNCHANGED <<upQueue, feed, resumes, kicked>>,
           nextId' \in Nat, nextId <= nextId',
           \A e \in ToSet(new) : e.s < nextId',
           \A s \in Ids : Live(s)' => Live(s) \/ s < nextId',
           InHands(t)'
    PROVE  Places'
<1>1. /\ \A u \in Tasks \ {t} : outbox'[u] = outbox[u]
      /\ Held' \subseteq Held \cup ToSet(new)
  BY ProduceHands
<1>2. Seen' \subseteq Seen \cup ToSet(new)
  BY <1>1 DEF Seen, Queued, Fed
<1>3. nextId \in Nat /\ Ids \subseteq Nat
      /\ \A e \in Seen : e.s \in Nat
  <2>1. nextId \in Nat /\ Ids \subseteq Nat
    BY Constants DEF TypeOK, TableTypeOK
  <2>2. Seen \subseteq Events
    BY ToSetType DEF Seen, Queued, Fed, Held, TypeOK, TableTypeOK
  <2>3. \A e \in Events : e.s \in Nat
    BY Constants DEF Events


  <2>. QED  BY <2>1, <2>2, <2>3
<1>4. OldIds'
  BY <1>2, <1>3 DEF Places, OldIds
<1>5. Hands'
  BY <1>1 DEF Places, Hands, InHands
<1>. QED  BY <1>4, <1>5 DEF Places
-----------------------------------------------------------------------------
LEMMA PlacesClient ==
    ASSUME TypeOK, Places, ClientNext, UNCHANGED engineVars
    PROVE  Places'
<1>1. /\ UNCHANGED <<upQueue, feed, resumes, kicked>>
      /\ nextId \in Nat /\ Workers \subseteq Tasks
  BY Constants DEF engineVars, linkVars, TypeOK, TableTypeOK
<1>2. CASE UNCHANGED <<sessions, nextId, outbox>>
  BY <1>1, <1>2 DEF Places, OldIds, Hands, InHands, Seen, Held, Queued, Fed, Live
<1>3. ASSUME NEW t \in Workers, Creates(t) PROVE Places'
  <2>1. /\ nextId \in Ids /\ nextId' = nextId + 1 /\ Produce(t, <<Open(nextId)>>)
        /\ \A r \in Ids \ {nextId} : sessions'[r] = sessions[r]
    BY <1>3 DEF Creates
  <2>2. /\ <<Open(nextId)>> \in Seq(Events)
        /\ ToSet(<<Open(nextId)>>) = {Open(nextId)}
    BY <2>1, NewEvents
  <2>. DEFINE new == <<Open(nextId)>>
  <2>3. /\ new \in Seq(Events) /\ Produce(t, new)
        /\ \A e \in ToSet(new) : e.s = nextId /\ e.ev = "open"
    BY <2>1, <2>2, EventFields
  <2>4. /\ \A s \in Ids : Live(s)' => Live(s) \/ s < nextId'
        /\ nextId < nextId' /\ nextId <= nextId' /\ nextId' \in Nat
    <3>1. nextId < nextId' /\ nextId <= nextId' /\ nextId' \in Nat
      BY <1>1, <2>1
    <3>. QED  BY <2>1, <3>1 DEF Live, NoSession
  <2>. HIDE DEF new
  <2>5. InHands(t)'
    <3>1. outbox'[t] = new
      BY <1>1, <1>3, <2>3, ProduceHands
    <3>. QED  BY <1>3, <2>3, <3>1 DEF InHands
  <2>6. \A e \in ToSet(new) : e.s < nextId'
    BY <2>3, <2>4
  <2>. QED  BY <1>1, <1>3, <2>3, <2>4, <2>5, <2>6, PlacesProduce
<1>4. ASSUME NEW t \in Workers, NEW s \in Ids, NEW new \in Seq(Events),
             Produce(t, new), UNCHANGED nextId, sessions[s].state # "none",
             \A r \in Ids \ {s} : sessions'[r] = sessions[r],
             \A e \in ToSet(new) : e.s = s /\ e.ev \in {"resume", "data"}
      PROVE  Places'
  <2>1. Live(s) /\ s < nextId
    BY <1>4, SessionTypes DEF Places, OldIds, TypeOK
  <2>2. InHands(t)'
    BY <1>1, <1>4, ProduceHands DEF InHands
  <2>3. \A r \in Ids : Live(r)' => Live(r) \/ r < nextId'
    BY <1>4, <2>1 DEF Live
  <2>. QED  BY <1>1, <1>4, <2>1, <2>2, <2>3, PlacesProduce
<1>5. ASSUME NEW t \in Workers, NEW s \in Ids, Returns(t, s) PROVE Places'
  <2>. DEFINE new == <<Resume(s)>>
  <2>1. /\ new \in Seq(Events)
        /\ \A e \in ToSet(new) : e.s = s /\ e.ev \in {"resume", "data"}
    <3>1. new \in Seq(Events) /\ ToSet(new) = {Resume(s)}
      BY NewEvents
    <3>. QED  BY <3>1, EventFields
  <2>2. /\ Produce(t, new) /\ UNCHANGED nextId /\ sessions[s].state # "none"
        /\ \A r \in Ids \ {s} : sessions'[r] = sessions[r]
    BY <1>5 DEF Returns
  <2>. HIDE DEF new
  <2>. QED  BY <1>4, <2>1, <2>2
<1>6. ASSUME NEW t \in Workers, NEW s \in Ids, NEW n \in Nat, Releases(t, s, n)
      PROVE  Places'
  <2>. DEFINE rx == sessions[s].rx
              new == Batch(s, rx, n)
  <2>1. /\ new \in Seq(Events) /\ Produce(t, new) /\ UNCHANGED nextId
        /\ sessions[s].state # "none"
        /\ \A r \in Ids \ {s} : sessions'[r] = sessions[r]
    BY <1>6 DEF Releases
  <2>. HIDE DEF rx
  <2>2. ToSet(new) = {Data(s, rx + i) : i \in 1 .. n}
    BY NewEvents
  <2>. HIDE DEF new
  <2>3. \A e \in ToSet(new) : e.s = s /\ e.ev \in {"resume", "data"}
    BY <2>2, EventFields
  <2>. QED  BY <1>4, <2>1, <2>3
<1>. QED  BY <1>2, <1>3, <1>5, <1>6, ClientBatch

LEMMA PlacesOwn ==
    ASSUME TypeOK, Places,
           \/ \E idle, over : MaintainTick(idle, over)
           \/ SecondTick \/ Drain
    PROVE  Places'
<1>1. /\ UNCHANGED <<upQueue, feed, resumes, kicked, nextId>>
      /\ nextId \in Nat /\ 0 < nextId /\ {"maintenance", "drain"} \subseteq Tasks
  <2>1. UNCHANGED <<upQueue, feed, resumes, kicked, nextId>>
    BY DEF MaintainTick, Maintain, SecondTick, Drain, ShutdownAll, engineVars,
           linkVars, handshakeVars
  <2>2. nextId \in Nat /\ 0 < nextId
    BY Constants DEF TypeOK, TableTypeOK
  <2>. QED  BY <2>1, <2>2, Constants
<1>2. \A s \in Ids : Live(s) => s < nextId
  BY DEF Places, OldIds
<1>3. ASSUME NEW idle, NEW over, MaintainTick(idle, over) PROVE Places'
  <2>1. Maintain(idle, over)
    BY <1>3 DEF MaintainTick
  <2>2. PICK new \in Seq(Events) :
           Produce("maintenance", new) /\ ToSet(new) = {Close(s) : s \in over}
    BY <2>1, MaintainBatch
  <2>3. /\ \A s \in over : s \in Ids /\ Live(s)
        /\ \A s \in Ids : Live(s)' => Live(s)
    BY <2>1, MaintainEffect DEF Live, NoSession
  <2>4. InHands("maintenance")'
    BY <1>1, <2>2, ProduceHands, EventFields DEF InHands
  <2>5. \A e \in ToSet(new) : e.s < nextId'
    BY <1>1, <1>2, <2>2, <2>3, EventFields
  <2>. QED  BY <1>1, <2>2, <2>3, <2>4, <2>5, PlacesProduce
<1>4. CASE SecondTick
  <2>1. PICK new \in Seq(Events) :
           /\ Produce("maintenance", new)
           /\ ToSet(new) = {Stats(s) : s \in LiveIds} \cup {Overload}
    BY <1>4, SecondTickBatch
  <2>2. InHands("maintenance")'
    BY <1>1, <2>1, ProduceHands, EventFields DEF InHands
  <2>3. \A e \in ToSet(new) : e.s < nextId'
    BY <1>1, <1>2, <2>1, EventFields DEF LiveIds
  <2>4. \A s \in Ids : Live(s)' => Live(s)
    BY <1>4 DEF SecondTick, Live
  <2>. QED  BY <1>1, <2>1, <2>2, <2>3, <2>4, PlacesProduce
<1>5. CASE Drain
  <2>1. PICK order \in SetToSeqs(LiveIds) : Produce("drain", Closes(order))
    BY <1>5 DEF Drain, ShutdownAll
  <2>2. /\ Closes(order) \in Seq(Events)
        /\ ToSet(Closes(order)) = {Close(s) : s \in LiveIds}
    BY EnumeratedEvents DEF LiveIds
  <2>3. InHands("drain")'
    BY <1>1, <2>1, <2>2, ProduceHands, EventFields DEF InHands
  <2>4. \A e \in ToSet(Closes(order)) : e.s < nextId'
    BY <1>1, <1>2, <2>2, EventFields DEF LiveIds
  <2>5. \A s \in Ids : ~Live(s)'
    BY <1>5 DEF Drain, ShutdownAll, Without, Live
  <2>. QED  BY <1>1, <2>1, <2>2, <2>3, <2>4, <2>5, PlacesProduce
<1>. QED  BY <1>3, <1>4, <1>5

LEMMA PlacesNext ==
    ASSUME TypeOK, Places, [Next]_vars
    PROVE  Places'
<1>1. ASSUME NEW t \in Tasks, PushUp(t) PROVE Places'
  <2>1. /\ UNCHANGED <<sessions, nextId, feed, resumes, kicked>>
        /\ Held' \subseteq Held
        /\ Queued' \subseteq Queued \cup Held
    BY <1>1, PushEffect
  <2>2. Seen' \subseteq Seen
    BY <2>1 DEF Seen, Fed
  <2>3. OldIds'
    BY <2>1, <2>2 DEF Places, OldIds, Live
  <2>4. \A u \in Tasks : ToSet(outbox'[u]) \subseteq ToSet(outbox[u])
    <3>1. outbox \in [Tasks -> Seq(Events)]
      BY DEF TypeOK, TableTypeOK
    <3>. QED  BY <1>1, <3>1, OutboxPushed, ToSetTail
  <2>5. Hands'
    BY <2>4 DEF Places, Hands, InHands
  <2>. QED  BY <2>3, <2>5 DEF Places
<1>2. CASE Connect \/ Hello \/ RunLogicLink \/ WriteFrame \/ LinkBreak
  <2>1. UNCHANGED <<sessions, nextId, outbox, kicked>> /\ Held' = Held
    BY <1>2 DEF Connect, Hello, RunLogicLink, WriteFrame, LinkBreak, linkOnly,
                tableVars, Held
  <2>2. Seen' \subseteq Seen
    <3>1. CASE WriteFrame
      BY <3>1, WriteEffect
    <3>2. CASE ~WriteFrame
      BY <1>2, <2>1, <3>2, ToSetEmpty
         DEF Connect, Hello, RunLogicLink, LinkBreak, Seen, Queued, Fed
    <3>. QED  BY <3>1, <3>2
  <2>3. resumes' \subseteq resumes \cup LiveIds
    BY <1>2 DEF Connect, Hello, RunLogicLink, WriteFrame, LinkBreak, ToAnnounce
  <2>4. OldIds'
    BY <2>1, <2>2, <2>3 DEF Places, OldIds, Live, LiveIds
  <2>5. Hands'
    BY <2>1 DEF Places, Hands, InHands
  <2>. QED  BY <2>4, <2>5 DEF Places
<1>3. ASSUME NEW s \in Ids, WriteResume(s) PROVE Places'
  <2>1. /\ UNCHANGED <<sessions, nextId, outbox, kicked>>
        /\ Seen' = Seen \cup {Resume(s)} /\ s \in resumes /\ resumes' \subseteq resumes
    BY <1>3, ResumeEffect DEF WriteResume, linkOnly, tableVars
  <2>2. OldIds'
    BY <2>1, EventFields DEF Places, OldIds, Live
  <2>3. Hands'
    BY <2>1 DEF Places, Hands, InHands
  <2>. QED  BY <2>2, <2>3 DEF Places
<1>4. ASSUME NEW s \in Ids, LogicKick(s) PROVE Places'
  <2>1. /\ UNCHANGED <<nextId, outbox, upQueue, feed, resumes>>
        /\ kicked' = kicked \cup {s} /\ Live(s)
        /\ \A r \in Ids : Live(r)' => Live(r)
    BY <1>4 DEF LogicKick, Kick, Without, linkVars, handshakeVars, Live
  <2>2. Seen' = Seen
    BY <2>1 DEF Seen, Held, Queued, Fed
  <2>3. OldIds'
    BY <2>1, <2>2 DEF Places, OldIds
  <2>4. Hands'
    BY <2>1 DEF Places, Hands, InHands
  <2>. QED  BY <2>3, <2>4 DEF Places
<1>5. CASE Exit \/ UNCHANGED vars
  <2>1. UNCHANGED <<sessions, nextId, outbox, upQueue, feed, resumes, kicked>>
    BY <1>5 DEF Exit, vars, tableVars, engineVars, linkVars
  <2>. QED  BY <2>1 DEF Places, OldIds, Hands, InHands, Seen, Held, Queued, Fed, Live
<1>. QED  BY <1>1, <1>2, <1>3, <1>4, <1>5, PlacesClient, PlacesOwn DEF Next, Step

LEMMA PlacesInit == Init => Places
<1>. SUFFICES ASSUME Init PROVE Places
  OBVIOUS
<1>1. /\ Seen = {} /\ resumes = {} /\ kicked = {}
      /\ \A t \in Tasks : ToSet(outbox[t]) = {}
      /\ \A s \in Ids : ~Live(s)
  BY ToSetEmpty DEF Init, TableInit, Held, Queued, Fed, Seen, Live
<1>. QED  BY <1>1 DEF Places, OldIds, Hands, InHands
-----------------------------------------------------------------------------
(* SessionClose is the last frame of a session.                            *)

Final ==
    \A e, f \in Events : Ahead(e, f) /\ e.ev = "close" => f.s # e.s

\* The session of a Close is out of the table.
ClosedIsDead ==
    \A e \in Seen : e.ev = "close" => e.s \in Ids /\ ~Live(e.s)

\* Nobody holds another event of a session whose Close is held.
CloseHeldLast ==
    \A e, f \in Held : e.ev = "close" /\ f.s = e.s => f = e

\* Until the link is up, it has been told names alone, and only then are there
\* names to tell.
NamesFirst ==
    /\ link # "up" => \A e \in Fed : e.ev = "resume"
    /\ link # "resume" => resumes = {}

\* No task but maintenance has anything in hand of a session in Grace.
GraceIsQuiet ==
    \A s \in Ids : sessions[s].state = "grace" =>
        \A t \in Tasks \ {"maintenance"} : \A e \in ToSet(outbox[t]) : e.s # s

FinalInv ==
    /\ Final /\ ClosedIsDead /\ CloseHeldLast /\ NamesFirst /\ GraceIsQuiet
    /\ outbox["drain"] = <<>>

LEMMA SeenType == TypeOK => Seen \subseteq Events
  BY ToSetType DEF Seen, Queued, Fed, Held, TypeOK, TableTypeOK

LEMMA AheadSeen ==
    ASSUME NEW e, NEW f, Ahead(e, f)
    PROVE  e \in Seen /\ f \in Seen
  BY BeforeElements DEF Ahead, Seen, Held, Queued, Fed

\* A step in which an idle task takes new events: none of a session that is
\* closed, and a Close only of one of which nothing else is held.
LEMMA FinalProduce ==
    ASSUME TypeOK, FinalInv, NEW t \in Tasks, NEW new \in Seq(Events),
           Idle(t), Produce(t, new), UNCHANGED <<upQueue, feed, link, resumes>>,
           \A e \in Seen, f \in ToSet(new) : e.ev = "close" => f.s # e.s,
           \A e, f : Before(new, e, f) /\ e.ev = "close" => f.s # e.s,
           \A e \in ToSet(new) : e.ev = "close" =>
               /\ e.s \in Ids /\ ~Live(e.s)'
               /\ \A f \in Held \cup ToSet(new) : f.s = e.s => f = e,
           \A e \in Seen : e.ev = "close" => ~Live(e.s)',
           GraceIsQuiet', outbox'["drain"] = <<>>
    PROVE  FinalInv'
<1>1. Held' \subseteq Held \cup ToSet(new) /\ Queued' = Queued /\ Fed' = Fed
  BY ProduceHands DEF Queued, Fed
<1>2. Seen' \subseteq Seen \cup ToSet(new)
  BY <1>1 DEF Seen
<1>3. Final'
  <2>1. ASSUME NEW e \in Events, NEW f \in Events, Ahead(e, f)', e.ev = "close"
        PROVE  f.s # e.s
    <3>1. \/ Ahead(e, f)
          \/ e \in Fed \cup Queued /\ f \in ToSet(new)
          \/ Before(new, e, f)
      BY <2>1, AheadProduce
    <3>. QED  BY <2>1, <3>1 DEF FinalInv, Final, Seen
  <2>. QED  BY <2>1 DEF Final
<1>4. ClosedIsDead'
  BY <1>2 DEF FinalInv, ClosedIsDead
<1>5. CloseHeldLast'
  <2>1. ASSUME NEW e \in Held', NEW f \in Held', e.ev = "close", f.s = e.s
        PROVE  f = e
    <3>1. e \in Held \/ e \in ToSet(new)
      BY <1>1, <2>1
    <3>2. CASE e \in Held
      <4>1. f \in Held
        BY <1>1, <2>1, <3>2 DEF Seen
      <4>. QED  BY <2>1, <3>2, <4>1 DEF FinalInv, CloseHeldLast
    <3>3. CASE e \in ToSet(new)
      BY <1>1, <2>1, <3>3
    <3>. QED  BY <3>1, <3>2, <3>3
  <2>. QED  BY <2>1 DEF CloseHeldLast
<1>6. NamesFirst'
  BY <1>1 DEF FinalInv, NamesFirst
<1>. QED  BY <1>3, <1>4, <1>5, <1>6 DEF FinalInv

\* A step in which nothing new comes into anybody's hands, nor any order.
LEMMA FinalFrame ==
    ASSUME TypeOK, FinalInv,
           \A e, f : Ahead(e, f)' => Ahead(e, f),
           Seen' \subseteq Seen, Held' \subseteq Held,
           \A t \in Tasks : ToSet(outbox'[t]) \subseteq ToSet(outbox[t]),
           \A s \in Ids : Live(s)' => Live(s),
           \A s \in Ids : sessions'[s].state = "grace" => sessions[s].state = "grace",
           NamesFirst', outbox'["drain"] = <<>>
    PROVE  FinalInv'
<1>1. Final'
  BY DEF FinalInv, Final
<1>2. ClosedIsDead'
  BY DEF FinalInv, ClosedIsDead
<1>3. CloseHeldLast'
  BY DEF FinalInv, CloseHeldLast
<1>4. GraceIsQuiet'
  BY DEF FinalInv, GraceIsQuiet
<1>. QED  BY <1>1, <1>2, <1>3, <1>4 DEF FinalInv

LEMMA FinalClient ==
    ASSUME TypeOK, Places, FinalInv, ClientNext, UNCHANGED engineVars
    PROVE  FinalInv'
<1>1. /\ UNCHANGED <<upQueue, feed, link, resumes>>
      /\ Workers \subseteq Tasks /\ "maintenance" \notin Workers /\ "drain" \notin Workers
      /\ Ids \subseteq Nat /\ nextId \in Nat
  BY Constants, TableAssumption DEF engineVars, linkVars, TypeOK, TableTypeOK
<1>2. outbox["drain"] = <<>>
  BY DEF FinalInv
<1>3. CASE UNCHANGED <<sessions, nextId, outbox>>
  <2>1. /\ \A e, f : Ahead(e, f)' <=> Ahead(e, f)
        /\ Seen' = Seen /\ Held' = Held
    BY <1>1, <1>3 DEF Ahead, Seen, Held, Queued, Fed
  <2>2. \A s \in Ids : Live(s)' => Live(s)
    BY <1>3 DEF Live
  <2>3. NamesFirst'
    BY <1>1 DEF FinalInv, NamesFirst, Fed
  <2>. QED  BY <1>2, <1>3, <2>1, <2>2, <2>3, FinalFrame
<1>4. ASSUME NEW t \in Workers, NEW s \in Ids, NEW new \in Seq(Events),
             Idle(t), Produce(t, new), s >= nextId \/ Live(s),
             sessions'[s].state = "active",
             \A r \in Ids \ {s} : sessions'[r] = sessions[r],
             \A e \in ToSet(new) : e.s = s /\ e.ev # "close"
      PROVE  FinalInv'
  <2>1. \A e \in Seen : e.ev = "close" => e.s # s /\ e.s \in Ids /\ ~Live(e.s)
    <3>1. ASSUME NEW e \in Seen, e.ev = "close", e.s = s PROVE FALSE
      <4>1. ~Live(s) /\ s < nextId
        BY <3>1 DEF FinalInv, ClosedIsDead, Places, OldIds
      <4>. QED  BY <1>1, <1>4, <4>1
    <3>. QED  BY <3>1 DEF FinalInv, ClosedIsDead
  <2>2. \A e \in Seen : e.ev = "close" => ~Live(e.s)'
    BY <1>4, <2>1 DEF Live, NoSession
  <2>3. outbox'[t] = new /\ \A u \in Tasks \ {t} : outbox'[u] = outbox[u]
    BY <1>1, <1>4, ProduceHands
  <2>4. GraceIsQuiet'
    <3>1. ASSUME NEW r \in Ids, sessions'[r].state = "grace",
                 NEW u \in Tasks \ {"maintenance"}, NEW e \in ToSet(outbox'[u])
          PROVE  e.s # r
      <4>1. r # s /\ sessions[r].state = "grace"
        BY <1>4, <3>1
      <4>2. CASE u = t
        BY <1>4, <2>3, <3>1, <4>1, <4>2
      <4>3. CASE u # t
        BY <2>3, <3>1, <4>1, <4>3 DEF FinalInv, GraceIsQuiet
      <4>. QED  BY <4>2, <4>3
    <3>. QED  BY <3>1 DEF GraceIsQuiet
  <2>5. \A e, f : Before(new, e, f) => e.ev # "close"
    BY <1>4, BeforeElements
  <2>6. outbox'["drain"] = <<>>
    BY <1>1, <1>2, <2>3, Constants
  <2>7. \A e \in Seen, f \in ToSet(new) : e.ev = "close" => f.s # e.s
    BY <1>4, <2>1
  <2>. QED  BY <1>1, <1>4, <2>2, <2>4, <2>5, <2>6, <2>7, FinalProduce
<1>5. ASSUME NEW t \in Workers, Creates(t) PROVE FinalInv'
  <2>. DEFINE new == <<Open(nextId)>>
  <2>1. nextId \in Ids /\ Produce(t, new)
    BY <1>5 DEF Creates
  <2>2. new \in Seq(Events) /\ ToSet(new) = {Open(nextId)}
    BY <2>1, NewEvents
  <2>. HIDE DEF new
  <2>3. \A e \in ToSet(new) : e.s = nextId /\ e.ev # "close"
    BY <2>2, EventFields
  <2>4. nextId >= nextId
    BY <1>1
  <2>. QED  BY <1>4, <1>5, <2>1, <2>2, <2>3, <2>4 DEF Creates
<1>6. ASSUME NEW t \in Workers, NEW s \in Ids, Returns(t, s) PROVE FinalInv'
  <2>. DEFINE new == <<Resume(s)>>
  <2>1. new \in Seq(Events) /\ ToSet(new) = {Resume(s)} /\ Produce(t, new)
    BY <1>6, NewEvents DEF Returns
  <2>. HIDE DEF new
  <2>2. \A e \in ToSet(new) : e.s = s /\ e.ev # "close"
    BY <2>1, EventFields
  <2>3. Live(s)
    BY <1>6, SessionTypes DEF Returns, TypeOK
  <2>. QED  BY <1>4, <1>6, <2>1, <2>2, <2>3 DEF Returns
<1>7. ASSUME NEW t \in Workers, NEW s \in Ids, NEW n \in Nat, Releases(t, s, n)
      PROVE  FinalInv'
  <2>. DEFINE rx == sessions[s].rx
              new == Batch(s, rx, n)
  <2>1. new \in Seq(Events) /\ Produce(t, new)
    BY <1>7 DEF Releases
  <2>. HIDE DEF rx
  <2>2. ToSet(new) = {Data(s, rx + i) : i \in 1 .. n}
    BY NewEvents
  <2>. HIDE DEF new
  <2>3. \A e \in ToSet(new) : e.s = s /\ e.ev # "close"
    BY <2>2, EventFields
  <2>4. Live(s)
    BY <1>7, SessionTypes DEF Releases, TypeOK
  <2>. QED  BY <1>4, <1>7, <2>1, <2>3, <2>4 DEF Releases
<1>. QED  BY <1>3, <1>5, <1>6, <1>7, ClientBatch
-----------------------------------------------------------------------------
\* maintain: who falls silent has nothing in anybody's hands, and who is over
\* has been quiet since.
LEMMA FinalMaintain ==
    ASSUME TypeOK, Places, FinalInv, NEW idle, NEW over, MaintainTick(idle, over)
    PROVE  FinalInv'
<1>1. /\ Maintain(idle, over) /\ UNCHANGED <<upQueue, feed, link, resumes>>
      /\ "maintenance" \in Tasks /\ "maintenance" # "drain" /\ "drain" \in Tasks
  BY Constants DEF MaintainTick, engineVars, linkVars
<1>2. /\ \A s \in over : s \in Ids /\ sessions[s].state = "grace"
      /\ \A s \in Ids : \/ s \in over /\ ~Live(s)'
                        \/ s \notin over /\ Live(s) = Live(s)'
      /\ \A s \in Ids \ (idle \cup over) : sessions'[s] = sessions[s]
  BY <1>1, MaintainEffect
<1>3. PICK new \in Seq(Events) :
         /\ Idle("maintenance") /\ Produce("maintenance", new)
         /\ ToSet(new) = {Close(s) : s \in over}
         /\ \A e, f : Before(new, e, f) => e.s # f.s
  BY <1>1, MaintainBatch
<1>4. \A e \in ToSet(new) : e.s \in over /\ e = Close(e.s)
  BY <1>3, EventFields
<1>5. \A s \in over : Live(s)
  BY <1>2 DEF Live, NoSession
<1>6. \A e \in Seen, f \in ToSet(new) : e.ev = "close" => f.s # e.s
  BY <1>4, <1>5 DEF FinalInv, ClosedIsDead
<1>7. \A e \in Seen : e.ev = "close" => ~Live(e.s)'
  BY <1>2 DEF FinalInv, ClosedIsDead
<1>8. ASSUME NEW e \in ToSet(new), NEW f \in Held, f.s = e.s PROVE FALSE
  <2>1. PICK t \in Tasks : f \in ToSet(outbox[t])
    BY <1>8 DEF Held
  <2>2. t # "maintenance"
    BY <1>3, <2>1, ToSetEmpty DEF Idle
  <2>. QED  BY <1>2, <1>4, <1>8, <2>1, <2>2 DEF FinalInv, GraceIsQuiet
<1>9. \A e \in ToSet(new) : e.ev = "close" =>
          /\ e.s \in Ids /\ ~Live(e.s)'
          /\ \A f \in Held \cup ToSet(new) : f.s = e.s => f = e
  <2>1. \A e \in ToSet(new) : e.s \in Ids /\ ~Live(e.s)'
    BY <1>2, <1>4
  <2>2. \A e \in ToSet(new), f \in Held \cup ToSet(new) : f.s = e.s => f = e
    BY <1>4, <1>8
  <2>. QED  BY <2>1, <2>2
<1>10. /\ outbox'["maintenance"] = new
       /\ \A u \in Tasks \ {"maintenance"} : outbox'[u] = outbox[u]
  BY <1>1, <1>3, ProduceHands
<1>11. GraceIsQuiet'
  <2>1. ASSUME NEW s \in Ids, sessions'[s].state = "grace",
               NEW t \in Tasks \ {"maintenance"}, NEW e \in ToSet(outbox'[t])
        PROVE  e.s # s
    <3>1. e \in ToSet(outbox[t]) /\ outbox[t] = outbox'[t]
      BY <1>10, <2>1
    <3>2. CASE s \in idle
      <4>1. \A i \in DOMAIN outbox[t] : outbox[t][i].s # s
        BY <1>1, <3>2 DEF Maintain, Settled
      <4>. QED  BY <3>1, <4>1 DEF ToSet
    <3>3. CASE s \in over
      <4>1. sessions'[s] = NoSession
        BY <1>2, <3>3 DEF Live, NoSession
      <4>. QED  BY <2>1, <4>1 DEF NoSession
    <3>4. CASE s \notin idle \cup over
      BY <1>2, <2>1, <3>1, <3>4 DEF FinalInv, GraceIsQuiet
    <3>. QED  BY <3>2, <3>3, <3>4
  <2>. QED  BY <2>1 DEF GraceIsQuiet
<1>12. outbox'["drain"] = <<>>
  BY <1>1, <1>10 DEF FinalInv
<1>13. \A e, f : Before(new, e, f) /\ e.ev = "close" => f.s # e.s
  BY <1>3
<1>. QED  BY <1>1, <1>3, <1>6, <1>7, <1>9, <1>11, <1>12, <1>13, FinalProduce

\* The round of statistics is about sessions of the table.
LEMMA FinalTick ==
    ASSUME TypeOK, Places, FinalInv, SecondTick
    PROVE  FinalInv'
<1>1. /\ UNCHANGED <<sessions, upQueue, feed, link, resumes>>
      /\ "maintenance" \in Tasks /\ "maintenance" # "drain" /\ "drain" \in Tasks
      /\ Ids \subseteq Nat \ {0}
  BY Constants DEF SecondTick, linkVars
<1>2. PICK new \in Seq(Events) :
         /\ Idle("maintenance") /\ Produce("maintenance", new)
         /\ ToSet(new) = {Stats(s) : s \in LiveIds} \cup {Overload}
  BY SecondTickBatch
<1>3. \A e \in ToSet(new) : e.ev # "close" /\ (e.s \in LiveIds \/ e.s = 0)
  BY <1>2, EventFields
<1>4. \A e \in Seen, f \in ToSet(new) : e.ev = "close" => f.s # e.s
  BY <1>1, <1>3 DEF FinalInv, ClosedIsDead, LiveIds
<1>5. \A e, f : Before(new, e, f) => e.ev # "close"
  BY <1>3, BeforeElements
<1>6. \A e \in Seen : e.ev = "close" => ~Live(e.s)'
  BY <1>1 DEF FinalInv, ClosedIsDead, Live
<1>7. \A u \in Tasks \ {"maintenance"} : outbox'[u] = outbox[u]
  BY <1>1, <1>2, ProduceHands
<1>8. GraceIsQuiet' /\ outbox'["drain"] = <<>>
  BY <1>1, <1>7 DEF FinalInv, GraceIsQuiet
<1>. QED  BY <1>1, <1>2, <1>3, <1>4, <1>5, <1>6, <1>8, FinalProduce

\* push_up: a Close is queued when no other task has anything of its session.
LEMMA FinalPush ==
    ASSUME TypeOK, Places, FinalInv, NEW t \in Tasks, PushUp(t)
    PROVE  FinalInv'
<1>. DEFINE x == outbox[t][1]
<1>1. /\ UNCHANGED <<sessions, link, feed, resumes>>
      /\ outbox \in [Tasks -> Seq(Events)] /\ x \in Held /\ Held' \subseteq Held
      /\ Queued' \subseteq Queued \cup Held /\ outbox[t] # <<>>
      /\ x \in ToSet(outbox[t])
  <2>1. outbox \in [Tasks -> Seq(Events)]
    BY DEF TypeOK, TableTypeOK
  <2>2. x \in ToSet(outbox[t])
    BY <2>1, OutboxPushed, ToSetTail
  <2>. QED  BY <2>1, <2>2, PushEffect, Pushed
<1>2. \A u \in Tasks : ToSet(outbox'[u]) \subseteq ToSet(outbox[u])
  BY <1>1, OutboxPushed, ToSetTail
<1>3. Seen' \subseteq Seen
  BY <1>1 DEF Seen, Fed
<1>. HIDE DEF x
<1>4. ASSUME NEW e \in Events, NEW f \in Events, Ahead(e, f)', e.ev = "close"
      PROVE  f.s # e.s
  <2>1. CASE Ahead(e, f)
    BY <1>4, <2>1 DEF FinalInv, Final
  <2>2. ASSUME e = x, NEW u \in Tasks \ {t}, f \in ToSet(outbox[u]) PROVE f.s # e.s
    <3>1. t = "maintenance"
      <4>1. InHands(t)
        BY DEF Places, Hands
      <4>2. t # "drain"
        BY <1>1 DEF FinalInv
      <4>. QED  BY <1>1, <1>4, <2>2, <4>1, <4>2 DEF InHands
    <3>2. f.ev # "close"
      <4>1. InHands(u)
        BY DEF Places, Hands
      <4>2. u = "drain" => ToSet(outbox[u]) = {}
        BY ToSetEmpty DEF FinalInv
      <4>. QED  BY <2>2, <3>1, <4>1, <4>2 DEF InHands
    <3>3. f \in Held
      BY <2>2 DEF Held
    <3>. QED  BY <1>1, <1>4, <2>2, <3>2, <3>3 DEF FinalInv, CloseHeldLast
  <2>. QED  BY <1>4, <2>1, <2>2, AheadPush DEF x
<1>5. Final'
  BY <1>4 DEF Final
<1>6. ClosedIsDead'
  BY <1>1, <1>3 DEF FinalInv, ClosedIsDead, Live
<1>7. CloseHeldLast'
  BY <1>1 DEF FinalInv, CloseHeldLast
<1>8. NamesFirst'
  BY <1>1 DEF FinalInv, NamesFirst, Fed
<1>9. GraceIsQuiet'
  BY <1>1, <1>2 DEF FinalInv, GraceIsQuiet
<1>10. outbox'["drain"] = <<>>
  <2>1. t # "drain" /\ "drain" \in Tasks
    BY <1>1, Constants DEF FinalInv
  <2>. QED  BY <1>1, <2>1, OutboxPushed DEF FinalInv
<1>. QED  BY <1>5, <1>6, <1>7, <1>8, <1>9, <1>10 DEF FinalInv
-----------------------------------------------------------------------------
LEMMA FinalLink ==
    ASSUME TypeOK, FinalInv, DownIsEmpty,
           \/ Connect \/ Hello \/ RunLogicLink \/ WriteFrame \/ LinkBreak
           \/ \E s \in Ids : WriteResume(s)
    PROVE  FinalInv'
<1>1. UNCHANGED <<sessions, outbox>> /\ Held' = Held
  BY DEF Connect, Hello, RunLogicLink, WriteFrame, LinkBreak, WriteResume, linkOnly,
         tableVars, Held
<1>2. \A s \in Ids : Live(s)' => Live(s)
  BY <1>1 DEF Live
<1>3. CASE Connect \/ Hello \/ RunLogicLink \/ WriteFrame \/ LinkBreak
  <2>1. \A e, f : Ahead(e, f)' => Ahead(e, f)
    BY <1>3, AheadLink
  <2>2. Seen' \subseteq Seen
    <3>1. CASE WriteFrame
      BY <3>1, WriteEffect
    <3>2. CASE ~WriteFrame
      BY <1>1, <1>3, <3>2, ToSetEmpty
         DEF Connect, Hello, RunLogicLink, LinkBreak, Seen, Queued, Fed
    <3>. QED  BY <3>1, <3>2
  <2>3. NamesFirst'
    <3>1. CASE Connect
      BY <3>1, ToSetEmpty DEF Connect, DownIsEmpty, NamesFirst, Fed
    <3>2. CASE Hello
      BY <3>2 DEF Hello, FinalInv, NamesFirst, Fed
    <3>3. CASE RunLogicLink
      BY <3>3 DEF RunLogicLink, NamesFirst
    <3>4. CASE WriteFrame
      BY <3>4 DEF WriteFrame, FinalInv, NamesFirst
    <3>5. CASE LinkBreak
      BY <3>5, ToSetEmpty DEF LinkBreak, NamesFirst, Fed
    <3>. QED  BY <1>3, <3>1, <3>2, <3>3, <3>4, <3>5
  <2>. QED  BY <1>1, <1>2, <2>1, <2>2, <2>3, FinalFrame DEF FinalInv
<1>4. ASSUME NEW s \in Ids, WriteResume(s) PROVE FinalInv'
  <2>1. /\ Seen' = Seen \cup {Resume(s)} /\ link = "resume"
        /\ UNCHANGED link /\ feed \in Seq(Events) /\ feed' = Append(feed, Resume(s))
        /\ Resume(s) \in Events /\ Resume(s).ev = "resume"
    BY <1>4, ResumeEffect, EventType, EventFields DEF WriteResume, TypeOK
  <2>2. Fed' = Fed \cup {Resume(s)}
    BY <2>1, ToSetAppend DEF Fed
  <2>3. \A e \in Fed : e.ev = "resume"
    BY <2>1 DEF FinalInv, NamesFirst
  <2>4. Final'
    <3>1. ASSUME NEW e \in Events, NEW f \in Events, Ahead(e, f)', e.ev = "close"
          PROVE  f.s # e.s
      <4>1. Ahead(e, f) \/ e = Resume(s) \/ e \in Fed
        BY <1>4, <3>1, AheadResume
      <4>. QED  BY <2>1, <2>3, <3>1, <4>1 DEF FinalInv, Final
    <3>. QED  BY <3>1 DEF Final
  <2>5. ClosedIsDead'
    BY <1>1, <2>1 DEF FinalInv, ClosedIsDead, Live
  <2>6. CloseHeldLast' /\ GraceIsQuiet'
    BY <1>1 DEF FinalInv, CloseHeldLast, GraceIsQuiet
  <2>7. NamesFirst'
    BY <2>1, <2>2, <2>3 DEF NamesFirst
  <2>. QED  BY <1>1, <2>4, <2>5, <2>6, <2>7 DEF FinalInv
<1>. QED  BY <1>3, <1>4

LEMMA FinalKick ==
    ASSUME TypeOK, FinalInv, NEW s \in Ids, LogicKick(s)
    PROVE  FinalInv'
<1>1. /\ UNCHANGED <<outbox, upQueue, feed, link, resumes>>
      /\ sessions' = Without({s})
  BY DEF LogicKick, Kick, linkVars
<1>2. /\ \A e, f : Ahead(e, f)' <=> Ahead(e, f)
      /\ Seen' = Seen /\ Held' = Held
  BY <1>1 DEF Ahead, Seen, Held, Queued, Fed
<1>3. /\ \A r \in Ids : Live(r)' => Live(r)
      /\ \A r \in Ids : sessions'[r].state = "grace" => sessions[r].state = "grace"
  BY <1>1 DEF Without, Live, NoSession
<1>4. NamesFirst'
  BY <1>1 DEF FinalInv, NamesFirst, Fed
<1>. QED  BY <1>1, <1>2, <1>3, <1>4, FinalFrame DEF FinalInv

RunningFinalInv == mode = "running" => FinalInv

LEMMA RunningStep ==
    ASSUME [Next]_vars, mode' = "running"
    PROVE  /\ mode = "running"
           /\ \/ UNCHANGED vars
              \/ ClientNext /\ UNCHANGED engineVars
              \/ \E idle, over : MaintainTick(idle, over)
              \/ \E t \in Tasks : PushUp(t)
              \/ SecondTick
              \/ \/ Connect \/ Hello \/ RunLogicLink \/ WriteFrame \/ LinkBreak
                 \/ \E s \in Ids : WriteResume(s)
              \/ \E s \in Ids : LogicKick(s)
<1>1. ~Drain /\ ~Exit
  BY DEF Drain, Exit
<1>2. UNCHANGED mode
  BY <1>1 DEF Next, Step, MaintainTick, PushUp, SecondTick, Connect, Hello,
         RunLogicLink, WriteFrame, LinkBreak, WriteResume, LogicKick,
         engineVars, linkOnly, vars
<1>. QED  BY <1>1, <1>2 DEF Next, Step

LEMMA FinalNext ==
    ASSUME TypeOK, Places, RunningGhostInv, RunningFinalInv, [Next]_vars
    PROVE  RunningFinalInv'
<1>. SUFFICES ASSUME mode' = "running" PROVE FinalInv'
  BY DEF RunningFinalInv
<1>1. FinalInv /\ DownIsEmpty
  BY RunningStep DEF RunningFinalInv, RunningGhostInv, GhostInv
<1>2. CASE UNCHANGED vars
  <2>1. UNCHANGED <<sessions, outbox, upQueue, feed, link, resumes>>
    BY <1>2 DEF vars, tableVars, engineVars, linkVars
  <2>2. /\ \A e, f : Ahead(e, f)' <=> Ahead(e, f)
        /\ Seen' = Seen /\ Held' = Held
    BY <2>1 DEF Ahead, Seen, Held, Queued, Fed
  <2>3. NamesFirst' /\ \A r \in Ids : Live(r)' => Live(r)
    BY <1>1, <2>1 DEF FinalInv, NamesFirst, Fed, Live
  <2>. QED  BY <1>1, <2>1, <2>2, <2>3, FinalFrame DEF FinalInv
<1>. QED  BY <1>1, <1>2, RunningStep, FinalClient, FinalMaintain, FinalTick, FinalPush,
             FinalLink, FinalKick

LEMMA FinalInit == Init => RunningFinalInv
<1>. SUFFICES ASSUME Init PROVE FinalInv
  BY DEF RunningFinalInv
<1>1. /\ Seen = {} /\ Held = {} /\ Fed = {} /\ Queued = {} /\ resumes = {}
      /\ \A t \in Tasks : outbox[t] = <<>>
      /\ "drain" \in Tasks
  BY ToSetEmpty, Constants DEF Init, TableInit, Held, Queued, Fed, Seen
<1>2. \A e, f : ~Ahead(e, f)
  BY <1>1, AheadSeen
<1>3. GraceIsQuiet
  BY <1>1, ToSetEmpty DEF GraceIsQuiet
<1>. QED  BY <1>1, <1>2, <1>3 DEF FinalInv, Final, ClosedIsDead, CloseHeldLast,
             NamesFirst

LEMMA FinalIsClosed == TypeOK /\ RunningFinalInv => ClosedIsFinal
<1>. SUFFICES ASSUME TypeOK, FinalInv, NEW i \in DOMAIN feed, NEW j \in DOMAIN feed,
                     i < j, feed[i].ev = "close"
              PROVE  feed[j].s # feed[i].s
  BY DEF RunningFinalInv, ClosedIsFinal
<1>1. feed[i] \in Events /\ feed[j] \in Events
  BY DEF TypeOK
<1>2. Ahead(feed[i], feed[j])
  BY DEF Ahead, Before
<1>. QED  BY <1>1, <1>2 DEF FinalInv, Final

\* As long as the engine runs, no frame of a session follows its SessionClose,
\* with any number of receive tasks, and whatever the events that were lost:
\* a session that is over had nothing in any task's hands (maintain, push_up).
THEOREM NothingAfterClose == Spec => []ClosedIsFinal
<1>1. Init => TypeOK /\ Places /\ RunningGhostInv /\ RunningFinalInv
  BY InitType, PlacesInit, GhostInit, FinalInit
<1>2. /\ TypeOK /\ Places /\ RunningGhostInv /\ RunningFinalInv
      /\ [Next]_vars
      => (TypeOK /\ Places /\ RunningGhostInv /\ RunningFinalInv)'
  BY NextType, PlacesNext, GhostNext, FinalNext
<1>. QED  BY <1>1, <1>2, FinalIsClosed, PTL DEF Spec
-----------------------------------------------------------------------------
(* The data of a session arrives in order.                                 *)

\* No two receive tasks have events of one session in hand: the kernel gives a
\* client's datagrams to one socket, and by the time it sends from another
\* address the first task has pushed what it had (SO_REUSEPORT in udp.rs, the
\* handler in engine.rs).
Sole ==
    \A t, u \in Workers : \A e \in ToSet(outbox[t]), f \in ToSet(outbox[u]) :
        e.s = f.s => t = u

SameStream(e, f) == e.ev = "data" /\ f.ev = "data" /\ e.s = f.s

Ascending == \A e, f \in Events : Ahead(e, f) /\ SameStream(e, f) => e.n < f.n

\* What is on its way was counted.
Counted ==
    \A e \in Seen : e.ev = "data" /\ e.s \in Ids /\ Live(e.s)
                        => e.n <= sessions[e.s].rx

OrderInv == Ascending /\ Counted

\* A step that brings no data.
LEMMA OrderFrame ==
    ASSUME OrderInv,
           \A e, f \in Events : Ahead(e, f)' /\ SameStream(e, f) => Ahead(e, f),
           \A e \in Seen' : e.ev = "data" => e \in Seen,
           \A s \in Ids : Live(s)' => \/ Live(s) /\ sessions'[s].rx = sessions[s].rx
                                      \/ s >= nextId,
           OldIds, nextId \in Nat, Ids \subseteq Nat
    PROVE  OrderInv'
<1>1. Ascending'
  BY DEF OrderInv, Ascending
<1>2. ASSUME NEW e \in Seen', e.ev = "data", e.s \in Ids, Live(e.s)'
      PROVE  e.n <= sessions'[e.s].rx
  <2>1. e \in Seen /\ ~(e.s >= nextId)
    <3>1. e \in Seen
      BY <1>2
    <3>2. e.s < nextId /\ e.s \in Nat
      BY <1>2, <3>1 DEF OldIds
    <3>. QED  BY <3>1, <3>2
  <2>. QED  BY <1>2, <2>1 DEF OrderInv, Counted
<1>3. Counted'
  BY <1>2 DEF Counted
<1>. QED  BY <1>1, <1>3 DEF OrderInv

\* A step in which a task takes events that are not data.
LEMMA OrderProduce ==
    ASSUME TypeOK, OrderInv, OldIds, NEW t \in Tasks, NEW new \in Seq(Events),
           Idle(t), Produce(t, new), UNCHANGED <<upQueue, feed>>,
           \A e \in ToSet(new) : e.ev # "data",
           \A s \in Ids : Live(s)' => \/ Live(s) /\ sessions'[s].rx = sessions[s].rx
                                      \/ s >= nextId
    PROVE  OrderInv'
<1>1. Seen' \subseteq Seen \cup ToSet(new)
  BY ProduceHands DEF Seen, Queued, Fed
<1>2. ASSUME NEW e \in Events, NEW f \in Events, Ahead(e, f)', SameStream(e, f)
      PROVE  Ahead(e, f)
  <2>1. Ahead(e, f) \/ f \in ToSet(new) \/ Before(new, e, f)
    BY <1>2, AheadProduce
  <2>. QED  BY <1>2, <2>1, BeforeElements DEF SameStream
<1>3. nextId \in Nat /\ Ids \subseteq Nat
  BY Constants DEF TypeOK, TableTypeOK
<1>. QED  BY <1>1, <1>2, <1>3, OrderFrame

\* A packet of an active session: its data is newer than all that was released.
LEMMA OrderReleases ==
    ASSUME TypeOK, OrderInv, UNCHANGED <<upQueue, feed>>,
           NEW t \in Workers, NEW s \in Ids, NEW n \in Nat, Releases(t, s, n)
    PROVE  OrderInv'
<1>. DEFINE rx == sessions[s].rx
            new == Batch(s, rx, n)
<1>1. /\ new \in Seq(Events) /\ Produce(t, new) /\ Idle(t) /\ t \in Tasks
      /\ sessions'[s].rx = rx + n /\ Live(s) /\ rx \in Nat
      /\ \A r \in Ids \ {s} : sessions'[r] = sessions[r]
  <2>1. Live(s) /\ rx \in Nat
    BY SessionTypes, Constants DEF Releases, TypeOK
  <2>. QED  BY <2>1, Constants DEF Releases
<1>2. \A e \in Seen : e.ev = "data" /\ e.s = s => e.n <= rx
  BY <1>1 DEF OrderInv, Counted
<1>. HIDE DEF rx
<1>3. \A e \in ToSet(new) : \E i \in 1 .. n : e = Data(s, rx + i)
  <2>1. ToSet(Batch(s, rx, n)) = {Data(s, rx + i) : i \in 1 .. n}
    BY NewEvents
  <2>. QED  BY <2>1 DEF new
<1>4. \A e \in ToSet(new) : e.ev = "data" /\ e.s = s /\ e.n > rx /\ e.n <= rx + n
  <2>1. ASSUME NEW e \in ToSet(new)
        PROVE  e.ev = "data" /\ e.s = s /\ e.n > rx /\ e.n <= rx + n
    <3>1. PICK i \in 1 .. n : e = Data(s, rx + i)
      BY <1>3
    <3>2. rx + i > rx /\ rx + i <= rx + n
      BY <1>1
    <3>. QED  BY <3>1, <3>2, EventFields
  <2>. QED  BY <2>1
<1>5. ASSUME NEW e, NEW f, Before(new, e, f) PROVE e.n < f.n
  <2>1. PICK i, j \in 1 .. n : i < j /\ e = Data(s, rx + i) /\ f = Data(s, rx + j)
    BY <1>5 DEF Before, Batch
  <2>2. rx + i < rx + j
    BY <1>1, <2>1
  <2>. QED  BY <2>1, <2>2, EventFields
<1>. HIDE DEF new
<1>6. Held' \subseteq Held \cup ToSet(new) /\ Queued' = Queued /\ Fed' = Fed
  BY <1>1, ProduceHands DEF Queued, Fed
<1>7. Seen' \subseteq Seen \cup ToSet(new)
  BY <1>6 DEF Seen
<1>8. \A e \in Events : e.n \in Nat
  BY Constants DEF Events
<1>9. ASSUME NEW e \in Events, NEW f \in Events, Ahead(e, f)', SameStream(e, f)
      PROVE  e.n < f.n
  <2>1. CASE Ahead(e, f)
    BY <1>9, <2>1 DEF OrderInv, Ascending
  <2>2. CASE e \in Fed \cup Queued /\ f \in ToSet(new)
    <3>1. e.n <= rx /\ f.n > rx
      BY <1>2, <1>4, <1>9, <2>2 DEF Seen, SameStream
    <3>. QED  BY <1>1, <1>8, <3>1
  <2>3. CASE Before(new, e, f)
    BY <1>5, <2>3
  <2>. QED  BY <1>1, <1>9, <2>1, <2>2, <2>3, AheadProduce
<1>10. Ascending'
  BY <1>9 DEF Ascending
<1>11. ASSUME NEW e \in Seen', e.ev = "data", e.s \in Ids, Live(e.s)'
       PROVE  e.n <= sessions'[e.s].rx
  <2>1. CASE e \in ToSet(new)
    BY <1>1, <1>4, <2>1
  <2>2. CASE e \in Seen /\ e.s = s
    <3>1. e.n <= rx /\ e.n \in Nat
      BY <1>2, <1>8, <1>11, <2>2, SeenType
    <3>2. e.n <= rx + n
      BY <1>1, <3>1
    <3>. QED  BY <1>1, <2>2, <3>2
  <2>3. CASE e \in Seen /\ e.s # s
    <3>1. sessions'[e.s] = sessions[e.s]
      BY <1>1, <1>11, <2>3
    <3>. QED  BY <1>11, <2>3, <3>1 DEF OrderInv, Counted, Live, NoSession
  <2>. QED  BY <1>7, <1>11, <2>1, <2>2, <2>3
<1>12. Counted'
  BY <1>11 DEF Counted
<1>. QED  BY <1>10, <1>12 DEF OrderInv

LEMMA OrderClient ==
    ASSUME TypeOK, Places, OrderInv, ClientNext, UNCHANGED engineVars
    PROVE  OrderInv'
<1>1. /\ UNCHANGED <<upQueue, feed>> /\ Workers \subseteq Tasks /\ OldIds
      /\ nextId \in Nat /\ Ids \subseteq Nat
  BY Constants DEF engineVars, linkVars, Places, TypeOK, TableTypeOK
<1>2. CASE UNCHANGED <<sessions, nextId, outbox>>
  <2>1. /\ \A e, f : Ahead(e, f)' <=> Ahead(e, f)
        /\ Seen' = Seen
    BY <1>1, <1>2 DEF Ahead, Seen, Held, Queued, Fed
  <2>2. \A s \in Ids : Live(s)' => Live(s) /\ sessions'[s].rx = sessions[s].rx
    BY <1>2 DEF Live
  <2>. QED  BY <1>1, <2>1, <2>2, OrderFrame
<1>3. ASSUME NEW t \in Workers, Creates(t) PROVE OrderInv'
  <2>. DEFINE new == <<Open(nextId)>>
  <2>1. /\ nextId \in Ids /\ Produce(t, new) /\ Idle(t)
        /\ \A r \in Ids \ {nextId} : sessions'[r] = sessions[r]
    BY <1>3 DEF Creates
  <2>2. new \in Seq(Events) /\ ToSet(new) = {Open(nextId)}
    BY <2>1, NewEvents
  <2>. HIDE DEF new
  <2>3. \A e \in ToSet(new) : e.ev # "data"
    BY <2>2, EventFields
  <2>4. nextId >= nextId
    BY <1>1
  <2>5. \A s \in Ids : Live(s)' => \/ Live(s) /\ sessions'[s].rx = sessions[s].rx
                                   \/ s >= nextId
    BY <2>1, <2>4 DEF Live, NoSession
  <2>. QED  BY <1>1, <1>3, <2>1, <2>2, <2>3, <2>5, OrderProduce
<1>4. ASSUME NEW t \in Workers, NEW s \in Ids, Returns(t, s) PROVE OrderInv'
  <2>. DEFINE new == <<Resume(s)>>
  <2>1. /\ Produce(t, new) /\ Idle(t) /\ sessions'[s].rx = sessions[s].rx
        /\ \A r \in Ids \ {s} : sessions'[r] = sessions[r]
    BY <1>4 DEF Returns
  <2>2. new \in Seq(Events) /\ ToSet(new) = {Resume(s)}
    BY NewEvents
  <2>. HIDE DEF new
  <2>3. \A e \in ToSet(new) : e.ev # "data"
    BY <2>2, EventFields
  <2>4. Live(s)
    BY <1>4, SessionTypes DEF Returns, TypeOK
  <2>5. \A r \in Ids : Live(r)' => Live(r) /\ sessions'[r].rx = sessions[r].rx
    BY <2>1, <2>4 DEF Live, NoSession
  <2>. QED  BY <1>1, <1>4, <2>1, <2>2, <2>3, <2>5, OrderProduce
<1>. QED  BY <1>1, <1>2, <1>3, <1>4, OrderReleases, ClientBatch
-----------------------------------------------------------------------------
LEMMA OrderNext ==
    ASSUME TypeOK, Places, Sole, OrderInv, [Next]_vars
    PROVE  OrderInv'
<1>1. OldIds /\ nextId \in Nat /\ Ids \subseteq Nat
      /\ {"maintenance", "drain"} \subseteq Tasks
  BY Constants DEF Places, TypeOK, TableTypeOK
<1>2. ASSUME NEW idle, NEW over, MaintainTick(idle, over) PROVE OrderInv'
  <2>1. Maintain(idle, over) /\ UNCHANGED <<upQueue, feed>>
    BY <1>2 DEF MaintainTick, engineVars, linkVars
  <2>2. PICK new \in Seq(Events) :
           /\ Idle("maintenance") /\ Produce("maintenance", new)
           /\ ToSet(new) = {Close(s) : s \in over}
    BY <2>1, MaintainBatch
  <2>3. \A e \in ToSet(new) : e.ev # "data"
    BY <2>2, EventFields
  <2>4. ASSUME NEW s \in Ids, Live(s)' PROVE Live(s) /\ sessions'[s].rx = sessions[s].rx
    <3>1. /\ s \notin over /\ Live(s)
          /\ sessions'[s] = IF s \in idle THEN [sessions[s] EXCEPT !.state = "grace"]
                            ELSE sessions[s]
      BY <2>1, <2>4, MaintainEffect DEF Maintain
    <3>2. sessions[s] \in [peer : Peers, state : {"active", "grace"},
                           rx : 0 .. MaxData, gaps : 0 .. MaxGaps]
      BY <3>1 DEF Live, TypeOK, TableTypeOK
    <3>. QED  BY <3>1, <3>2
  <2>. QED  BY <1>1, <2>1, <2>2, <2>3, <2>4, OrderProduce
<1>3. CASE SecondTick
  <2>1. PICK new \in Seq(Events) :
           /\ Idle("maintenance") /\ Produce("maintenance", new)
           /\ ToSet(new) = {Stats(s) : s \in LiveIds} \cup {Overload}
    BY <1>3, SecondTickBatch
  <2>2. \A e \in ToSet(new) : e.ev # "data"
    BY <2>1, EventFields
  <2>3. /\ UNCHANGED <<upQueue, feed>>
        /\ \A s \in Ids : Live(s)' => Live(s) /\ sessions'[s].rx = sessions[s].rx
    BY <1>3 DEF SecondTick, linkVars, Live
  <2>. QED  BY <1>1, <2>1, <2>2, <2>3, OrderProduce
<1>4. CASE Drain
  <2>1. PICK order \in SetToSeqs(LiveIds) : Produce("drain", Closes(order))
    BY <1>4 DEF Drain, ShutdownAll
  <2>2. /\ Closes(order) \in Seq(Events)
        /\ ToSet(Closes(order)) = {Close(s) : s \in LiveIds}
    BY EnumeratedEvents DEF LiveIds
  <2>. DEFINE new == Closes(order)
  <2>3. \A e \in ToSet(new) : e.ev # "data"
    BY <2>2, EventFields
  <2>4. /\ UNCHANGED <<upQueue, feed>> /\ \A s \in Ids : ~Live(s)'
    BY <1>4 DEF Drain, ShutdownAll, Without, Live, linkVars
  <2>5. Seen' \subseteq Seen \cup ToSet(new)
    BY <1>1, <2>1, <2>2, <2>4, ProduceHands DEF Seen, Queued, Fed
  <2>6. Counted'
    BY <2>4 DEF Counted
  <2>. HIDE DEF new
  <2>7. ASSUME NEW e \in Events, NEW f \in Events, Ahead(e, f)', SameStream(e, f)
        PROVE  Ahead(e, f)
    <3>1. Ahead(e, f) \/ f \in ToSet(new) \/ Before(new, e, f)
      BY <1>1, <2>1, <2>2, <2>4, <2>7, AheadDrain DEF new
    <3>. QED  BY <2>3, <2>7, <3>1, BeforeElements DEF SameStream
  <2>. QED  BY <2>6, <2>7 DEF OrderInv, Ascending
<1>5. ASSUME NEW t \in Tasks, PushUp(t) PROVE OrderInv'
  <2>1. /\ UNCHANGED <<sessions, nextId, feed>>
        /\ Held' \subseteq Held /\ Queued' \subseteq Queued \cup Held
    BY <1>5, PushEffect
  <2>2. Seen' \subseteq Seen
    BY <2>1 DEF Seen, Fed
  <2>3. ASSUME NEW e \in Events, NEW f \in Events, Ahead(e, f)', SameStream(e, f)
        PROVE  Ahead(e, f)
    <3>1. ASSUME e = outbox[t][1], NEW u \in Tasks \ {t}, f \in ToSet(outbox[u])
          PROVE  FALSE
      <4>1. e \in ToSet(outbox[t])
        <5>1. outbox \in [Tasks -> Seq(Events)]
          BY DEF TypeOK, TableTypeOK
        <5>. QED  BY <1>5, <3>1, <5>1, OutboxPushed, ToSetTail
      <4>2. t \in Workers /\ u \in Workers
        BY <2>3, <3>1, <4>1 DEF Places, Hands, InHands, SameStream
      <4>. QED  BY <2>3, <3>1, <4>1, <4>2 DEF Sole, SameStream
    <3>. QED  BY <1>5, <2>3, <3>1, AheadPush
  <2>4. \A s \in Ids : Live(s)' => Live(s) /\ sessions'[s].rx = sessions[s].rx
    BY <2>1 DEF Live
  <2>. QED  BY <1>1, <2>2, <2>3, <2>4, OrderFrame
<1>6. CASE Connect \/ Hello \/ RunLogicLink \/ WriteFrame \/ LinkBreak
  <2>1. UNCHANGED <<sessions, outbox>> /\ Held' = Held
    BY <1>6 DEF Connect, Hello, RunLogicLink, WriteFrame, LinkBreak, linkOnly,
                tableVars, Held
  <2>2. Seen' \subseteq Seen
    <3>1. CASE WriteFrame
      BY <3>1, WriteEffect
    <3>2. CASE ~WriteFrame
      BY <1>6, <2>1, <3>2, ToSetEmpty
         DEF Connect, Hello, RunLogicLink, LinkBreak, Seen, Queued, Fed
    <3>. QED  BY <3>1, <3>2
  <2>3. \A s \in Ids : Live(s)' => Live(s) /\ sessions'[s].rx = sessions[s].rx
    BY <2>1 DEF Live
  <2>. QED  BY <1>1, <1>6, <2>2, <2>3, AheadLink, OrderFrame
<1>7. ASSUME NEW s \in Ids, WriteResume(s) PROVE OrderInv'
  <2>1. UNCHANGED sessions /\ Seen' = Seen \cup {Resume(s)}
    BY <1>7, ResumeEffect DEF WriteResume, linkOnly, tableVars
  <2>2. Resume(s).ev # "data"
    BY EventFields
  <2>3. \A e, f \in Events : Ahead(e, f)' /\ SameStream(e, f) => Ahead(e, f)
    BY <1>7, <2>2, AheadResume DEF SameStream
  <2>4. \A r \in Ids : Live(r)' => Live(r) /\ sessions'[r].rx = sessions[r].rx
    BY <2>1 DEF Live
  <2>. QED  BY <1>1, <2>1, <2>2, <2>3, <2>4, OrderFrame
<1>8. ASSUME NEW s \in Ids, LogicKick(s) PROVE OrderInv'
  <2>1. UNCHANGED <<outbox, upQueue, feed>> /\ sessions' = Without({s})
    BY <1>8 DEF LogicKick, Kick, linkVars
  <2>2. /\ \A e, f : Ahead(e, f)' <=> Ahead(e, f)
        /\ Seen' = Seen
    BY <2>1 DEF Ahead, Seen, Held, Queued, Fed
  <2>3. \A r \in Ids : Live(r)' => Live(r) /\ sessions'[r].rx = sessions[r].rx
    BY <2>1 DEF Without, Live, NoSession
  <2>. QED  BY <1>1, <2>2, <2>3, OrderFrame
<1>9. CASE Exit \/ UNCHANGED vars
  <2>1. UNCHANGED <<sessions, outbox, upQueue, feed>>
    BY <1>9 DEF Exit, vars, tableVars, engineVars, linkVars
  <2>2. /\ \A e, f : Ahead(e, f)' <=> Ahead(e, f)
        /\ Seen' = Seen
    BY <2>1 DEF Ahead, Seen, Held, Queued, Fed
  <2>3. \A s \in Ids : Live(s)' => Live(s) /\ sessions'[s].rx = sessions[s].rx
    BY <2>1 DEF Live
  <2>. QED  BY <1>1, <2>2, <2>3, OrderFrame
<1>. QED  BY <1>2, <1>3, <1>4, <1>5, <1>6, <1>7, <1>8, <1>9, OrderClient DEF Next, Step

LEMMA OrderInit == Init => OrderInv
<1>. SUFFICES ASSUME Init PROVE OrderInv
  OBVIOUS
<1>1. Seen = {}
  BY ToSetEmpty DEF Init, TableInit, Held, Queued, Fed, Seen
<1>2. \A e, f : ~Ahead(e, f)
  BY <1>1, AheadSeen
<1>. QED  BY <1>1, <1>2 DEF OrderInv, Ascending, Counted

\* "Ch2 不丢不乱", on the way up: what a session's reliable layer released reaches
\* the logic server in that order, through hot restarts, full queues and the
\* drain, as long as no two receive tasks have events of one session in hand.
THEOREM DataInOrder == Spec /\ []Sole => []FeedInOrder
<1>1. TypeOK /\ OrderInv => FeedInOrder
  <2>. SUFFICES ASSUME TypeOK, OrderInv, NEW i \in DOMAIN feed, NEW j \in DOMAIN feed,
                       i < j, SameStream(feed[i], feed[j])
                PROVE  feed[i].n < feed[j].n
    BY DEF FeedInOrder, SameStream
  <2>1. feed[i] \in Events /\ feed[j] \in Events
    BY DEF TypeOK
  <2>2. Ahead(feed[i], feed[j])
    BY DEF Ahead, Before
  <2>. QED  BY <2>1, <2>2 DEF OrderInv, Ascending
<1>2. Init => TypeOK /\ Places /\ OrderInv
  BY InitType, PlacesInit, OrderInit
<1>3. TypeOK /\ Places /\ OrderInv /\ Sole /\ [Next]_vars => (TypeOK /\ Places /\ OrderInv)'
  BY NextType, PlacesNext, OrderNext
<1>. QED  BY <1>1, <1>2, <1>3, PTL DEF Spec
-----------------------------------------------------------------------------
(* The logic server is told of a session before it gets its data.          *)

\* Frame i of q is behind one that names its session.
NamedBefore(q, i) == \E j \in 1 .. i - 1 : q[j] \in {Open(q[i].s), Resume(q[i].s)}

\* The connection has been told of s, or the link will name it itself.
Told(s) == Open(s) \in Fed \/ Resume(s) \in Fed \/ s \in resumes

\* The queue: while EngineHello is under way nothing needs to be named, for the
\* sessions of the queued data are active still and the link will name them.
QueueTold ==
    "reliable" \notin dropped =>
        \A i \in DOMAIN upQueue : upQueue[i].ev = "data" =>
            \/ Told(upQueue[i].s) \/ NamedBefore(upQueue, i)
            \/ /\ link = "hello" /\ upQueue[i].s \in Ids
               /\ sessions[upQueue[i].s].state = "active"

\* The tasks: they have data of active sessions, which are named or queued to be.
HeldTold ==
    \A e \in Held : e.ev = "data" =>
        /\ e.s \in Ids /\ (sessions[e.s].state = "active" \/ e.s \in kicked)
        /\ link \in {"resume", "up"} /\ "reliable" \notin dropped =>
              Told(e.s) \/ Open(e.s) \in Queued \/ Resume(e.s) \in Queued

\* What was held of a kicked session is gone before the next EngineHello.
KickedOut ==
    \A s \in kicked : ~Live(s) /\ (link = "hello" => Settled(s))

KnownInv == QueueTold /\ HeldTold /\ KickedOut /\ KnownBeforeData

LEMMA NamedAppend ==
    ASSUME NEW S, NEW q \in Seq(S), NEW x \in S
    PROVE  /\ DOMAIN Append(q, x) = DOMAIN q \cup {Len(q) + 1}
           /\ \A i \in DOMAIN q : /\ Append(q, x)[i] = q[i]
                                  /\ NamedBefore(q, i) => NamedBefore(Append(q, x), i)
           /\ Append(q, x)[Len(q) + 1] = x
           /\ Open(x.s) \in ToSet(q) \/ Resume(x.s) \in ToSet(q)
                  => NamedBefore(Append(q, x), Len(q) + 1)
<1>. DEFINE r == Append(q, x)
<1>1. /\ Len(q) \in Nat /\ DOMAIN q = 1 .. Len(q)
      /\ DOMAIN r = 1 .. Len(q) + 1
      /\ r[Len(q) + 1] = x /\ \A i \in DOMAIN q : r[i] = q[i]
  OBVIOUS
<1>. HIDE DEF r
<1>2. ASSUME NEW i \in DOMAIN q, NamedBefore(q, i) PROVE NamedBefore(r, i)
  <2>1. PICK j \in 1 .. i - 1 : q[j] \in {Open(q[i].s), Resume(q[i].s)}
    BY <1>2 DEF NamedBefore
  <2>2. j \in DOMAIN q
    BY <1>1, <2>1
  <2>. QED  BY <1>1, <2>1, <2>2 DEF NamedBefore
<1>3. ASSUME Open(x.s) \in ToSet(q) \/ Resume(x.s) \in ToSet(q)
      PROVE  NamedBefore(r, Len(q) + 1)
  <2>1. PICK j \in DOMAIN q : q[j] \in {Open(x.s), Resume(x.s)}
    BY <1>3 DEF ToSet
  <2>2. j \in 1 .. (Len(q) + 1) - 1
    BY <1>1, <2>1
  <2>. QED  BY <1>1, <2>1, <2>2 DEF NamedBefore
<1>. QED  BY <1>1, <1>2, <1>3 DEF r

LEMMA NamedTail ==
    ASSUME NEW S, NEW q \in Seq(S), q # <<>>
    PROVE  /\ 1 \in DOMAIN q /\ q[1] = Head(q) /\ ~NamedBefore(q, 1)
           /\ \A i \in DOMAIN Tail(q) :
                 /\ i + 1 \in DOMAIN q /\ Tail(q)[i] = q[i + 1]
                 /\ NamedBefore(q, i + 1) =>
                       \/ Head(q) \in {Open(q[i + 1].s), Resume(q[i + 1].s)}
                       \/ NamedBefore(Tail(q), i)
<1>. DEFINE r == Tail(q)
<1>1. /\ Len(q) \in Nat /\ Head(q) = q[1] /\ 1 \in DOMAIN q
      /\ DOMAIN q = 1 .. Len(q) /\ DOMAIN r = 1 .. Len(q) - 1
      /\ \A i \in DOMAIN r : r[i] = q[i + 1]
  OBVIOUS
<1>. HIDE DEF r
<1>2. ~NamedBefore(q, 1)
  BY DEF NamedBefore
<1>3. ASSUME NEW i \in DOMAIN r, NamedBefore(q, i + 1)
      PROVE  Head(q) \in {Open(q[i + 1].s), Resume(q[i + 1].s)} \/ NamedBefore(r, i)
  <2>1. PICK j \in 1 .. (i + 1) - 1 : q[j] \in {Open(q[i + 1].s), Resume(q[i + 1].s)}
    BY <1>3 DEF NamedBefore
  <2>2. CASE j = 1
    BY <1>1, <2>1, <2>2
  <2>3. CASE j # 1
    <3>1. j - 1 \in 1 .. i - 1 /\ j - 1 \in DOMAIN r /\ (j - 1) + 1 = j
      BY <1>1, <2>1, <2>3
    <3>2. r[j - 1] = q[j] /\ r[i] = q[i + 1]
      BY <1>1, <3>1
    <3>. QED  BY <2>1, <3>1, <3>2 DEF NamedBefore
  <2>. QED  BY <2>2, <2>3
<1>4. \A i \in DOMAIN r : i + 1 \in DOMAIN q /\ r[i] = q[i + 1]
  BY <1>1
<1>. QED  BY <1>1, <1>2, <1>3, <1>4 DEF r

\* A step of a task or of a client, away from the queue and the link.
LEMMA KnownFrame ==
    ASSUME KnownInv, UNCHANGED <<upQueue, feed, link, resumes, dropped>>,
           kicked \subseteq kicked', KickedOut',
           \A e \in Held' : e.ev = "data" =>
               \/ e \in Held
               \/ /\ e.s \in Ids /\ sessions'[e.s].state = "active"
                  /\ link \in {"resume", "up"} /\ "reliable" \notin dropped =>
                        Told(e.s) \/ Open(e.s) \in Queued \/ Resume(e.s) \in Queued,
           \A e \in Held :
               e.ev = "data" /\ e.s \in Ids /\ sessions[e.s].state = "active"
                   => sessions'[e.s].state = "active" \/ e.s \in kicked',
           link = "hello" =>
               \A i \in DOMAIN upQueue :
                   upQueue[i].s \in Ids /\ sessions[upQueue[i].s].state = "active"
                       => sessions'[upQueue[i].s].state = "active"
    PROVE  KnownInv'
<1>1. /\ \A s : Told(s)' <=> Told(s)
      /\ Queued' = Queued
  BY DEF Told, Fed, Queued
<1>2. QueueTold'
  BY <1>1 DEF KnownInv, QueueTold, NamedBefore
<1>3. HeldTold'
  BY <1>1 DEF KnownInv, HeldTold
<1>4. KnownBeforeData'
  BY DEF KnownInv, KnownBeforeData
<1>. QED  BY <1>2, <1>3, <1>4 DEF KnownInv
-----------------------------------------------------------------------------
LEMMA KnownClient ==
    ASSUME TypeOK, Places, AllKnown, KnownInv, Sole', ClientNext, UNCHANGED engineVars
    PROVE  KnownInv'
<1>1. /\ UNCHANGED <<upQueue, feed, link, resumes, dropped, kicked>>
      /\ Workers \subseteq Tasks /\ nextId \in Nat /\ OldIds /\ KickedOut
  BY Constants DEF engineVars, linkVars, Places, TypeOK, TableTypeOK, KnownInv
<1>2. CASE UNCHANGED <<sessions, nextId, outbox>>
  <2>1. Held' = Held /\ KickedOut'
    BY <1>1, <1>2 DEF Held, KickedOut, Live, Settled
  <2>. QED  BY <1>1, <1>2, <2>1, KnownFrame
\* What task t takes is of one session, that has not been kicked.
<1>3. ASSUME NEW t \in Tasks, NEW s \in Ids, NEW new \in Seq(Events),
             Produce(t, new), s \notin kicked,
             \A e \in ToSet(new) : e.s = s,
             sessions'[s].state = "active",
             \A r \in Ids \ {s} : sessions'[r] = sessions[r],
             \A e \in ToSet(new) :
                 e.ev = "data" /\ link \in {"resume", "up"} /\ "reliable" \notin dropped
                     => Told(e.s) \/ Open(e.s) \in Queued \/ Resume(e.s) \in Queued
      PROVE  KnownInv'
  <2>1. /\ outbox'[t] = new /\ \A u \in Tasks \ {t} : outbox'[u] = outbox[u]
        /\ Held' \subseteq Held \cup ToSet(new)
    BY <1>3, ProduceHands
  <2>2. KickedOut'
    <3>1. ASSUME NEW k \in kicked PROVE ~Live(k)'
      <4>1. k \in Ids /\ k # s /\ ~Live(k)
        BY <1>1, <1>3, <3>1 DEF KickedOut, TypeOK
      <4>. QED  BY <1>3, <4>1 DEF Live, NoSession
    <3>2. ASSUME NEW k \in kicked, link = "hello" PROVE Settled(k)'
      <4>1. ASSUME NEW u \in Tasks, NEW i \in DOMAIN outbox'[u]
            PROVE  outbox'[u][i].s # k
        <5>1. CASE u = t
          BY <1>3, <2>1, <4>1, <5>1 DEF ToSet
        <5>2. CASE u # t
          BY <1>1, <2>1, <3>2, <4>1, <5>2 DEF KickedOut, Settled
        <5>. QED  BY <5>1, <5>2
      <4>. QED  BY <4>1 DEF Settled
    <3>. QED  BY <1>1, <3>1, <3>2 DEF KickedOut
  <2>3. \A r \in Ids : sessions[r].state = "active" => sessions'[r].state = "active"
    BY <1>3
  <2>. QED  BY <1>1, <1>3, <2>1, <2>2, <2>3, KnownFrame
<1>4. ASSUME NEW t \in Workers, Creates(t) PROVE KnownInv'
  <2>. DEFINE new == <<Open(nextId)>>
  <2>1. /\ nextId \in Ids /\ Produce(t, new) /\ sessions'[nextId].state = "active"
        /\ \A r \in Ids \ {nextId} : sessions'[r] = sessions[r]
    BY <1>4 DEF Creates
  <2>2. new \in Seq(Events) /\ ToSet(new) = {Open(nextId)}
    BY <2>1, NewEvents
  <2>. HIDE DEF new
  <2>3. nextId \notin kicked
    BY <1>1, <2>1 DEF OldIds
  <2>4. \A e \in ToSet(new) : e.s = nextId /\ e.ev # "data"
    BY <2>2, EventFields
  <2>. QED  BY <1>1, <1>3, <2>1, <2>2, <2>3, <2>4
<1>5. ASSUME NEW t \in Workers, NEW s \in Ids, Returns(t, s) PROVE KnownInv'
  <2>. DEFINE new == <<Resume(s)>>
  <2>1. /\ Produce(t, new) /\ sessions'[s].state = "active"
        /\ \A r \in Ids \ {s} : sessions'[r] = sessions[r]
    BY <1>5 DEF Returns
  <2>2. new \in Seq(Events) /\ ToSet(new) = {Resume(s)}
    BY NewEvents
  <2>. HIDE DEF new
  <2>3. Live(s)
    BY <1>5, SessionTypes DEF Returns, TypeOK
  <2>4. \A e \in ToSet(new) : e.s = s /\ e.ev # "data"
    BY <2>2, EventFields
  <2>. QED  BY <1>1, <1>3, <2>1, <2>2, <2>3, <2>4 DEF KickedOut
<1>6. ASSUME NEW t \in Workers, NEW s \in Ids, NEW n \in Nat, Releases(t, s, n)
      PROVE  KnownInv'
  <2>. DEFINE rx == sessions[s].rx
              new == Batch(s, rx, n)
  <2>1. /\ new \in Seq(Events) /\ Produce(t, new) /\ Idle(t)
        /\ sessions'[s].state = "active" /\ Live(s)
        /\ \A r \in Ids \ {s} : sessions'[r] = sessions[r]
    <3>1. Live(s)
      BY <1>6, SessionTypes DEF Releases, TypeOK
    <3>. QED  BY <1>6, <3>1 DEF Releases
  <2>. HIDE DEF rx
  <2>2. ToSet(new) = {Data(s, rx + i) : i \in 1 .. n}
    BY NewEvents
  <2>. HIDE DEF new
  <2>3. \A e \in ToSet(new) : e.s = s /\ e.ev = "data"
    BY <2>2, EventFields
  <2>4. /\ outbox'[t] = new /\ \A u \in Tasks \ {t} : outbox'[u] = outbox[u]
    BY <1>1, <2>1, ProduceHands
  <2>5. ASSUME NEW e \in ToSet(new), link \in {"resume", "up"}, "reliable" \notin dropped
        PROVE  Told(s) \/ Open(s) \in Queued \/ Resume(s) \in Queued
    <3>1. Known(s)
      BY <2>1, <2>5 DEF AllKnown
    \* No other task can hold the announcement.
    <3>2. ASSUME NEW f \in Held, f.s = s, f.ev \in {"open", "resume"} PROVE FALSE
      <4>1. PICK u \in Tasks : f \in ToSet(outbox[u])
        BY <3>2 DEF Held
      <4>2. u \in Workers
        BY <3>2, <4>1 DEF Places, Hands, InHands
      <4>3. u # t
        BY <2>1, <4>1, ToSetEmpty DEF Idle
      <4>4. f \in ToSet(outbox'[u]) /\ e \in ToSet(outbox'[t]) /\ e.s = f.s
        BY <2>3, <2>4, <2>5, <3>2, <4>1, <4>3
      <4>. QED  BY <1>6, <4>2, <4>3, <4>4 DEF Sole
    <3>. QED  BY <3>1, <3>2, EventFields DEF Known, Seen, Told
  <2>. QED  BY <1>1, <1>3, <2>1, <2>3, <2>5 DEF KickedOut
<1>. QED  BY <1>2, <1>4, <1>5, <1>6, ClientBatch

LEMMA KnownOwn ==
    ASSUME TypeOK, Places, KnownInv,
           (\E idle, over : MaintainTick(idle, over)) \/ SecondTick
    PROVE  KnownInv'
<1>1. /\ UNCHANGED <<upQueue, feed, link, resumes, dropped, kicked>>
      /\ KickedOut /\ HeldTold /\ "maintenance" \in Tasks
  BY Constants DEF MaintainTick, SecondTick, engineVars, linkVars, KnownInv
<1>2. ASSUME NEW new \in Seq(Events), Produce("maintenance", new),
             \A e \in ToSet(new) : e.ev # "data" /\ e.s \notin kicked,
             \A s \in Ids : Live(s)' => Live(s)
      PROVE  KickedOut' /\ \A e \in Held' : e.ev = "data" => e \in Held
  <2>1. /\ outbox'["maintenance"] = new
        /\ \A u \in Tasks \ {"maintenance"} : outbox'[u] = outbox[u]
        /\ Held' \subseteq Held \cup ToSet(new)
    BY <1>1, <1>2, ProduceHands
  <2>2. ASSUME NEW k \in kicked PROVE ~Live(k)' /\ k \in Ids
    BY <1>1, <1>2, <2>2 DEF KickedOut, TypeOK
  <2>3. ASSUME NEW k \in kicked, link = "hello", NEW u \in Tasks, NEW i \in DOMAIN outbox'[u]
        PROVE  outbox'[u][i].s # k
    <3>1. CASE u = "maintenance"
      BY <1>2, <2>1, <2>3, <3>1 DEF ToSet
    <3>2. CASE u # "maintenance"
      BY <1>1, <2>1, <2>3, <3>2 DEF KickedOut, Settled
    <3>. QED  BY <3>1, <3>2
  <2>4. KickedOut'
    BY <1>1, <2>2, <2>3 DEF KickedOut, Settled
  <2>. QED  BY <1>2, <2>1, <2>4
<1>3. ASSUME NEW idle, NEW over, MaintainTick(idle, over) PROVE KnownInv'
  <2>1. Maintain(idle, over)
    BY <1>3 DEF MaintainTick
  <2>2. PICK new \in Seq(Events) :
           Produce("maintenance", new) /\ ToSet(new) = {Close(s) : s \in over}
    BY <2>1, MaintainBatch
  <2>3. /\ \A s \in over : s \in Ids /\ sessions[s].state = "grace" /\ Live(s)
        /\ \A s \in Ids : Live(s)' => Live(s)
        /\ \A s \in Ids \ (idle \cup over) : sessions'[s] = sessions[s]
    BY <2>1, MaintainEffect DEF Live, NoSession
  <2>4. \A e \in ToSet(new) : e.ev # "data" /\ e.s \notin kicked
    BY <1>1, <2>2, <2>3, EventFields DEF KickedOut
  <2>5. \A e \in Held : e.s \notin idle
    BY <2>1 DEF Held, Maintain, Settled, ToSet
  <2>6. \A e \in Held : e.ev = "data" /\ e.s \in Ids /\ sessions[e.s].state = "active"
                            => sessions'[e.s].state = "active"
    BY <2>3, <2>5
  <2>7. link = "hello" =>
            \A i \in DOMAIN upQueue :
                upQueue[i].s \in Ids /\ sessions[upQueue[i].s].state = "active"
                    => sessions'[upQueue[i].s].state = "active"
    BY <1>3, <2>3 DEF MaintainTick
  <2>8. KickedOut' /\ \A e \in Held' : e.ev = "data" => e \in Held
    BY <1>2, <2>2, <2>3, <2>4
  <2>. QED  BY <1>1, <2>6, <2>7, <2>8, KnownFrame
<1>4. CASE SecondTick
  <2>1. PICK new \in Seq(Events) :
           /\ Produce("maintenance", new)
           /\ ToSet(new) = {Stats(s) : s \in LiveIds} \cup {Overload}
    BY <1>4, SecondTickBatch
  <2>2. 0 \notin kicked
    BY Constants DEF TypeOK
  <2>3. \A e \in ToSet(new) : e.ev # "data" /\ e.s \notin kicked
    BY <1>1, <2>1, <2>2, EventFields DEF KickedOut, LiveIds
  <2>4. UNCHANGED sessions /\ \A s \in Ids : Live(s)' => Live(s)
    BY <1>4 DEF SecondTick, Live
  <2>5. KickedOut' /\ \A e \in Held' : e.ev = "data" => e \in Held
    BY <1>2, <2>1, <2>3, <2>4
  <2>. QED  BY <1>1, <2>4, <2>5, KnownFrame
<1>. QED  BY <1>3, <1>4
-----------------------------------------------------------------------------
\* push_up: data that is queued is queued behind the name of its session, or
\* while EngineHello is under way.
LEMMA KnownPush ==
    ASSUME TypeOK, KnownInv, NEW t \in Tasks, PushUp(t)
    PROVE  KnownInv'
<1>. DEFINE x == outbox[t][1]
<1>1. /\ UNCHANGED <<sessions, link, feed, resumes, kicked>>
      /\ outbox \in [Tasks -> Seq(Events)] /\ upQueue \in Seq(Events)
      /\ x \in Held /\ Held' \subseteq Held /\ dropped \subseteq dropped'
      /\ Queued \subseteq Queued'
  <2>1. outbox \in [Tasks -> Seq(Events)] /\ upQueue \in Seq(Events)
    BY DEF TypeOK, TableTypeOK
  <2>. QED  BY <2>1, PushEffect, Pushed
<1>2. /\ upQueue' = upQueue \/ upQueue' = Append(upQueue, x)
      /\ link = "down" => upQueue' = upQueue
  BY QueueGrows
<1>3. x \in Events
  BY <1>1, SeenType DEF Seen
<1>4. x \in ToSet(outbox[t])
  BY <1>1, OutboxPushed, ToSetTail
<1>. HIDE DEF x
<1>5. \A s : Told(s)' <=> Told(s)
  BY <1>1 DEF Told, Fed
<1>6. HeldTold'
  BY <1>1, <1>5 DEF KnownInv, HeldTold
<1>7. ASSUME "reliable" \notin dropped, x.ev = "data", link # "down"
      PROVE  \/ Told(x.s) \/ Open(x.s) \in Queued \/ Resume(x.s) \in Queued
             \/ link = "hello" /\ x.s \in Ids /\ sessions[x.s].state = "active"
  <2>1. CASE link = "hello"
    <3>1. x.s \notin kicked
      <4>1. Settled(x.s) => FALSE
        BY <1>4 DEF Settled, ToSet
      <4>. QED  BY <2>1, <4>1 DEF KnownInv, KickedOut
    <3>. QED  BY <1>1, <1>7, <2>1, <3>1 DEF KnownInv, HeldTold
  <2>2. CASE link \in {"resume", "up"}
    BY <1>1, <1>7, <2>2 DEF KnownInv, HeldTold
  <2>. QED  BY <1>7, <2>1, <2>2 DEF TypeOK, LinkStates
<1>8. ASSUME "reliable" \notin dropped', NEW i \in DOMAIN upQueue', upQueue'[i].ev = "data"
      PROVE  \/ Told(upQueue'[i].s) \/ NamedBefore(upQueue', i)
             \/ /\ link = "hello" /\ upQueue'[i].s \in Ids
                /\ sessions[upQueue'[i].s].state = "active"
  <2>. DEFINE new == upQueue'
  <2>1. "reliable" \notin dropped
    BY <1>1, <1>8
  <2>2. CASE new = upQueue
    BY <1>8, <2>1, <2>2 DEF KnownInv, QueueTold
  <2>3. CASE new = Append(upQueue, x)
    <3>. HIDE DEF new
    <3>1. CASE i \in DOMAIN upQueue
      <4>1. new[i] = upQueue[i] /\ (NamedBefore(upQueue, i) => NamedBefore(new, i))
        BY <1>1, <1>3, <2>3, <3>1, NamedAppend
      <4>. QED  BY <1>8, <2>1, <3>1, <4>1 DEF KnownInv, QueueTold, new
    <3>2. CASE i = Len(upQueue) + 1
      <4>1. /\ new[i] = x
            /\ Open(x.s) \in Queued \/ Resume(x.s) \in Queued => NamedBefore(new, i)
        BY <1>1, <1>3, <2>3, <3>2, NamedAppend DEF Queued
      <4>2. CASE new = upQueue
        BY <1>8, <2>1, <4>2 DEF KnownInv, QueueTold, new
      <4>3. CASE new # upQueue
        BY <1>2, <1>7, <1>8, <2>1, <4>1, <4>3 DEF new
      <4>. QED  BY <4>2, <4>3
    <3>. QED  BY <1>1, <1>3, <1>8, <2>3, <3>1, <3>2, NamedAppend DEF new
  <2>. QED  BY <1>2, <2>2, <2>3
<1>9. QueueTold'
  BY <1>1, <1>5, <1>8 DEF QueueTold, NamedBefore
<1>10. \A u \in Tasks : ToSet(outbox'[u]) \subseteq ToSet(outbox[u])
  BY <1>1, OutboxPushed, ToSetTail
<1>11. KickedOut'
  <2>1. ASSUME NEW s \in kicked, link = "hello", NEW u \in Tasks, NEW i \in DOMAIN outbox'[u]
        PROVE  outbox'[u][i].s # s
    <3>1. outbox'[u][i] \in ToSet(outbox[u])
      BY <1>10, <2>1 DEF ToSet
    <3>. QED  BY <2>1, <3>1 DEF KnownInv, KickedOut, Settled, ToSet
  <2>. QED  BY <1>1, <2>1 DEF KnownInv, KickedOut, Settled, Live
<1>12. KnownBeforeData'
  BY <1>1 DEF KnownInv, KnownBeforeData
<1>. QED  BY <1>6, <1>9, <1>11, <1>12 DEF KnownInv

\* Connect, and the loss of the connection: nothing is queued or written.
LEMMA KnownEmpty ==
    ASSUME KnownInv, upQueue' = <<>>, feed' = <<>>, UNCHANGED linkOnly,
           link' \in {"down", "hello"},
           link' = "hello" => \A s \in kicked : Settled(s)
    PROVE  KnownInv'
<1>1. UNCHANGED <<sessions, outbox, kicked>> /\ Held' = Held
  BY DEF linkOnly, tableVars, Held
<1>2. QueueTold' /\ KnownBeforeData'
  BY DEF QueueTold, KnownBeforeData
<1>3. HeldTold'
  BY <1>1 DEF KnownInv, HeldTold
<1>4. KickedOut'
  BY <1>1 DEF KnownInv, KickedOut, Live, Settled
<1>. QED  BY <1>2, <1>3, <1>4 DEF KnownInv

LEMMA KnownHello ==
    ASSUME TypeOK, KnownInv, resumes = {}, Hello
    PROVE  KnownInv'
<1>1. /\ UNCHANGED <<sessions, outbox, kicked, dropped, upQueue, feed>>
      /\ Held' = Held /\ Fed' = Fed /\ Queued' = Queued
      /\ link = "hello" /\ link' = "resume" /\ resumes' = LiveIds
  BY DEF Hello, ToAnnounce, linkOnly, tableVars, Held, Fed, Queued
<1>2. \A s : Told(s) => Told(s)'
  BY <1>1 DEF Told
<1>3. \A s \in Ids : sessions[s].state = "active" => Told(s)'
  BY <1>1, SessionTypes DEF Told, LiveIds, TypeOK
<1>4. QueueTold'
  BY <1>1, <1>2, <1>3 DEF KnownInv, QueueTold, NamedBefore
<1>5. ASSUME NEW e \in Held, e.ev = "data"
      PROVE  e.s \in Ids /\ sessions[e.s].state = "active"
  <2>1. e.s \notin kicked
    BY <1>1, <1>5 DEF KnownInv, KickedOut, Settled, Held, ToSet
  <2>. QED  BY <1>5, <2>1 DEF KnownInv, HeldTold
<1>6. HeldTold'
  BY <1>1, <1>3, <1>5 DEF HeldTold
<1>7. KickedOut' /\ KnownBeforeData'
  BY <1>1 DEF KnownInv, KickedOut, KnownBeforeData, Live
<1>. QED  BY <1>4, <1>6, <1>7 DEF KnownInv

\* logic_write_loop: what is first in the queue is a name, or of a session that
\* the connection has been told of.
LEMMA KnownWrite ==
    ASSUME TypeOK, KnownInv, resumes = {}, WriteFrame
    PROVE  KnownInv'
<1>. DEFINE x == Head(upQueue)
<1>1. /\ UNCHANGED <<sessions, outbox, kicked, dropped, link, resumes>>
      /\ Held' = Held /\ link = "up"
      /\ upQueue \in Seq(Events) /\ upQueue # <<>> /\ feed \in Seq(Events)
      /\ upQueue' = Tail(upQueue) /\ feed' = Append(feed, x)
  BY DEF WriteFrame, linkOnly, tableVars, Held, TypeOK
<1>2. x \in Events /\ Queued = Queued' \cup {x}
  BY <1>1, ToSetTail DEF Queued
<1>3. Fed' = Fed \cup {x}
  BY <1>1, <1>2, ToSetAppend DEF Fed
<1>4. /\ 1 \in DOMAIN upQueue /\ upQueue[1] = x /\ ~NamedBefore(upQueue, 1)
      /\ \A i \in DOMAIN upQueue' :
            /\ i + 1 \in DOMAIN upQueue /\ upQueue'[i] = upQueue[i + 1]
            /\ NamedBefore(upQueue, i + 1) =>
                  \/ x \in {Open(upQueue[i + 1].s), Resume(upQueue[i + 1].s)}
                  \/ NamedBefore(upQueue', i)
  BY <1>1, NamedTail
<1>5. /\ DOMAIN feed' = DOMAIN feed \cup {Len(feed) + 1}
      /\ \A i \in DOMAIN feed : /\ feed'[i] = feed[i]
                                /\ NamedBefore(feed, i) => NamedBefore(feed', i)
      /\ feed'[Len(feed) + 1] = x
      /\ Open(x.s) \in Fed \/ Resume(x.s) \in Fed => NamedBefore(feed', Len(feed) + 1)
  BY <1>1, <1>2, NamedAppend DEF Fed
<1>. HIDE DEF x
<1>6. \A s : Told(s) => Told(s)'
  BY <1>1, <1>3 DEF Told
<1>7. \A s : x \in {Open(s), Resume(s)} => Told(s)'
  BY <1>3 DEF Told
<1>8. QueueTold'
  <2>1. ASSUME NEW i \in DOMAIN upQueue', upQueue'[i].ev = "data", "reliable" \notin dropped,
               NEW s, s = upQueue'[i].s
        PROVE  Told(s)' \/ NamedBefore(upQueue', i)
    <3>1. upQueue[i + 1] = upQueue'[i] /\ i + 1 \in DOMAIN upQueue
      BY <1>4, <2>1
    <3>2. Told(s) \/ NamedBefore(upQueue, i + 1)
      BY <1>1, <2>1, <3>1 DEF KnownInv, QueueTold
    <3>3. x \in {Open(s), Resume(s)} \/ Told(s) \/ NamedBefore(upQueue', i)
      BY <1>4, <2>1, <3>1, <3>2
    <3>. QED  BY <1>6, <1>7, <3>3
  <2>2. UNCHANGED dropped
    BY <1>1
  <2>. QED  BY <2>1, <2>2 DEF QueueTold, NamedBefore, Told
<1>9. HeldTold'
  BY <1>1, <1>2, <1>6, <1>7 DEF KnownInv, HeldTold
<1>10. KickedOut'
  BY <1>1 DEF KnownInv, KickedOut, Live
<1>11. KnownBeforeData'
  <2>1. ASSUME "reliable" \notin dropped, x.ev = "data"
        PROVE  Open(x.s) \in Fed \/ Resume(x.s) \in Fed
    BY <1>1, <1>4, <2>1 DEF KnownInv, QueueTold, Told
  <2>2. ASSUME "reliable" \notin dropped, NEW i \in DOMAIN feed', feed'[i].ev = "data"
        PROVE  NamedBefore(feed', i)
    <3>1. CASE i \in DOMAIN feed
      <4>1. NamedBefore(feed, i)
        BY <1>5, <2>2, <3>1 DEF KnownInv, KnownBeforeData, NamedBefore
      <4>. QED  BY <1>5, <3>1, <4>1
    <3>2. CASE i = Len(feed) + 1
      BY <1>5, <2>1, <2>2, <3>2
    <3>. QED  BY <1>5, <2>2, <3>1, <3>2
  <2>. QED  BY <1>1, <2>2 DEF KnownBeforeData, NamedBefore
<1>. QED  BY <1>8, <1>9, <1>10, <1>11 DEF KnownInv

LEMMA KnownResume ==
    ASSUME TypeOK, KnownInv, NEW s \in Ids, WriteResume(s)
    PROVE  KnownInv'
<1>1. /\ UNCHANGED <<sessions, outbox, kicked, dropped, link, upQueue>>
      /\ Held' = Held /\ Queued' = Queued /\ link = "resume"
      /\ resumes' = resumes \ {s} /\ feed \in Seq(Events)
      /\ feed' = Append(feed, Resume(s)) /\ Resume(s) \in Events
  BY EventType DEF WriteResume, linkOnly, tableVars, Held, Queued, TypeOK
<1>2. Fed' = Fed \cup {Resume(s)}
  BY <1>1, ToSetAppend DEF Fed
<1>3. \A r : Told(r) => Told(r)'
  BY <1>1, <1>2 DEF Told
<1>4. QueueTold'
  BY <1>1, <1>3 DEF KnownInv, QueueTold, NamedBefore
<1>5. HeldTold'
  BY <1>1, <1>3 DEF KnownInv, HeldTold
<1>6. KickedOut'
  BY <1>1 DEF KnownInv, KickedOut, Live
<1>7. KnownBeforeData'
  <2>1. /\ DOMAIN feed' = DOMAIN feed \cup {Len(feed) + 1}
        /\ \A i \in DOMAIN feed : /\ feed'[i] = feed[i]
                                  /\ NamedBefore(feed, i) => NamedBefore(feed', i)
        /\ feed'[Len(feed) + 1] = Resume(s)
    BY <1>1, NamedAppend
  <2>2. ASSUME "reliable" \notin dropped, NEW i \in DOMAIN feed', feed'[i].ev = "data"
        PROVE  NamedBefore(feed', i)
    <3>1. i \in DOMAIN feed
      BY <2>1, <2>2, EventFields
    <3>2. NamedBefore(feed, i)
      BY <2>1, <2>2, <3>1 DEF KnownInv, KnownBeforeData, NamedBefore
    <3>. QED  BY <2>1, <3>1, <3>2
  <2>. QED  BY <1>1, <2>2 DEF KnownBeforeData, NamedBefore
<1>. QED  BY <1>4, <1>5, <1>6, <1>7 DEF KnownInv

LEMMA KnownKick ==
    ASSUME TypeOK, KnownInv, NEW s \in Ids, LogicKick(s)
    PROVE  KnownInv'
<1>1. /\ UNCHANGED <<outbox, upQueue, feed, link, resumes, dropped>>
      /\ kicked' = kicked \cup {s} /\ sessions' = Without({s}) /\ link = "up"
  BY DEF LogicKick, Kick, linkVars
<1>2. Held' = Held
  BY <1>1 DEF Held
<1>3. /\ \A r \in Ids \ {s} : sessions'[r] = sessions[r]
      /\ sessions'[s] = NoSession
  BY <1>1 DEF Without
<1>4. KickedOut'
  BY <1>1, <1>3 DEF KnownInv, KickedOut, Live, TypeOK, NoSession
<1>5. \A e \in Held :
          e.ev = "data" /\ e.s \in Ids /\ sessions[e.s].state = "active"
              => sessions'[e.s].state = "active" \/ e.s \in kicked'
  BY <1>1, <1>3
<1>. QED  BY <1>1, <1>2, <1>4, <1>5, KnownFrame

RunningKnownInv == mode = "running" => KnownInv

LEMMA KnownNext ==
    ASSUME TypeOK, Places, AllKnown, RunningGhostInv, RunningFinalInv, Sole', RunningKnownInv,
           [Next]_vars
    PROVE  RunningKnownInv'
<1>. SUFFICES ASSUME mode' = "running" PROVE KnownInv'
  BY DEF RunningKnownInv
<1>1. KnownInv /\ (link # "resume" => resumes = {})
  BY RunningStep DEF RunningKnownInv, RunningFinalInv, FinalInv, NamesFirst
<1>2. CASE UNCHANGED vars
  <2>1. /\ UNCHANGED <<sessions, outbox, upQueue, feed, link, resumes, dropped, kicked>>
        /\ Held' = Held
    BY <1>2 DEF vars, tableVars, engineVars, linkVars, Held
  <2>2. KickedOut'
    BY <1>1, <2>1 DEF KnownInv, KickedOut, Live, Settled
  <2>. QED  BY <1>1, <2>1, <2>2, KnownFrame
<1>3. CASE RunLogicLink
  <2>1. /\ UNCHANGED <<sessions, outbox, upQueue, feed, resumes, dropped, kicked>>
        /\ Held' = Held /\ link = "resume" /\ link' = "up"
        /\ Queued' = Queued /\ \A s : Told(s)' <=> Told(s)
    BY <1>3 DEF RunLogicLink, linkOnly, tableVars, Held, Queued, Told, Fed
  <2>2. QueueTold'
    BY <1>1, <2>1 DEF KnownInv, QueueTold, NamedBefore
  <2>3. HeldTold'
    BY <1>1, <2>1 DEF KnownInv, HeldTold
  <2>4. KickedOut' /\ KnownBeforeData'
    BY <1>1, <2>1 DEF KnownInv, KickedOut, KnownBeforeData, Live
  <2>. QED  BY <2>2, <2>3, <2>4 DEF KnownInv
<1>4. CASE Connect \/ LinkBreak
  BY <1>1, <1>4, KnownEmpty DEF Connect, LinkBreak
<1>5. CASE Hello
  BY <1>1, <1>5, KnownHello DEF Hello
<1>6. CASE WriteFrame
  BY <1>1, <1>6, KnownWrite DEF WriteFrame
<1>. QED  BY <1>1, <1>2, <1>3, <1>4, <1>5, <1>6, RunningStep, KnownClient, KnownOwn,
             KnownPush, KnownResume, KnownKick

\* As long as the engine runs and no reliable frame was dropped on a full queue,
\* the logic server never gets the data of a session that this connection has not
\* named to it, hot restarts and kicks included (push_up, for_each_session,
\* logic_write_loop).  It rests on Sole: of two tasks that receive for one session
\* one may queue data before the other has queued the announcement.
THEOREM NamedBeforeData == Spec /\ []Sole => [](mode = "running" => KnownBeforeData)
<1>1. Init => RunningKnownInv
  <2>. SUFFICES ASSUME Init PROVE KnownInv
    BY DEF RunningKnownInv
  <2>1. /\ upQueue = <<>> /\ feed = <<>> /\ kicked = {} /\ Held = {}
    BY ToSetEmpty DEF Init, TableInit, Held
  <2>. QED  BY <2>1 DEF KnownInv, QueueTold, HeldTold, KickedOut, KnownBeforeData
<1>2. Init => TypeOK /\ Places /\ AllKnown /\ RunningGhostInv /\ RunningFinalInv
  <2>1. Init => AllKnown
    BY DEF Init, AllKnown
  <2>. QED  BY <2>1, InitType, PlacesInit, GhostInit, FinalInit
<1>3. /\ TypeOK /\ Places /\ AllKnown /\ RunningGhostInv /\ RunningFinalInv
      /\ RunningKnownInv /\ Sole' /\ [Next]_vars
      => (/\ TypeOK /\ Places /\ AllKnown /\ RunningGhostInv /\ RunningFinalInv
          /\ RunningKnownInv)'
  BY NextType, PlacesNext, AllKnownNext, GhostNext, FinalNext, KnownNext
<1>4. RunningKnownInv => (mode = "running" => KnownBeforeData)
  BY DEF RunningKnownInv, KnownInv
<1>. QED  BY <1>1, <1>2, <1>3, <1>4, PTL DEF Spec
-----------------------------------------------------------------------------
\* With one receive task both hold outright, for there are no two tasks to hold
\* events of one session.
THEOREM OneReceiveTask ==
    (\A t, u \in Workers : t = u)
        => (Spec => [](FeedInOrder /\ (mode = "running" => KnownBeforeData)))
<1>. SUFFICES ASSUME \A t, u \in Workers : t = u
              PROVE  Spec => [](FeedInOrder /\ (mode = "running" => KnownBeforeData))
  OBVIOUS
<1>1. Sole
  BY DEF Sole
<1>. QED  BY <1>1, DataInOrder, NamedBeforeData, PTL
=============================================================================
