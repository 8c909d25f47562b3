-------------------------- MODULE LogicServerProofs --------------------------
(***************************************************************************)
(* Proofs about LogicServer, for every value of its constants: its types and   *)
(* queues, that the session table never names a room that is gone, and that a  *)
(* room that goes on has a reason to.                                       *)
(***************************************************************************)
EXTENDS LogicServer, FiniteSetTheorems, WellFoundedInduction, TLAPS

\* The assumptions in the form the provers use them.
LEMMA Constants ==
    /\ Players \subseteq Nat /\ MaxId \in Nat /\ MaxInstances \in Nat
    /\ MaxConns \in Nat /\ MaxOther \in Nat
    /\ MaxRooms \in Nat \ {0} /\ InboxCap \in Nat \ {0} /\ OutboxCap \in Nat \ {0}
    /\ None \notin Nat /\ None \notin Refs /\ None \notin [to : Instances, e : Events]
    /\ \A p \in Players : Routes[p] \subseteq [action : {"join", "create", "reject"},
                                              room : RoomIds]
  BY LogicServerAssumption

PCs == {"unborn", "idle", "advance", "stop", "stopped", "gone"}

\* Frames as the engine writes them: a SessionOpen names a player, and what is
\* about a session names it.
Frames == {e \in Events :
    /\ e.k = "open" => e.p \in Players
    /\ e.k \notin {"hello", "overload"} => e.s \in Ids}

FramesInv ==
    /\ nextId \in 1 .. MaxId + 1 /\ conns \in 0 .. MaxConns /\ rconn \in 0 .. MaxConns
    /\ wire \in [1 .. MaxConns -> Seq(Frames)]
    /\ acc \in Seq(Frames)

TableTypes ==
    /\ rooms \in [RoomIds -> Instances \cup {None}]
    /\ sessions \in [Ids -> Refs \cup {None}]
    /\ roomId \in [Instances -> RoomIds \cup {None}]
    /\ pc \in [Instances -> PCs]

\* The table of rooms has rooms that were started, each under its own id: so
\* the sessions that removeRoom deletes by id are those of the room it removes.
RoomsOwnIds ==
    \A id \in RoomIds : rooms[id] # None =>
        roomId[rooms[id]] = id /\ pc[rooms[id]] # "unborn"

TableInv == TableTypes /\ RoomsOwnIds /\ SessionRoomLives

tableVars == <<rooms, sessions, roomId, pc>>
frameVars == <<nextId, conns, rconn, wire, acc>>
-----------------------------------------------------------------------------
(* The frames.                                                             *)

\* What a connection brings first: EngineHello, and a SessionResume for each
\* session.
LEMMA Greeting ==
    ASSUME NEW S \in SUBSET Ids, IsFiniteSet(S), NEW order \in SetToSeqs(S)
    PROVE  <<Ev("hello", 0, 0)>> \o [n \in DOMAIN order |-> Ev("resume", order[n], 0)]
               \in Seq(Frames)
<1>1. order \in Seq(Ids)
  <2>1. Cardinality(S) \in Nat
    BY FS_CardinalityType
  <2>. QED  BY <2>1 DEF SetToSeqs
<1>2. ASSUME NEW n \in DOMAIN order PROVE Ev("resume", order[n], 0) \in Frames
  BY <1>1 DEF Ev, Frames, Events, Kinds
<1>3. [n \in DOMAIN order |-> Ev("resume", order[n], 0)] \in Seq(Frames)
  BY <1>1, <1>2
<1>4. <<Ev("hello", 0, 0)>> \in Seq(Frames)
  BY DEF Ev, Frames, Events, Kinds
<1>. QED  BY <1>3, <1>4

LEMMA WriteKeeps ==
    ASSUME FramesInv, NEW f \in Frames, Write(f)
    PROVE  wire' \in [1 .. MaxConns -> Seq(Frames)]
<1>1. \A c \in 1 .. MaxConns : Append(wire[c], f) \in Seq(Frames)
  BY DEF FramesInv
<1>. QED  BY <1>1 DEF FramesInv, Write

LEMMA IdsFinite == IsFiniteSet(Ids) /\ \A S \in SUBSET Ids : IsFiniteSet(S)
<1>1. IsFiniteSet(Ids)
  BY Constants, FS_Interval DEF Ids
<1>. QED  BY <1>1, FS_Subset

\* What the engine does.
LEMMA EngineFrames ==
    ASSUME FramesInv, EngineNext
    PROVE  FramesInv' /\ UNCHANGED tableVars
<1>. USE Constants DEF FramesInv, tableVars
<1>1. ASSUME NEW p \in Players, EngineOpen(p) PROVE FramesInv' /\ UNCHANGED tableVars
  <2>1. Ev("open", nextId, p) \in Frames
    BY <1>1 DEF EngineOpen, Ev, Frames, Events, Kinds, Ids
  <2>2. wire' \in [1 .. MaxConns -> Seq(Frames)]
    BY <1>1, <2>1, WriteKeeps DEF EngineOpen
  <2>. QED  BY <1>1, <2>2 DEF EngineOpen, connVars, serverVars, roomVars
<1>2. ASSUME NEW s \in Ids, EngineClose(s) PROVE FramesInv' /\ UNCHANGED tableVars
  <2>1. Ev("close", s, 0) \in Frames
    BY DEF Ev, Frames, Events, Kinds
  <2>2. wire' \in [1 .. MaxConns -> Seq(Frames)]
    BY <1>2, <2>1, WriteKeeps DEF EngineClose
  <2>. QED  BY <1>2, <2>2 DEF EngineClose, connVars, serverVars, roomVars
<1>3. ASSUME NEW f \in Frames, EngineOther(f) PROVE FramesInv' /\ UNCHANGED tableVars
  <2>1. wire' \in [1 .. MaxConns -> Seq(Frames)]
    BY <1>3, WriteKeeps DEF EngineOther
  <2>. QED  BY <1>3, <2>1 DEF EngineOther, connVars, serverVars, roomVars
<1>4. ASSUME NEW dead \in BOOLEAN, EngineBreak(dead)
      PROVE  FramesInv' /\ UNCHANGED tableVars
  BY <1>4 DEF EngineBreak, connVars, serverVars, roomVars
<1>5. ASSUME EngineConnect PROVE FramesInv' /\ UNCHANGED tableVars
  <2>. DEFINE here == {s \in Ids : owner[s] # None}
              greeting(order) == <<Ev("hello", 0, 0)>>
                       \o [n \in DOMAIN order |-> Ev("resume", order[n], 0)]
  <2>1. PICK order \in SetToSeqs(here) :
            wire' = [wire EXCEPT ![conns + 1] = greeting(order)]
    BY <1>5 DEF EngineConnect
  <2>2. greeting(order) \in Seq(Frames)
    BY IdsFinite, Greeting
  <2>3. wire' \in [1 .. MaxConns -> Seq(Frames)]
    BY <2>1, <2>2
  <2>. QED  BY <1>5, <2>3 DEF EngineConnect, connVars, serverVars, roomVars
<1>6. Ev("overload", 0, 0) \in Frames /\ \A s \in Ids : Ev("data", s, 0) \in Frames
  BY DEF Ev, Frames, Events, Kinds
<1>. QED  BY <1>1, <1>2, <1>3, <1>4, <1>5, <1>6 DEF EngineNext

\* What the read goroutine takes of them.
LEMMA NextFrameKeeps ==
    ASSUME FramesInv, NEW kinds, NextFrame(kinds)
    PROVE  acc' \in Seq(Frames) /\ Head(acc) \in Frames /\ Head(acc).k \in kinds
  BY DEF FramesInv, NextFrame

LEMMA ReaderFrames ==
    ASSUME FramesInv, ReaderNext
    PROVE  FramesInv'
<1>. USE Constants DEF FramesInv
<1>1. ASSUME ReaderEnsure PROVE FramesInv'
  BY <1>1 DEF ReaderEnsure, engineVars
<1>2. ASSUME ReadChunk PROVE FramesInv'
  <2>1. PICK n \in DOMAIN wire[rconn] :
            /\ acc' = SubSeq(wire[rconn], 1, n)
            /\ wire' = [wire EXCEPT ![rconn] = SubSeq(@, n + 1, Len(@))]
    BY <1>2 DEF ReadChunk
  <2>2. rconn \in 1 .. MaxConns /\ wire[rconn] \in Seq(Frames)
    BY <1>2 DEF ReadChunk, Reading
  <2>3. n \in 1 .. Len(wire[rconn])
    BY <2>2
  <2>4. acc' \in Seq(Frames)
    BY <2>1, <2>2, <2>3
  <2>5. SubSeq(wire[rconn], n + 1, Len(wire[rconn])) \in Seq(Frames)
    BY <2>2, <2>3
  <2>6. wire' \in [1 .. MaxConns -> Seq(Frames)]
    BY <2>1, <2>2, <2>5
  <2>. QED  BY <1>2, <2>4, <2>6 DEF ReadChunk
<1>3. ASSUME ReadError PROVE FramesInv'
  BY <1>3 DEF ReadError, engineVars
<1>4. ASSUME HandleSessionOpen PROVE FramesInv'
  <2>1. acc' \in Seq(Frames)
    BY <1>4, NextFrameKeeps DEF HandleSessionOpen
  <2>2. UNCHANGED <<nextId, conns, rconn, wire>>
    BY <1>4 DEF HandleSessionOpen, engineVars
  <2>. QED  BY <2>1, <2>2
<1>5. ASSUME RouteToRoom PROVE FramesInv'
  BY <1>5, NextFrameKeeps DEF RouteToRoom, engineVars
<1>6. ASSUME SendToRoom PROVE FramesInv'
  BY <1>6 DEF SendToRoom, engineVars
<1>7. ASSUME DispatchGlobal PROVE FramesInv'
  BY <1>7, NextFrameKeeps DEF DispatchGlobal, engineVars
<1>. QED  BY <1>1, <1>2, <1>3, <1>4, <1>5, <1>6, <1>7 DEF ReaderNext

\* And nobody else touches them.
LEMMA OtherFrames ==
    ASSUME FramesInv,
           \/ RoomNext \/ WriterEnsure \/ WriteFrame
           \/ \E g \in Goroutines : OnEngineDead(g)
           \/ UNCHANGED vars
    PROVE  FramesInv'
<1>1. ASSUME NEW i \in Instances,
             \/ HandleEvent(i) \/ TimerTick(i) \/ CatchUp(i) \/ AdvanceReturn(i)
             \/ Stop(i) \/ RemoveRoom(i)
      PROVE  UNCHANGED frameVars
  BY <1>1 DEF HandleEvent, TimerTick, CatchUp, DoTick, AdvanceReturn, Stop, RemoveRoom,
              engineVars, connVars, frameVars
<1>2. ASSUME WriterEnsure \/ WriteFrame PROVE UNCHANGED frameVars
  BY <1>2 DEF WriterEnsure, WriteFrame, engineVars, frameVars
<1>3. ASSUME NEW g \in Goroutines, OnEngineDead(g) PROVE UNCHANGED frameVars
  BY <1>3 DEF OnEngineDead, engineVars, frameVars
<1>4. ASSUME UNCHANGED vars PROVE UNCHANGED frameVars
  BY <1>4 DEF vars, engineVars, connVars, frameVars
<1>5. UNCHANGED frameVars
  BY <1>1, <1>2, <1>3, <1>4 DEF RoomNext
<1>. QED  BY <1>5 DEF FramesInv, frameVars
-----------------------------------------------------------------------------
(* The tables.                                                             *)

\* Sessions that are freed leave the table in order, whichever they are.
LEMMA FreeKeeps ==
    ASSUME TableInv, NEW ids,
           sessions' = Free(ids), UNCHANGED <<rooms, roomId>>,
           pc' \in [Instances -> PCs],
           \A i \in Instances : pc[i] # "unborn" => pc'[i] # "unborn"
    PROVE  TableInv'
<1>1. /\ sessions' \in [Ids -> Refs \cup {None}]
      /\ \A s \in Ids : sessions'[s] # None => sessions'[s] = sessions[s]
  BY DEF TableInv, TableTypes, Free
<1>2. TableTypes'
  BY <1>1 DEF TableInv, TableTypes
<1>3. RoomsOwnIds'
  BY DEF TableInv, TableTypes, RoomsOwnIds
<1>4. SessionRoomLives'
  BY <1>1 DEF TableInv, SessionRoomLives
<1>. QED  BY <1>2, <1>3, <1>4 DEF TableInv

LEMMA TableStutters ==
    ASSUME TableInv, UNCHANGED tableVars
    PROVE  TableInv'
  BY DEF TableInv, TableTypes, RoomsOwnIds, SessionRoomLives, tableVars

\* Where run goes next is a place it may be in.
LEMMA AfterType == \A i, stop : After(i, stop) \in PCs \ {"unborn"}
  BY DEF After, PCs

\* removeRoom: the sessions of a room go with it.
LEMMA RemoveRoomKeeps ==
    ASSUME TableInv, NEW i \in Instances, RemoveRoom(i)
    PROVE  TableInv'
<1>. DEFINE held(s) == sessions[s] # None /\ s \notin Dropped(i)
<1>1. /\ rooms' = [id \in RoomIds |-> IF rooms[id] = i THEN None ELSE rooms[id]]
      /\ sessions' = Free(Dropped(i))
      /\ pc' = [pc EXCEPT ![i] = "gone"] /\ roomId' = roomId
  BY DEF RemoveRoom
<1>2. /\ sessions' \in [Ids -> Refs \cup {None}]
      /\ \A s \in Ids : sessions'[s] # None => held(s) /\ sessions'[s] = sessions[s]
  BY <1>1 DEF TableInv, TableTypes, Free
<1>3. TableTypes'
  BY <1>1, <1>2 DEF TableInv, TableTypes, PCs
<1>4. RoomsOwnIds'
  BY <1>1 DEF TableInv, TableTypes, RoomsOwnIds
<1>5. ASSUME NEW s \in Ids, sessions'[s] # None
      PROVE  rooms'[sessions'[s].room] # None
  <2>. DEFINE id == sessions[s].room
  <2>1. held(s) /\ sessions'[s] = sessions[s] /\ id \in RoomIds
    BY <1>2, <1>5 DEF TableInv, TableTypes, Refs
  <2>2. rooms[id] # None /\ id # roomId[i]
    BY <2>1 DEF TableInv, SessionRoomLives, Dropped
  <2>3. rooms[id] # i
    BY <2>1, <2>2 DEF TableInv, RoomsOwnIds
  <2>. QED  BY <1>1, <2>1, <2>2, <2>3
<1>. QED  BY <1>3, <1>4, <1>5 DEF TableInv, SessionRoomLives

\* The goroutines of the rooms.
LEMMA RoomKeeps ==
    ASSUME TableInv, RoomNext
    PROVE  TableInv'
<1>1. PICK i \in Instances :
          \/ HandleEvent(i) \/ TimerTick(i) \/ CatchUp(i) \/ AdvanceReturn(i)
          \/ Stop(i) \/ RemoveRoom(i)
  BY DEF RoomNext
<1>2. pc \in [Instances -> PCs]
  BY DEF TableInv, TableTypes
<1>3. CASE HandleEvent(i)
  <2>. DEFINE r == Handled(Local(i), Head(inbox[i]))
  <2>1. /\ sessions' = Free(r.freed) /\ UNCHANGED <<rooms, roomId>>
        /\ pc' = [pc EXCEPT ![i] = After(i, r.stop)]
    BY <1>3 DEF HandleEvent, Commit
  <2>. HIDE DEF r
  <2>. QED  BY <1>2, <2>1, AfterType, FreeKeeps
<1>4. CASE TimerTick(i) \/ CatchUp(i)
  <2>1. DoTick(i)
    BY <1>4 DEF TimerTick, CatchUp
  <2>2. \E ids : sessions' = Free(ids)
    BY <2>1 DEF DoTick, Commit
  <2>3. pc' = [pc EXCEPT ![i] = "advance"] /\ UNCHANGED <<rooms, roomId>>
    BY <2>1 DEF DoTick
  <2>. QED  BY <1>2, <2>2, <2>3, FreeKeeps DEF PCs
<1>5. CASE AdvanceReturn(i)
  <2>1. /\ sessions' = sessions /\ UNCHANGED <<rooms, roomId>>
        /\ pc' = [pc EXCEPT ![i] = After(i, stopReq[i])]
    BY <1>5 DEF AdvanceReturn, serverVars
  <2>2. sessions' = Free({})
    BY <2>1 DEF Free, TableInv, TableTypes
  <2>. QED  BY <1>2, <2>1, <2>2, AfterType, FreeKeeps
<1>6. CASE Stop(i)
  <2>1. /\ sessions' = sessions /\ UNCHANGED <<rooms, roomId>>
        /\ pc' = [pc EXCEPT ![i] = "stopped"]
    BY <1>6 DEF Stop
  <2>2. sessions' = Free({})
    BY <2>1 DEF Free, TableInv, TableTypes
  <2>. QED  BY <1>2, <2>1, <2>2, FreeKeeps DEF PCs
<1>7. CASE RemoveRoom(i)
  BY <1>7, RemoveRoomKeeps
<1>. QED  BY <1>1, <1>3, <1>4, <1>5, <1>6, <1>7

\* A session that is admitted to a room of the table.
LEMMA AdmitKeeps ==
    ASSUME TableTypes', RoomsOwnIds', SessionRoomLives,
           sessions \in [Ids -> Refs \cup {None}],
           \A id \in RoomIds : rooms[id] # None => rooms'[id] # None,
           NEW id \in RoomIds, rooms'[id] # None,
           NEW s, NEW p, Admit(rooms'[id], s, p)
    PROVE  SessionRoomLives'
<1>1. \/ sessions' = sessions
      \/ sessions' = [sessions EXCEPT ![s] = Ref(roomId'[rooms'[id]], p)]
  BY DEF Admit
<1>2. roomId'[rooms'[id]] = id
  BY DEF RoomsOwnIds
<1>. QED  BY <1>1, <1>2 DEF SessionRoomLives, Ref, Refs

LEMMA AdmitType ==
    ASSUME sessions \in [Ids -> Refs \cup {None}],
           NEW i, roomId'[i] \in RoomIds, NEW s, NEW p \in Players, Admit(i, s, p)
    PROVE  sessions' \in [Ids -> Refs \cup {None}]
  BY DEF Admit, Ref, Refs

\* handleSessionOpen, under roomsMu.
LEMMA HandleSessionOpenKeeps ==
    ASSUME FramesInv, TableInv, HandleSessionOpen
    PROVE  TableInv'
<1>. DEFINE s == Head(acc).s
            p == Head(acc).p
<1>1. p \in Players
  <2>1. NextFrame({"open"})
    BY DEF HandleSessionOpen
  <2>2. Head(acc) \in Frames /\ Head(acc).k \in {"open"}
    BY <2>1, NextFrameKeeps
  <2>. QED  BY <2>2 DEF Frames
<1>2. PICK d \in Routes[p] :
          IF d.action = "reject" THEN Refuse(s)
          ELSE IF sessions[s] # None
          THEN UNCHANGED <<serverVars, roomVars, lost>>
          ELSE IF rooms[d.room] # None
          THEN /\ UNCHANGED <<rooms, roomId, players, stopReq, pc>>
               /\ Admit(rooms[d.room], s, p)
          ELSE IF d.action = "join" \/ Cardinality(OpenRooms) >= MaxRooms
          THEN Refuse(s)
          ELSE \E i \in Instances : NewRoom(d.room, i) /\ Admit(i, s, p)
  BY DEF HandleSessionOpen
<1>3. d.room \in RoomIds
  BY <1>1, <1>2, Constants
<1>. HIDE DEF s, p
<1>4. CASE Refuse(s)
  BY <1>4, TableStutters DEF Refuse, tableVars, roomVars
<1>5. CASE UNCHANGED <<serverVars, roomVars, lost>>
  BY <1>5, TableStutters DEF tableVars, serverVars, roomVars
<1>6. CASE /\ rooms[d.room] # None /\ UNCHANGED <<rooms, roomId, pc>>
           /\ Admit(rooms[d.room], s, p)
  <2>1. roomId'[rooms[d.room]] = d.room
    BY <1>3, <1>6 DEF TableInv, RoomsOwnIds
  <2>2. TableTypes'
    BY <1>1, <1>3, <1>6, <2>1, AdmitType DEF TableInv, TableTypes
  <2>3. RoomsOwnIds'
    BY <1>6 DEF TableInv, RoomsOwnIds
  <2>4. SessionRoomLives'
    BY <1>3, <1>6, <2>2, <2>3, AdmitKeeps DEF TableInv, TableTypes
  <2>. QED  BY <2>2, <2>3, <2>4 DEF TableInv
<1>7. ASSUME NEW i \in Instances, rooms[d.room] = None, NewRoom(d.room, i),
             Admit(i, s, p)
      PROVE  TableInv'
  <2>1. /\ rooms' = [rooms EXCEPT ![d.room] = i]
        /\ roomId' = [roomId EXCEPT ![i] = d.room]
        /\ pc' = [pc EXCEPT ![i] = "idle"] /\ pc[i] = "unborn"
    BY <1>7 DEF NewRoom, NewInstance
  <2>2. i # None
    BY Constants DEF Instances
  <2>3. roomId'[i] = d.room /\ rooms'[d.room] = i
    BY <1>3, <2>1 DEF TableInv, TableTypes
  <2>4. TableTypes'
    BY <1>1, <1>3, <1>7, <2>1, <2>3, AdmitType DEF TableInv, TableTypes, PCs
  <2>5. ASSUME NEW id \in RoomIds, rooms'[id] # None
        PROVE  roomId'[rooms'[id]] = id /\ pc'[rooms'[id]] # "unborn"
    <3>1. CASE id = d.room
      BY <2>1, <2>3, <3>1 DEF TableInv, TableTypes
    <3>2. CASE id # d.room
      <4>1. rooms'[id] = rooms[id] /\ rooms[id] # None
        BY <2>1, <2>5, <3>2 DEF TableInv, TableTypes
      <4>2. /\ rooms[id] # i /\ roomId[rooms[id]] = id /\ pc[rooms[id]] # "unborn"
            /\ rooms[id] \in Instances
        BY <2>1, <4>1 DEF TableInv, TableTypes, RoomsOwnIds
      <4>. QED  BY <2>1, <4>1, <4>2 DEF TableInv, TableTypes
    <3>. QED  BY <3>1, <3>2
  <2>6. RoomsOwnIds'
    BY <2>5 DEF RoomsOwnIds
  <2>7. \A id \in RoomIds : rooms[id] # None => rooms'[id] # None
    BY <2>1, <2>2 DEF TableInv, TableTypes
  <2>8. SessionRoomLives'
    BY <1>3, <1>7, <2>2, <2>3, <2>4, <2>6, <2>7, AdmitKeeps DEF TableInv, TableTypes
  <2>. QED  BY <2>4, <2>6, <2>8 DEF TableInv
<1>. QED  BY <1>2, <1>4, <1>5, <1>6, <1>7

\* The rest of the two goroutines of the connection.
LEMMA ConnectionKeeps ==
    ASSUME FramesInv, TableInv,
           \/ ReaderNext \/ WriterEnsure \/ WriteFrame
           \/ \E g \in Goroutines : OnEngineDead(g)
    PROVE  TableInv'
<1>1. CASE HandleSessionOpen
  BY <1>1, HandleSessionOpenKeeps
<1>2. CASE \/ ReaderEnsure \/ ReadChunk \/ ReadError \/ RouteToRoom \/ SendToRoom
           \/ DispatchGlobal \/ WriterEnsure \/ WriteFrame
  <2>1. UNCHANGED tableVars
    BY <1>2 DEF ReaderEnsure, ReadChunk, ReadError, RouteToRoom, SendToRoom,
                DispatchGlobal, WriterEnsure, WriteFrame, serverVars, roomVars, tableVars
  <2>. QED  BY <2>1, TableStutters
<1>3. ASSUME NEW g \in Goroutines, OnEngineDead(g) PROVE TableInv'
  <2>1. sessions' = [s \in Ids |-> None] /\ UNCHANGED <<rooms, roomId, pc>>
    BY <1>3 DEF OnEngineDead
  <2>2. sessions' = Free(Ids)
    BY <2>1 DEF Free
  <2>. QED  BY <2>1, <2>2, FreeKeeps DEF TableInv, TableTypes
<1>. QED  BY <1>1, <1>2, <1>3 DEF ReaderNext
-----------------------------------------------------------------------------
LEMMA InitHolds == Init => FramesInv /\ TableInv
<1>1. ASSUME Init PROVE FramesInv
  BY <1>1, Constants DEF Init, FramesInv
<1>2. ASSUME Init PROVE TableInv
  BY <1>2 DEF Init, TableInv, TableTypes, RoomsOwnIds, SessionRoomLives, PCs
<1>. QED  BY <1>1, <1>2

LEMMA StepKeeps ==
    ASSUME FramesInv, TableInv, [Next]_vars
    PROVE  FramesInv' /\ TableInv'
<1>1. CASE EngineNext
  BY <1>1, EngineFrames, TableStutters
<1>2. CASE ReaderNext
  BY <1>2, ReaderFrames, ConnectionKeeps
<1>3. CASE RoomNext
  BY <1>3, OtherFrames, RoomKeeps
<1>4. CASE WriterEnsure \/ WriteFrame \/ \E g \in Goroutines : OnEngineDead(g)
  BY <1>4, OtherFrames, ConnectionKeeps
<1>5. CASE UNCHANGED vars
  <2>1. UNCHANGED tableVars
    BY <1>5 DEF vars, serverVars, roomVars, tableVars
  <2>. QED  BY <1>5, <2>1, OtherFrames, TableStutters
<1>. QED  BY <1>1, <1>2, <1>3, <1>4, <1>5 DEF Next

\* The reader, which finds a session and then its room under roomsMu, finds the
\* room (routeToRoom, onEngineDead), for any number of players, rooms, sessions
\* and connections, and whatever the gatekeeper decides.
THEOREM SessionsHaveRooms == Spec => []SessionRoomLives
<1>1. FramesInv /\ TableInv /\ [Next]_vars => FramesInv' /\ TableInv'
  BY StepKeeps
<1>2. TableInv => SessionRoomLives
  BY DEF TableInv
<1>. QED  BY InitHolds, <1>1, <1>2, PTL DEF Spec
-----------------------------------------------------------------------------
(* What a goroutine computes event by event.                               *)

\* Induction up to N, on the set of numbers for which something holds.
LEMMA StepByStep ==
    ASSUME NEW N \in Nat, NEW S, 0 \in S, \A n \in 1 .. N : n - 1 \in S => n \in S
    PROVE  \A n \in 0 .. N : n \in S
<1>. DEFINE B == {n \in 0 .. N : n \notin S}
<1>. SUFFICES ASSUME B # {} PROVE FALSE
  OBVIOUS
<1>1. PICK m \in B : \A x \in B : <<x, m>> \notin OpToRel(<, Nat)
  <2>1. B \in SUBSET Nat
    OBVIOUS
  <2>. HIDE DEF B
  <2>. QED  BY <2>1, NatLessThanWellFounded, WFMin
<1>2. m \in 1 .. N
  <2>1. m \in 0 .. N /\ m # 0
    OBVIOUS
  <2>. QED  BY ONLY <2>1, N \in Nat
<1>3. m - 1 \notin B
  <2>1. m - 1 \in Nat /\ m \in Nat /\ m - 1 < m
    BY <1>2
  <2>2. <<m - 1, m>> \in OpToRel(<, Nat)
    BY <2>1 DEF OpToRel
  <2>. QED  BY <1>1, <2>2, Zenon
<1>4. m - 1 \in S
  BY <1>2, <1>3
<1>. QED  BY <1>1, <1>2, <1>4

\* A value that is made from the one before it, N times over.
Iterates(f, b, G, N) == f = [n \in 0 .. N |-> IF n = 0 THEN b ELSE G[n][f[n - 1]]]

LEMMA Iterated ==
    ASSUME NEW N \in Nat, NEW R, NEW b \in R, NEW G \in [1 .. N -> [R -> R]]
    PROVE  \E f \in [0 .. N -> R] : Iterates(f, b, G, N)
<1>. DEFINE S == {m \in 0 .. N : \E f \in [0 .. m -> R] : Iterates(f, b, G, m)}
<1>1. 0 \in S
  <2>1. [n \in 0 .. 0 |-> b] \in [0 .. 0 -> R]
    OBVIOUS
  <2>2. Iterates([n \in 0 .. 0 |-> b], b, G, 0)
    BY DEF Iterates
  <2>. QED  BY <2>1, <2>2
<1>2. ASSUME NEW m \in 1 .. N, m - 1 \in S PROVE m \in S
  <2>1. PICK f \in [0 .. m - 1 -> R] : Iterates(f, b, G, m - 1)
    BY <1>2
  <2>2. \A n \in 0 .. m - 1 : f[n] = IF n = 0 THEN b ELSE G[n][f[n - 1]]
    BY <2>1 DEF Iterates
  <2>3. PICK g : g = [n \in 0 .. m |-> IF n = m THEN G[m][f[m - 1]] ELSE f[n]]
    OBVIOUS
  <2>4. m - 1 \in 0 .. m - 1 /\ f[m - 1] \in R /\ G[m][f[m - 1]] \in R
    OBVIOUS
  <2>5. g \in [0 .. m -> R]
    BY <2>3, <2>4
  <2>6. g[m] = G[m][f[m - 1]] /\ \A n \in 0 .. m - 1 : g[n] = f[n]
    BY <2>3
  <2>7. ASSUME NEW n \in 0 .. m
        PROVE  g[n] = IF n = 0 THEN b ELSE G[n][g[n - 1]]
    <3>1. CASE n = m
      BY <2>4, <2>6, <3>1
    <3>2. CASE n # m
      <4>1. n \in 0 .. m - 1 /\ (n # 0 => n - 1 \in 0 .. m - 1)
        BY <3>2
      <4>. QED  BY <2>2, <2>6, <4>1
    <3>. QED  BY <3>1, <3>2
  <2>8. Iterates(g, b, G, m)
    BY <2>3, <2>7 DEF Iterates
  <2>. QED  BY <2>5, <2>8
<1>3. N \in S
  <2>1. \A m \in 1 .. N : m - 1 \in S => m \in S
    BY <1>2
  <2>. HIDE DEF S
  <2>2. \A m \in 0 .. N : m \in S
    BY <1>1, <2>1, StepByStep
  <2>. QED  BY <2>2
<1>. QED  BY <1>3
-----------------------------------------------------------------------------
(* The handler of a room.                                                  *)

Locals == [players : [Players -> Ids \cup {None}], stop : BOOLEAN,
           freed : SUBSET Ids, mixed : SUBSET Ids]

LEMMA LocalFields ==
    ASSUME NEW r \in Locals
    PROVE  /\ r.players \in [Players -> Ids \cup {None}] /\ r.stop \in BOOLEAN
           /\ r.freed \in SUBSET Ids /\ r.mixed \in SUBSET Ids
  BY DEF Locals

\* What it changes when a player leaves.
LEMMA WithoutIs ==
    ASSUME NEW r \in Locals, NEW p \in Players, r.players[p] # None, NEW w,
           w = Without(r, p)
    PROVE  /\ w \in Locals
           /\ w.players = [r.players EXCEPT ![p] = None]
           /\ w.freed = r.freed \cup {r.players[p]}
           /\ w.stop <=> (r.stop \/ w.players = Nobody)
           /\ w.mixed = r.mixed
<1>1. PICK rest : rest = [r.players EXCEPT ![p] = None]
  OBVIOUS
<1>2. PICK f : f = r.freed \cup {r.players[p]}
  OBVIOUS
<1>3. PICK t : t = (r.stop \/ rest = Nobody)
  OBVIOUS
<1>4. rest \in [Players -> Ids \cup {None}] /\ f \in SUBSET Ids /\ t \in BOOLEAN
  BY <1>1, <1>2, <1>3, LocalFields
<1>5. w = [r EXCEPT !.players = rest, !.freed = f, !.stop = t]
  BY <1>1, <1>2, <1>3 DEF Without
<1>6. /\ w.players = rest /\ w.freed = f /\ w.stop = t /\ w.mixed = r.mixed
      /\ w \in Locals
  BY <1>4, <1>5 DEF Locals
<1>. QED  BY <1>1, <1>2, <1>3, <1>6

\* What it makes of an event.
Joins(r, e, h) ==
    /\ e.k = "open" /\ r.players[e.p] = None
    /\ h.players = [r.players EXCEPT ![e.p] = e.s]
    /\ h.stop = r.stop /\ h.freed = r.freed /\ h.mixed = r.mixed

Collides(r, e, h) ==
    /\ e.k = "open" /\ r.players[e.p] # None
    /\ h.players = r.players /\ h.stop = r.stop /\ h.freed = r.freed
    /\ h.mixed = r.mixed \cup {e.s, r.players[e.p]}

Leaves(r, e, h) ==
    /\ e.k = "close" /\ e.p \in Players /\ r.players[e.p] # None
    /\ h.players = [r.players EXCEPT ![e.p] = None]
    /\ h.stop <=> (r.stop \/ h.players = Nobody)
    /\ h.freed = r.freed \cup {r.players[e.p]}
    /\ h.mixed = IF r.players[e.p] = e.s THEN r.mixed
                 ELSE r.mixed \cup {e.s, r.players[e.p]}

Passes(r, e, h) ==
    /\ h = r
    /\ e.k # "open" /\ (e.k = "close" /\ e.p \in Players => r.players[e.p] = None)

LEMMA HandledIs ==
    ASSUME NEW r \in Locals, NEW e \in Frames, NEW h, h = Handled(r, e)
    PROVE  /\ h \in Locals
           /\ Joins(r, e, h) \/ Collides(r, e, h) \/ Leaves(r, e, h) \/ Passes(r, e, h)
<1>. USE LocalFields
<1>0. /\ e.k = "open" => e.p \in Players /\ e.s \in Ids
      /\ e.k = "close" => e.s \in Ids
  BY DEF Frames, Events, Kinds
<1>1. CASE e.k = "open" /\ r.players[e.p] = None
  <2>1. PICK q : q = [r.players EXCEPT ![e.p] = e.s]
    OBVIOUS
  <2>2. q \in [Players -> Ids \cup {None}]
    BY <1>0, <1>1, <2>1
  <2>3. h = [r EXCEPT !.players = q]
    BY <1>1, <2>1 DEF Handled, Locals
  <2>4. h \in Locals
    BY <2>2, <2>3 DEF Locals
  <2>5. h.players = q /\ h.stop = r.stop /\ h.freed = r.freed /\ h.mixed = r.mixed
    BY <2>3 DEF Locals
  <2>. QED  BY <1>1, <2>1, <2>4, <2>5 DEF Joins
<1>2. CASE e.k = "open" /\ r.players[e.p] # None
  <2>1. PICK q : q = r.mixed \cup {e.s, r.players[e.p]}
    OBVIOUS
  <2>2. q \in SUBSET Ids
    BY <1>0, <1>2, <2>1
  <2>3. h = [r EXCEPT !.mixed = q]
    BY <1>2, <2>1 DEF Handled
  <2>4. h \in Locals
    BY <2>2, <2>3 DEF Locals
  <2>5. h.players = r.players /\ h.stop = r.stop /\ h.freed = r.freed /\ h.mixed = q
    BY <2>3 DEF Locals
  <2>. QED  BY <1>2, <2>1, <2>4, <2>5 DEF Collides
<1>3. CASE e.k = "close" /\ e.p \in Players /\ r.players[e.p] # None
  <2>1. PICK w : w = Without(r, e.p)
    OBVIOUS
  <2>2. /\ w \in Locals
        /\ w.players = [r.players EXCEPT ![e.p] = None]
        /\ w.freed = r.freed \cup {r.players[e.p]}
        /\ w.stop <=> (r.stop \/ w.players = Nobody)
        /\ w.mixed = r.mixed
    BY <1>3, <2>1, WithoutIs
  <2>3. PICK q : q = IF r.players[e.p] = e.s THEN r.mixed
                     ELSE r.mixed \cup {e.s, r.players[e.p]}
    OBVIOUS
  <2>4. q \in SUBSET Ids
    BY <1>0, <1>3, <2>3
  <2>5. h = [w EXCEPT !.mixed = q]
    BY <1>3, <2>1, <2>2, <2>3 DEF Handled
  <2>6. h \in Locals
    BY <2>2, <2>4, <2>5 DEF Locals
  <2>7. h.players = w.players /\ h.stop = w.stop /\ h.freed = w.freed /\ h.mixed = q
    BY <2>2, <2>5 DEF Locals
  <2>8. Leaves(r, e, h)
    BY <1>3, <2>2, <2>3, <2>7 DEF Leaves
  <2>. QED  BY <2>6, <2>8
<1>4. CASE e.k # "open" /\ ~(e.k = "close" /\ e.p \in Players /\ r.players[e.p] # None)
  <2>1. h = r
    BY <1>4 DEF Handled
  <2>. QED  BY <1>4, <2>1 DEF Passes
<1>. QED  BY <1>1, <1>2, <1>3, <1>4

\* drainInbox: the handler, for one event after the other.
Drains(i, f) ==
    /\ f \in [0 .. Len(inbox[i]) -> Locals]
    /\ f[0] = Local(i)
    /\ \A n \in 1 .. Len(inbox[i]) : f[n] = Handled(f[n - 1], inbox[i][n])

LEMMA DrainedIs ==
    ASSUME NEW i, Local(i) \in Locals, inbox[i] \in Seq(Frames)
    PROVE  \E f : Drains(i, f) /\ Drained(i) = f[Len(inbox[i])]
<1>1. PICK N : N = Len(inbox[i])
  OBVIOUS
<1>2. N \in Nat /\ \A n \in 1 .. N : inbox[i][n] \in Frames
  BY <1>1
<1>3. PICK G : G = [n \in 1 .. N |-> [r \in Locals |-> Handled(r, inbox[i][n])]]
  OBVIOUS
<1>4. G \in [1 .. N -> [Locals -> Locals]]
  <2>1. ASSUME NEW n \in 1 .. N, NEW r \in Locals PROVE Handled(r, inbox[i][n]) \in Locals
    BY <1>2, HandledIs
  <2>. QED  BY <1>3, <2>1
<1>. DEFINE Upto(f) ==
         f = [n \in 0 .. N |-> IF n = 0 THEN Local(i) ELSE Handled(f[n - 1], inbox[i][n])]
<1>5. \E f : Upto(f)
  <2>1. PICK f \in [0 .. N -> Locals] : Iterates(f, Local(i), G, N)
    BY <1>2, <1>4, Iterated
  <2>2. ASSUME NEW n \in 1 .. N
        PROVE  G[n][f[n - 1]] = Handled(f[n - 1], inbox[i][n])
    <3>1. n - 1 \in 0 .. N
      BY <1>2
    <3>. QED  BY <1>3, <2>1, <3>1
  <2>3. \A n \in 0 .. N : f[n] = IF n = 0 THEN Local(i) ELSE G[n][f[n - 1]]
    BY <2>1 DEF Iterates
  <2>4. ASSUME NEW n \in 0 .. N
        PROVE  f[n] = IF n = 0 THEN Local(i) ELSE Handled(f[n - 1], inbox[i][n])
    <3>1. CASE n = 0
      BY <2>3, <3>1
    <3>2. CASE n # 0
      <4>1. n \in 1 .. N
        BY <1>2, <3>2
      <4>. QED  BY <2>2, <2>3, <3>2, <4>1
    <3>. QED  BY <3>1, <3>2
  <2>5. Upto(f)
    BY <2>1, <2>4
  <2>. QED  BY <2>5
<1>6. \E f : Upto(f) /\ Drained(i) = f[N]
  BY <1>1, <1>5 DEF Drained
<1>7. PICK f : Upto(f) /\ Drained(i) = f[N]
  BY <1>6
<1>8. \A n \in 0 .. N : f[n] = IF n = 0 THEN Local(i) ELSE Handled(f[n - 1], inbox[i][n])
  BY <1>7
<1>9. DOMAIN f = 0 .. N
  BY <1>7
<1>10. f = [n \in 0 .. N |-> f[n]]
  BY <1>7
<1>. HIDE DEF Upto
<1>11. f[0] = Local(i) /\ \A n \in 1 .. N : f[n] = Handled(f[n - 1], inbox[i][n])
  <2>1. 0 \in 0 .. N /\ \A n \in 1 .. N : n \in 0 .. N /\ n # 0
    BY <1>2
  <2>. QED  BY <1>8, <2>1
<1>12. \A n \in 0 .. N : f[n] \in Locals
  <2>. DEFINE S == {n \in 0 .. N : f[n] \in Locals}
  <2>1. 0 \in S
    BY <1>2, <1>11
  <2>2. ASSUME NEW n \in 1 .. N, n - 1 \in S PROVE n \in S
    <3>1. f[n - 1] \in Locals /\ f[n] = Handled(f[n - 1], inbox[i][n]) /\ n \in 0 .. N
      BY <1>11, <2>2
    <3>. QED  BY <1>2, <3>1, HandledIs
  <2>3. \A n \in 1 .. N : n - 1 \in S => n \in S
    BY <2>2
  <2>4. \A n \in 0 .. N : n \in S
    <3>. HIDE DEF S
    <3>. QED  BY <1>2, <2>1, <2>3, StepByStep
  <2>. QED  BY <2>4
<1>13. f \in [0 .. N -> Locals]
  BY <1>10, <1>12
<1>. QED  BY <1>1, <1>7, <1>11, <1>13 DEF Drains
-----------------------------------------------------------------------------
(* The queues.                                                             *)

Queues == {q \in Seq(Ids \cup {0}) : Len(q) <= OutboxCap}
Boxes == {q \in Seq(Frames) : Len(q) <= InboxCap}

\* What is in a sequence that grows at its end.
LEMMA HasAppend ==
    ASSUME NEW S, NEW q \in Seq(S), NEW e \in S, NEW r, r = Append(q, e)
    PROVE  \A x : Has(r, x) <=> (Has(q, x) \/ x = e)
<1>1. /\ Len(q) \in Nat /\ DOMAIN q = 1 .. Len(q) /\ DOMAIN r = 1 .. Len(q) + 1
      /\ \A n \in 1 .. Len(q) : r[n] = q[n]
      /\ r[Len(q) + 1] = e
  OBVIOUS
<1>2. /\ \A n \in 1 .. Len(q) : n \in 1 .. Len(q) + 1
      /\ Len(q) + 1 \in 1 .. Len(q) + 1
      /\ \A n \in 1 .. Len(q) + 1 : n \in 1 .. Len(q) \/ n = Len(q) + 1
  BY <1>1
<1>3. ASSUME NEW x, Has(r, x) PROVE Has(q, x) \/ x = e
  <2>1. PICK n \in 1 .. Len(q) + 1 : r[n] = x
    BY <1>1, <1>3 DEF Has
  <2>. QED  BY <1>1, <1>2, <2>1 DEF Has
<1>4. ASSUME NEW x, Has(q, x) PROVE Has(r, x)
  <2>1. PICK n \in 1 .. Len(q) : q[n] = x
    BY <1>1, <1>4 DEF Has
  <2>. QED  BY <1>1, <1>2, <2>1 DEF Has
<1>5. Has(r, e)
  BY <1>1, <1>2 DEF Has
<1>. QED  BY <1>3, <1>4, <1>5

LEMMA HasTail ==
    ASSUME NEW S, NEW q \in Seq(S), q # <<>>, NEW r, r = Tail(q)
    PROVE  /\ \A x : Has(q, x) <=> (Has(r, x) \/ x = Head(q))
           /\ r \in Seq(S) /\ Len(r) = Len(q) - 1 /\ Head(q) \in S
<1>1. /\ Len(q) \in Nat \ {0} /\ DOMAIN q = 1 .. Len(q) /\ Head(q) = q[1]
      /\ r \in Seq(S) /\ Len(r) = Len(q) - 1 /\ DOMAIN r = 1 .. Len(q) - 1
      /\ \A n \in 1 .. Len(q) - 1 : r[n] = q[n + 1]
      /\ Head(q) \in S
  OBVIOUS
<1>2. /\ \A n \in 1 .. Len(q) - 1 : n + 1 \in 1 .. Len(q)
      /\ \A n \in 1 .. Len(q) : n = 1 \/ (n - 1 \in 1 .. Len(q) - 1 /\ (n - 1) + 1 = n)
      /\ 1 \in 1 .. Len(q)
  BY <1>1
<1>3. ASSUME NEW x, Has(r, x) PROVE Has(q, x)
  <2>1. PICK n \in 1 .. Len(q) - 1 : r[n] = x
    BY <1>1, <1>3 DEF Has
  <2>. QED  BY <1>1, <1>2, <2>1 DEF Has
<1>4. ASSUME NEW x, Has(q, x), x # Head(q) PROVE Has(r, x)
  <2>1. PICK n \in 1 .. Len(q) : q[n] = x
    BY <1>1, <1>4 DEF Has
  <2>2. n - 1 \in 1 .. Len(q) - 1 /\ r[n - 1] = q[(n - 1) + 1] /\ (n - 1) + 1 = n
    BY <1>1, <1>2, <1>4, <2>1
  <2>. QED  BY <1>1, <2>1, <2>2 DEF Has
<1>5. Has(q, Head(q))
  BY <1>1, <1>2 DEF Has
<1>. QED  BY <1>1, <1>3, <1>4, <1>5

LEMMA SentIs ==
    ASSUME NEW q \in Queues, NEW f \in Ids \cup {0}, NEW r, r = Sent(q, f)
    PROVE  /\ r \in Queues
           /\ \A x : Has(q, x) => Has(r, x)
           /\ \A x : Has(r, x) => Has(q, x) \/ x = f
           /\ Unsent(q, f) \subseteq {f}
           /\ f \notin Unsent(q, f) => Has(r, f)
<1>. USE Constants DEF Queues
<1>1. CASE Len(q) < OutboxCap
  <2>1. r = Append(q, f) /\ Unsent(q, f) = {}
    BY <1>1 DEF Sent, Unsent
  <2>2. r \in Queues
    BY <1>1, <2>1
  <2>3. \A x : Has(r, x) <=> (Has(q, x) \/ x = f)
    <3>1. PICK S : S = Ids \cup {0}
      OBVIOUS
    <3>2. q \in Seq(S) /\ f \in S
      BY <3>1
    <3>. QED  BY ONLY <2>1, <3>2, HasAppend
  <2>. QED  BY <2>1, <2>2, <2>3
<1>2. CASE ~(Len(q) < OutboxCap)
  <2>1. r = q /\ Unsent(q, f) = {f}
    BY <1>2 DEF Sent, Unsent
  <2>. QED  BY <2>1
<1>. QED  BY <1>1, <1>2

LEMMA OfferIs ==
    ASSUME NEW q \in Boxes, NEW e \in Frames, NEW r, r = Offer(q, e)
    PROVE  /\ r \in Boxes
           /\ \A x : Has(q, x) => Has(r, x)
           /\ \A x : Has(r, x) => Has(q, x) \/ x = e
           /\ Len(q) < InboxCap => Has(r, e)
           /\ r = q \/ r = Append(q, e)
<1>. USE Constants DEF Boxes
<1>1. CASE Len(q) < InboxCap
  <2>1. r = Append(q, e)
    BY <1>1 DEF Offer
  <2>2. r \in Boxes
    BY <1>1, <2>1
  <2>3. \A x : Has(r, x) <=> (Has(q, x) \/ x = e)
    <3>1. q \in Seq(Frames) /\ e \in Frames
      OBVIOUS
    <3>. QED  BY ONLY <2>1, <3>1, HasAppend
  <2>. QED  BY <2>1, <2>2, <2>3
<1>2. CASE ~(Len(q) < InboxCap)
  BY <1>2 DEF Offer
<1>. QED  BY <1>1, <1>2

\* The outbox after the Kicks of a room that stops.
LEMMA KicksIs ==
    ASSUME outbox \in Queues, NEW order \in Seq(Ids), NEW r, r = Kicks(order)
    PROVE  /\ r \in Queues
           /\ \A x : Has(outbox, x) => Has(r, x)
           /\ \A x : Has(r, x) => Has(outbox, x) \/ \E n \in 1 .. Len(order) : x = order[n]
<1>1. PICK N : N = Len(order)
  OBVIOUS
<1>2. N \in Nat /\ \A n \in 1 .. N : order[n] \in Ids \cup {0}
  BY <1>1
<1>3. PICK G : G = [n \in 1 .. N |-> [q \in Queues |-> Sent(q, order[n])]]
  OBVIOUS
<1>4. G \in [1 .. N -> [Queues -> Queues]]
  <2>1. ASSUME NEW n \in 1 .. N, NEW q \in Queues PROVE Sent(q, order[n]) \in Queues
    BY <1>2, SentIs
  <2>. QED  BY <1>3, <2>1
<1>. DEFINE Upto(f) ==
         f = [n \in 0 .. N |-> IF n = 0 THEN outbox ELSE Sent(f[n - 1], order[n])]
<1>5. \E f : Upto(f)
  <2>1. PICK f \in [0 .. N -> Queues] : Iterates(f, outbox, G, N)
    BY <1>2, <1>4, Iterated
  <2>2. ASSUME NEW n \in 1 .. N
        PROVE  G[n][f[n - 1]] = Sent(f[n - 1], order[n])
    <3>1. n - 1 \in 0 .. N
      BY <1>2
    <3>. QED  BY <1>3, <2>1, <3>1
  <2>3. \A n \in 0 .. N : f[n] = IF n = 0 THEN outbox ELSE G[n][f[n - 1]]
    BY <2>1 DEF Iterates
  <2>4. ASSUME NEW n \in 0 .. N
        PROVE  f[n] = IF n = 0 THEN outbox ELSE Sent(f[n - 1], order[n])
    <3>1. CASE n = 0
      BY <2>3, <3>1
    <3>2. CASE n # 0
      <4>1. n \in 1 .. N
        BY <1>2, <3>2
      <4>. QED  BY <2>2, <2>3, <3>2, <4>1
    <3>. QED  BY <3>1, <3>2
  <2>5. Upto(f)
    BY <2>1, <2>4
  <2>. QED  BY <2>5
<1>6. \E f : Upto(f) /\ r = f[N]
  BY <1>1, <1>5 DEF Kicks
<1>7. PICK f : Upto(f) /\ r = f[N]
  BY <1>6
<1>8. \A n \in 0 .. N : f[n] = IF n = 0 THEN outbox ELSE Sent(f[n - 1], order[n])
  BY <1>7
<1>. HIDE DEF Upto
<1>9. f[0] = outbox /\ \A n \in 1 .. N : f[n] = Sent(f[n - 1], order[n])
  <2>1. 0 \in 0 .. N /\ \A n \in 1 .. N : n \in 0 .. N /\ n # 0
    BY <1>2
  <2>. QED  BY <1>8, <2>1
<1>. DEFINE Fine(n) ==
         /\ f[n] \in Queues
         /\ \A x : Has(outbox, x) => Has(f[n], x)
         /\ \A x : Has(f[n], x) => Has(outbox, x) \/ \E k \in 1 .. N : x = order[k]
<1>10. Fine(0)
  BY <1>9
<1>11. ASSUME NEW n \in 1 .. N, Fine(n - 1) PROVE Fine(n)
  <2>1. PICK q : q = f[n - 1]
    OBVIOUS
  <2>2. q \in Queues /\ f[n] = Sent(q, order[n])
    BY <1>9, <1>11, <2>1
  <2>3. /\ f[n] \in Queues
        /\ \A x : Has(q, x) => Has(f[n], x)
        /\ \A x : Has(f[n], x) => Has(q, x) \/ x = order[n]
    BY <1>2, <2>2, SentIs
  <2>. QED  BY <1>11, <2>1, <2>3
<1>12. Fine(N)
  <2>1. PICK S : S = {n \in 0 .. N : Fine(n)}
    OBVIOUS
  <2>2. 0 \in S
    BY <1>2, <1>10, <2>1
  <2>3. ASSUME NEW n \in 1 .. N, n - 1 \in S PROVE n \in S
    <3>1. Fine(n - 1) /\ n \in 0 .. N
      BY <2>1, <2>3
    <3>. QED  BY <1>11, <2>1, <3>1
  <2>4. \A n \in 1 .. N : n - 1 \in S => n \in S
    BY <2>3
  <2>5. \A n \in 0 .. N : n \in S
    BY ONLY <1>2, <2>2, <2>4, StepByStep
  <2>. QED  BY <1>2, <2>1, <2>5
<1>. QED  BY <1>1, <1>7, <1>12

\* The inbox of a room after the inCloses of onEngineDead, for the sessions in
\* order.
LEMMA ToldDeadIs ==
    ASSUME NEW i \in Instances, inbox[i] \in Boxes, NEW order \in Seq(Ids),
           NEW r, r = ToldDead(i, order)
    PROVE  /\ r \in Boxes
           /\ \A x : Has(inbox[i], x) => Has(r, x)
           /\ r = inbox[i] \/ \E n \in 1 .. Len(order) : rooms[sessions[order[n]].room] = i
<1>1. PICK N : N = Len(order)
  OBVIOUS
<1>2. N \in Nat /\ \A n \in 1 .. N : order[n] \in Ids
  BY <1>1
<1>. DEFINE Step(q, n) == IF rooms[sessions[order[n]].room] # i THEN q
                          ELSE Offer(q, Ev("close", order[n], 0))
<1>3. PICK G : G = [n \in 1 .. N |-> [q \in Boxes |-> Step(q, n)]]
  OBVIOUS
<1>4. ASSUME NEW n \in 1 .. N PROVE Ev("close", order[n], 0) \in Frames
  BY <1>2 DEF Ev, Frames, Events, Kinds
<1>5. ASSUME NEW n \in 1 .. N, NEW q \in Boxes
      PROVE  /\ Step(q, n) \in Boxes
             /\ \A x : Has(q, x) => Has(Step(q, n), x)
             /\ Step(q, n) = q \/ rooms[sessions[order[n]].room] = i
  <2>1. PICK e : e = Ev("close", order[n], 0)
    OBVIOUS
  <2>2. PICK s : s = Offer(q, e)
    OBVIOUS
  <2>3. s \in Boxes /\ \A x : Has(q, x) => Has(s, x)
    BY <1>4, <2>1, <2>2, OfferIs
  <2>. QED  BY <2>1, <2>2, <2>3
<1>6. G \in [1 .. N -> [Boxes -> Boxes]]
  BY <1>3, <1>5
<1>. DEFINE Upto(f) ==
         f = [n \in 0 .. N |->
                 IF n = 0 THEN inbox[i]
                 ELSE IF rooms[sessions[order[n]].room] # i THEN f[n - 1]
                 ELSE Offer(f[n - 1], Ev("close", order[n], 0))]
<1>7. \E f : Upto(f)
  <2>1. PICK f \in [0 .. N -> Boxes] : Iterates(f, inbox[i], G, N)
    BY <1>2, <1>6, Iterated
  <2>2. ASSUME NEW n \in 1 .. N
        PROVE  G[n][f[n - 1]] = Step(f[n - 1], n)
    <3>1. n - 1 \in 0 .. N
      BY <1>2
    <3>. QED  BY <1>3, <2>1, <3>1
  <2>3. \A n \in 0 .. N : f[n] = IF n = 0 THEN inbox[i] ELSE G[n][f[n - 1]]
    BY <2>1 DEF Iterates
  <2>4. ASSUME NEW n \in 0 .. N
        PROVE  f[n] = IF n = 0 THEN inbox[i] ELSE Step(f[n - 1], n)
    <3>1. CASE n = 0
      BY <2>3, <3>1
    <3>2. CASE n # 0
      <4>1. n \in 1 .. N
        BY <1>2, <3>2
      <4>. QED  BY <2>2, <2>3, <3>2, <4>1
    <3>. QED  BY <3>1, <3>2
  <2>5. Upto(f)
    BY <2>1, <2>4
  <2>. QED  BY <2>5
<1>8. \E f : Upto(f) /\ r = f[N]
  BY <1>1, <1>7 DEF ToldDead
<1>9. PICK f : Upto(f) /\ r = f[N]
  BY <1>8
<1>10. \A n \in 0 .. N : f[n] = IF n = 0 THEN inbox[i] ELSE Step(f[n - 1], n)
  BY <1>9
<1>. HIDE DEF Upto
<1>11. f[0] = inbox[i] /\ \A n \in 1 .. N : f[n] = Step(f[n - 1], n)
  <2>1. 0 \in 0 .. N /\ \A n \in 1 .. N : n \in 0 .. N /\ n # 0
    BY <1>2
  <2>. QED  BY <1>10, <2>1
<1>. HIDE DEF Step
<1>. DEFINE Fine(n) ==
         /\ f[n] \in Boxes
         /\ \A x : Has(inbox[i], x) => Has(f[n], x)
         /\ f[n] = inbox[i] \/ \E k \in 1 .. N : rooms[sessions[order[k]].room] = i
<1>12. Fine(0)
  BY <1>11
<1>13. ASSUME NEW n \in 1 .. N, Fine(n - 1) PROVE Fine(n)
  <2>1. PICK q : q = f[n - 1]
    OBVIOUS
  <2>2. q \in Boxes /\ f[n] = Step(q, n)
    BY <1>11, <1>13, <2>1
  <2>3. /\ f[n] \in Boxes
        /\ \A x : Has(q, x) => Has(f[n], x)
        /\ f[n] = q \/ rooms[sessions[order[n]].room] = i
    BY <1>5, <2>2
  <2>. QED  BY <1>13, <2>1, <2>3
<1>14. Fine(N)
  <2>1. PICK S : S = {n \in 0 .. N : Fine(n)}
    OBVIOUS
  <2>2. 0 \in S
    BY <1>2, <1>12, <2>1
  <2>3. ASSUME NEW n \in 1 .. N, n - 1 \in S PROVE n \in S
    <3>1. Fine(n - 1) /\ n \in 0 .. N
      BY <2>1, <2>3
    <3>. QED  BY <1>13, <2>1, <3>1
  <2>4. \A n \in 1 .. N : n - 1 \in S => n \in S
    BY <2>3
  <2>5. \A n \in 0 .. N : n \in S
    BY ONLY <1>2, <2>2, <2>4, StepByStep
  <2>. QED  BY <1>2, <2>1, <2>5
<1>. QED  BY <1>1, <1>9, <1>14
-----------------------------------------------------------------------------
(* The types of the rest.                                                  *)

EngineTypes ==
    owner \in [Ids -> Players \cup {None}] /\ peer \in BOOLEAN /\ others \in 0 .. MaxOther

LinkTypes ==
    /\ accepted \in 0 .. conns /\ cur \in 0 .. conns
    /\ rconn \in 0 .. conns /\ wconn \in 0 .. conns
    /\ dying \in SUBSET Goroutines
    /\ routing \in [to : Instances, e : Frames] \cup {None}

\* OpenRooms is finite: rooms are made one by one.
FewRooms == IsFiniteSet(OpenRooms) /\ Cardinality(OpenRooms) <= MaxRooms

RoomTypes ==
    /\ players \in [Instances -> [Players -> Ids \cup {None}]]
    /\ inbox \in [Instances -> Boxes] /\ stopReq \in [Instances -> BOOLEAN]

HistoryTypes == lost \in SUBSET Ids /\ cut \in BOOLEAN

TypeInv ==
    /\ EngineTypes /\ LinkTypes /\ FewRooms /\ outbox \in Queues
    /\ RoomTypes /\ HistoryTypes

engineTypeVars == <<owner, peer, others>>
linkTypeVars == <<accepted, cur, wconn, dying, routing>>

\* What a room's goroutine does in a step: the handler leaves r, Kick makes k
\* of it, and box is what is left of the inbox.
Kicked(r, k, p) ==
    /\ r.players[p] # None
    /\ k.players = [r.players EXCEPT ![p] = None]
    /\ k.freed = r.freed \cup {r.players[p]}
    /\ k.players = Nobody => k.stop
    /\ outbox' = Sent(outbox, r.players[p])
    /\ lost' = lost \cup r.mixed \cup Unsent(outbox, r.players[p])

Effect(i, r, k, box) ==
    /\ r \in Locals /\ k \in Locals
    /\ players' = [players EXCEPT ![i] = k.players]
    /\ stopReq' = [stopReq EXCEPT ![i] = k.stop]
    /\ sessions' = Free(k.freed)
    /\ inbox' = [inbox EXCEPT ![i] = box]
    /\ r.stop => k.stop
    /\ \/ /\ k.players = r.players /\ k.freed = r.freed
          /\ outbox' = outbox /\ lost' = lost \cup r.mixed
       \/ \E p \in Players : Kicked(r, k, p)
    /\ UNCHANGED <<engineVars, connVars, rooms, roomId, cut>>

LEMMA LocalType ==
    ASSUME RoomTypes, NEW i \in Instances
    PROVE  /\ Local(i) \in Locals
           /\ Local(i).players = players[i] /\ Local(i).stop = stopReq[i]
           /\ Local(i).freed = {} /\ Local(i).mixed = {}
<1>1. PICK none : none = {}
  OBVIOUS
<1>2. Local(i) = [players |-> players[i], stop |-> stopReq[i], freed |-> none, mixed |-> none]
  BY <1>1 DEF Local
<1>3. none \in SUBSET Ids /\ players[i] \in [Players -> Ids \cup {None}] /\ stopReq[i] \in BOOLEAN
  BY <1>1 DEF RoomTypes
<1>. QED  BY <1>1, <1>2, <1>3 DEF Locals

LEMMA HandleEventIs ==
    ASSUME RoomTypes, NEW i \in Instances, HandleEvent(i)
    PROVE  \E r : /\ r = Handled(Local(i), Head(inbox[i])) /\ Effect(i, r, r, Tail(inbox[i]))
                  /\ inbox[i] # <<>> /\ pc[i] = "idle"
                  /\ pc' = [pc EXCEPT ![i] = After(i, r.stop)]
<1>1. PICK r : r = Handled(Local(i), Head(inbox[i]))
  OBVIOUS
<1>2. inbox[i] # <<>> /\ Head(inbox[i]) \in Frames
  BY DEF HandleEvent, RoomTypes, Boxes
<1>3. r \in Locals
  BY <1>1, <1>2, LocalType, HandledIs
<1>4. /\ inbox' = [inbox EXCEPT ![i] = Tail(inbox[i])]
      /\ Commit(i, r) /\ lost' = lost \cup r.mixed
      /\ pc[i] = "idle" /\ pc' = [pc EXCEPT ![i] = After(i, r.stop)]
      /\ UNCHANGED <<engineVars, connVars, rooms, outbox, roomId, cut>>
  BY <1>1 DEF HandleEvent
<1>5. Effect(i, r, r, Tail(inbox[i]))
  BY <1>3, <1>4 DEF Effect, Commit
<1>. QED  BY <1>1, <1>2, <1>4, <1>5

LEMMA DoTickIs ==
    ASSUME RoomTypes, NEW i \in Instances, DoTick(i)
    PROVE  \E f, k : /\ Drains(i, f) /\ Effect(i, f[Len(inbox[i])], k, <<>>)
                     /\ pc' = [pc EXCEPT ![i] = "advance"]
<1>1. PICK f : Drains(i, f) /\ Drained(i) = f[Len(inbox[i])]
  BY LocalType, DrainedIs DEF RoomTypes, Boxes
<1>2. PICK r : r = Drained(i)
  OBVIOUS
<1>3. r \in Locals
  <2>1. Len(inbox[i]) \in 0 .. Len(inbox[i])
    BY DEF RoomTypes, Boxes
  <2>. QED  BY <1>1, <1>2, <2>1 DEF Drains
<1>. DEFINE here == {p \in Players : r.players[p] # None}
            s(out) == IF out = {} THEN 0 ELSE r.players[CHOOSE p \in out : TRUE]
            k(out) == IF out = {} THEN r ELSE Without(r, CHOOSE p \in out : TRUE)
<1>4. PICK out \in {{}} \cup {{p} : p \in here}, end \in BOOLEAN :
       /\ inbox' = [inbox EXCEPT ![i] = <<>>]
       /\ Commit(i, [k(out) EXCEPT !.stop = @ \/ end])
       /\ outbox' = IF out = {} THEN outbox ELSE Sent(outbox, s(out))
       /\ lost' = lost \cup r.mixed \cup (IF out = {} THEN {} ELSE Unsent(outbox, s(out)))
       /\ pc' = [pc EXCEPT ![i] = "advance"]
       /\ UNCHANGED <<engineVars, connVars, rooms, roomId, cut>>
  BY <1>2 DEF DoTick
<1>5. CASE out = {}
  <2>1. PICK t : t = (r.stop \/ end)
    OBVIOUS
  <2>2. PICK j : j = [r EXCEPT !.stop = t]
    OBVIOUS
  <2>3. /\ j \in Locals /\ j.players = r.players /\ j.freed = r.freed
        /\ j.stop = t
    <3>1. t \in BOOLEAN
      BY <1>3, <1>4, <2>1, LocalFields
    <3>. QED  BY <1>3, <2>2, <3>1 DEF Locals
  <2>4. Commit(i, j) /\ outbox' = outbox /\ lost' = lost \cup r.mixed
    BY <1>4, <1>5, <2>1, <2>2
  <2>5. Effect(i, r, j, <<>>)
    BY <1>3, <1>4, <2>1, <2>3, <2>4 DEF Effect, Commit
  <2>. QED  BY <1>1, <1>2, <1>4, <2>5
<1>6. CASE out # {}
  <2>1. PICK p \in here : out = {p}
    BY <1>4, <1>6
  <2>2. (CHOOSE q \in out : TRUE) = p
    BY <2>1
  <2>3. p \in Players /\ r.players[p] # None /\ r.players[p] \in Ids
    BY <1>3, <2>1, LocalFields
  <2>4. PICK w : w = Without(r, p)
    OBVIOUS
  <2>5. /\ w \in Locals
        /\ w.players = [r.players EXCEPT ![p] = None]
        /\ w.freed = r.freed \cup {r.players[p]}
        /\ w.stop <=> (r.stop \/ w.players = Nobody)
    BY <1>3, <2>3, <2>4, WithoutIs
  <2>6. PICK t : t = (w.stop \/ end)
    OBVIOUS
  <2>7. PICK j : j = [w EXCEPT !.stop = t]
    OBVIOUS
  <2>8. /\ j \in Locals /\ j.players = w.players /\ j.freed = w.freed
        /\ j.stop = t
    <3>1. t \in BOOLEAN
      BY <1>4, <2>5, <2>6, LocalFields
    <3>. QED  BY <2>5, <2>7, <3>1 DEF Locals
  <2>9. s(out) = r.players[p] /\ k(out) = w
    BY <1>6, <2>2, <2>4
  <2>. HIDE DEF here, s, k
  <2>10. /\ Commit(i, j) /\ outbox' = Sent(outbox, r.players[p])
         /\ lost' = lost \cup r.mixed \cup Unsent(outbox, r.players[p])
    BY <1>4, <1>6, <2>6, <2>7, <2>9
  <2>11. Kicked(r, j, p)
    BY <2>3, <2>5, <2>6, <2>8, <2>10 DEF Kicked
  <2>12. r.stop => j.stop
    BY <2>5, <2>6, <2>8
  <2>13. Effect(i, r, j, <<>>)
    BY <1>3, <1>4, <2>3, <2>8, <2>10, <2>11, <2>12 DEF Effect, Commit
  <2>. QED  BY <1>1, <1>2, <1>4, <2>13
<1>. QED  BY <1>5, <1>6
\* A room's goroutine leaves the types, and the tables, as they should be.
LEMMA EffectTypes ==
    ASSUME TypeInv, TableTypes, NEW i \in Instances, NEW r, NEW k, NEW box \in Boxes,
           Effect(i, r, k, box)
    PROVE  TypeInv'
<1>1. /\ r \in Locals /\ k \in Locals
      /\ players' = [players EXCEPT ![i] = k.players]
      /\ stopReq' = [stopReq EXCEPT ![i] = k.stop]
      /\ inbox' = [inbox EXCEPT ![i] = box]
      /\ UNCHANGED <<engineVars, connVars, rooms, roomId, cut>>
  BY DEF Effect
<1>2. k.players \in [Players -> Ids \cup {None}] /\ k.stop \in BOOLEAN /\ r.mixed \in SUBSET Ids
  BY <1>1, LocalFields
<1>3. RoomTypes'
  BY <1>1, <1>2 DEF TypeInv, RoomTypes
<1>4. EngineTypes' /\ LinkTypes' /\ FewRooms'
  BY <1>1 DEF TypeInv, EngineTypes, LinkTypes, FewRooms, OpenRooms, engineVars, connVars
<1>5. outbox' \in Queues /\ lost' \in SUBSET Ids
  <2>1. CASE outbox' = outbox /\ lost' = lost \cup r.mixed
    BY <1>2, <2>1 DEF TypeInv, HistoryTypes
  <2>2. ASSUME NEW p \in Players, Kicked(r, k, p)
        PROVE  outbox' \in Queues /\ lost' \in SUBSET Ids
    <3>1. PICK t : t = r.players[p]
      OBVIOUS
    <3>2. t \in Ids
      BY <1>1, <2>2, <3>1, LocalFields DEF Kicked
    <3>3. outbox' = Sent(outbox, t) /\ lost' = lost \cup r.mixed \cup Unsent(outbox, t)
      BY <2>2, <3>1 DEF Kicked
    <3>4. outbox' \in Queues /\ Unsent(outbox, t) \subseteq {t}
      BY <3>2, <3>3, SentIs DEF TypeInv
    <3>. QED  BY <1>2, <3>2, <3>3, <3>4 DEF TypeInv, HistoryTypes
  <2>. QED  BY <2>1, <2>2 DEF Effect
<1>. QED  BY <1>1, <1>3, <1>4, <1>5 DEF TypeInv, HistoryTypes

LEMMA TailBox ==
    ASSUME NEW q \in Boxes, q # <<>>
    PROVE  Tail(q) \in Boxes /\ <<>> \in Boxes
<1>1. q \in Seq(Frames) /\ Len(q) <= InboxCap /\ InboxCap \in Nat
  BY Constants DEF Boxes
<1>2. Tail(q) \in Seq(Frames) /\ Len(Tail(q)) = Len(q) - 1 /\ Len(q) \in Nat
  BY <1>1
<1>. QED  BY <1>1, <1>2 DEF Boxes

LEMMA EmptyBox == <<>> \in Boxes
<1>1. PICK none : none = <<>>
  OBVIOUS
<1>2. none \in Seq(Frames) /\ Len(none) = 0
  BY <1>1
<1>3. none \in Boxes
  BY <1>2, Constants DEF Boxes
<1>. QED  BY <1>1, <1>3

\* The sessions that somebody sorts.
LEMMA OrderType ==
    ASSUME NEW S \in SUBSET Ids, NEW order \in SetToSeqs(S)
    PROVE  order \in Seq(Ids) /\ \A n \in 1 .. Len(order) : order[n] \in S
<1>1. IsFiniteSet(S) /\ Cardinality(S) \in Nat
  BY IdsFinite, FS_CardinalityType
<1>2. order \in [1 .. Cardinality(S) -> S]
  BY <1>1 DEF SetToSeqs
<1>3. order \in Seq(Ids) /\ Len(order) = Cardinality(S)
  BY <1>1, <1>2
<1>. QED  BY <1>2, <1>3

\* The engine, and the reads of what it wrote.
LEMMA EngineTypesKept ==
    ASSUME FramesInv, TypeInv, EngineNext
    PROVE  TypeInv'
<1>. USE Constants DEF TypeInv, EngineTypes, LinkTypes, HistoryTypes, FramesInv
<1>. DEFINE Others == UNCHANGED <<rooms, outbox, players, inbox, stopReq>>
<1>0. ASSUME Others PROVE FewRooms' /\ outbox' \in Queues /\ RoomTypes'
  BY <1>0 DEF FewRooms, OpenRooms, RoomTypes
<1>1. ASSUME NEW p \in Players, EngineOpen(p) PROVE TypeInv'
  <2>1. Others
    BY <1>1 DEF EngineOpen, serverVars, roomVars
  <2>. QED  BY <1>0, <1>1, <2>1 DEF EngineOpen, Ids, connVars
<1>2. ASSUME NEW s \in Ids, EngineClose(s) PROVE TypeInv'
  <2>1. Others
    BY <1>2 DEF EngineClose, serverVars, roomVars
  <2>. QED  BY <1>0, <1>2, <2>1 DEF EngineClose, connVars
<1>3. ASSUME NEW f, EngineOther(f) PROVE TypeInv'
  <2>1. Others
    BY <1>3 DEF EngineOther, serverVars, roomVars
  <2>. QED  BY <1>0, <1>3, <2>1 DEF EngineOther, connVars
<1>4. ASSUME NEW dead \in BOOLEAN, EngineBreak(dead) PROVE TypeInv'
  <2>1. Others
    BY <1>4 DEF EngineBreak, serverVars, roomVars
  <2>2. owner' \in [Ids -> Players \cup {None}]
    BY <1>4 DEF EngineBreak
  <2>. QED  BY <1>0, <1>4, <2>1, <2>2 DEF EngineBreak, connVars
<1>5. ASSUME EngineConnect PROVE TypeInv'
  <2>1. Others
    BY <1>5 DEF EngineConnect, serverVars, roomVars
  <2>. QED  BY <1>0, <1>5, <2>1 DEF EngineConnect, connVars
<1>. QED  BY <1>1, <1>2, <1>3, <1>4, <1>5 DEF EngineNext

LEMMA EnsureTypes ==
    ASSUME FramesInv, LinkTypes, NEW conn \in 1 .. MaxConns, Ensure(conn), conns' = conns
    PROVE  accepted' \in 0 .. conns /\ cur' \in 0 .. conns /\ conn \in 0 .. conns
  BY Constants DEF Ensure, FramesInv, LinkTypes

LEMMA MarkDeadTypes ==
    ASSUME FramesInv, LinkTypes, NEW g \in {"reader", "writer"}, NEW conn, MarkDead(g, conn)
    PROVE  cur' \in 0 .. conns /\ dying' \in SUBSET Goroutines
<1>1. dying \in SUBSET Goroutines /\ cur \in 0 .. conns /\ conns \in Nat /\ g \in Goroutines
  BY DEF FramesInv, LinkTypes, Goroutines
<1>2. CASE cur = conn
  <2>1. cur' = 0 /\ dying' = dying \cup {g}
    BY <1>2 DEF MarkDead
  <2>. QED  BY <1>1, <2>1
<1>3. CASE cur # conn
  <2>1. cur' = cur /\ dying' = dying
    BY <1>3 DEF MarkDead
  <2>. QED  BY <1>1, <2>1
<1>. QED  BY <1>2, <1>3

LEMMA ConnectionTypes ==
    ASSUME FramesInv, TypeInv,
           ReaderEnsure \/ ReadChunk \/ ReadError \/ WriterEnsure \/ WriteFrame
    PROVE  TypeInv'
<1>. USE Constants DEF TypeInv, EngineTypes, LinkTypes, HistoryTypes, FramesInv
<1>. DEFINE Others == UNCHANGED <<rooms, players, inbox, stopReq, lost, cut>>
<1>0. ASSUME Others PROVE FewRooms' /\ RoomTypes' /\ HistoryTypes'
  BY <1>0 DEF FewRooms, OpenRooms, RoomTypes
<1>1. CASE ReaderEnsure
  <2>1. Others /\ UNCHANGED <<owner, peer, others, conns, wconn, dying, routing, outbox>>
    BY <1>1 DEF ReaderEnsure, engineVars, serverVars, roomVars
  <2>2. PICK conn \in 1 .. MaxConns : Ensure(conn) /\ rconn' = conn
    BY <1>1 DEF ReaderEnsure
  <2>3. accepted' \in 0 .. conns /\ cur' \in 0 .. conns /\ conn \in 0 .. conns
    BY <2>1, <2>2, EnsureTypes
  <2>. QED  BY <1>0, <2>1, <2>2, <2>3
<1>2. CASE WriterEnsure
  <2>1. Others /\ UNCHANGED <<owner, peer, others, conns, rconn, dying, routing, outbox>>
    BY <1>2 DEF WriterEnsure, engineVars, serverVars, roomVars
  <2>2. PICK conn \in 1 .. MaxConns : Ensure(conn) /\ wconn' = conn
    BY <1>2 DEF WriterEnsure
  <2>3. accepted' \in 0 .. conns /\ cur' \in 0 .. conns /\ conn \in 0 .. conns
    BY <2>1, <2>2, EnsureTypes
  <2>. QED  BY <1>0, <2>1, <2>2, <2>3
<1>3. CASE ReadChunk
  <2>1. Others /\ UNCHANGED <<owner, peer, others, conns, linkTypeVars, rconn, outbox>>
    BY <1>3 DEF ReadChunk, linkTypeVars, serverVars, roomVars
  <2>. QED  BY <1>0, <2>1 DEF linkTypeVars
<1>4. CASE ReadError
  <2>1. Others /\ UNCHANGED <<owner, peer, others, conns, accepted, wconn, routing, outbox>>
    BY <1>4 DEF ReadError, engineVars, serverVars, roomVars
  <2>2. rconn' = 0 /\ MarkDead("reader", rconn)
    BY <1>4 DEF ReadError
  <2>3. cur' \in 0 .. conns /\ dying' \in SUBSET Goroutines
    BY <2>2, MarkDeadTypes
  <2>. QED  BY <1>0, <2>1, <2>2, <2>3
<1>5. CASE WriteFrame
  <2>1. Others /\ UNCHANGED <<peer, others, conns, accepted, rconn, routing>>
    BY <1>5 DEF WriteFrame, roomVars
  <2>2. outbox' = Tail(outbox) /\ outbox # <<>> /\ wconn' = 0
    BY <1>5 DEF WriteFrame
  <2>3. outbox' \in Queues
    BY <2>2 DEF Queues
  <2>4. owner' \in [Ids -> Players \cup {None}]
    BY <1>5 DEF WriteFrame
  <2>5. cur' \in 0 .. conns /\ dying' \in SUBSET Goroutines
    <3>1. MarkDead("writer", wconn) \/ UNCHANGED <<cur, dying>>
      BY <1>5 DEF WriteFrame
    <3>2. conns' = conns
      BY <2>1
    <3>3. ASSUME MarkDead("writer", wconn)
          PROVE  cur' \in 0 .. conns /\ dying' \in SUBSET Goroutines
      BY <3>3, MarkDeadTypes
    <3>. QED  BY <3>1, <3>3
  <2>. QED  BY <1>0, <2>1, <2>2, <2>3, <2>4, <2>5
<1>. QED  BY <1>1, <1>2, <1>3, <1>4, <1>5

\* OpenRooms after a room has been made, and after one is gone.
LEMMA OneMoreRoom ==
    ASSUME TableTypes, FewRooms, NEW id \in RoomIds, NEW i \in Instances,
           rooms[id] = None, ~(Cardinality(OpenRooms) >= MaxRooms),
           rooms' = [rooms EXCEPT ![id] = i]
    PROVE  FewRooms'
<1>1. i # None
  BY Constants DEF Instances
<1>2. OpenRooms' = OpenRooms \cup {id} /\ id \notin OpenRooms
  BY <1>1 DEF OpenRooms, TableTypes
<1>3. PICK S : S = OpenRooms
  OBVIOUS
<1>4. IsFiniteSet(S) /\ Cardinality(S) \in Nat /\ id \notin S
  BY <1>2, <1>3, FS_CardinalityType DEF FewRooms
<1>5. IsFiniteSet(S \cup {id}) /\ Cardinality(S \cup {id}) = Cardinality(S) + 1
  BY <1>4, FS_AddElement
<1>6. Cardinality(S) + 1 <= MaxRooms
  BY <1>3, <1>4, Constants
<1>. QED  BY <1>2, <1>3, <1>5, <1>6 DEF FewRooms

LEMMA FewerRooms ==
    ASSUME FewRooms, OpenRooms' \subseteq OpenRooms
    PROVE  FewRooms'
<1>1. PICK S : S = OpenRooms
  OBVIOUS
<1>2. PICK T : T = OpenRooms'
  OBVIOUS
<1>3. IsFiniteSet(S) /\ T \subseteq S /\ Cardinality(S) <= MaxRooms
  BY <1>1, <1>2 DEF FewRooms
<1>4. IsFiniteSet(T) /\ Cardinality(T) <= Cardinality(S)
  BY <1>3, FS_Subset
<1>5. Cardinality(T) \in Nat /\ Cardinality(S) \in Nat
  BY <1>3, <1>4, FS_CardinalityType
<1>. QED  BY <1>2, <1>3, <1>4, <1>5, Constants DEF FewRooms

\* The cases of handleSessionOpen, for the frame o.
JoinsRoom(id, i, o) ==
    /\ rooms[id] = i /\ sessions[o.s] = None
    /\ UNCHANGED <<rooms, roomId, players, stopReq, pc>>
    /\ Admit(i, o.s, o.p)

CreatesRoom(id, i, o) ==
    /\ rooms[id] = None /\ sessions[o.s] = None
    /\ ~(Cardinality(OpenRooms) >= MaxRooms)
    /\ NewRoom(id, i) /\ Admit(i, o.s, o.p)

LEMMA OpenIs ==
    ASSUME FramesInv, TableTypes, HandleSessionOpen
    PROVE  \E o \in Frames :
              /\ acc # <<>> /\ o = Head(acc) /\ acc' = Tail(acc) /\ routing = None
              /\ o.k = "open" /\ o.s \in Ids /\ o.p \in Players
              /\ UNCHANGED <<engineVars, accepted, cur, rconn, wconn, dying, routing, cut>>
              /\ \/ Refuse(o.s)
                 \/ sessions[o.s] # None /\ UNCHANGED <<serverVars, roomVars, lost>>
                 \/ \E id \in RoomIds, i \in Instances :
                       JoinsRoom(id, i, o) \/ CreatesRoom(id, i, o)
<1>1. PICK o : o = Head(acc)
  OBVIOUS
<1>2. NextFrame({"open"})
  BY DEF HandleSessionOpen
<1>3. o \in Frames /\ o.k = "open"
  <2>1. Head(acc) \in Frames /\ Head(acc).k \in {"open"}
    BY <1>2, NextFrameKeeps
  <2>. QED  BY <1>1, <2>1
<1>4. o.s \in Ids /\ o.p \in Players
  BY <1>3 DEF Frames
<1>5. /\ acc # <<>> /\ acc' = Tail(acc) /\ routing = None
      /\ UNCHANGED <<engineVars, accepted, cur, rconn, wconn, dying, routing, cut>>
  BY <1>2 DEF NextFrame, HandleSessionOpen
<1>6. PICK d \in Routes[o.p] :
          IF d.action = "reject" THEN Refuse(o.s)
          ELSE IF sessions[o.s] # None
          THEN UNCHANGED <<serverVars, roomVars, lost>>
          ELSE IF rooms[d.room] # None
          THEN /\ UNCHANGED <<rooms, roomId, players, stopReq, pc>>
               /\ Admit(rooms[d.room], o.s, o.p)
          ELSE IF d.action = "join" \/ Cardinality(OpenRooms) >= MaxRooms
          THEN Refuse(o.s)
          ELSE \E i \in Instances : NewRoom(d.room, i) /\ Admit(i, o.s, o.p)
  BY <1>1 DEF HandleSessionOpen
<1>7. d.room \in RoomIds
  BY <1>4, <1>6, Constants
<1>8. \/ Refuse(o.s)
      \/ sessions[o.s] # None /\ UNCHANGED <<serverVars, roomVars, lost>>
      \/ \E id \in RoomIds, i \in Instances :
            JoinsRoom(id, i, o) \/ CreatesRoom(id, i, o)
  <2>1. CASE sessions[o.s] = None /\ rooms[d.room] # None /\ d.action # "reject"
    <3>1. rooms[d.room] \in Instances
      BY <1>7, <2>1 DEF TableTypes
    <3>2. JoinsRoom(d.room, rooms[d.room], o)
      BY <1>6, <2>1 DEF JoinsRoom
    <3>. QED  BY <1>7, <3>1, <3>2
  <2>2. CASE /\ sessions[o.s] = None /\ rooms[d.room] = None /\ d.action # "reject"
             /\ ~(d.action = "join" \/ Cardinality(OpenRooms) >= MaxRooms)
    <3>1. PICK i \in Instances : NewRoom(d.room, i) /\ Admit(i, o.s, o.p)
      BY <1>6, <2>2
    <3>2. CreatesRoom(d.room, i, o)
      BY <2>2, <3>1 DEF CreatesRoom
    <3>. QED  BY <1>7, <3>2
  <2>. QED  BY <1>6, <2>1, <2>2
<1>. QED  BY <1>1, <1>3, <1>4, <1>5, <1>8

LEMMA RefuseTypes ==
    ASSUME outbox \in Queues, HistoryTypes, NEW s \in Ids,
           outbox' = Sent(outbox, s), lost' = lost \cup Unsent(outbox, s)
    PROVE  outbox' \in Queues /\ lost' \in SUBSET Ids
<1>1. outbox' \in Queues /\ Unsent(outbox, s) \subseteq {s}
  BY SentIs
<1>. QED  BY <1>1 DEF HistoryTypes

LEMMA AdmitTypes ==
    ASSUME TypeInv, NEW o \in Frames, o.s \in Ids, NEW i \in Instances, Admit(i, o.s, o.p),
           o = Ev("open", o.s, o.p)
    PROVE  inbox' \in [Instances -> Boxes] /\ outbox' \in Queues /\ lost' \in SUBSET Ids
<1>1. inbox \in [Instances -> Boxes] /\ outbox \in Queues /\ HistoryTypes
  BY DEF TypeInv, RoomTypes
<1>2. CASE Len(inbox[i]) < InboxCap
  <2>1. /\ inbox' = [inbox EXCEPT ![i] = Append(inbox[i], o)]
        /\ outbox' = outbox /\ lost' = lost
    BY <1>2 DEF Admit
  <2>2. Append(inbox[i], o) = Offer(inbox[i], o)
    BY <1>2 DEF Offer
  <2>3. Append(inbox[i], o) \in Boxes
    BY <1>1, <2>2, OfferIs
  <2>. QED  BY <1>1, <2>1, <2>3 DEF HistoryTypes
<1>3. CASE ~(Len(inbox[i]) < InboxCap)
  <2>1. /\ inbox' = inbox
        /\ outbox' = Sent(outbox, o.s) /\ lost' = lost \cup Unsent(outbox, o.s)
    BY <1>3 DEF Admit
  <2>2. outbox' \in Queues /\ lost' \in SUBSET Ids
    BY ONLY <1>1, <2>1, o.s \in Ids, RefuseTypes
  <2>. QED  BY <1>1, <2>1, <2>2
<1>. QED  BY <1>2, <1>3

\* An event is its three fields.
LEMMA EventIs ==
    ASSUME NEW o \in Frames
    PROVE  o = Ev(o.k, o.s, o.p)
  BY DEF Frames, Events, Ev

LEMMA OpenTypes ==
    ASSUME FramesInv, TableTypes, TypeInv, HandleSessionOpen
    PROVE  TypeInv'
<1>1. PICK o \in Frames :
              /\ o.k = "open" /\ o.s \in Ids /\ o.p \in Players
              /\ UNCHANGED <<engineVars, accepted, cur, rconn, wconn, dying, routing, cut>>
              /\ \/ Refuse(o.s)
                 \/ sessions[o.s] # None /\ UNCHANGED <<serverVars, roomVars, lost>>
                 \/ \E id \in RoomIds, i \in Instances :
                       JoinsRoom(id, i, o) \/ CreatesRoom(id, i, o)
  BY OpenIs
<1>2. EngineTypes' /\ LinkTypes' /\ cut' \in BOOLEAN
  BY <1>1 DEF TypeInv, EngineTypes, LinkTypes, HistoryTypes, engineVars
<1>3. CASE Refuse(o.s)
  <2>1. outbox' \in Queues /\ lost' \in SUBSET Ids
    BY <1>1, <1>3, RefuseTypes DEF Refuse, TypeInv
  <2>2. RoomTypes' /\ FewRooms'
    BY <1>3 DEF Refuse, roomVars, TypeInv, RoomTypes, FewRooms, OpenRooms
  <2>. QED  BY <1>2, <2>1, <2>2 DEF TypeInv, HistoryTypes
<1>4. CASE UNCHANGED <<serverVars, roomVars, lost>>
  BY <1>2, <1>4 DEF serverVars, roomVars, TypeInv, RoomTypes, FewRooms, OpenRooms, HistoryTypes
<1>5. ASSUME NEW id \in RoomIds, NEW i \in Instances,
             JoinsRoom(id, i, o) \/ CreatesRoom(id, i, o)
      PROVE  TypeInv'
  <2>1. Admit(i, o.s, o.p) /\ UNCHANGED <<players, stopReq>>
    BY <1>5 DEF JoinsRoom, CreatesRoom, NewRoom
  <2>2. o = Ev("open", o.s, o.p)
    BY <1>1, EventIs
  <2>3. inbox' \in [Instances -> Boxes] /\ outbox' \in Queues /\ lost' \in SUBSET Ids
    BY <1>1, <2>1, <2>2, AdmitTypes
  <2>4. FewRooms'
    <3>1. CASE JoinsRoom(id, i, o)
      BY <3>1 DEF JoinsRoom, TypeInv, FewRooms, OpenRooms
    <3>2. CASE CreatesRoom(id, i, o)
      <4>1. rooms[id] = None /\ ~(Cardinality(OpenRooms) >= MaxRooms)
            /\ rooms' = [rooms EXCEPT ![id] = i]
        BY <3>2 DEF CreatesRoom, NewRoom
      <4>. QED  BY <4>1, OneMoreRoom DEF TypeInv
    <3>. QED  BY <1>5, <3>1, <3>2
  <2>. QED  BY <1>2, <2>1, <2>3, <2>4 DEF TypeInv, RoomTypes, HistoryTypes
<1>. QED  BY <1>1, <1>3, <1>4, <1>5

\* dispatch, for the other frames, and routeToRoom.
LEMMA RouteIs ==
    ASSUME FramesInv, TableInv, RouteToRoom
    PROVE  \E e \in Frames :
              /\ acc # <<>> /\ e = Head(acc) /\ acc' = Tail(acc) /\ routing = None
              /\ e.k \in {"close", "resume", "data"} /\ e.s \in Ids
              /\ \/ sessions[e.s] = None /\ routing' = None
                 \/ /\ sessions[e.s] # None /\ sessions[e.s] \in Refs
                    /\ routing' = [to |-> rooms[sessions[e.s].room],
                                   e |-> Ev(e.k, e.s, sessions[e.s].player)]
                    /\ rooms[sessions[e.s].room] \in Instances
                    /\ Ev(e.k, e.s, sessions[e.s].player) \in Frames
              /\ UNCHANGED <<engineVars, accepted, cur, rconn, wconn, dying, serverVars,
                             roomVars, lost, cut>>
<1>1. PICK e : e = Head(acc)
  OBVIOUS
<1>2. NextFrame({"close", "resume", "data"})
  BY DEF RouteToRoom
<1>3. e \in Frames /\ e.k \in {"close", "resume", "data"}
  BY <1>1, <1>2, NextFrameKeeps
<1>4. e.s \in Ids
  BY <1>3 DEF Frames
<1>5. /\ acc # <<>> /\ acc' = Tail(acc) /\ routing = None
      /\ routing' = IF sessions[e.s] # None THEN Routed(e.s) ELSE None
      /\ UNCHANGED <<engineVars, accepted, cur, rconn, wconn, dying, serverVars,
                     roomVars, lost, cut>>
  BY <1>1, <1>2 DEF NextFrame, RouteToRoom
<1>6. CASE sessions[e.s] # None
  <2>1. PICK ref : ref = sessions[e.s]
    OBVIOUS
  <2>2. ref \in Refs /\ rooms[ref.room] # None
    BY <1>4, <1>6, <2>1 DEF TableInv, TableTypes, SessionRoomLives
  <2>3. ref.room \in RoomIds /\ ref.player \in Players
    BY <2>2 DEF Refs
  <2>4. rooms[ref.room] \in Instances
    BY <2>2, <2>3 DEF TableInv, TableTypes
  <2>5. Ev(e.k, e.s, ref.player) \in Frames
    BY <1>3, <1>4, <2>3 DEF Frames, Events, Kinds, Ev
  <2>6. routing' = [to |-> rooms[ref.room], e |-> Ev(e.k, e.s, ref.player)]
    BY <1>1, <1>5, <1>6, <2>1 DEF Routed
  <2>. QED  BY <1>1, <1>3, <1>4, <1>5, <1>6, <2>1, <2>2, <2>4, <2>5, <2>6
<1>7. CASE sessions[e.s] = None
  BY <1>1, <1>3, <1>4, <1>5, <1>7
<1>. QED  BY <1>6, <1>7

LEMMA RouteTypes ==
    ASSUME FramesInv, TableInv, TypeInv, RouteToRoom
    PROVE  TypeInv'
<1>1. PICK e \in Frames :
              /\ \/ sessions[e.s] = None /\ routing' = None
                 \/ /\ sessions[e.s] # None
                    /\ routing' = [to |-> rooms[sessions[e.s].room],
                                   e |-> Ev(e.k, e.s, sessions[e.s].player)]
                    /\ rooms[sessions[e.s].room] \in Instances
                    /\ Ev(e.k, e.s, sessions[e.s].player) \in Frames
              /\ UNCHANGED <<engineVars, accepted, cur, rconn, wconn, dying, serverVars,
                             roomVars, lost, cut>>
  BY RouteIs
<1>2. routing' \in [to : Instances, e : Frames] \cup {None}
  BY <1>1
<1>. QED  BY <1>1, <1>2 DEF TypeInv, EngineTypes, LinkTypes, HistoryTypes, FewRooms, OpenRooms,
                            RoomTypes, engineVars, serverVars, roomVars

LEMMA SendTypes ==
    ASSUME TypeInv, SendToRoom
    PROVE  TypeInv'
<1>1. /\ routing # None /\ routing' = None
      /\ inbox' = [inbox EXCEPT ![routing.to] = Offer(@, routing.e)]
      /\ lost' = IF routing.e.k = "close" /\ Len(inbox[routing.to]) >= InboxCap
                 THEN lost \cup {routing.e.s} ELSE lost
      /\ UNCHANGED <<engineVars, accepted, cur, rconn, wconn, dying, acc, serverVars,
                     roomId, players, stopReq, pc, cut>>
  BY DEF SendToRoom
<1>2. PICK i, e : i = routing.to /\ e = routing.e
  OBVIOUS
<1>3. i \in Instances /\ e \in Frames
  BY <1>1, <1>2 DEF TypeInv, LinkTypes
<1>4. Offer(inbox[i], e) \in Boxes
  BY <1>3, OfferIs DEF TypeInv, RoomTypes
<1>5. RoomTypes'
  BY <1>1, <1>2, <1>4 DEF TypeInv, RoomTypes
<1>6. lost' \in SUBSET Ids
  <2>1. e.k = "close" => e.s \in Ids
    BY <1>3 DEF Frames
  <2>. QED  BY <1>1, <1>2, <2>1 DEF TypeInv, HistoryTypes
<1>. QED  BY <1>1, <1>5, <1>6 DEF TypeInv, EngineTypes, LinkTypes, HistoryTypes, FewRooms,
                                  OpenRooms, engineVars, serverVars

LEMMA GlobalIs ==
    ASSUME FramesInv, DispatchGlobal
    PROVE  \E e \in Frames :
              /\ acc # <<>> /\ e = Head(acc) /\ acc' = Tail(acc) /\ routing = None
              /\ \/ e.k = "hello" /\ outbox' = Sent(outbox, 0) /\ UNCHANGED inbox
                 \/ /\ e.k = "overload" /\ UNCHANGED outbox
                    /\ inbox' = [i \in Instances |->
                           IF \E id \in OpenRooms : rooms[id] = i
                           THEN Offer(inbox[i], e) ELSE inbox[i]]
              /\ UNCHANGED <<engineVars, accepted, cur, rconn, wconn, dying, routing, rooms,
                             sessions, roomId, players, stopReq, pc, lost, cut>>
<1>1. PICK e : e = Head(acc)
  OBVIOUS
<1>2. NextFrame({"hello", "overload"})
  BY DEF DispatchGlobal
<1>3. e \in Frames /\ e.k \in {"hello", "overload"}
  BY <1>1, <1>2, NextFrameKeeps
<1>4. acc # <<>> /\ acc' = Tail(acc) /\ routing = None
  BY <1>2 DEF NextFrame
<1>. QED  BY <1>1, <1>3, <1>4 DEF DispatchGlobal

LEMMA GlobalTypes ==
    ASSUME FramesInv, TypeInv, DispatchGlobal
    PROVE  TypeInv'
<1>1. PICK e \in Frames :
              /\ \/ e.k = "hello" /\ outbox' = Sent(outbox, 0) /\ UNCHANGED inbox
                 \/ /\ e.k = "overload" /\ UNCHANGED outbox
                    /\ inbox' = [i \in Instances |->
                           IF \E id \in OpenRooms : rooms[id] = i
                           THEN Offer(inbox[i], e) ELSE inbox[i]]
              /\ UNCHANGED <<engineVars, accepted, cur, rconn, wconn, dying, routing, rooms,
                             sessions, roomId, players, stopReq, pc, lost, cut>>
  BY GlobalIs
<1>2. outbox' \in Queues
  <2>1. Sent(outbox, 0) \in Queues
    BY SentIs DEF TypeInv
  <2>. QED  BY <1>1, <2>1 DEF TypeInv
<1>3. inbox' \in [Instances -> Boxes]
  <2>1. \A i \in Instances : Offer(inbox[i], e) \in Boxes
    BY OfferIs DEF TypeInv, RoomTypes
  <2>. QED  BY <1>1, <2>1 DEF TypeInv, RoomTypes
<1>. QED  BY <1>1, <1>2, <1>3 DEF TypeInv, EngineTypes, LinkTypes, HistoryTypes, FewRooms,
                                  OpenRooms, RoomTypes, engineVars
\* The goroutines of the rooms, and onEngineDead.
LEMMA RoomNextTypes ==
    ASSUME TableTypes, TypeInv, RoomNext
    PROVE  TypeInv'
<1>1. PICK i \in Instances :
          \/ HandleEvent(i) \/ TimerTick(i) \/ CatchUp(i) \/ AdvanceReturn(i)
          \/ Stop(i) \/ RemoveRoom(i)
  BY DEF RoomNext
<1>2. RoomTypes /\ inbox[i] \in Boxes /\ outbox \in Queues
  BY DEF TypeInv, RoomTypes
<1>3. CASE HandleEvent(i)
  <2>1. PICK r : Effect(i, r, r, Tail(inbox[i])) /\ inbox[i] # <<>>
    BY <1>2, <1>3, HandleEventIs
  <2>2. Tail(inbox[i]) \in Boxes
    BY <1>2, <2>1, TailBox
  <2>. QED  BY <2>1, <2>2, EffectTypes
<1>4. CASE TimerTick(i) \/ CatchUp(i)
  <2>1. DoTick(i)
    BY <1>4 DEF TimerTick, CatchUp
  <2>2. PICK f, k : Effect(i, f[Len(inbox[i])], k, <<>>)
    BY <1>2, <2>1, DoTickIs
  <2>. QED  BY <2>2, EmptyBox, EffectTypes
<1>5. CASE AdvanceReturn(i)
  BY <1>5 DEF AdvanceReturn, TypeInv, EngineTypes, LinkTypes, HistoryTypes, FewRooms,
              OpenRooms, RoomTypes, engineVars, connVars, serverVars
<1>6. CASE Stop(i)
  <2>. DEFINE here == {players[i][p] : p \in Players} \ {None}
  <2>1. PICK order \in SetToSeqs(here) :
            outbox' = Kicks(order) /\ lost' = lost \cup {s \in here : ~Has(outbox', s)}
    BY <1>6 DEF Stop
  <2>2. here \in SUBSET Ids
    BY <1>2 DEF RoomTypes
  <2>3. outbox' \in Queues
    BY <1>2, <2>1, <2>2, OrderType, KicksIs
  <2>4. lost' \in SUBSET Ids
    BY <2>1, <2>2 DEF TypeInv, HistoryTypes
  <2>5. players' = [players EXCEPT ![i] = Nobody]
        /\ UNCHANGED <<engineVars, connVars, rooms, inbox, stopReq, cut>>
    BY <1>6 DEF Stop
  <2>6. Nobody \in [Players -> Ids \cup {None}]
    BY DEF Nobody
  <2>7. RoomTypes'
    BY <1>2, <2>5, <2>6 DEF RoomTypes
  <2>. QED  BY <2>3, <2>4, <2>5, <2>7 DEF TypeInv, EngineTypes, LinkTypes, HistoryTypes, FewRooms,
              OpenRooms, engineVars, connVars
<1>7. CASE RemoveRoom(i)
  <2>1. /\ inbox' = [inbox EXCEPT ![i] = <<>>]
        /\ rooms' = [id \in RoomIds |-> IF rooms[id] = i THEN None ELSE rooms[id]]
        /\ lost' = lost \cup {s \in Dropped(i) : ~Has(outbox, s)}
        /\ UNCHANGED <<engineVars, connVars, outbox, players, stopReq, cut>>
    BY <1>7 DEF RemoveRoom
  <2>2. RoomTypes'
    BY <1>2, <2>1, EmptyBox DEF RoomTypes
  <2>3. OpenRooms' \subseteq OpenRooms
    BY <2>1 DEF OpenRooms
  <2>4. FewRooms'
    BY <2>3, FewerRooms DEF TypeInv
  <2>5. lost' \in SUBSET Ids
    BY <2>1 DEF TypeInv, HistoryTypes, Dropped
  <2>. QED  BY <2>1, <2>2, <2>4, <2>5 DEF TypeInv, EngineTypes, LinkTypes, HistoryTypes,
              engineVars, connVars
<1>. QED  BY <1>1, <1>3, <1>4, <1>5, <1>6, <1>7

LEMMA DeadTypes ==
    ASSUME TypeInv, NEW g \in Goroutines, OnEngineDead(g)
    PROVE  TypeInv'
<1>. DEFINE S == {s \in Ids : sessions[s] # None}
<1>1. PICK order \in SetToSeqs(S) : inbox' = [i \in Instances |-> ToldDead(i, order)]
  BY DEF OnEngineDead
<1>2. order \in Seq(Ids)
  BY <1>1, OrderType
<1>3. inbox' \in [Instances -> Boxes]
  <2>1. ASSUME NEW i \in Instances PROVE ToldDead(i, order) \in Boxes
    <3>1. inbox[i] \in Boxes
      BY DEF TypeInv, RoomTypes
    <3>. QED  BY <1>2, <3>1, ToldDeadIs
  <2>. QED  BY <1>1, <2>1
<1>4. /\ dying' = dying \ {g}
      /\ UNCHANGED <<engineVars, accepted, cur, rconn, wconn, acc, routing, rooms,
                     outbox, roomId, players, stopReq, pc, lost, cut>>
  BY DEF OnEngineDead
<1>. QED  BY <1>3, <1>4 DEF TypeInv, EngineTypes, LinkTypes, HistoryTypes, FewRooms,
              OpenRooms, RoomTypes, engineVars

LEMMA TypesStutter == TypeInv /\ UNCHANGED vars => TypeInv'
  BY DEF vars, TypeInv, EngineTypes, LinkTypes, HistoryTypes, FewRooms,
         OpenRooms, RoomTypes, engineVars, connVars, serverVars, roomVars

LEMMA TypeStep ==
    ASSUME FramesInv, TableInv, TypeInv, [Next]_vars
    PROVE  TypeInv'
<1>1. TableTypes
  BY DEF TableInv
<1>2. CASE EngineNext
  BY <1>2, EngineTypesKept
<1>3. CASE ReaderNext
  BY <1>1, <1>3, ConnectionTypes, OpenTypes, RouteTypes, SendTypes, GlobalTypes DEF ReaderNext
<1>4. CASE RoomNext
  BY <1>1, <1>4, RoomNextTypes
<1>5. CASE WriterEnsure \/ WriteFrame
  BY <1>5, ConnectionTypes
<1>6. ASSUME NEW g \in Goroutines, OnEngineDead(g) PROVE TypeInv'
  BY <1>6, DeadTypes
<1>7. CASE UNCHANGED vars
  BY <1>7, TypesStutter
<1>. QED  BY <1>2, <1>3, <1>4, <1>5, <1>6, <1>7 DEF Next

LEMMA TypeInit == Init => TypeInv
<1>. SUFFICES ASSUME Init PROVE TypeInv
  OBVIOUS
<1>1. OpenRooms = {}
  BY DEF Init, OpenRooms
<1>2. IsFiniteSet({}) /\ Cardinality({}) = 0
  BY FS_EmptySet
<1>3. FewRooms
  BY <1>1, <1>2, Constants DEF FewRooms
<1>4. RoomTypes
  BY EmptyBox DEF Init, RoomTypes, Nobody
<1>5. outbox \in Queues
  <2>1. outbox \in Seq(Ids \cup {0}) /\ Len(outbox) = 0
    BY DEF Init
  <2>. QED  BY <2>1, Constants DEF Queues
<1>6. EngineTypes
  <2>1. 0 \in 0 .. MaxOther
    BY Constants
  <2>2. owner \in [Ids -> Players \cup {None}]
    BY DEF Init
  <2>. QED  BY <2>1, <2>2 DEF Init, EngineTypes
<1>7. LinkTypes
  <2>1. 0 \in 0 .. conns
    BY DEF Init
  <2>. QED  BY <2>1 DEF Init, LinkTypes
<1>8. HistoryTypes
  BY DEF Init, HistoryTypes
<1>. QED  BY <1>3, <1>4, <1>5, <1>6, <1>7, <1>8 DEF TypeInv

\* The types of all variables, however many players, rooms, sessions and
\* connections there are: no more rooms are open than maxRooms, and no inbox
\* and no outbox gets longer than its channel, although every goroutine sends to
\* them.
THEOREM ServerTypes == Spec => []TypeOK
<1>1. FramesInv /\ TableInv /\ TypeInv => TypeOK
  <2>. SUFFICES ASSUME FramesInv, TableInv, TypeInv PROVE TypeOK
    OBVIOUS
  <2>1. Frames \subseteq Events
    BY DEF Frames
  <2>2. wire \in [1 .. MaxConns -> Seq(Events)] /\ acc \in Seq(Events)
    <3>1. ASSUME NEW q \in Seq(Frames) PROVE q \in Seq(Events)
      BY <2>1
    <3>. QED  BY <3>1 DEF FramesInv
  <2>3. inbox \in [Instances -> Seq(Events)] /\ \A i \in Instances : Len(inbox[i]) <= InboxCap
    <3>1. ASSUME NEW q \in Boxes PROVE q \in Seq(Events) /\ Len(q) <= InboxCap
      BY <2>1 DEF Boxes
    <3>. QED  BY <3>1 DEF TypeInv, RoomTypes
  <2>4. routing \in [to : Instances, e : Events] \cup {None}
    BY <2>1 DEF TypeInv, LinkTypes
  <2>5. outbox \in Seq(Ids \cup {0}) /\ Len(outbox) <= OutboxCap
    BY DEF TypeInv, Queues
  <2>6. {accepted, cur, rconn, wconn} \subseteq 0 .. conns
    BY DEF TypeInv, LinkTypes
  <2>. QED  BY <2>2, <2>3, <2>4, <2>5, <2>6
            DEF TypeOK, FramesInv, TableInv, TableTypes, TypeInv, EngineTypes, LinkTypes,
                FewRooms, RoomTypes, HistoryTypes, PCs
<1>2. FramesInv /\ TableInv /\ TypeInv /\ [Next]_vars => FramesInv' /\ TableInv' /\ TypeInv'
  BY StepKeeps, TypeStep
<1>. QED  BY InitHolds, TypeInit, <1>1, <1>2, PTL DEF Spec
-----------------------------------------------------------------------------
(* Rooms that go on have a reason to.                                      *)

Runs(i) == pc[i] \in {"idle", "advance", "stop"}
Stands(i) == pc[i] \in {"idle", "advance", "stop", "stopped"}

\* A room is in the table until it is removed, players are in rooms that run,
\* and nothing waits for a room that was not made yet.
RoomsStand ==
    /\ \A i \in Instances : Stands(i) => roomId[i] \in RoomIds /\ rooms[roomId[i]] = i
    /\ \A i \in Instances : players[i] # Nobody => Runs(i)
    /\ \A i \in Instances : pc[i] = "unborn" => inbox[i] = <<>>
    /\ routing # None => pc[routing.to] # "unborn" /\ routing.e.k # "open"

\* Somebody is in the room, or it will stop.
Reason(r) == r.players # Nobody \/ r.stop

IsOpen(e) == e.k = "open"

LEMMA HandledReason ==
    ASSUME NEW r \in Locals, NEW e \in Frames, NEW h, h = Handled(r, e),
           Reason(r) \/ IsOpen(e)
    PROVE  Reason(h)
<1>1. h \in Locals
      /\ (Joins(r, e, h) \/ Collides(r, e, h) \/ Leaves(r, e, h) \/ Passes(r, e, h))
  BY HandledIs
<1>2. r.players \in [Players -> Ids \cup {None}]
  BY LocalFields
<1>3. /\ e.k = "open" => e.p \in Players /\ e.s \in Ids
      /\ None \notin Ids
  BY Constants DEF Frames, Ids
<1>4. CASE Joins(r, e, h)
  <2>1. h.players[e.p] = e.s /\ e.p \in Players /\ e.s # None
    BY <1>2, <1>3, <1>4 DEF Joins
  <2>. QED  BY <2>1 DEF Reason, Nobody
<1>5. CASE Collides(r, e, h)
  <2>1. h.players[e.p] # None /\ e.p \in Players
    BY <1>3, <1>5 DEF Collides
  <2>. QED  BY <2>1 DEF Reason, Nobody
<1>6. CASE Leaves(r, e, h)
  BY <1>6 DEF Leaves, Reason
<1>7. CASE Passes(r, e, h)
  BY <1>7 DEF Passes, Reason, IsOpen
<1>. QED  BY <1>1, <1>4, <1>5, <1>6, <1>7

\* What the room has when it has handled its inbox.
LEMMA DrainReason ==
    ASSUME NEW i, inbox[i] \in Seq(Frames), NEW f, Drains(i, f),
           Reason(f[0]) \/ \E n \in 1 .. Len(inbox[i]) : IsOpen(inbox[i][n])
    PROVE  Reason(f[Len(inbox[i])])
<1>1. PICK N : N = Len(inbox[i])
  OBVIOUS
<1>2. N \in Nat /\ \A n \in 1 .. N : inbox[i][n] \in Frames
  BY <1>1
<1>. DEFINE Fine(n) == Reason(f[n]) \/ \E m \in n + 1 .. N : IsOpen(inbox[i][m])
<1>3. Fine(0)
  BY <1>1
<1>4. ASSUME NEW n \in 1 .. N, Fine(n - 1) PROVE Fine(n)
  <2>1. PICK r : r = f[n - 1]
    OBVIOUS
  <2>2. n - 1 \in 0 .. N /\ r \in Locals /\ f[n] = Handled(r, inbox[i][n])
    BY <1>1, <1>2, <2>1 DEF Drains
  <2>3. CASE Reason(r) \/ IsOpen(inbox[i][n])
    <3>1. Reason(f[n])
      BY <1>2, <2>2, <2>3, HandledReason
    <3>. QED  BY <3>1
  <2>4. CASE ~(Reason(r) \/ IsOpen(inbox[i][n]))
    <3>1. PICK m \in (n - 1) + 1 .. N : IsOpen(inbox[i][m])
      BY <1>4, <2>1, <2>4
    <3>2. m # n
      BY <2>4, <3>1
    <3>3. m \in n + 1 .. N
      BY <1>2, <3>1, <3>2
    <3>. QED  BY <3>1, <3>3
  <2>. QED  BY <2>3, <2>4
<1>5. Fine(N)
  <2>1. PICK S : S = {n \in 0 .. N : Fine(n)}
    OBVIOUS
  <2>2. 0 \in S
    BY <1>2, <1>3, <2>1
  <2>3. ASSUME NEW n \in 1 .. N, n - 1 \in S PROVE n \in S
    <3>1. Fine(n - 1) /\ n \in 0 .. N
      BY <2>1, <2>3
    <3>. QED  BY <1>4, <2>1, <3>1
  <2>4. \A n \in 1 .. N : n - 1 \in S => n \in S
    BY <2>3
  <2>5. \A n \in 0 .. N : n \in S
    BY ONLY <1>2, <2>2, <2>4, StepByStep
  <2>. QED  BY <1>2, <2>1, <2>5
<1>. QED  BY <1>1, <1>2, <1>5

\* RoomHasReason of one room.
HasReason(i) == players[i] # Nobody \/ stopReq[i] \/ \E n \in DOMAIN inbox[i] : IsOpen(inbox[i][n])

\* What the opens of an inbox were are opens of what it grows to.
LEMMA OpensKept ==
    ASSUME NEW q \in Boxes, NEW r \in Boxes, \A x : Has(q, x) => Has(r, x),
           NEW n \in DOMAIN q, IsOpen(q[n])
    PROVE  \E m \in DOMAIN r : IsOpen(r[m])
<1>1. Has(q, q[n])
  BY DEF Has
<1>2. PICK m \in DOMAIN r : r[m] = q[n]
  BY <1>1 DEF Has
<1>. QED  BY <1>2

RoomsInv == RoomsStand /\ RoomHasReason

roomsVars == <<routing, rooms, roomId, players, inbox, stopReq, pc>>

LEMMA RoomsStutter == RoomsInv /\ UNCHANGED roomsVars => RoomsInv'
  BY DEF RoomsInv, RoomsStand, RoomHasReason, Stands, Runs, Alive, roomsVars

LEMMA GrownInboxes ==
    ASSUME RoomTypes, RoomsInv, UNCHANGED <<rooms, roomId, players, stopReq, pc>>,
           inbox' \in [Instances -> Boxes],
           \A i \in Instances : /\ \A x : Has(inbox[i], x) => Has(inbox'[i], x)
                                /\ pc[i] = "unborn" => inbox'[i] = inbox[i],
           routing' # None => pc[routing'.to] # "unborn" /\ routing'.e.k # "open"
    PROVE  RoomsInv'
<1>1. RoomsStand'
  BY DEF RoomsInv, RoomsStand, Stands, Runs
<1>2. ASSUME NEW i \in Instances PROVE HasReason(i) => HasReason(i)'
  <2>1. ASSUME NEW n \in DOMAIN inbox[i], IsOpen(inbox[i][n])
        PROVE  \E m \in DOMAIN inbox'[i] : IsOpen(inbox'[i][m])
    <3>1. PICK q, r : q = inbox[i] /\ r = inbox'[i]
      OBVIOUS
    <3>2. q \in Boxes /\ r \in Boxes /\ \A x : Has(q, x) => Has(r, x)
      BY <3>1 DEF RoomTypes
    <3>3. n \in DOMAIN q /\ IsOpen(q[n])
      BY <2>1, <3>1
    <3>4. \E m \in DOMAIN r : IsOpen(r[m])
      BY ONLY <3>2, <3>3, OpensKept
    <3>. QED  BY <3>1, <3>4
  <2>. QED  BY <2>1 DEF HasReason
<1>3. RoomHasReason'
  BY <1>2 DEF RoomsInv, RoomHasReason, HasReason, Alive, IsOpen
<1>. QED  BY <1>1, <1>3 DEF RoomsInv

LEMMA RouteRooms ==
    ASSUME FramesInv, TableInv, RoomTypes, RoomsInv, RouteToRoom
    PROVE  RoomsInv'
<1>1. PICK e \in Frames :
              /\ e.k \in {"close", "resume", "data"} /\ e.s \in Ids
              /\ \/ sessions[e.s] = None /\ routing' = None
                 \/ /\ sessions[e.s] # None /\ sessions[e.s] \in Refs
                    /\ routing' = [to |-> rooms[sessions[e.s].room],
                                   e |-> Ev(e.k, e.s, sessions[e.s].player)]
                    /\ rooms[sessions[e.s].room] \in Instances
              /\ UNCHANGED <<rooms, roomId, players, inbox, stopReq, pc>>
  BY RouteIs DEF serverVars, roomVars
<1>2. routing' # None => pc[routing'.to] # "unborn" /\ routing'.e.k # "open"
  <2>1. CASE sessions[e.s] = None /\ routing' = None
    BY <2>1
  <2>2. CASE sessions[e.s] # None /\ routing' # None
    <3>1. PICK id : id = sessions[e.s].room
      OBVIOUS
    <3>2. id \in RoomIds /\ rooms[id] # None
      BY <1>1, <2>2, <3>1 DEF Refs, TableInv, SessionRoomLives
    <3>3. pc[rooms[id]] # "unborn"
      BY <3>2 DEF TableInv, RoomsOwnIds
    <3>4. routing'.to = rooms[id] /\ routing'.e.k = e.k
      BY <1>1, <2>2, <3>1 DEF Ev
    <3>. QED  BY <1>1, <3>3, <3>4
  <2>. QED  BY <1>1, <2>1, <2>2
<1>3. inbox' \in [Instances -> Boxes] /\ \A i \in Instances : inbox'[i] = inbox[i]
  BY <1>1 DEF RoomTypes
<1>. QED  BY <1>1, <1>2, <1>3, GrownInboxes

LEMMA SendRooms ==
    ASSUME TypeInv, RoomsInv, SendToRoom
    PROVE  RoomsInv'
<1>1. /\ routing # None /\ routing' = None
      /\ inbox' = [inbox EXCEPT ![routing.to] = Offer(@, routing.e)]
      /\ UNCHANGED <<rooms, roomId, players, stopReq, pc>>
  BY DEF SendToRoom, serverVars
<1>2. PICK i, e : i = routing.to /\ e = routing.e
  OBVIOUS
<1>3. i \in Instances /\ e \in Frames /\ pc[i] # "unborn"
  BY <1>1, <1>2 DEF TypeInv, LinkTypes, RoomsInv, RoomsStand
<1>4. RoomTypes /\ RoomTypes'
  BY SendTypes DEF TypeInv
<1>5. \A x : Has(inbox[i], x) => Has(Offer(inbox[i], e), x)
  BY <1>3, <1>4, OfferIs DEF RoomTypes
<1>6. inbox' \in [Instances -> Boxes]
      /\ \A j \in Instances : /\ \A x : Has(inbox[j], x) => Has(inbox'[j], x)
                              /\ pc[j] = "unborn" => inbox'[j] = inbox[j]
  BY <1>1, <1>2, <1>3, <1>4, <1>5 DEF RoomTypes
<1>. QED  BY <1>1, <1>4, <1>6, GrownInboxes

LEMMA GlobalRooms ==
    ASSUME FramesInv, TableInv, TypeInv, RoomsInv, DispatchGlobal
    PROVE  RoomsInv'
<1>1. PICK e \in Frames :
              /\ routing = None /\ routing' = routing
              /\ \/ UNCHANGED inbox
                 \/ inbox' = [i \in Instances |->
                           IF \E id \in OpenRooms : rooms[id] = i
                           THEN Offer(inbox[i], e) ELSE inbox[i]]
              /\ UNCHANGED <<rooms, roomId, players, stopReq, pc>>
  BY GlobalIs
<1>2. RoomTypes /\ RoomTypes'
  BY GlobalTypes DEF TypeInv
<1>3. ASSUME NEW i \in Instances
      PROVE  /\ \A x : Has(inbox[i], x) => Has(inbox'[i], x)
             /\ pc[i] = "unborn" => inbox'[i] = inbox[i]
  <2>1. CASE inbox'[i] = inbox[i]
    BY <2>1
  <2>2. CASE (\E id \in OpenRooms : rooms[id] = i) /\ inbox'[i] = Offer(inbox[i], e)
    <3>1. \A x : Has(inbox[i], x) => Has(inbox'[i], x)
      BY <1>2, <2>2, OfferIs DEF RoomTypes
    <3>2. pc[i] # "unborn"
      BY <2>2 DEF OpenRooms, TableInv, RoomsOwnIds
    <3>. QED  BY <3>1, <3>2
  <2>. QED  BY <1>1, <2>1, <2>2
<1>4. inbox' \in [Instances -> Boxes]
  BY <1>2 DEF RoomTypes
<1>. QED  BY <1>1, <1>2, <1>3, <1>4, GrownInboxes

LEMMA DeadRooms ==
    ASSUME TableInv, TypeInv, RoomsInv, NEW g \in Goroutines, OnEngineDead(g)
    PROVE  RoomsInv'
<1>. DEFINE S == {s \in Ids : sessions[s] # None}
<1>1. PICK order \in SetToSeqs(S) : inbox' = [i \in Instances |-> ToldDead(i, order)]
  BY DEF OnEngineDead
<1>2. order \in Seq(Ids) /\ \A n \in 1 .. Len(order) : order[n] \in S
  BY <1>1, OrderType
<1>3. RoomTypes /\ RoomTypes'
  BY DeadTypes DEF TypeInv
<1>4. UNCHANGED <<routing, rooms, roomId, players, stopReq, pc>>
  BY DEF OnEngineDead
<1>5. ASSUME NEW i \in Instances
      PROVE  /\ \A x : Has(inbox[i], x) => Has(inbox'[i], x)
             /\ pc[i] = "unborn" => inbox'[i] = inbox[i]
  <2>1. inbox[i] \in Boxes /\ inbox'[i] = ToldDead(i, order)
    BY <1>1, <1>3 DEF RoomTypes
  <2>2. /\ \A x : Has(inbox[i], x) => Has(inbox'[i], x)
        /\ inbox'[i] = inbox[i] \/ \E n \in 1 .. Len(order) : rooms[sessions[order[n]].room] = i
    BY <1>2, <2>1, ToldDeadIs
  <2>3. ASSUME NEW n \in 1 .. Len(order), rooms[sessions[order[n]].room] = i
        PROVE  pc[i] # "unborn"
    <3>1. PICK s \in Ids : s = order[n] /\ sessions[s] # None
      BY <1>2
    <3>2. sessions[s] \in Refs
      BY <3>1 DEF TableInv, TableTypes
    <3>3. sessions[s].room \in RoomIds /\ rooms[sessions[s].room] # None
      BY <3>1, <3>2 DEF Refs, TableInv, SessionRoomLives
    <3>. QED  BY <2>3, <3>1, <3>3 DEF TableInv, RoomsOwnIds
  <2>. QED  BY <2>2, <2>3
<1>6. inbox' \in [Instances -> Boxes]
  BY <1>3 DEF RoomTypes
<1>7. routing' # None => pc[routing'.to] # "unborn" /\ routing'.e.k # "open"
  BY <1>4 DEF RoomsInv, RoomsStand
<1>. QED  BY <1>3, <1>4, <1>5, <1>6, <1>7, GrownInboxes

LEMMA OpenRoomsKept ==
    ASSUME FramesInv, TableInv, TypeInv, RoomsInv, HandleSessionOpen
    PROVE  RoomsInv'
<1>1. PICK o \in Frames :
              /\ o.k = "open" /\ o.s \in Ids /\ o.p \in Players
              /\ routing = None /\ routing' = routing
              /\ \/ Refuse(o.s)
                 \/ sessions[o.s] # None /\ UNCHANGED <<serverVars, roomVars, lost>>
                 \/ \E id \in RoomIds, i \in Instances :
                       JoinsRoom(id, i, o) \/ CreatesRoom(id, i, o)
  BY OpenIs DEF TableInv
<1>2. RoomTypes /\ RoomTypes' /\ TableTypes
  BY OpenTypes DEF TypeInv, TableInv
<1>3. CASE Refuse(o.s) \/ UNCHANGED <<serverVars, roomVars, lost>>
  <2>1. UNCHANGED roomsVars
    BY <1>1, <1>3 DEF Refuse, serverVars, roomVars, roomsVars
  <2>. QED  BY <2>1, RoomsStutter
<1>4. o = Ev("open", o.s, o.p)
  BY <1>1, EventIs
<1>5. ASSUME NEW i \in Instances, Admit(i, o.s, o.p)
      PROVE  /\ \A j \in Instances : j # i => inbox'[j] = inbox[j]
             /\ inbox'[i] = Offer(inbox[i], o)
  BY <1>2, <1>4, <1>5 DEF Admit, Offer, RoomTypes
<1>6. ASSUME NEW id \in RoomIds, NEW i \in Instances, JoinsRoom(id, i, o)
      PROVE  RoomsInv'
  <2>1. rooms[id] = i /\ UNCHANGED <<rooms, roomId, players, stopReq, pc>>
        /\ Admit(i, o.s, o.p)
    BY <1>6 DEF JoinsRoom
  <2>2. pc[i] # "unborn"
    BY <2>1, Constants DEF TableInv, RoomsOwnIds, Instances
  <2>3. \A x : Has(inbox[i], x) => Has(Offer(inbox[i], o), x)
    BY <1>2, OfferIs DEF RoomTypes
  <2>4. \A j \in Instances : /\ \A x : Has(inbox[j], x) => Has(inbox'[j], x)
                             /\ pc[j] = "unborn" => inbox'[j] = inbox[j]
    BY <1>5, <2>1, <2>2, <2>3
  <2>5. inbox' \in [Instances -> Boxes]
    BY <1>2 DEF RoomTypes
  <2>. QED  BY <1>1, <1>2, <2>1, <2>4, <2>5, GrownInboxes
<1>7. ASSUME NEW id \in RoomIds, NEW i \in Instances, CreatesRoom(id, i, o)
      PROVE  RoomsInv'
  <2>1. /\ rooms[id] = None /\ pc[i] = "unborn" /\ Admit(i, o.s, o.p)
        /\ rooms' = [rooms EXCEPT ![id] = i]
        /\ roomId' = [roomId EXCEPT ![i] = id]
        /\ pc' = [pc EXCEPT ![i] = "idle"]
        /\ UNCHANGED <<players, stopReq>>
    BY <1>7 DEF CreatesRoom, NewRoom, NewInstance
  <2>2. /\ rooms' [id] = i /\ \A x \in RoomIds \ {id} : rooms'[x] = rooms[x]
        /\ roomId'[i] = id /\ \A j \in Instances \ {i} : roomId'[j] = roomId[j]
        /\ pc'[i] = "idle" /\ \A j \in Instances \ {i} : pc'[j] = pc[j]
    BY <1>2, <2>1 DEF TableTypes
  <2>3. inbox[i] = <<>>
    BY <2>1 DEF RoomsInv, RoomsStand
  <2>4. inbox'[i] = <<o>>
    <3>1. PICK none : none = <<>>
      OBVIOUS
    <3>2. Len(none) = 0 /\ 0 < InboxCap
      BY <3>1, Constants
    <3>3. inbox'[i] = Append(none, o)
      BY <1>5, <2>1, <2>3, <3>1, <3>2 DEF Offer
    <3>. QED  BY <3>1, <3>3
  <2>5. \A j \in Instances : j # i => inbox'[j] = inbox[j]
    BY <1>5, <2>1
  <2>6. RoomsStand'
    <3>1. ASSUME NEW j \in Instances, Stands(j)'
          PROVE  roomId'[j] \in RoomIds /\ rooms'[roomId'[j]] = j
      <4>1. CASE j = i
        BY <2>2, <4>1
      <4>2. CASE j # i
        <5>1. pc'[j] = pc[j] /\ roomId'[j] = roomId[j]
          BY <2>2, <4>2
        <5>2. roomId[j] \in RoomIds /\ rooms[roomId[j]] = j
          BY <3>1, <5>1 DEF RoomsInv, RoomsStand, Stands
        <5>3. roomId[j] # id
          BY <2>1, <5>2, Constants DEF Instances
        <5>. QED  BY <2>2, <5>1, <5>2, <5>3
      <4>. QED  BY <4>1, <4>2
    <3>2. ASSUME NEW j \in Instances, players'[j] # Nobody PROVE Runs(j)'
      BY <2>1, <2>2, <3>2 DEF RoomsInv, RoomsStand, Runs
    <3>3. ASSUME NEW j \in Instances, pc'[j] = "unborn" PROVE inbox'[j] = <<>>
      BY <2>2, <2>5, <3>3 DEF RoomsInv, RoomsStand
    <3>. QED  BY <1>1, <3>1, <3>2, <3>3 DEF RoomsStand
  <2>7. ASSUME NEW j \in Instances, Alive(j)'
        PROVE  \/ players'[j] # Nobody \/ stopReq'[j]
               \/ \E n \in DOMAIN inbox'[j] : inbox'[j][n].k = "open"
    <3>1. CASE j = i
      <4>1. 1 \in DOMAIN <<o>> /\ <<o>>[1] = o
        OBVIOUS
      <4>. QED  BY <1>1, <2>4, <3>1, <4>1
    <3>2. CASE j # i
      BY <2>1, <2>2, <2>5, <2>7, <3>2 DEF RoomsInv, RoomHasReason, Alive
    <3>. QED  BY <3>1, <3>2
  <2>. QED  BY <2>6, <2>7 DEF RoomsInv, RoomHasReason
<1>. QED  BY <1>1, <1>3, <1>6, <1>7

\* A step of a room that runs.
LEMMA EffectRooms ==
    ASSUME TableTypes, RoomTypes, RoomsInv, NEW i \in Instances, NEW r, NEW k, NEW box,
           Effect(i, r, k, box), Alive(i), NEW v \in {"idle", "advance", "stop"},
           pc' = [pc EXCEPT ![i] = v], Reason(k) \/ \E n \in DOMAIN box : IsOpen(box[n])
    PROVE  RoomsInv'
<1>1. /\ players' = [players EXCEPT ![i] = k.players]
      /\ stopReq' = [stopReq EXCEPT ![i] = k.stop]
      /\ inbox' = [inbox EXCEPT ![i] = box]
      /\ UNCHANGED <<rooms, roomId, routing>>
  BY DEF Effect, connVars
<1>2. /\ pc'[i] = v /\ \A j \in Instances \ {i} : pc'[j] = pc[j]
      /\ players'[i] = k.players /\ \A j \in Instances \ {i} : players'[j] = players[j]
      /\ stopReq'[i] = k.stop /\ \A j \in Instances \ {i} : stopReq'[j] = stopReq[j]
      /\ inbox'[i] = box /\ \A j \in Instances \ {i} : inbox'[j] = inbox[j]
  BY <1>1 DEF TableTypes, RoomTypes
<1>3. RoomsStand'
  <2>1. ASSUME NEW j \in Instances, Stands(j)'
        PROVE  roomId'[j] \in RoomIds /\ rooms'[roomId'[j]] = j
    <3>1. Stands(j)
      BY <1>2, <2>1 DEF Stands, Alive
    <3>. QED  BY <1>1, <3>1 DEF RoomsInv, RoomsStand
  <2>2. ASSUME NEW j \in Instances, players'[j] # Nobody PROVE Runs(j)'
    BY <1>2, <2>2 DEF RoomsInv, RoomsStand, Runs
  <2>3. ASSUME NEW j \in Instances, pc'[j] = "unborn" PROVE inbox'[j] = <<>>
    BY <1>2, <2>3 DEF RoomsInv, RoomsStand
  <2>4. ASSUME routing' # None PROVE pc'[routing'.to] # "unborn" /\ routing'.e.k # "open"
    <3>1. pc[routing.to] # "unborn" /\ routing.e.k # "open"
      BY <1>1, <2>4 DEF RoomsInv, RoomsStand
    <3>2. pc'[routing.to] # "unborn"
      BY <3>1 DEF TableTypes
    <3>. QED  BY <1>1, <3>1, <3>2
  <2>. QED  BY <2>1, <2>2, <2>3, <2>4 DEF RoomsStand
<1>4. ASSUME NEW j \in Instances, Alive(j)'
      PROVE  \/ players'[j] # Nobody \/ stopReq'[j]
             \/ \E n \in DOMAIN inbox'[j] : inbox'[j][n].k = "open"
  <2>1. CASE j = i
    BY <1>2, <2>1 DEF Reason, IsOpen
  <2>2. CASE j # i
    BY <1>2, <1>4, <2>2 DEF RoomsInv, RoomHasReason, Alive
  <2>. QED  BY <2>1, <2>2
<1>. QED  BY <1>3, <1>4 DEF RoomsInv, RoomHasReason

\* What is in an inbox is its head or comes behind it.
LEMMA HeadOrTail ==
    ASSUME NEW q \in Seq(Frames), q # <<>>, NEW n \in DOMAIN q
    PROVE  \/ q[n] = Head(q)
           \/ \E m \in DOMAIN Tail(q) : Tail(q)[m] = q[n]
<1>1. Has(q, q[n])
  BY DEF Has
<1>2. PICK r : r = Tail(q)
  OBVIOUS
<1>3. Has(r, q[n]) \/ q[n] = Head(q)
  BY <1>1, <1>2, HasTail
<1>. QED  BY <1>2, <1>3 DEF Has

LEMMA RoomNextRooms ==
    ASSUME TableInv, TypeInv, RoomsInv, RoomNext
    PROVE  RoomsInv'
<1>1. PICK i \in Instances :
          \/ HandleEvent(i) \/ TimerTick(i) \/ CatchUp(i) \/ AdvanceReturn(i)
          \/ Stop(i) \/ RemoveRoom(i)
  BY DEF RoomNext
<1>2. RoomTypes /\ TableTypes /\ inbox[i] \in Seq(Frames)
  BY DEF TypeInv, RoomTypes, TableInv, Boxes
<1>3. Local(i) \in Locals /\ Local(i).players = players[i] /\ Local(i).stop = stopReq[i]
  BY <1>2, LocalType
<1>4. ASSUME Alive(i)
      PROVE  Reason(Local(i)) \/ \E n \in DOMAIN inbox[i] : IsOpen(inbox[i][n])
  BY <1>3, <1>4 DEF RoomsInv, RoomHasReason, Reason, IsOpen
<1>5. CASE HandleEvent(i)
  <2>1. PICK r : /\ r = Handled(Local(i), Head(inbox[i]))
                 /\ Effect(i, r, r, Tail(inbox[i])) /\ inbox[i] # <<>> /\ pc[i] = "idle"
                 /\ pc' = [pc EXCEPT ![i] = After(i, r.stop)]
    BY <1>2, <1>5, HandleEventIs
  <2>2. Alive(i) /\ After(i, r.stop) \in {"idle", "advance", "stop"}
    BY <2>1 DEF Alive, After
  <2>3. Head(inbox[i]) \in Frames
    BY <1>2, <2>1
  <2>4. Reason(r) \/ \E n \in DOMAIN Tail(inbox[i]) : IsOpen(Tail(inbox[i])[n])
    <3>1. CASE Reason(Local(i)) \/ IsOpen(Head(inbox[i]))
      BY <1>3, <2>1, <2>3, <3>1, HandledReason
    <3>2. CASE ~(Reason(Local(i)) \/ IsOpen(Head(inbox[i])))
      <4>1. PICK n \in DOMAIN inbox[i] : IsOpen(inbox[i][n])
        BY <1>4, <2>2, <3>2
      <4>2. \E m \in DOMAIN Tail(inbox[i]) : Tail(inbox[i])[m] = inbox[i][n]
        BY <1>2, <2>1, <3>2, <4>1, HeadOrTail
      <4>. QED  BY <4>1, <4>2
    <3>. QED  BY <3>1, <3>2
  <2>. QED  BY <1>2, <2>1, <2>2, <2>4, EffectRooms
<1>6. CASE TimerTick(i) \/ CatchUp(i)
  <2>1. DoTick(i) /\ Alive(i)
    BY <1>6 DEF TimerTick, CatchUp, Alive
  <2>2. PICK f, k : /\ Drains(i, f) /\ Effect(i, f[Len(inbox[i])], k, <<>>)
                    /\ pc' = [pc EXCEPT ![i] = "advance"]
    BY <1>2, <2>1, DoTickIs
  <2>3. PICK r : r = f[Len(inbox[i])]
    OBVIOUS
  <2>4. Reason(r)
    <3>1. DOMAIN inbox[i] = 1 .. Len(inbox[i]) /\ f[0] = Local(i)
      BY <1>2, <2>2 DEF Drains
    <3>2. Reason(f[0]) \/ \E n \in 1 .. Len(inbox[i]) : IsOpen(inbox[i][n])
      BY <1>4, <2>1, <3>1
    <3>. QED  BY <1>2, <2>2, <2>3, <3>2, DrainReason
  <2>5. Reason(k)
    <3>1. Effect(i, r, k, <<>>)
      BY <2>2, <2>3
    <3>2. CASE k.players = r.players
      BY <2>4, <3>1, <3>2 DEF Effect, Reason
    <3>3. ASSUME NEW p \in Players, Kicked(r, k, p) PROVE Reason(k)
      BY <3>3 DEF Kicked, Reason
    <3>. QED  BY <3>1, <3>2, <3>3 DEF Effect
  <2>. QED  BY <1>2, <2>1, <2>2, <2>5, EffectRooms
<1>7. CASE AdvanceReturn(i)
  <2>1. /\ pc[i] = "advance" /\ pc' = [pc EXCEPT ![i] = After(i, stopReq[i])]
        /\ UNCHANGED <<routing, rooms, roomId, players, inbox, stopReq>>
    BY <1>7 DEF AdvanceReturn, connVars, serverVars
  <2>2. pc'[i] \in {"idle", "stop"} /\ \A j \in Instances \ {i} : pc'[j] = pc[j]
    BY <1>2, <2>1 DEF TableTypes, After
  <2>3. \A j : pc'[j] = "unborn" => pc[j] = "unborn"
    BY <1>2, <2>1 DEF TableTypes, After
  <2>4. RoomsStand'
    <3>1. \A j \in Instances : (Stands(j)' => Stands(j)) /\ (Runs(j) => Runs(j)')
      BY <2>1, <2>2 DEF Stands, Runs
    <3>2. routing' # None => pc'[routing'.to] # "unborn" /\ routing'.e.k # "open"
      BY <2>1, <2>3 DEF RoomsInv, RoomsStand
    <3>. QED  BY <2>1, <2>3, <3>1, <3>2 DEF RoomsInv, RoomsStand
  <2>5. RoomHasReason'
    BY <2>1, <2>2 DEF RoomsInv, RoomHasReason, Alive
  <2>. QED  BY <2>4, <2>5 DEF RoomsInv
<1>8. CASE Stop(i)
  <2>1. /\ pc[i] = "stop" /\ pc' = [pc EXCEPT ![i] = "stopped"]
        /\ players' = [players EXCEPT ![i] = Nobody]
        /\ UNCHANGED <<routing, rooms, roomId, inbox, stopReq>>
    BY <1>8 DEF Stop, connVars
  <2>2. /\ pc'[i] = "stopped" /\ \A j \in Instances \ {i} : pc'[j] = pc[j]
        /\ players'[i] = Nobody /\ \A j \in Instances \ {i} : players'[j] = players[j]
    BY <1>2, <2>1 DEF TableTypes, RoomTypes
  <2>3. \A j : pc'[j] = "unborn" => pc[j] = "unborn"
    BY <1>2, <2>1 DEF TableTypes
  <2>4. RoomsStand'
    <3>1. \A j \in Instances : Stands(j)' => Stands(j)
      BY <2>1, <2>2 DEF Stands
    <3>2. \A j \in Instances : players'[j] # Nobody => Runs(j)'
      BY <2>2 DEF Runs, RoomsInv, RoomsStand
    <3>3. routing' # None => pc'[routing'.to] # "unborn" /\ routing'.e.k # "open"
      BY <2>1, <2>3 DEF RoomsInv, RoomsStand
    <3>. QED  BY <2>1, <2>3, <3>1, <3>2, <3>3 DEF RoomsInv, RoomsStand
  <2>5. RoomHasReason'
    BY <2>1, <2>2 DEF RoomsInv, RoomHasReason, Alive
  <2>. QED  BY <2>4, <2>5 DEF RoomsInv
<1>9. CASE RemoveRoom(i)
  <2>1. /\ pc[i] = "stopped" /\ pc' = [pc EXCEPT ![i] = "gone"]
        /\ inbox' = [inbox EXCEPT ![i] = <<>>]
        /\ rooms' = [id \in RoomIds |-> IF rooms[id] = i THEN None ELSE rooms[id]]
        /\ UNCHANGED <<routing, roomId, players, stopReq>>
    BY <1>9 DEF RemoveRoom, connVars
  <2>2. /\ pc'[i] = "gone" /\ \A j \in Instances \ {i} : pc'[j] = pc[j]
        /\ \A j \in Instances \ {i} : inbox'[j] = inbox[j]
    BY <1>2, <2>1 DEF TableTypes, RoomTypes
  <2>3. \A j : pc'[j] = "unborn" => pc[j] = "unborn"
    BY <1>2, <2>1 DEF TableTypes
  <2>4. RoomsStand'
    <3>1. ASSUME NEW j \in Instances, Stands(j)'
          PROVE  roomId'[j] \in RoomIds /\ rooms'[roomId'[j]] = j
      <4>1. j # i /\ Stands(j)
        BY <2>2, <3>1 DEF Stands
      <4>2. roomId[j] \in RoomIds /\ rooms[roomId[j]] = j
        BY <4>1 DEF RoomsInv, RoomsStand
      <4>. QED  BY <2>1, <4>1, <4>2
    <3>2. ASSUME NEW j \in Instances, players'[j] # Nobody PROVE Runs(j)'
      BY <2>1, <2>2, <3>2 DEF Runs, RoomsInv, RoomsStand
    <3>3. routing' # None => pc'[routing'.to] # "unborn" /\ routing'.e.k # "open"
      BY <2>1, <2>3 DEF RoomsInv, RoomsStand
    <3>4. ASSUME NEW j \in Instances, pc'[j] = "unborn" PROVE inbox'[j] = <<>>
      BY <2>2, <3>4 DEF RoomsInv, RoomsStand
    <3>. QED  BY <3>1, <3>2, <3>3, <3>4 DEF RoomsStand
  <2>5. ASSUME NEW j \in Instances, Alive(j)'
        PROVE  \/ players'[j] # Nobody \/ stopReq'[j]
               \/ \E n \in DOMAIN inbox'[j] : inbox'[j][n].k = "open"
    BY <2>1, <2>2, <2>5 DEF RoomsInv, RoomHasReason, Alive
  <2>. QED  BY <2>4, <2>5 DEF RoomsInv, RoomHasReason
<1>. QED  BY <1>1, <1>5, <1>6, <1>7, <1>8, <1>9

LEMMA RoomsStep ==
    ASSUME FramesInv, TableInv, TypeInv, RoomsInv, [Next]_vars
    PROVE  RoomsInv'
<1>1. CASE EngineNext
  <2>1. UNCHANGED roomsVars
    BY <1>1 DEF EngineNext, EngineOpen, EngineClose, EngineOther, EngineBreak, EngineConnect,
                connVars, serverVars, roomVars, roomsVars
  <2>. QED  BY <2>1, RoomsStutter
<1>2. CASE ReaderEnsure \/ ReadChunk \/ ReadError \/ WriterEnsure \/ WriteFrame
  <2>1. UNCHANGED roomsVars
    BY <1>2 DEF ReaderEnsure, ReadChunk, ReadError, WriterEnsure, WriteFrame,
                serverVars, roomVars, roomsVars
  <2>. QED  BY <2>1, RoomsStutter
<1>3. CASE HandleSessionOpen \/ RouteToRoom \/ SendToRoom \/ DispatchGlobal
  BY <1>3, OpenRoomsKept, RouteRooms, SendRooms, GlobalRooms DEF TypeInv
<1>4. CASE RoomNext
  BY <1>4, RoomNextRooms
<1>5. ASSUME NEW g \in Goroutines, OnEngineDead(g) PROVE RoomsInv'
  BY <1>5, DeadRooms
<1>6. CASE UNCHANGED vars
  <2>1. UNCHANGED roomsVars
    BY <1>6 DEF vars, connVars, serverVars, roomVars, roomsVars
  <2>. QED  BY <2>1, RoomsStutter
<1>. QED  BY <1>1, <1>2, <1>3, <1>4, <1>5, <1>6 DEF Next, ReaderNext

LEMMA RoomsInit == Init => RoomsInv
<1>. SUFFICES ASSUME Init PROVE RoomsInv
  OBVIOUS
<1>1. \A i \in Instances : pc[i] = "unborn" /\ players[i] = Nobody /\ inbox[i] = <<>>
  BY DEF Init
<1>2. routing = None
  BY DEF Init
<1>. QED  BY <1>1, <1>2 DEF RoomsInv, RoomsStand, RoomHasReason, Stands, Alive

\* No interleaving of joins, leaves, kicks and ticks leaves an empty room ticking
\* that nobody will join or stop, over engine restarts too.
THEOREM RoomsHaveReason == Spec => []RoomHasReason
<1>1. RoomsInv => RoomHasReason
  BY DEF RoomsInv
<1>2. FramesInv /\ TableInv /\ TypeInv /\ RoomsInv /\ [Next]_vars
          => FramesInv' /\ TableInv' /\ TypeInv' /\ RoomsInv'
  BY StepKeeps, TypeStep, RoomsStep
<1>. QED  BY InitHolds, TypeInit, RoomsInit, <1>1, <1>2, PTL DEF Spec
=============================================================================
