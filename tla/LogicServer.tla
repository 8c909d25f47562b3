----------------------------- MODULE LogicServer -----------------------------
(***************************************************************************)
(* The logic server of soup-sdk-go: the goroutine that reads frames from    *)
(* the engine and routes them (server.go), the one that writes, the         *)
(* connection they share (conn.go), and one goroutine per room (ticker.go)  *)
(* with its inbox.  rooms and sessions are guarded by roomsMu; the players   *)
(* of a room belong to its goroutine alone.                                 *)
(*                                                                         *)
(* External: the engine (module Engine), the Gatekeeper, and the callbacks   *)
(* of a room, which may end it or kick a player in a tick.  What a room does *)
(* with the input and the snapshots of its players is module RoomTick.      *)
(***************************************************************************)
EXTENDS Naturals, FiniteSets, Sequences, SequencesExt

CONSTANTS
    Players,     \* PlayerIDs; 0 is what an event carries that names nobody
    RoomIds,
    Routes,      \* what Authenticate and Route may decide for a player
    MaxRooms,    \* Config.MaxRooms
    InboxCap,    \* defaultInboxCap (256)
    OutboxCap,   \* defaultOutboxCap (4096)
    None         \* nil, and what is absent from a map

CONSTANTS
    MaxId,         \* bound: sessions in the life of an engine
    MaxInstances,  \* bound: rooms in the life of the server
    MaxConns,      \* bound: connections the engine makes
    MaxOther,      \* bound: frames other than SessionOpen and SessionClose
    WireCap        \* bound: frames written and not read

Ids == 1 .. MaxId
Instances == 1 .. MaxInstances

VARIABLES        \* the engine
    owner,       \* the player behind each session the engine has
    nextId,      \* next_sess_id
    peer,        \* whether the engine holds the newest connection open
    conns,       \* connections the engine has made
    wire,        \* frames it has written to each and that are not read
    others       \* frames of the other kinds so far

VARIABLES        \* the two goroutines of the connection
    accepted,    \* connections accepted
    cur,         \* engineConn.cur, 0 for nil
    rconn,       \* the connection readLoop reads from, 0 while in ensure
    wconn,       \* the connection writeLoop writes to
    dying,       \* who is in markDead, before its call of onDead
    acc,         \* frames read and not dispatched
    routing      \* an event of routeToRoom between lookup and send

VARIABLES        \* Server
    rooms, sessions, outbox

VARIABLES        \* room, by instance
    roomId, players, inbox, stopReq,
    pc           \* where the room's goroutine is

VARIABLES
    lost,        \* history: sessions the code knowingly loses track of
    cut          \* history: the connection has been lost

engineVars == <<owner, nextId, peer, conns, wire, others>>
connVars == <<accepted, cur, rconn, wconn, dying, acc, routing>>
serverVars == <<rooms, sessions, outbox>>
roomVars == <<roomId, players, inbox, stopReq, pc>>
vars == <<engineVars, connVars, serverVars, roomVars, lost, cut>>

Ev(k, s, p) == [k |-> k, s |-> s, p |-> p]
Kinds == {"hello", "open", "close", "resume", "data", "overload"}
Events == [k : Kinds, s : Ids \cup {0}, p : Players \cup {0}]
Refs == [room : RoomIds, player : Players]
Ref(r, p) == [room |-> r, player |-> p]
Nobody == [p \in Players |-> None]

ASSUME LogicServerAssumption ==
    /\ Players \subseteq Nat
    /\ Routes \in [Players -> SUBSET [action : {"join", "create", "reject"},
                                      room : RoomIds]]
    /\ {MaxRooms, InboxCap, OutboxCap, WireCap} \subseteq Nat \ {0}
    /\ {MaxId, MaxInstances, MaxConns, MaxOther} \subseteq Nat
    /\ None \notin Nat /\ None \notin Refs /\ None \notin [to : Instances, e : Events]

Goroutines == {"reader", "writer"}
Alive(i) == pc[i] \in {"idle", "advance"}
Has(queue, e) == \E n \in DOMAIN queue : queue[n] = e
-----------------------------------------------------------------------------
(* The engine, in the terms of module Engine: it announces the sessions it  *)
(* has when it connects, and loses events while it is not connected.        *)

Write(frame) ==
    /\ peer /\ Len(wire[conns]) < WireCap
    /\ wire' = [wire EXCEPT ![conns] = Append(@, frame)]

EngineOpen(p) ==
    /\ nextId <= MaxId
    /\ nextId' = nextId + 1
    /\ owner' = [owner EXCEPT ![nextId] = p]
    /\ Write(Ev("open", nextId, p))
    /\ UNCHANGED <<peer, conns, others, connVars, serverVars, roomVars, lost, cut>>

EngineClose(s) ==
    /\ owner[s] # None
    /\ owner' = [owner EXCEPT ![s] = None]
    /\ Write(Ev("close", s, 0))
    /\ UNCHANGED <<nextId, peer, conns, others, connVars, serverVars, roomVars,
                   lost, cut>>

\* Data, SessionResume and SessionStats, which are "data" here, and Overload.
EngineOther(frame) ==
    /\ frame.k # "overload" => owner[frame.s] # None
    /\ others < MaxOther
    /\ others' = others + 1
    /\ Write(frame)
    /\ UNCHANGED <<owner, nextId, peer, conns, connVars, serverVars, roomVars,
                   lost, cut>>

\* The connection ends, with the engine or without.  What was written stays
\* readable until the reader has it.
EngineBreak(dead) ==
    /\ peer
    /\ peer' = FALSE
    /\ cut' = TRUE
    /\ IF dead THEN owner' = [s \in Ids |-> None] /\ nextId' = 1
               ELSE UNCHANGED <<owner, nextId>>
    /\ UNCHANGED <<conns, wire, others, connVars, serverVars, roomVars, lost>>

\* EngineHello and a SessionResume per session.  The backoff lets the last
\* connection be accepted first.
EngineConnect ==
    /\ ~peer /\ conns < MaxConns /\ accepted = conns
    /\ peer' = TRUE
    /\ conns' = conns + 1
    /\ \E order \in SetToSeqs({s \in Ids : owner[s] # None}) :
          wire' = [wire EXCEPT ![conns + 1] = <<Ev("hello", 0, 0)>>
                       \o [n \in DOMAIN order |-> Ev("resume", order[n], 0)]]
    /\ UNCHANGED <<owner, nextId, others, connVars, serverVars, roomVars, lost, cut>>

EngineNext ==
    \/ \E p \in Players : EngineOpen(p)
    \/ \E s \in Ids : EngineClose(s) \/ EngineOther(Ev("data", s, 0))
    \/ EngineOther(Ev("overload", 0, 0))
    \/ \E dead \in BOOLEAN : EngineBreak(dead)
    \/ EngineConnect
-----------------------------------------------------------------------------
(* The shared connection.                                                  *)

\* ensure: the connection there is, or the next one that is accepted.
Ensure(conn) ==
    \/ cur # 0 /\ conn = cur /\ UNCHANGED <<cur, accepted>>
    \/ /\ cur = 0 /\ accepted < conns
       /\ conn = conns /\ cur' = conns /\ accepted' = conns

\* markDead, up to its unlocking c.mu: the first to notice closes the
\* connection and has still to call onDead.
MarkDead(g, conn) ==
    IF cur = conn THEN cur' = 0 /\ dying' = dying \cup {g}
                  ELSE UNCHANGED <<cur, dying>>

\* conn.Close has been called; or the engine's end is closed.
ClosedHere(conn) == cur # conn
ClosedThere(conn) == ~peer \/ conn # conns

\* A slip: an event of a full inbox waits for room instead.
MutOffer(box, e) == Append(box, e)

\* select { case inbox <- e: default: }: the event is dropped when it is full.
Offer(box, e) == IF Len(box) < InboxCap THEN Append(box, e) ELSE box

\* The inbox of room i after an inClose, which names no player, for each of its
\* sessions.
ToldDead(i, order) ==
    LET told[n \in 0 .. Len(order)] ==
            IF n = 0 THEN inbox[i]
            ELSE IF rooms[sessions[order[n]].room] # i THEN told[n - 1]
            ELSE Offer(told[n - 1], Ev("close", order[n], 0))
    IN told[Len(order)]

\* onEngineDead: under the lock the sessions are deleted and the rooms told.
OnEngineDead(g) ==
    /\ g \in dying
    /\ dying' = dying \ {g}
    /\ sessions' = [s \in Ids |-> None]
    /\ \E order \in SetToSeqs({s \in Ids : sessions[s] # None}) :
          inbox' = [i \in Instances |-> ToldDead(i, order)]
    /\ UNCHANGED <<engineVars, accepted, cur, rconn, wconn, acc, routing, rooms,
                   outbox, roomId, players, stopReq, pc, lost, cut>>
-----------------------------------------------------------------------------
(* writeLoop.  Of the frames it writes only Kick changes the engine; a      *)
(* LogicHello is 0.                                                        *)

\* trySend: the queue of frames after f was offered, dropped when it is full.
Sent(queue, f) == IF Len(queue) < OutboxCap THEN Append(queue, f) ELSE queue

\* The sessions whose Kick finds the queue full.
Unsent(queue, f) == IF Len(queue) < OutboxCap THEN {} ELSE {f}

WriterEnsure ==
    /\ wconn = 0 /\ "writer" \notin dying
    /\ \E conn \in 1 .. MaxConns : Ensure(conn) /\ wconn' = conn
    /\ UNCHANGED <<engineVars, rconn, dying, acc, routing, serverVars, roomVars,
                   lost, cut>>

WriteFrame ==
    /\ wconn # 0 /\ outbox # <<>>
    /\ outbox' = Tail(outbox)
    /\ wconn' = 0
    /\ IF ~ClosedThere(wconn) /\ ~ClosedHere(wconn)
       THEN /\ owner' = [s \in Ids |-> IF s = Head(outbox) THEN None ELSE owner[s]]
            /\ UNCHANGED <<cur, dying>>
       ELSE MarkDead("writer", wconn) /\ UNCHANGED owner
    /\ UNCHANGED <<nextId, peer, conns, wire, others, accepted, rconn, acc, routing,
                   rooms, sessions, roomVars, lost, cut>>
-----------------------------------------------------------------------------
(* readLoop.                                                               *)

ReaderEnsure ==
    /\ rconn = 0 /\ "reader" \notin dying
    /\ \E conn \in 1 .. MaxConns : Ensure(conn) /\ rconn' = conn
    /\ UNCHANGED <<engineVars, wconn, dying, acc, routing, serverVars, roomVars,
                   lost, cut>>

Reading == rconn # 0 /\ acc = <<>> /\ routing = None

\* One Read may return several frames.
ReadChunk ==
    /\ Reading /\ ~ClosedHere(rconn)
    /\ \E n \in DOMAIN wire[rconn] :
          /\ acc' = SubSeq(wire[rconn], 1, n)
          /\ wire' = [wire EXCEPT ![rconn] = SubSeq(@, n + 1, Len(@))]
    /\ UNCHANGED <<owner, nextId, peer, conns, others, accepted, cur, rconn, wconn,
                   dying, routing, serverVars, roomVars, lost, cut>>

ReadError ==
    /\ Reading /\ (ClosedHere(rconn) \/ (ClosedThere(rconn) /\ wire[rconn] = <<>>))
    /\ MarkDead("reader", rconn)
    /\ rconn' = 0
    /\ UNCHANGED <<engineVars, accepted, wconn, acc, routing, serverVars, roomVars,
                   lost, cut>>

\* The next frame of the buffer, if it is of one of these kinds.
NextFrame(kinds) ==
    /\ acc # <<>> /\ routing = None
    /\ Head(acc).k \in kinds
    /\ acc' = Tail(acc)

NewInstance(i) == pc[i] = "unborn" /\ \A j \in Instances : j < i => pc[j] # "unborn"
-----------------------------------------------------------------------------
(* handleSessionOpen.                                                      *)

\* sendKick for a session that gets no place.
Refuse(s) ==
    /\ outbox' = Sent(outbox, s)
    /\ lost' = lost \cup Unsent(outbox, s)
    /\ UNCHANGED <<rooms, sessions, roomVars>>

\* A slip: the full inbox is noticed, but the session stays in the table.
MutAdmit(i, s, p) ==
    /\ sessions' = [sessions EXCEPT ![s] = Ref(roomId'[i], p)]
    /\ inbox' = [inbox EXCEPT ![i] = Offer(@, Ev("open", s, p))]
    /\ IF Len(inbox[i]) < InboxCap
       THEN UNCHANGED <<outbox, lost>>
       ELSE outbox' = Sent(outbox, s) /\ lost' = lost \cup Unsent(outbox, s)

\* The session enters the table and an inOpen the inbox of room i, or neither.
Admit(i, s, p) ==
    IF Len(inbox[i]) < InboxCap
    THEN /\ sessions' = [sessions EXCEPT ![s] = Ref(roomId'[i], p)]
         /\ inbox' = [inbox EXCEPT ![i] = Append(@, Ev("open", s, p))]
         /\ UNCHANGED <<outbox, lost>>
    ELSE /\ outbox' = Sent(outbox, s)
         /\ lost' = lost \cup Unsent(outbox, s)
         /\ UNCHANGED <<sessions, inbox>>

\* newRoom, and its goroutine is started.
NewRoom(id, i) ==
    /\ NewInstance(i)
    /\ rooms' = [rooms EXCEPT ![id] = i]
    /\ roomId' = [roomId EXCEPT ![i] = id]
    /\ pc' = [pc EXCEPT ![i] = "idle"]
    /\ UNCHANGED <<players, stopReq>>

OpenRooms == {id \in RoomIds : rooms[id] # None}

HandleSessionOpen ==
    /\ NextFrame({"open"})
    /\ LET s == Head(acc).s  p == Head(acc).p IN
       \E d \in Routes[p] :
          IF d.action = "reject" THEN Refuse(s)
          ELSE IF sessions[s] # None
          THEN UNCHANGED <<serverVars, roomVars, lost>>
          ELSE IF rooms[d.room] # None
          THEN /\ UNCHANGED <<rooms, roomId, players, stopReq, pc>>
               /\ Admit(rooms[d.room], s, p)
          ELSE IF d.action = "join" \/ Cardinality(OpenRooms) >= MaxRooms
          THEN Refuse(s)
          ELSE \E i \in Instances : NewRoom(d.room, i) /\ Admit(i, s, p)
    /\ UNCHANGED <<engineVars, accepted, cur, rconn, wconn, dying, routing, cut>>
-----------------------------------------------------------------------------
(* The other frames.                                                       *)

\* A slip: the event names no player.
MutRouted(s) == [to |-> rooms[sessions[s].room], e |-> Ev(Head(acc).k, s, 0)]

\* What routeToRoom finds under the lock.
Routed(s) ==
    [to |-> rooms[sessions[s].room], e |-> Ev(Head(acc).k, s, sessions[s].player)]

\* routeToRoom up to its unlocking roomsMu.
RouteToRoom ==
    /\ NextFrame({"close", "resume", "data"})
    /\ LET s == Head(acc).s IN
       routing' = IF sessions[s] # None THEN Routed(s) ELSE None
    /\ UNCHANGED <<engineVars, accepted, cur, rconn, wconn, dying, serverVars,
                   roomVars, lost, cut>>

\* Its second half: the event goes to the room found, whatever became of it.
SendToRoom ==
    /\ routing # None
    /\ routing' = None
    /\ inbox' = [inbox EXCEPT ![routing.to] = Offer(@, routing.e)]
    /\ lost' = IF routing.e.k = "close" /\ Len(inbox[routing.to]) >= InboxCap
               THEN lost \cup {routing.e.s} ELSE lost
    /\ UNCHANGED <<engineVars, accepted, cur, rconn, wconn, dying, acc, serverVars,
                   roomId, players, stopReq, pc, cut>>

\* EngineHello is answered; Overload goes to every room.
DispatchGlobal ==
    /\ NextFrame({"hello", "overload"})
    /\ IF Head(acc).k = "hello"
       THEN outbox' = Sent(outbox, 0) /\ UNCHANGED inbox
       ELSE /\ inbox' = [i \in Instances |->
                  IF \E id \in OpenRooms : rooms[id] = i
                  THEN Offer(inbox[i], Head(acc)) ELSE inbox[i]]
            /\ UNCHANGED outbox
    /\ UNCHANGED <<engineVars, accepted, cur, rconn, wconn, dying, routing, rooms,
                   sessions, roomId, players, stopReq, pc, lost, cut>>

ReaderNext ==
    \/ ReaderEnsure \/ ReadChunk \/ ReadError
    \/ HandleSessionOpen \/ RouteToRoom \/ SendToRoom \/ DispatchGlobal
-----------------------------------------------------------------------------
(* A room's goroutine.  Its handler runs on a record of what it changes:    *)
(* the players, stopReq, the sessions freed (removeSession), and those that *)
(* meet another session of their player.                                    *)

Local(i) == [players |-> players[i], stop |-> stopReq[i], freed |-> {}, mixed |-> {}]

\* A slip: an empty room goes on.
MutWithout(r, p) ==
    [r EXCEPT !.players[p] = None, !.freed = @ \cup {r.players[p]}]

\* The player leaves; an empty room stops.
Without(r, p) ==
    LET rest == [r.players EXCEPT ![p] = None] IN
    [r EXCEPT !.players = rest, !.freed = @ \cup {r.players[p]},
              !.stop = @ \/ rest = Nobody]

\* handleEvent.  What the other kinds do is in module RoomTick.
Handled(r, e) ==
    CASE e.k = "open" /\ r.players[e.p] = None ->
            [r EXCEPT !.players[e.p] = e.s]
      [] e.k = "open" /\ r.players[e.p] # None ->
            [r EXCEPT !.mixed = @ \cup {e.s, r.players[e.p]}]
      [] e.k = "close" /\ e.p \in Players ->
            IF r.players[e.p] = None THEN r
            ELSE [Without(r, e.p) EXCEPT
                     !.mixed = IF r.players[e.p] = e.s THEN @
                               ELSE @ \cup {e.s, r.players[e.p]}]
      [] OTHER -> r

\* A slip: the sessions of the players that left stay in the table.
MutFree(ids) == sessions

\* removeSession
Free(ids) == [s \in Ids |-> IF s \in ids THEN None ELSE sessions[s]]

Commit(i, r) ==
    /\ players' = [players EXCEPT ![i] = r.players]
    /\ stopReq' = [stopReq EXCEPT ![i] = r.stop]
    /\ sessions' = Free(r.freed)

\* Where run goes next.
After(i, stop) == IF stop THEN "stop" ELSE "idle"

\* case ev := <-r.inbox
HandleEvent(i) ==
    LET r == Handled(Local(i), Head(inbox[i])) IN
    /\ pc[i] = "idle" /\ inbox[i] # <<>>
    /\ inbox' = [inbox EXCEPT ![i] = Tail(@)]
    /\ Commit(i, r)
    /\ lost' = lost \cup r.mixed
    /\ pc' = [pc EXCEPT ![i] = After(i, r.stop)]
    /\ UNCHANGED <<engineVars, connVars, rooms, outbox, roomId, cut>>

\* drainInbox
Drained(i) ==
    LET after[n \in 0 .. Len(inbox[i])] ==
            IF n = 0 THEN Local(i) ELSE Handled(after[n - 1], inbox[i][n])
    IN after[Len(inbox[i])]

(***************************************************************************)
(* doTick: the inbox is drained; then the room's Tick may kick a player      *)
(* (RoomCtx.Kick) and may end the room.                                     *)
(***************************************************************************)
DoTick(i) ==
    LET r == Drained(i)
        here == {p \in Players : r.players[p] # None}
    IN
    \E out \in {{}} \cup {{p} : p \in here}, end \in BOOLEAN :
       LET s == IF out = {} THEN 0 ELSE r.players[CHOOSE p \in out : TRUE]
           k == IF out = {} THEN r ELSE Without(r, CHOOSE p \in out : TRUE)
       IN
       /\ inbox' = [inbox EXCEPT ![i] = <<>>]
       /\ Commit(i, [k EXCEPT !.stop = @ \/ end])
       /\ outbox' = IF out = {} THEN outbox ELSE Sent(outbox, s)
       /\ lost' = lost \cup r.mixed \cup (IF out = {} THEN {} ELSE Unsent(outbox, s))
       /\ pc' = [pc EXCEPT ![i] = "advance"]
       /\ UNCHANGED <<engineVars, connVars, rooms, roomId, cut>>

\* case <-timer.C
TimerTick(i) == pc[i] = "idle" /\ DoTick(i)

\* The loop of advance goes on while the room is behind.
CatchUp(i) == pc[i] = "advance" /\ DoTick(i)

AdvanceReturn(i) ==
    /\ pc[i] = "advance"
    /\ pc' = [pc EXCEPT ![i] = After(i, stopReq[i])]
    /\ UNCHANGED <<engineVars, connVars, serverVars, roomId, players, inbox,
                   stopReq, lost, cut>>

\* The outbox with a Kick for each of these sessions.
Kicks(order) ==
    LET queue[n \in 0 .. Len(order)] ==
            IF n = 0 THEN outbox ELSE Sent(queue[n - 1], order[n])
    IN queue[Len(order)]

\* stop: the players that are left are told, and kicked.
Stop(i) ==
    LET here == {players[i][p] : p \in Players} \ {None} IN
    /\ pc[i] = "stop"
    /\ pc' = [pc EXCEPT ![i] = "stopped"]
    /\ players' = [players EXCEPT ![i] = Nobody]
    /\ \E order \in SetToSeqs(here) :
          /\ outbox' = Kicks(order)
          /\ lost' = lost \cup {s \in here : ~Has(outbox', s)}
    /\ UNCHANGED <<engineVars, connVars, rooms, sessions, roomId, inbox, stopReq,
                   cut>>

\* A slip: only the room is removed.
MutDropped(i) == {}

\* The sessions that removeRoom deletes.
Dropped(i) == {s \in Ids : sessions[s] # None /\ sessions[s].room = roomId[i]}

\* The deferred removeRoom.  A session that came too late for the room is not
\* kicked.
RemoveRoom(i) ==
    /\ pc[i] = "stopped"
    /\ pc' = [pc EXCEPT ![i] = "gone"]
    /\ inbox' = [inbox EXCEPT ![i] = <<>>]
    /\ rooms' = [id \in RoomIds |-> IF rooms[id] = i THEN None ELSE rooms[id]]
    /\ sessions' = Free(Dropped(i))
    /\ lost' = lost \cup {s \in Dropped(i) : ~Has(outbox, s)}
    /\ UNCHANGED <<engineVars, connVars, outbox, roomId, players, stopReq, cut>>

RoomNext ==
    \E i \in Instances :
       \/ HandleEvent(i) \/ TimerTick(i) \/ CatchUp(i) \/ AdvanceReturn(i)
       \/ Stop(i) \/ RemoveRoom(i)
-----------------------------------------------------------------------------
Init ==
    /\ owner = [s \in Ids |-> None] /\ nextId = 1
    /\ peer = FALSE /\ conns = 0 /\ others = 0 /\ wire = [c \in 1 .. MaxConns |-> <<>>]
    /\ accepted = 0 /\ cur = 0 /\ rconn = 0 /\ wconn = 0
    /\ dying = {} /\ acc = <<>> /\ routing = None
    /\ rooms = [id \in RoomIds |-> None]
    /\ sessions = [s \in Ids |-> None]
    /\ outbox = <<>>
    /\ roomId = [i \in Instances |-> None]
    /\ players = [i \in Instances |-> Nobody]
    /\ inbox = [i \in Instances |-> <<>>]
    /\ stopReq = [i \in Instances |-> FALSE]
    /\ pc = [i \in Instances |-> "unborn"]
    /\ lost = {} /\ cut = FALSE

Next ==
    \/ EngineNext \/ ReaderNext \/ RoomNext
    \/ WriterEnsure \/ WriteFrame
    \/ \E g \in Goroutines : OnEngineDead(g)

Spec == Init /\ [][Next]_vars
-----------------------------------------------------------------------------
TypeOK ==
    /\ owner \in [Ids -> Players \cup {None}] /\ nextId \in 1 .. MaxId + 1
    /\ peer \in BOOLEAN /\ conns \in 0 .. MaxConns /\ others \in 0 .. MaxOther
    /\ wire \in [1 .. MaxConns -> Seq(Events)]
    /\ {accepted, cur, rconn, wconn} \subseteq 0 .. conns
    /\ dying \subseteq Goroutines
    /\ acc \in Seq(Events)
    /\ routing \in [to : Instances, e : Events] \cup {None}
    /\ rooms \in [RoomIds -> Instances \cup {None}]
    /\ Cardinality(OpenRooms) <= MaxRooms
    /\ sessions \in [Ids -> Refs \cup {None}]
    /\ outbox \in Seq(Ids \cup {0}) /\ Len(outbox) <= OutboxCap
    /\ roomId \in [Instances -> RoomIds \cup {None}]
    /\ players \in [Instances -> [Players -> Ids \cup {None}]]
    /\ inbox \in [Instances -> Seq(Events)]
    /\ \A i \in Instances : Len(inbox[i]) <= InboxCap
    /\ stopReq \in [Instances -> BOOLEAN]
    /\ pc \in [Instances -> {"unborn", "idle", "advance", "stop", "stopped", "gone"}]
    /\ lost \subseteq Ids /\ cut \in BOOLEAN

\* "removeRoom 在房间 goroutine 退出时清理 rooms/sessions 映射": the reader, which
\* looks a session up and then its room, never finds a session whose room is
\* gone, whatever opened, left or broke meanwhile.
SessionRoomLives ==
    \A s \in Ids : sessions[s] # None => rooms[sessions[s].room] # None

\* "空房:停 tick 并回收": a room that still runs has a player, has one's inOpen
\* before it, or has been told to stop; no interleaving of joins, leaves and
\* kicks leaves an empty room ticking.
RoomHasReason ==
    \A i \in Instances : Alive(i) =>
        \/ players[i] # Nobody \/ stopReq[i]
        \/ \E n \in DOMAIN inbox[i] : inbox[i][n].k = "open"

\* A frame of session s is on its way to the table or to a room.
Coming(s, k) ==
    LET At(queue) == \E n \in DOMAIN queue : queue[n].s = s /\ queue[n].k = k IN
    \/ \E c \in 1 .. MaxConns : At(wire[c])
    \/ At(acc)
    \/ routing # None /\ At(<<routing.e>>)
    \/ \E i \in Instances : At(inbox[i])

Stopping(s) == pc[rooms[sessions[s].room]] \in {"stop", "stopped"}

\* As long as the connection lasts, the engine and the session table of the
\* server agree on who is there, but for frames on their way: no session is
\* left without a place and without a Kick, and none stays that is closed.
SessionsAgree ==
    ~cut => \A s \in Ids \ lost :
        /\ owner[s] # None =>
              \/ Coming(s, "open") \/ Has(outbox, s)
              \/ sessions[s] # None /\ sessions[s].player = owner[s]
        /\ sessions[s] # None =>
              owner[s] # None \/ Coming(s, "close") \/ Stopping(s)

\* And the session table, which roomsMu guards, agrees with the players of the
\* rooms, which their goroutines keep to themselves.
MembersAgree ==
    ~cut =>
      /\ \A i \in Instances, p \in Players :
            players[i][p] # None => sessions[players[i][p]] = Ref(roomId[i], p)
      /\ \A s \in Ids \ lost : sessions[s] # None =>
            \/ players[rooms[sessions[s].room]][sessions[s].player] = s
            \/ Coming(s, "open") \/ Stopping(s)

\* "断开时 SDK 清理全部会话并通知房间 OnLeave" (TECHNICAL.md): when a room has
\* handled what was sent to it, its players are those of the sessions.
DeadSessionsLeave ==
    \A i \in Instances : (Alive(i) /\ inbox[i] = <<>>) =>
        \A p \in Players : players[i][p] # None => sessions[players[i][p]] # None
-----------------------------------------------------------------------------
(* Liveness.  The goroutines run, the timer of a room fires, and a room that *)
(* is behind catches up in the end.                                         *)

RoomStep(i) == TimerTick(i) \/ AdvanceReturn(i) \/ Stop(i) \/ RemoveRoom(i)

Fairness ==
    /\ WF_vars(ReaderNext)
    /\ \A i \in Instances : WF_vars(RoomStep(i))

FairSpec == Spec /\ Fairness

InRoom(s) == \E i \in Instances, p \in Players : players[i][p] = s

\* "SessionClose | room.OnLeave": a player whose session the engine has ended
\* leaves its room, whatever else the reader and the room are doing.
ClosedPlayerLeaves ==
    \A s \in Ids :
        (InRoom(s) /\ owner[s] = None) ~> (~InRoom(s) \/ cut \/ s \in lost)
=============================================================================
