------------------------------ MODULE RoomTick ------------------------------
(***************************************************************************)
(* A room and its players between two joins and leaves of the last one      *)
(* (ticker.go, jitter.go, baseline.go): inputs go through the jitter buffer  *)
(* (module JitterBuffer), snapshots are scheduled against baselines.  All of *)
(* it runs on the room's goroutine.                                         *)
(* The events come from module LogicServer.                                 *)
(*                                                                         *)
(* External: the clients and the network between them and the room, and how *)
(* large the snapshots of a room are.                                       *)
(***************************************************************************)
EXTENDS JitterBuffer

CONSTANTS
    Players,
    Rtts,          \* round-trip times that SessionStats reports
    TickHz,        \* Config.TickHz (20)
    SnapshotHz,    \* Config.SnapshotHz (10)
    KeyInterval,   \* Config.KeyframeIntervalTicks (100), 0 for none
    RingSize,      \* Config.BaselineRingSize (32)
    TickMod,       \* 65536: lastRecvSnapshotTick has 16 bits, a Tick has 32
    FirstInput,    \* the number of a client's first input
    Skew           \* a client's tick at its first input

CONSTANTS
    MaxTick,       \* bound: ticks
    MaxEvents,     \* bound: events
    MaxInputs      \* bound: inputs of a client

ASSUME RoomTickAssumption ==
    /\ Players \subseteq Nat /\ Rtts \subseteq Nat /\ 0 \in Rtts
    /\ {TickHz, RingSize, TickMod} \subseteq Nat \ {0}
    /\ {SnapshotHz, KeyInterval, FirstInput, MaxTick, MaxEvents, MaxInputs} \subseteq Nat
    /\ Skew \in [Players -> Nat]

VARIABLES        \* room
    tick, overload,
    st,          \* pstate of each player, or None
    panicked     \* the process has died

VARIABLES        \* history
    events,      \* how many so far
    heard,       \* the inputs the room was given of each player
    made,        \* the ticks of the snapshots made for each
    told,        \* the snapshot each reported last, 0 for none
    snap,        \* the last snapshot since the join or the resume
    since,       \* the tick of the join or the resume
    lastFull     \* the tick of the last full snapshot, or of the join

historyVars == <<heard, made, told, snap, since, lastFull>>
vars == <<tick, overload, st, panicked, events, historyVars>>

Here == {p \in Players : st[p] # None}
-----------------------------------------------------------------------------
(* baseline.go                                                             *)

\* The reported tick is in the ring.  It is 0 until a first report, and 0 is a
\* tick too.
BaselineHas(s) == \E i \in DOMAIN s.ring : s.ring[i] = s.recv

\* A slip: the ring is cut before the tick is added.
MutPushBaseline(ring, t) ==
    Append(IF Len(ring) > RingSize THEN Tail(ring) ELSE ring, t)

\* pushBaseline
PushBaseline(ring, t) ==
    LET r == Append(ring, t) IN IF Len(r) > RingSize THEN Tail(r) ELSE r

Halved(hz, k) == hz \div 2 ^ k

\* snapshotHz: halved by Overload, and by each level of the worst degradation.
SnapshotRate ==
    LET worst == Max({0} \cup {st[p].degrade : p \in Here})
        hz    == Halved(SnapshotHz, worst + (IF overload THEN 1 ELSE 0))
    IN IF SnapshotHz = 0 THEN 0 ELSE IF hz < 1 THEN 1 ELSE hz

\* snapshotEvery
SnapshotEvery ==
    IF SnapshotRate = 0 \/ SnapshotRate >= TickHz THEN 1
    ELSE (TickHz + SnapshotRate - 1) \div SnapshotRate

Scheduled == tick % SnapshotEvery = 0

\* A slip: the interval is counted in snapshots.
MutForceKey == KeyInterval > 0 /\ tick % (KeyInterval * SnapshotEvery) = 0

ForceKey == KeyInterval > 0 /\ tick % KeyInterval = 0

\* The baseline that scheduleSnapshots chooses, None for a full snapshot.
Baseline(s) ==
    IF ForceKey \/ s.force THEN None
    ELSE IF BaselineHas(s) THEN s.recv ELSE None

\* settleDegrade for one player, whose bytes were over the budget, at most
\* half of it, or between.
Settled(s, use) ==
    CASE use = "over" /\ s.degrade < 2 -> [s EXCEPT !.degrade = @ + 1]
      [] use = "half" /\ s.degrade > 0 -> [s EXCEPT !.degrade = @ - 1]
      [] OTHER -> s

Uses == {"over", "between", "half"}
-----------------------------------------------------------------------------
(* The events of the room: handleEvent.                                    *)

NewPlayer ==
    [jbuf |-> <<>>, lastSeq |-> 0, hasInput |-> FALSE, last |-> None, rtt |-> 0,
     recv |-> 0, ring |-> <<>>, force |-> FALSE, degrade |-> 0]

\* inOpen
Join(p) ==
    /\ st[p] = None
    /\ st' = [st EXCEPT ![p] = NewPlayer]
    /\ heard' = [heard EXCEPT ![p] = <<>>]
    /\ made' = [made EXCEPT ![p] = {}]
    /\ told' = [told EXCEPT ![p] = 0]
    /\ snap' = [snap EXCEPT ![p] = None]
    /\ since' = [since EXCEPT ![p] = tick]
    /\ lastFull' = [lastFull EXCEPT ![p] = tick]
    /\ UNCHANGED <<tick, overload, panicked>>

\* An event that only changes pstate.
Update(p, s) ==
    /\ st[p] # None
    /\ st' = [st EXCEPT ![p] = s]
    /\ UNCHANGED <<tick, overload, panicked, historyVars>>

\* inClose, and Kick
Leave(p) == Update(p, None)

\* inStats
Stats(p, rtt) == Update(p, [st[p] EXCEPT !.rtt = rtt])

RequestKeyframe(p) == Update(p, [st[p] EXCEPT !.force = TRUE])

\* A slip: the baselines stay.
MutResumed(s) == [s EXCEPT !.jbuf = <<>>, !.lastSeq = 0, !.hasInput = FALSE]

\* inResume: baselines and inputs are cleared, and the full state is sent.
\* lastPayload and lastRecvSnap stay.
Resumed(s) ==
    [s EXCEPT !.ring = <<>>, !.jbuf = <<>>, !.lastSeq = 0, !.hasInput = FALSE]

Resume(p) ==
    /\ st[p] # None
    /\ st' = [st EXCEPT ![p] = Resumed(@)]
    /\ heard' = [heard EXCEPT ![p] = <<>>]
    /\ snap' = [snap EXCEPT ![p] = None]
    /\ since' = [since EXCEPT ![p] = tick]
    /\ UNCHANGED <<tick, overload, panicked, made, told, lastFull>>

(***************************************************************************)
(* handleCh1Input for input n, which reports snapshot r.  Of the inputs that *)
(* a client sends, each several times, any may come, again or never, in any  *)
(* order; each reports a snapshot it has, or 0.                             *)
(***************************************************************************)
HandleCh1Input(p, n, r) ==
    LET e == Entry(n, n - FirstInput + Skew[p], tick + Depth(st[p].rtt)) IN
    /\ st[p] # None
    /\ r \in made[p] \cup {0}
    /\ st' = [st EXCEPT ![p] = [InsertJitter(@, e) EXCEPT !.recv = r % TickMod]]
    /\ told' = [told EXCEPT ![p] = r]
    /\ UNCHANGED <<tick, overload, panicked, heard, made, snap, since, lastFull>>

\* inOverload
Overload ==
    /\ overload' = TRUE
    /\ UNCHANGED <<tick, st, panicked, historyVars>>
-----------------------------------------------------------------------------
(* doTick.                                                                 *)

\* deliverReadyInputs, the players in the order of the map.
Deliver(order) ==
    SortPending(FlattenSeq([i \in DOMAIN order |->
        Contribution(order[i], st[order[i]], tick)]))

Fed(p) == AfterDelivery(st[p], tick)

\* What scheduleSnapshots leaves of a player, without the degradation.
Snapped(s) ==
    IF Scheduled
    THEN [s EXCEPT !.force = FALSE, !.ring = PushBaseline(@, tick)] ELSE s

\* settleDegrade is called once a second, by a tick that makes snapshots.
SettlesNow == Scheduled /\ tick % TickHz = 0

Panic(order) ==
    /\ Deliver(order).panic
    /\ panicked' = TRUE
    /\ UNCHANGED <<tick, overload, st, historyVars>>

Complete(order, uses) ==
    /\ ~Deliver(order).panic
    /\ heard' = [p \in Players |->
          IF p \in Here THEN heard[p] \o [i \in DOMAIN Ready(st[p], tick) |->
                                             Ready(st[p], tick)[i].n]
          ELSE heard[p]]
    /\ made' = [p \in Players |->
          IF p \in Here /\ Scheduled THEN made[p] \cup {tick} ELSE made[p]]
    /\ snap' = [p \in Players |->
          IF p \in Here /\ Scheduled THEN [base |-> Baseline(Fed(p)), told |-> told[p]]
          ELSE snap[p]]
    /\ lastFull' = [p \in Players |->
          IF p \in Here /\ Scheduled /\ Baseline(Fed(p)) = None THEN tick
          ELSE lastFull[p]]
    /\ st' = [p \in Players |->
          IF p \notin Here THEN None
          ELSE IF SettlesNow THEN Settled(Snapped(Fed(p)), uses[p])
          ELSE Snapped(Fed(p))]
    /\ tick' = tick + 1
    /\ UNCHANGED <<overload, panicked, told, since>>

DoTick ==
    /\ tick < MaxTick
    /\ UNCHANGED events
    /\ \E order \in SetToSeqs(Here) :
          \/ Panic(order)
          \/ \E uses \in [Here -> Uses] :
                /\ ~SettlesNow => \A p \in Here : uses[p] = "between"
                /\ Complete(order, uses)
-----------------------------------------------------------------------------
\* The players that opened the room are in it before the first tick.
Init ==
    /\ tick = 0 /\ overload = FALSE /\ panicked = FALSE /\ events = 0
    /\ st = [p \in Players |-> NewPlayer]
    /\ heard = [p \in Players |-> <<>>]
    /\ made = [p \in Players |-> {}]
    /\ told = [p \in Players |-> 0]
    /\ snap = [p \in Players |-> None]
    /\ since = [p \in Players |-> 0]
    /\ lastFull = [p \in Players |-> 0]

Event ==
    /\ events < MaxEvents
    /\ events' = events + 1
    /\ \/ Overload
       \/ \E p \in Players :
             \/ Join(p) \/ Leave(p) \/ Resume(p) \/ RequestKeyframe(p)
             \/ \E rtt \in Rtts : Stats(p, rtt)
             \/ \E n \in FirstInput .. FirstInput + MaxInputs - 1, r \in 0 .. MaxTick :
                   HandleCh1Input(p, n, r)

Next == ~panicked /\ (Event \/ DoTick)

Spec == Init /\ [][Next]_vars
-----------------------------------------------------------------------------
PState ==
    [jbuf : Seq([n : Nat, seq : 0 .. InputMod - 1, ct : Nat, due : Nat]),
     lastSeq : 0 .. InputMod - 1, hasInput : BOOLEAN, last : Nat \cup {None},
     rtt : Rtts, recv : 0 .. TickMod - 1, ring : Seq(Nat), force : BOOLEAN,
     degrade : 0 .. 2]

TypeOK ==
    /\ tick \in 0 .. MaxTick /\ overload \in BOOLEAN /\ panicked \in BOOLEAN
    /\ st \in [Players -> PState \cup {None}]
    /\ \A p \in Here : Len(st[p].jbuf) <= JitterCap /\ Len(st[p].ring) <= RingSize
    /\ events \in 0 .. MaxEvents
    /\ heard \in [Players -> Seq(Nat)]
    /\ made \in [Players -> SUBSET Nat] /\ told \in [Players -> Nat]
    /\ snap \in [Players -> [base : Nat \cup {None}, told : Nat] \cup {None}]
    /\ since \in [Players -> Nat] /\ lastFull \in [Players -> Nat]

\* "空洞等待重传补帧" and "只把没见过的交给房间" (jitter.go): between two resumes a
\* room is given a player's inputs without a gap and none twice, whatever was
\* lost, repeated, late or dropped from a full buffer, and across the point
\* where InputSeq wraps.
InputsInOrder ==
    \A p \in Here : \A i \in 1 .. Len(heard[p]) - 1 :
        heard[p][i + 1] = heard[p][i] + 1

\* "按 seq 有序插入": the buffer is in the order in which the client sent, and
\* holds nothing that the room has been given, for any order of arrival.
BufferOrdered ==
    \A p \in Here : LET buf == st[p].jbuf IN
        /\ \A i, j \in DOMAIN buf : i < j => buf[i].n < buf[j].n
        /\ heard[p] # <<>> /\ buf # <<>> => buf[1].n > Last(heard[p])

\* "客户端回传的 lastRecvSnapshotTick 在环内 → 增量": a snapshot is encoded against
\* one that the client has reported, and after a resume against a later one.
\* Tick 0 is excepted: it is also what a client without a snapshot reports.
BaselineHeld ==
    \A p \in Here : (snap[p] # None /\ snap[p].base \notin {None, 0}) =>
        snap[p].base = snap[p].told /\ snap[p].base >= since[p]

\* "每 KeyframeIntervalTicks 强制一次全量": no degradation, overload or requested
\* keyframe puts the full snapshot of a player off.
KeyframeInTime ==
    \A p \in Here : KeyInterval > 0 => tick - lastFull[p] <= KeyInterval

\* "按 (clientTick, player) 排序": the sort of the inputs ends.
NoPanic == ~panicked
=============================================================================
