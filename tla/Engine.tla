------------------------------- MODULE Engine -------------------------------
(***************************************************************************)
(* The engine around its session table (engine.rs): the tasks that push     *)
(* events into the upstream queue, the link to the logic server that is     *)
(* made, lost and made again, the maintenance loop, and the drain at the    *)
(* end.  Receive tasks, maintenance, the link and the drain interleave.     *)
(*                                                                         *)
(* The logic server is external; of what it sends only Kick changes the     *)
(* session table (Send is module ReliableLink, SetBudget module Downlink).  *)
(***************************************************************************)
EXTENDS SessionTable

CONSTANTS
    UpQueueCap,    \* UP_QUEUE_CAP (4096)
    CanDrain       \* TRUE: the engine may be told to shut down

CONSTANTS
    MaxConnects,   \* bound: connections to the logic server
    MaxTicks,      \* bound: rounds of session statistics
    MaxKicks       \* bound: sessions the logic server kicks

ASSUME EngineAssumption ==
    /\ UpQueueCap \in Nat \ {0}
    /\ CanDrain \in BOOLEAN
    /\ {MaxConnects, MaxTicks, MaxKicks} \subseteq Nat

VARIABLES
    link,             \* where logic_link_loop is
    upQueue,          \* the queue behind Shared.up_tx
    resumes,          \* sessions a new connection has still to announce
    pendingOverload,  \* Shared.pending_overload
    mode,             \* whether the engine runs, drains or has exited
    feed,             \* history: the frames of the current connection
    kicked,           \* history: the sessions kicked
    dropped,          \* history: what was dropped on a full queue: frames of
                      \* statistics ("stats"), reliable ones ("reliable")
    connects,         \* connections so far
    ticks             \* rounds of statistics so far

linkVars == <<link, upQueue, resumes, feed, connects>>
engineVars == <<linkVars, pendingOverload, mode, kicked, dropped, ticks>>
vars == <<tableVars, engineVars>>

\* "down": up_tx is None.  "hello": up_tx is set, EngineHello is on its way.
\* "resume": the SessionResume frames are written.  "up": run_logic_link.
LinkStates == {"down", "hello", "resume", "up"}

Stats(s) == Event("stats", s, 0)
Overload == Event("overload", 0, 0)

\* SessionStats and the data of channels 0 and 1 may be dropped silently; here
\* Data stands for channels 2 and 3.
Droppable(e) == e.ev = "stats"
-----------------------------------------------------------------------------
(* The upstream queue.                                                     *)

\* A slip: the queue is installed when the sessions have been announced.
MutOnline == link = "up"

\* Shared.up_tx holds a sender.
Online == link # "down"

\* A slip: one frame too many.
MutFull == Len(upQueue) > UpQueueCap

Full == Len(upQueue) >= UpQueueCap

\* notify_overload.  It does nothing within 100 ms of the last time, which
\* there is once a frame has been dropped on a full queue.
NotifyOverload(flag) ==
    \/ pendingOverload' = TRUE
    \/ {"reliable", "stats"} \cap dropped # {} /\ pendingOverload' = flag

(***************************************************************************)
(* push_frame: the frame e is queued, or dropped because the logic server   *)
(* is offline or the queue is full.  flag is pending_overload so far.       *)
(***************************************************************************)
PushFrame(e, flag) ==
    \/ /\ ~Online
       /\ pendingOverload' = flag
       /\ UNCHANGED <<upQueue, dropped>>
    \/ /\ Online /\ ~Full
       /\ upQueue' = Append(upQueue, e)
       /\ pendingOverload' = flag
       /\ UNCHANGED dropped
    \/ /\ Online /\ Full
       /\ dropped' = dropped \cup {IF Droppable(e) THEN "stats" ELSE "reliable"}
       /\ NotifyOverload(flag)
       /\ UNCHANGED upQueue

\* A slip: the newest event first.
MutNextOf(t) == Len(outbox[t])

\* The event a task pushes first.
NextOf(t) == 1

(***************************************************************************)
(* push_up for the next of the events that task t holds.  In the round of   *)
(* statistics Overload stands for the question whether it is due.           *)
(***************************************************************************)
PushUp(t) ==
    LET e == outbox[t][NextOf(t)] IN
    /\ ~Idle(t)
    /\ \/ e # Overload /\ PushFrame(e, pendingOverload)
       \/ e = Overload /\ pendingOverload /\ PushFrame(e, FALSE)
       \/ /\ e = Overload /\ ~pendingOverload
          /\ UNCHANGED <<upQueue, dropped, pendingOverload>>
    /\ outbox' = [outbox EXCEPT ![t] = RemoveAt(@, NextOf(t))]
    /\ UNCHANGED <<sessions, handshakeVars, gone, link, resumes, feed, connects,
                   mode, kicked, ticks>>

\* The first tick of maintenance_loop.  EngineHello is written at once: no
\* session has time to fall silent between its last frame and the end of that.
MaintainTick(idle, over) ==
    /\ Maintain(idle, over)
    /\ link = "hello" =>
          \A s \in idle, i \in DOMAIN upQueue : upQueue[i].s # s
    /\ UNCHANGED engineVars

\* The second tick of maintenance_loop.
SecondTick ==
    /\ ticks < MaxTicks
    /\ ticks' = ticks + 1
    /\ Idle("maintenance")
    /\ \E order \in SetToSeqs(LiveIds) :
          Produce("maintenance", [i \in DOMAIN order |-> Stats(order[i])]
                                 \o <<Overload>>)
    /\ UNCHANGED <<sessions, handshakeVars, gone, linkVars, pendingOverload,
                   mode, kicked, dropped>>
-----------------------------------------------------------------------------
(* The link to the logic server: logic_link_loop and run_logic_link.       *)

\* Everything but the link.
linkOnly == <<tableVars, mode, kicked, dropped, ticks, pendingOverload>>

\* Connected: a new, empty queue takes the events from here on.  The backoff is
\* at least a second: what was held when a session was kicked is gone by now.
Connect ==
    /\ link = "down" /\ connects < MaxConnects
    /\ \A s \in kicked : Settled(s)
    /\ link' = "hello"
    /\ upQueue' = <<>> /\ feed' = <<>>
    /\ connects' = connects + 1
    /\ UNCHANGED <<linkOnly, resumes>>

\* A slip: a session in its grace period is forgotten.
MutToAnnounce == InState("active")

\* for_each_session
ToAnnounce == LiveIds

\* EngineHello is written; the sessions to announce are collected.
Hello ==
    /\ link = "hello"
    /\ link' = "resume"
    /\ resumes' = ToAnnounce
    /\ UNCHANGED <<linkOnly, upQueue, feed, connects>>

\* SessionResume goes to the socket, past the queue.
WriteResume(s) ==
    /\ link = "resume" /\ s \in resumes
    /\ resumes' = resumes \ {s}
    /\ feed' = Append(feed, Resume(s))
    /\ UNCHANGED <<linkOnly, link, upQueue, connects>>

RunLogicLink ==
    /\ link = "resume" /\ resumes = {}
    /\ link' = "up"
    /\ UNCHANGED <<linkOnly, upQueue, resumes, feed, connects>>

\* logic_write_loop
WriteFrame ==
    /\ link = "up" /\ upQueue # <<>>
    /\ upQueue' = Tail(upQueue)
    /\ feed' = Append(feed, Head(upQueue))
    /\ UNCHANGED <<linkOnly, link, resumes, connects>>

\* A write or a read fails, or the logic server closes the connection.
LinkBreak ==
    /\ link # "down"
    /\ link' = "down"
    /\ upQueue' = <<>> /\ resumes' = {} /\ feed' = <<>>
    /\ UNCHANGED <<linkOnly, connects>>

InFeed(e) == \E i \in DOMAIN feed : feed[i] = e
Announced(s) == InFeed(Open(s)) \/ InFeed(Resume(s))

\* handle_logic_frame for a Kick of a session the logic server knows.
LogicKick(s) ==
    /\ link = "up" /\ Announced(s)
    /\ Cardinality(kicked) < MaxKicks
    /\ Kick(s)
    /\ kicked' = kicked \cup {s}
    /\ UNCHANGED <<linkVars, pendingOverload, mode, dropped, ticks>>
-----------------------------------------------------------------------------
(* The end of run_with_shutdown.  The other tasks run on for 300 ms.       *)

Drain ==
    /\ CanDrain /\ mode = "running"
    /\ mode' = "draining"
    /\ ShutdownAll
    /\ UNCHANGED <<linkVars, pendingOverload, kicked, dropped, ticks>>

Exit ==
    /\ mode = "draining" /\ Idle("drain")
    /\ mode' = "exited"
    /\ UNCHANGED <<tableVars, linkVars, pendingOverload, kicked, dropped,
                   ticks>>
-----------------------------------------------------------------------------
Init ==
    /\ TableInit
    /\ link = "down" /\ upQueue = <<>> /\ resumes = {}
    /\ pendingOverload = FALSE
    /\ mode = "running"
    /\ feed = <<>> /\ kicked = {} /\ dropped = {}
    /\ connects = 0 /\ ticks = 0

Step ==
    \/ ClientNext /\ UNCHANGED engineVars
    \/ \E idle \in SUBSET InState("active"), over \in SUBSET InState("grace") :
          MaintainTick(idle, over)
    \/ \E t \in Tasks : PushUp(t)
    \/ SecondTick
    \/ Connect \/ Hello \/ RunLogicLink \/ WriteFrame \/ LinkBreak
    \/ \E s \in Ids : WriteResume(s) \/ LogicKick(s)
    \/ Drain \/ Exit

Next == mode # "exited" /\ Step

Spec == Init /\ [][Next]_vars
-----------------------------------------------------------------------------
(* What the engine promises the logic server, as long as no frame is       *)
(* dropped on a full queue.                                                *)

InTransit(e) ==
    \/ \E i \in DOMAIN upQueue : upQueue[i] = e
    \/ \E t \in Tasks : \E i \in DOMAIN outbox[t] : outbox[t][i] = e

\* The queue stays within its capacity, and everything has its shape.
TypeOK ==
    /\ TableTypeOK
    /\ link \in LinkStates
    /\ upQueue \in Seq(Events) /\ Len(upQueue) <= UpQueueCap
    /\ resumes \subseteq Ids
    /\ pendingOverload \in BOOLEAN
    /\ mode \in {"running", "draining", "exited"}
    /\ feed \in Seq(Events)
    /\ kicked \subseteq Ids
    /\ dropped \subseteq {"reliable", "stats"}
    /\ connects \in 0 .. MaxConnects /\ ticks \in 0 .. MaxTicks

\* "逻辑服可以热重启": when a new connection has collected its sessions, each
\* session of the table is announced to the logic server, or is about to be:
\* no session slips between the queue and the SessionResume frames.
EverySessionAnnounced ==
    link \in {"resume", "up"} /\ "reliable" \notin dropped =>
        \A s \in Ids : Live(s) =>
            \/ Announced(s) \/ s \in resumes
            \/ InTransit(Open(s)) \/ InTransit(Resume(s))

\* A session that the logic server takes for open is in the table, or its
\* SessionClose is on the way; a session that it kicked is its own affair.
NoGhosts ==
    "reliable" \notin dropped =>
        \A s \in Ids \ kicked : Announced(s) =>
            Live(s) \/ InFeed(Close(s)) \/ InTransit(Close(s))

\* The logic server never gets the data of a session it was not told of in
\* this connection, also when it was restarted in the middle.
KnownBeforeData ==
    "reliable" \notin dropped =>
        \A i \in DOMAIN feed : feed[i].ev = "data" =>
            \E j \in 1 .. i - 1 : feed[j] \in {Open(feed[i].s), Resume(feed[i].s)}

\* SessionClose is the last frame of a session, until the engine drains.
ClosedIsFinal ==
    mode = "running" =>
        \A i, j \in DOMAIN feed :
            i < j /\ feed[i].ev = "close" => feed[j].s # feed[i].s

\* "Ch2 不丢不乱": the messages of a session reach the logic server in the
\* order in which its reliable layer released them.
FeedInOrder ==
    \A i, j \in DOMAIN feed :
        (/\ i < j /\ feed[i].ev = "data" /\ feed[j].ev = "data"
         /\ feed[i].s = feed[j].s) => feed[i].n < feed[j].n

-----------------------------------------------------------------------------
(* Liveness.  The tasks run, the maintenance loop finds a silent session    *)
(* after at most five and then at most twenty seconds, and a connection     *)
(* that stays takes what is written to it.                                  *)

MaintainGone ==
    \E idle \in SUBSET InState("active"), over \in SUBSET InState("grace") :
        /\ gone \cap (idle \cup over) # {}
        /\ gone \cap InState("active") \subseteq idle
        /\ gone \cap InState("grace") \subseteq over
        /\ MaintainTick(idle, over)

Fairness ==
    /\ WF_vars(mode # "exited" /\ MaintainGone)
    /\ \A t \in Tasks : WF_vars(mode # "exited" /\ PushUp(t))
    /\ WF_vars(mode # "exited" /\ WriteFrame)

FairSpec == Spec /\ Fairness

\* The logic server learns of the end of every player that went away, as
\* long as its connection lasts and its queue does not overflow: "宽限期 --> [*] : SessionClose".
VanishedIsClosed ==
    \A s \in Ids :
        (s \in gone /\ link = "up" /\ Announced(s))
            ~> \/ InFeed(Close(s))
               \/ link # "up" \/ s \in kicked
               \/ mode # "running" \/ "reliable" \in dropped
=============================================================================
