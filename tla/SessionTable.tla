---------------------------- MODULE SessionTable ----------------------------
(***************************************************************************)
(* The session table of the engine (session/table.rs): the three-way        *)
(* handshake, the life of a session from Active through Grace to its end,   *)
(* and the events it produces for the logic server.                         *)
(*                                                                         *)
(* The table's methods run in several tasks.  A method changes the table    *)
(* under a lock and returns its events; the task that called it pushes them *)
(* into the upstream queue after the lock is gone.  outbox[t] holds what    *)
(* task t has still to push; t starts nothing else before that.             *)
(*                                                                         *)
(* The clients are external: any request, any answer to a challenge that    *)
(* was sent, any packet of a session that was confirmed may arrive, late,   *)
(* more than once, or never.  Time is left out: a timeout may come at any   *)
(* moment, except that what a task has in hand is pushed within seconds.    *)
(* conn_id and sess_id are counted together, so one number stands for both. *)
(***************************************************************************)
EXTENDS Integers, SequencesExt

CONSTANTS
    Peers,          \* the addresses clients send from
    Workers,        \* the receive tasks, one for each SO_REUSEPORT socket
    WorkerOf,       \* the task whose socket the kernel gives a peer's packets
    ShortRequest,   \* the peers whose request is shorter than the challenge
    Bursts          \* how many events one packet of a session may release

CONSTANTS
    MaxSessions,    \* bound: sessions created
    MaxChallenges,  \* bound: challenges issued
    MaxData,        \* bound: Data events of one session
    MaxGaps         \* bound: times one session returns from Grace

ASSUME TableAssumption ==
    /\ WorkerOf \in [Peers -> Workers]
    /\ ShortRequest \subseteq Peers
    /\ Bursts \subseteq Nat
    /\ {MaxSessions, MaxChallenges, MaxData, MaxGaps} \subseteq Nat
    /\ {"maintenance", "drain"} \cap Workers = {}

Ids == 1 .. MaxSessions
Tasks == Workers \cup {"maintenance", "drain"}
Challenges == 1 .. MaxChallenges

VARIABLES
    sessions,   \* SessionTable.shards: the sessions, NoSession where none is
    pending,    \* SessionTable.pending: the challenge a peer is to answer
    nextId,     \* next_conn_id, next_sess_id
    outbox,     \* the events a task has produced and not pushed yet
    issued,     \* history: number of challenges made
    told,       \* history: the challenges sent to a peer
    origin,     \* history: the peer and the challenge a session came from
    gone        \* the clients that will never send again

tableVars == <<sessions, pending, nextId, outbox, issued, told, origin, gone>>
handshakeVars == <<pending, nextId, issued, told, origin>>

NoSession == [peer |-> "none", state |-> "none", rx |-> 0, gaps |-> 0]
NoChallenge == 0
NoOrigin == <<"none", NoChallenge>>

Live(s) == sessions[s] # NoSession
LiveIds == {s \in Ids : Live(s)}

\* rx counts the Data events of a session, gaps its returns from Grace.
NewSession(p) == [peer |-> p, state |-> "active", rx |-> 0, gaps |-> 0]

Event(ev, s, n) == [ev |-> ev, s |-> s, n |-> n]
Open(s) == Event("open", s, 0)
Close(s) == Event("close", s, 0)
Resume(s) == Event("resume", s, 0)
Data(s, n) == Event("data", s, n)

Events == [ev : {"open", "close", "resume", "data", "stats", "overload"},
           s : Ids \cup {0}, n : 0 .. MaxData]

Idle(t) == outbox[t] = <<>>
Produce(t, events) == outbox' = [outbox EXCEPT ![t] = events]
-----------------------------------------------------------------------------
(* The handshake.  A datagram's body is a challenge, or Token: a request.   *)

Token == -1

\* The pending challenges after the expired ones are dropped.
Unexpired(expired) ==
    [p \in Peers |-> IF p \in expired THEN NoChallenge ELSE pending[p]]

\* First contact: the challenge is recorded, and sent unless the reply would
\* be longer than the datagram it answers.
IssueChallenge(p, body, open) ==
    /\ issued < MaxChallenges
    /\ issued' = issued + 1
    /\ pending' = [open EXCEPT ![p] = issued + 1]
    /\ told' = IF body = Token /\ p \in ShortRequest THEN told
               ELSE [told EXCEPT ![p] = @ \cup {issued + 1}]
    /\ UNCHANGED <<sessions, nextId, outbox, origin>>

\* A slip: the challenge stays pending.
MutSpent(open, p) == open

\* An answered challenge is forgotten.
Spent(open, p) == [open EXCEPT ![p] = NoChallenge]

CreateSession(p, open) ==
    /\ nextId <= MaxSessions
    /\ pending' = Spent(open, p)
    /\ sessions' = [sessions EXCEPT ![nextId] = NewSession(p)]
    /\ origin' = [origin EXCEPT ![nextId] = <<p, open[p]>>]
    /\ nextId' = nextId + 1
    /\ Produce(WorkerOf[p], <<Open(nextId)>>)
    /\ UNCHANGED <<issued, told>>

(***************************************************************************)
(* handle_handshake, with the pending lock held: whatever a peer with a     *)
(* pending challenge sends is taken for the answer.                         *)
(***************************************************************************)
HandleHandshake(p, body, expired) ==
    LET open == Unexpired(expired) IN
    /\ Idle(WorkerOf[p])
    /\ \A q \in expired : pending[q] # NoChallenge
    /\ \/ open[p] = NoChallenge /\ IssueChallenge(p, body, open)
       \/ open[p] # NoChallenge /\ body = open[p] /\ CreateSession(p, open)
       \/ /\ open[p] # NoChallenge /\ body # open[p]
          /\ pending' = open
          /\ UNCHANGED <<sessions, nextId, outbox, issued, told, origin>>
    /\ UNCHANGED gone
-----------------------------------------------------------------------------
(* The life of a session.                                                  *)

(***************************************************************************)
(* handle_session_packet.  The session follows its client's address.  The   *)
(* packet that ends the grace period does only that; any other releases     *)
(* released events (handle_ch2 and its siblings: module ReliableLink).  A   *)
(* packet of a session that is not in the table changes nothing.            *)
(***************************************************************************)
HandleSessionPacket(p, s, released) ==
    LET old == sessions[s]
        new == [old EXCEPT !.peer = p, !.state = "active"]
    IN
    /\ Idle(WorkerOf[p])
    /\ Live(s) /\ s \notin gone
    /\ \/ /\ old.state = "grace" /\ released = 0 /\ old.gaps < MaxGaps
          /\ sessions' = [sessions EXCEPT ![s] = [new EXCEPT !.gaps = @ + 1]]
          /\ Produce(WorkerOf[p], <<Resume(s)>>)
       \/ /\ old.state = "active" /\ old.rx + released <= MaxData
          /\ sessions' = [sessions EXCEPT ![s] = [new EXCEPT !.rx = @ + released]]
          /\ Produce(WorkerOf[p],
                     [i \in 1 .. released |-> Data(s, old.rx + i)])
    /\ UNCHANGED <<handshakeVars, gone>>

\* A client disappears.
Vanish(s) ==
    /\ Live(s)
    /\ gone' = gone \cup {s}
    /\ UNCHANGED <<sessions, outbox, handshakeVars>>

InState(st) == {s \in Ids : sessions[s].state = st}

\* No task holds an event of s: a push takes no time next to a timeout.
Settled(s) == \A t \in Tasks : \A i \in DOMAIN outbox[t] : outbox[t][i].s # s

Without(removed) ==
    [s \in Ids |-> IF s \in removed THEN NoSession ELSE sessions[s]]

\* A slip: the sessions are dropped without a word.
MutCloses(order) == <<>>

\* The events Close, in some order: the table is a hash map.
Closes(order) == [i \in DOMAIN order |-> Close(order[i])]

\* A slip: the logic server is told when the grace period begins.
MutEnded(idle, over) == idle \cup over

\* The sessions whose end is announced.
Ended(idle, over) == over

(***************************************************************************)
(* maintain: idle are the active sessions whose idle_grace has passed, over *)
(* those whose reconnect_grace has.                                         *)
(***************************************************************************)
Maintain(idle, over) ==
    /\ Idle("maintenance")
    /\ idle \subseteq InState("active") /\ over \subseteq InState("grace")
    /\ \A s \in idle : Settled(s)
    /\ sessions' = [s \in Ids |-> IF s \in over THEN NoSession
                                  ELSE IF s \in idle
                                  THEN [sessions[s] EXCEPT !.state = "grace"]
                                  ELSE sessions[s]]
    /\ \E order \in SetToSeqs(Ended(idle, over)) : Produce("maintenance", Closes(order))
    /\ UNCHANGED <<handshakeVars, gone>>

\* kick: the session is removed, and that is all.
Kick(s) ==
    /\ Live(s)
    /\ sessions' = Without({s})
    /\ UNCHANGED <<outbox, handshakeVars, gone>>

\* shutdown_all, called by the draining engine.
ShutdownAll ==
    /\ sessions' = Without(Ids)
    /\ \E order \in SetToSeqs(LiveIds) :
          Produce("drain", Closes(order))
    /\ UNCHANGED <<handshakeVars, gone>>
-----------------------------------------------------------------------------
TableInit ==
    /\ sessions = [s \in Ids |-> NoSession]
    /\ pending = [p \in Peers |-> NoChallenge]
    /\ nextId = 1
    /\ outbox = [t \in Tasks |-> <<>>]
    /\ issued = 0
    /\ told = [p \in Peers |-> {}]
    /\ origin = [s \in Ids |-> NoOrigin]
    /\ gone = {}

\* What the clients do to the table.
ClientNext ==
    \/ \E p \in Peers : \E body \in {Token} \cup UNION {told[q] : q \in Peers} :
          \E expired \in SUBSET {q \in Peers : pending[q] # NoChallenge} :
             HandleHandshake(p, body, expired)
    \/ \E p \in Peers, s \in Ids, released \in Bursts :
          HandleSessionPacket(p, s, released)
    \/ \E s \in Ids : Vanish(s)

TableTypeOK ==
    /\ sessions \in [Ids -> [peer : Peers, state : {"active", "grace"},
                             rx : 0 .. MaxData, gaps : 0 .. MaxGaps]
                            \cup {NoSession}]
    /\ pending \in [Peers -> Challenges \cup {NoChallenge}]
    /\ nextId \in 1 .. MaxSessions + 1
    /\ outbox \in [Tasks -> Seq(Events)]
    /\ issued \in 0 .. MaxChallenges
    /\ told \in [Peers -> SUBSET Challenges]
    /\ origin \in [Ids -> (Peers \X Challenges) \cup {NoOrigin}]
    /\ gone \subseteq Ids

\* A challenge admits one session, to the address it was sent to: whatever is
\* answered twice, late, or from another address, the address of a session has
\* shown that it receives, and no two sessions share one challenge
\* (handle_handshake).
ChallengeUsedOnce ==
    \A s \in Ids : s < nextId =>
        /\ origin[s][2] \in told[origin[s][1]]
        /\ \A r \in Ids : r < s => origin[r][2] # origin[s][2]
=============================================================================
