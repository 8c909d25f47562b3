----------------------------- MODULE AgreementProofs -----------------------------
(***************************************************************************)
(* The engine, the session table of the logic server and the players of its  *)
(* rooms agree while the connection lasts: SessionsAgree and MembersAgree of  *)
(* LogicServer, for every value of the constants.                           *)
(***************************************************************************)
EXTENDS LogicServerProofs
-----------------------------------------------------------------------------
(* What the engine, the session table and the rooms agree on while the      *)
(* connection lasts, by where an event is: Up with the reader or before it,   *)
(* Mid in routeToRoom, In[i] in an inbox; and the sessions with a Kick.       *)

Up == {e \in Frames : Has(acc, e) \/ \E c \in 1 .. MaxConns : Has(wire[c], e)}
Mid == {e \in Frames : routing # None /\ routing.e = e}
In == [i \in Instances |-> {e \in Frames : Has(inbox[i], e)}]
Out == {s \in Ids : Has(outbox, s)}

IsClose(e) == e.k = "close"
Down(e) == e \in Mid \/ \E i \in Instances : e \in In[i]

\* The one connection there is, if there is one, is nobody's loss.
LinkUp ==
    /\ conns \in 0 .. 1 /\ (peer <=> conns = 1) /\ dying = {}
    /\ rconn \in {0, cur} /\ wconn \in {0, cur}
    /\ \A c \in 1 .. MaxConns : wire[c] # <<>> => c = conns

\* A SessionOpen comes behind what is about older sessions only.
Ascends(q) ==
    \A n \in DOMAIN q : IsOpen(q[n]) => \A m \in 1 .. n - 1 : q[m].s < q[n].s

Ordered ==
    /\ Ascends(acc)
    /\ \A c \in 1 .. MaxConns : Ascends(wire[c])
    /\ \A i \in Instances : Ascends(inbox[i])
    /\ \A e, o \in Frames : \A c \in 1 .. MaxConns :
          Has(acc, e) /\ Has(wire[c], o) /\ IsOpen(o) => e.s < o.s

\* What is known of the numbers of sessions.
Numbers ==
    /\ \A s \in Ids : owner[s] # None \/ sessions[s] # None \/ s \in Out => s < nextId
    /\ \A e \in Frames : e \in Up \/ Down(e) => e.s < nextId
    /\ \A e, o \in Frames : Down(e) /\ o \in Up /\ IsOpen(o) => e.s < o.s

\* A session whose SessionOpen comes is new to the server.
UpOpens ==
    \A o \in Up : IsOpen(o) =>
        /\ sessions[o.s] = None /\ o.s \notin Out /\ owner[o.s] \in {None, o.p}
        /\ owner[o.s] # None \/ \E e \in Up : IsClose(e) /\ e.s = o.s

Closes == \A e \in Frames : IsClose(e) /\ (e \in Up \/ Down(e)) => owner[e.s] = None

\* Session s is player p's in room i, which is in the table.
Belongs(s, i, p) ==
    sessions[s] # None /\ sessions[s] = Ref(roomId[i], p) /\ rooms[roomId[i]] = i

\* What waits for a room is about sessions that are the room's, if any's.
InboxRight ==
    \A i \in Instances : \A e \in In[i] :
        /\ IsOpen(e) => Belongs(e.s, i, e.p) /\ \A p \in Players : players[i][p] # e.s
        /\ IsClose(e) /\ sessions[e.s] # None => Belongs(e.s, i, e.p)

MidRight ==
    \A e \in Mid : IsClose(e) /\ sessions[e.s] # None => Belongs(e.s, routing.to, e.p)

PlayersListed ==
    \A i \in Instances, p \in Players :
        players[i][p] # None => sessions[players[i][p]] = Ref(roomId[i], p)

OwnPlayer == \A s \in Ids : sessions[s] # None => owner[s] \in {None, sessions[s].player}

KickGone == \A s \in Out : sessions[s] = None \/ Stopping(s)

Home(s) == rooms[sessions[s].room]

ListedPlay ==
    \A s \in Ids \ lost : sessions[s] # None =>
        \/ players[Home(s)][sessions[s].player] = s
        \/ \E e \in In[Home(s)] : IsOpen(e) /\ e.s = s
        \/ Stopping(s)

OwnedPlaced ==
    \A s \in Ids \ lost : owner[s] # None =>
        (\E o \in Up : IsOpen(o) /\ o.s = s) \/ s \in Out \/ sessions[s] # None

EndedLeave ==
    \A s \in Ids \ lost : sessions[s] # None =>
        \/ owner[s] # None \/ Stopping(s)
        \/ \E e \in Frames : IsClose(e) /\ e.s = s /\ (e \in Up \/ Down(e))

Agreed ==
    /\ LinkUp /\ Ordered /\ Numbers /\ UpOpens /\ Closes /\ InboxRight /\ MidRight
    /\ PlayersListed /\ OwnPlayer /\ KickGone /\ ListedPlay /\ OwnedPlaced /\ EndedLeave

AgreeInv == ~cut => Agreed
-----------------------------------------------------------------------------
\* The properties, from what the parts say.
LEMMA AgreedImplies ==
    ASSUME FramesInv, TableInv, TypeInv, Agreed
    PROVE  SessionsAgree /\ MembersAgree
<1>1. /\ acc \in Seq(Frames) /\ wire \in [1 .. MaxConns -> Seq(Frames)]
      /\ inbox \in [Instances -> Boxes]
      /\ routing \in [to : Instances, e : Frames] \cup {None}
      /\ owner \in [Ids -> Players \cup {None}] /\ sessions \in [Ids -> Refs \cup {None}]
      /\ rooms \in [RoomIds -> Instances \cup {None}]
  BY DEF FramesInv, TypeInv, RoomTypes, LinkTypes, EngineTypes, TableInv, TableTypes
<1>2. ASSUME NEW s \in Ids, NEW e \in Frames, e.s = s, e \in Up \/ Down(e)
      PROVE  Coming(s, e.k)
  <2>1. CASE e \in Up
    <3>1. CASE Has(acc, e)
      BY <1>2, <3>1 DEF Coming, Has
    <3>2. ASSUME NEW c \in 1 .. MaxConns, Has(wire[c], e) PROVE Coming(s, e.k)
      BY <1>2, <3>2 DEF Coming, Has
    <3>. QED  BY <2>1, <3>1, <3>2 DEF Up
  <2>2. CASE e \in Mid
    <3>1. routing # None /\ routing.e = e
      BY <2>2 DEF Mid
    <3>2. 1 \in DOMAIN <<routing.e>> /\ <<routing.e>>[1] = e
      BY <3>1
    <3>. QED  BY <1>2, <3>1, <3>2 DEF Coming
  <2>3. ASSUME NEW i \in Instances, e \in In[i] PROVE Coming(s, e.k)
    BY <1>2, <2>3 DEF Coming, In, Has
  <2>. QED  BY <1>2, <2>1, <2>2, <2>3 DEF Down
<1>3. ASSUME NEW s \in Ids \ lost, owner[s] # None
      PROVE  \/ Coming(s, "open") \/ Has(outbox, s)
             \/ sessions[s] # None /\ sessions[s].player = owner[s]
  <2>1. CASE \E o \in Up : IsOpen(o) /\ o.s = s
    BY <1>2, <2>1 DEF Up, IsOpen
  <2>2. CASE s \in Out \/ sessions[s] # None
    BY <1>3, <2>2 DEF Agreed, OwnPlayer, Out
  <2>. QED  BY <1>3, <2>1, <2>2 DEF Agreed, OwnedPlaced
<1>4. ASSUME NEW s \in Ids \ lost, sessions[s] # None
      PROVE  owner[s] # None \/ Coming(s, "close") \/ Stopping(s)
  BY <1>2, <1>4 DEF Agreed, EndedLeave, IsClose
<1>5. ASSUME NEW s \in Ids \ lost, sessions[s] # None
      PROVE  \/ players[rooms[sessions[s].room]][sessions[s].player] = s
             \/ Coming(s, "open") \/ Stopping(s)
  <2>1. Home(s) \in Instances
    BY <1>1, <1>5 DEF Home, Refs, TableInv, SessionRoomLives
  <2>2. ASSUME NEW e \in In[Home(s)], IsOpen(e), e.s = s PROVE Coming(s, "open")
    <3>1. e \in Frames /\ Down(e)
      BY <2>1, <2>2 DEF In, Down
    <3>. QED  BY <1>2, <2>2, <3>1 DEF IsOpen
  <2>. QED  BY <1>5, <2>2 DEF Agreed, ListedPlay, Home
<1>. QED  BY <1>3, <1>4, <1>5 DEF SessionsAgree, MembersAgree, Agreed, PlayersListed
-----------------------------------------------------------------------------
(* Queues whose opens ascend.                                              *)

LEMMA AscendsAppend ==
    ASSUME NEW q \in Seq(Frames), NEW f \in Frames, Ascends(q),
           IsOpen(f) => \A e : Has(q, e) => e.s < f.s,
           NEW r, r = Append(q, f)
    PROVE  Ascends(r)
<1>1. /\ Len(q) \in Nat /\ DOMAIN q = 1 .. Len(q) /\ DOMAIN r = 1 .. Len(q) + 1
      /\ \A n \in 1 .. Len(q) : r[n] = q[n]
      /\ r[Len(q) + 1] = f
  OBVIOUS
<1>2. ASSUME NEW n \in DOMAIN r, IsOpen(r[n]), NEW m \in 1 .. n - 1
      PROVE  r[m].s < r[n].s
  <2>1. m \in 1 .. Len(q)
    BY <1>1
  <2>2. CASE n = Len(q) + 1
    <3>1. Has(q, q[m])
      BY <1>1, <2>1 DEF Has
    <3>. QED  BY <1>1, <1>2, <2>1, <2>2, <3>1
  <2>3. CASE n # Len(q) + 1
    <3>1. n \in 1 .. Len(q)
      BY <1>1, <2>3
    <3>. QED  BY <1>1, <1>2, <2>1, <3>1 DEF Ascends
  <2>. QED  BY <2>2, <2>3
<1>. QED  BY <1>2 DEF Ascends

LEMMA AscendsSub ==
    ASSUME NEW q \in Seq(Frames), Ascends(q), NEW a \in 1 .. Len(q) + 1, NEW b \in 0 .. Len(q),
           NEW r, r = SubSeq(q, a, b)
    PROVE  Ascends(r) /\ r \in Seq(Frames) /\ \A e : Has(r, e) => Has(q, e)
<1>0. /\ a \in Nat /\ b \in Nat /\ a >= 1 /\ b <= Len(q) /\ Len(q) \in Nat
      /\ DOMAIN q = 1 .. Len(q)
  OBVIOUS
<1>1. /\ r \in Seq(Frames)
      /\ DOMAIN r = 1 .. (b - a) + 1
      /\ \A n \in 1 .. (b - a) + 1 : r[n] = q[(a + n) - 1]
  BY <1>0
<1>2. ASSUME NEW n \in DOMAIN r, IsOpen(r[n]), NEW m \in 1 .. n - 1
      PROVE  r[m].s < r[n].s
  <2>1. /\ n \in 1 .. (b - a) + 1 /\ m \in 1 .. (b - a) + 1
        /\ (a + n) - 1 \in 1 .. Len(q) /\ (a + m) - 1 \in 1 .. ((a + n) - 1) - 1
    BY <1>0, <1>1
  <2>. QED  BY <1>0, <1>1, <1>2, <2>1 DEF Ascends
<1>3. ASSUME NEW e, Has(r, e) PROVE Has(q, e)
  <2>1. PICK n \in 1 .. (b - a) + 1 : r[n] = e
    BY <1>1, <1>3 DEF Has
  <2>2. (a + n) - 1 \in 1 .. Len(q)
    BY <1>0
  <2>. QED  BY <1>0, <1>1, <2>1, <2>2 DEF Has
<1>. QED  BY <1>1, <1>2, <1>3 DEF Ascends

\* The head comes before every open behind it.
LEMMA AscendsTail ==
    ASSUME NEW q \in Seq(Frames), q # <<>>, Ascends(q), NEW r, r = Tail(q)
    PROVE  Ascends(r) /\ \A o : Has(r, o) /\ IsOpen(o) => Head(q).s < o.s
<1>1. /\ Len(q) \in Nat \ {0} /\ DOMAIN q = 1 .. Len(q) /\ Head(q) = q[1]
      /\ DOMAIN r = 1 .. Len(q) - 1
      /\ \A n \in 1 .. Len(q) - 1 : r[n] = q[n + 1]
  OBVIOUS
<1>2. ASSUME NEW n \in DOMAIN r, IsOpen(r[n]), NEW m \in 1 .. n - 1
      PROVE  r[m].s < r[n].s
  <2>1. /\ n \in 1 .. Len(q) - 1 /\ m \in 1 .. Len(q) - 1 /\ n + 1 \in 1 .. Len(q)
        /\ m + 1 \in 1 .. (n + 1) - 1
    BY <1>1
  <2>. QED  BY <1>1, <1>2, <2>1 DEF Ascends
<1>3. ASSUME NEW o, Has(r, o), IsOpen(o) PROVE Head(q).s < o.s
  <2>1. PICK n \in 1 .. Len(q) - 1 : r[n] = o
    BY <1>1, <1>3 DEF Has
  <2>2. n + 1 \in 1 .. Len(q) /\ 1 \in 1 .. (n + 1) - 1
    BY <1>1
  <2>. QED  BY <1>1, <1>3, <2>1, <2>2 DEF Ascends
<1>. QED  BY <1>2, <1>3 DEF Ascends
-----------------------------------------------------------------------------
(* The engine.                                                             *)

\* A frame that it writes.
LEMMA Written ==
    ASSUME FramesInv, LinkUp, Ordered, NEW f \in Frames, Write(f),
           UNCHANGED <<acc, conns, inbox>>, IsOpen(f) => \A e \in Up : e.s < f.s
    PROVE  /\ Up' = Up \cup {f} /\ Ordered'
           /\ \A c \in 1 .. MaxConns : wire'[c] # <<>> => c = conns
<1>1. /\ acc \in Seq(Frames) /\ wire \in [1 .. MaxConns -> Seq(Frames)] /\ conns = 1
      /\ conns \in 1 .. MaxConns
      /\ wire' = [wire EXCEPT ![conns] = Append(wire[conns], f)]
  BY DEF FramesInv, LinkUp, Write
<1>2. PICK q : q = wire[conns]
  OBVIOUS
<1>3. PICK r : r = Append(q, f)
  OBVIOUS
<1>4. q \in Seq(Frames) /\ Ascends(q)
  BY <1>1, <1>2 DEF Ordered
<1>5. wire'[conns] = r /\ \A c \in 1 .. MaxConns : c # conns => wire'[c] = wire[c]
  BY <1>1, <1>2, <1>3
<1>6. \A x : Has(r, x) <=> (Has(q, x) \/ x = f)
  BY ONLY <1>3, <1>4, f \in Frames, HasAppend
<1>7. \A e : Has(q, e) => e \in Up
  <2>1. \A e : Has(q, e) => e \in Frames
    BY <1>4 DEF Has
  <2>. QED  BY <1>1, <1>2, <2>1 DEF Up
<1>8. Ascends(r)
  <2>1. IsOpen(f) => \A e : Has(q, e) => e.s < f.s
    BY <1>7
  <2>. QED  BY ONLY <1>3, <1>4, <2>1, f \in Frames, AscendsAppend
<1>9. Up' = Up \cup {f}
  <2>1. ASSUME NEW e \in Up' PROVE e \in Up \cup {f}
    BY <1>1, <1>2, <1>5, <1>6, <2>1 DEF Up
  <2>2. ASSUME NEW e \in Up PROVE e \in Up'
    BY <1>1, <1>2, <1>5, <1>6, <2>2 DEF Up
  <2>3. f \in Up'
    BY <1>1, <1>5, <1>6 DEF Up
  <2>. QED  BY <2>1, <2>2, <2>3
<1>10. \A e \in Frames : Has(acc, e) => e \in Up
  BY DEF Up
<1>11. ASSUME NEW e \in Frames, NEW o \in Frames, NEW c \in 1 .. MaxConns,
              Has(acc, e), Has(wire'[c], o), IsOpen(o)
       PROVE  e.s < o.s
  <2>1. CASE c = conns /\ o = f
    BY <1>10, <1>11, <2>1
  <2>2. CASE Has(wire[c], o)
    BY <1>11, <2>2 DEF Ordered
  <2>. QED  BY <1>2, <1>5, <1>6, <1>11, <2>1, <2>2
<1>12. Ordered'
  <2>1. acc' = acc /\ inbox' = inbox
    OBVIOUS
  <2>2. \A c \in 1 .. MaxConns : Ascends(wire'[c])
    BY <1>5, <1>8 DEF Ordered
  <2>. QED  BY <1>11, <2>1, <2>2 DEF Ordered
<1>13. \A c \in 1 .. MaxConns : wire'[c] # <<>> => c = conns
  BY <1>5 DEF LinkUp
<1>. QED  BY <1>9, <1>12, <1>13

engineOnly == <<connVars, serverVars, roomVars, lost, cut>>

LEMMA EngineOnly ==
    ASSUME UNCHANGED engineOnly
    PROVE  UNCHANGED <<In, Mid, Out, acc, routing, rooms, sessions, outbox, roomId, players,
                       inbox, pc, lost, dying, rconn, wconn, cur>>
  BY DEF engineOnly, connVars, serverVars, roomVars, In, Mid, Out

LEMMA EngineOpenAgreed ==
    ASSUME FramesInv, TableInv, TypeInv, Agreed, NEW p \in Players, EngineOpen(p)
    PROVE  Agreed'
<1>1. /\ nextId <= MaxId /\ nextId' = nextId + 1 /\ owner' = [owner EXCEPT ![nextId] = p]
      /\ Write(Ev("open", nextId, p)) /\ UNCHANGED <<peer, conns, engineOnly>>
  BY DEF EngineOpen, engineOnly
<1>2. UNCHANGED <<In, Mid, Out, acc, routing, rooms, sessions, outbox, roomId, players,
                  inbox, pc, lost, dying, rconn, wconn, cur>>
  BY <1>1, EngineOnly
<1>3. PICK f : f = Ev("open", nextId, p)
  OBVIOUS
<1>4. /\ f \in Frames /\ f.k = "open" /\ f.s = nextId /\ f.p = p /\ nextId \in Ids
      /\ IsOpen(f) /\ ~IsClose(f)
  BY <1>1, <1>3 DEF Ev, Frames, Events, Kinds, Ids, FramesInv, IsOpen, IsClose
<1>5. /\ owner \in [Ids -> Players \cup {None}] /\ p # None /\ None \notin Nat
      /\ nextId \in Nat
      /\ owner'[nextId] = p /\ \A s \in Ids : s # nextId => owner'[s] = owner[s]
  BY <1>1, <1>4, Constants DEF TypeInv, EngineTypes, Ids
<1>6. /\ Up' = Up \cup {f} /\ Ordered' /\ LinkUp'
  <2>1. Write(f) /\ UNCHANGED <<acc, conns, inbox>>
    BY <1>1, <1>2, <1>3
  <2>2. \A e \in Up : e.s < f.s
    BY <1>4 DEF Agreed, Numbers, Up
  <2>3. /\ Up' = Up \cup {f} /\ Ordered'
        /\ \A c \in 1 .. MaxConns : wire'[c] # <<>> => c = conns
    BY <1>4, <2>1, <2>2, Written DEF Agreed
  <2>. QED  BY <1>1, <1>2, <2>3 DEF Agreed, LinkUp
<1>7. \A e : Down(e)' <=> Down(e)
  BY <1>2 DEF Down
<1>8. \A s \in Ids : s < nextId => s # nextId /\ s < nextId + 1
  BY <1>5 DEF Ids
<1>9. sessions[nextId] = None /\ owner[nextId] = None /\ nextId \notin Out
  BY <1>4, <1>5 DEF Agreed, Numbers
<1>10. ASSUME NEW e \in Frames, e \in Up \/ Down(e) PROVE e.s < nextId /\ e.s \in Nat
  BY <1>10 DEF Agreed, Numbers, Frames, Events, Ids
<1>11. Numbers'
  <2>1. \A s \in Ids : owner'[s] # None \/ sessions'[s] # None \/ s \in Out' => s < nextId'
    BY <1>1, <1>2, <1>5, <1>8 DEF Agreed, Numbers
  <2>2. \A e \in Frames : e \in Up' \/ Down(e)' => e.s < nextId'
    BY <1>1, <1>4, <1>5, <1>6, <1>7, <1>10
  <2>3. \A e, o \in Frames : Down(e)' /\ o \in Up' /\ IsOpen(o) => e.s < o.s
    BY <1>4, <1>6, <1>7, <1>10 DEF Agreed, Numbers
  <2>. QED  BY <2>1, <2>2, <2>3 DEF Numbers
<1>12. UpOpens'
  <2>1. ASSUME NEW o \in Up, IsOpen(o)
        PROVE  /\ sessions'[o.s] = None /\ o.s \notin Out' /\ owner'[o.s] \in {None, o.p}
               /\ owner'[o.s] # None \/ \E e \in Up' : IsClose(e) /\ e.s = o.s
    <3>1. o.s \in Ids /\ o.s # nextId
      BY <1>10, <1>5, <2>1 DEF Up, Frames, IsOpen
    <3>2. owner'[o.s] = owner[o.s]
      BY <1>5, <3>1
    <3>. QED  BY <1>2, <1>6, <2>1, <3>2 DEF Agreed, UpOpens
  <2>2. /\ sessions'[f.s] = None /\ f.s \notin Out' /\ owner'[f.s] \in {None, f.p}
        /\ owner'[f.s] # None
    BY <1>2, <1>4, <1>5, <1>9
  <2>. QED  BY <1>6, <2>1, <2>2 DEF UpOpens
<1>13. Closes'
  <2>1. ASSUME NEW e \in Frames, IsClose(e), e \in Up' \/ Down(e)' PROVE owner'[e.s] = None
    <3>1. (e \in Up \/ Down(e)) /\ e.s \in Ids
      BY <1>4, <1>6, <1>7, <2>1 DEF Frames, IsClose
    <3>2. e.s # nextId
      BY <1>5, <1>10, <3>1
    <3>. QED  BY <1>5, <2>1, <3>1, <3>2 DEF Agreed, Closes
  <2>. QED  BY <2>1 DEF Closes
<1>14. InboxRight' /\ MidRight' /\ PlayersListed' /\ KickGone' /\ ListedPlay'
  BY <1>2 DEF Agreed, InboxRight, MidRight, PlayersListed, KickGone, ListedPlay, Belongs,
              Home, Stopping
<1>15. OwnPlayer'
  <2>1. \A s \in Ids : sessions[s] # None => s # nextId
    BY <1>9
  <2>. QED  BY <1>2, <1>5, <2>1 DEF Agreed, OwnPlayer
<1>16. OwnedPlaced'
  <2>1. ASSUME NEW s \in Ids \ lost, owner'[s] # None
        PROVE  (\E o \in Up' : IsOpen(o) /\ o.s = s) \/ s \in Out' \/ sessions'[s] # None
    <3>1. CASE s = nextId
      BY <1>4, <1>6, <3>1
    <3>2. CASE s # nextId
      BY <1>2, <1>5, <1>6, <2>1, <3>2 DEF Agreed, OwnedPlaced
    <3>. QED  BY <3>1, <3>2
  <2>. QED  BY <1>2, <2>1 DEF OwnedPlaced
<1>17. EndedLeave'
  <2>1. ASSUME NEW s \in Ids \ lost, sessions'[s] # None
        PROVE  \/ owner'[s] # None \/ Stopping(s)'
               \/ \E e \in Frames : IsClose(e) /\ e.s = s /\ (e \in Up' \/ Down(e)')
    <3>1. sessions[s] # None /\ s # nextId /\ (Stopping(s)' <=> Stopping(s))
      BY <1>2, <1>9, <2>1 DEF Stopping
    <3>2. \/ owner[s] # None \/ Stopping(s)
          \/ \E e \in Frames : IsClose(e) /\ e.s = s /\ (e \in Up \/ Down(e))
      BY <3>1 DEF Agreed, EndedLeave
    <3>. QED  BY <1>5, <1>6, <1>7, <3>1, <3>2
  <2>. QED  BY <1>2, <2>1 DEF EndedLeave
<1>. QED  BY <1>6, <1>11, <1>12, <1>13, <1>14, <1>15, <1>16, <1>17 DEF Agreed

LEMMA EngineCloseAgreed ==
    ASSUME FramesInv, TableInv, TypeInv, Agreed, NEW c \in Ids, EngineClose(c)
    PROVE  Agreed'
<1>1. /\ owner[c] # None /\ owner' = [owner EXCEPT ![c] = None]
      /\ Write(Ev("close", c, 0)) /\ UNCHANGED <<nextId, peer, conns, engineOnly>>
  BY DEF EngineClose, engineOnly
<1>2. UNCHANGED <<In, Mid, Out, acc, routing, rooms, sessions, outbox, roomId, players,
                  inbox, pc, lost, dying, rconn, wconn, cur>>
  BY <1>1, EngineOnly
<1>3. PICK f : f = Ev("close", c, 0)
  OBVIOUS
<1>4. /\ f \in Frames /\ f.s = c /\ ~IsOpen(f) /\ IsClose(f)
  BY <1>3 DEF Ev, Frames, Events, Kinds, IsOpen, IsClose
<1>5. owner'[c] = None /\ \A s \in Ids : s # c => owner'[s] = owner[s]
  BY <1>1 DEF TypeInv, EngineTypes
<1>6. Up' = Up \cup {f} /\ Ordered' /\ LinkUp'
  <2>1. Write(f) /\ UNCHANGED <<acc, conns, inbox>>
    BY <1>1, <1>2, <1>3
  <2>2. /\ Up' = Up \cup {f} /\ Ordered'
        /\ \A d \in 1 .. MaxConns : wire'[d] # <<>> => d = conns
    BY <1>4, <2>1, Written DEF Agreed
  <2>. QED  BY <1>1, <1>2, <2>2 DEF Agreed, LinkUp
<1>7. \A e : Down(e)' <=> Down(e)
  BY <1>2 DEF Down
<1>8. Numbers'
  <2>1. \A s \in Ids : owner'[s] # None \/ sessions'[s] # None \/ s \in Out' => s < nextId'
    BY <1>1, <1>2, <1>5 DEF Agreed, Numbers
  <2>2. \A e \in Frames : e \in Up' \/ Down(e)' => e.s < nextId'
    BY <1>1, <1>4, <1>6, <1>7 DEF Agreed, Numbers
  <2>3. \A e, o \in Frames : Down(e)' /\ o \in Up' /\ IsOpen(o) => e.s < o.s
    BY <1>4, <1>6, <1>7 DEF Agreed, Numbers
  <2>. QED  BY <2>1, <2>2, <2>3 DEF Numbers
<1>9. UpOpens'
  <2>1. ASSUME NEW o \in Up, IsOpen(o)
        PROVE  /\ sessions'[o.s] = None /\ o.s \notin Out' /\ owner'[o.s] \in {None, o.p}
               /\ owner'[o.s] # None \/ \E e \in Up' : IsClose(e) /\ e.s = o.s
    <3>1. o.s \in Ids
      BY <2>1 DEF Up, Frames, IsOpen
    <3>2. /\ sessions[o.s] = None /\ o.s \notin Out /\ owner[o.s] \in {None, o.p}
          /\ owner[o.s] # None \/ \E e \in Up : IsClose(e) /\ e.s = o.s
      BY <2>1 DEF Agreed, UpOpens
    <3>. QED  BY <1>2, <1>4, <1>5, <1>6, <3>1, <3>2
  <2>. QED  BY <1>4, <1>6, <2>1 DEF UpOpens
<1>10. Closes'
  <2>1. ASSUME NEW e \in Frames, IsClose(e), e \in Up' \/ Down(e)' PROVE owner'[e.s] = None
    <3>1. e.s \in Ids
      BY <2>1 DEF Frames, IsClose
    <3>. QED  BY <1>4, <1>5, <1>6, <1>7, <2>1, <3>1 DEF Agreed, Closes
  <2>. QED  BY <2>1 DEF Closes
<1>11. InboxRight' /\ MidRight' /\ PlayersListed' /\ KickGone' /\ ListedPlay'
  BY <1>2 DEF Agreed, InboxRight, MidRight, PlayersListed, KickGone, ListedPlay, Belongs,
              Home, Stopping
<1>12. OwnPlayer'
  BY <1>2, <1>5 DEF Agreed, OwnPlayer
<1>13. OwnedPlaced'
  BY <1>2, <1>5, <1>6 DEF Agreed, OwnedPlaced
<1>14. EndedLeave'
  <2>1. ASSUME NEW s \in Ids \ lost, sessions'[s] # None
        PROVE  \/ owner'[s] # None \/ Stopping(s)'
               \/ \E e \in Frames : IsClose(e) /\ e.s = s /\ (e \in Up' \/ Down(e)')
    <3>1. sessions[s] # None /\ (Stopping(s)' <=> Stopping(s))
      BY <1>2, <2>1 DEF Stopping
    <3>2. \/ owner[s] # None \/ Stopping(s)
          \/ \E e \in Frames : IsClose(e) /\ e.s = s /\ (e \in Up \/ Down(e))
      BY <3>1 DEF Agreed, EndedLeave
    <3>. QED  BY <1>4, <1>5, <1>6, <1>7, <3>1, <3>2
  <2>. QED  BY <1>2, <2>1 DEF EndedLeave
<1>. QED  BY <1>6, <1>8, <1>9, <1>10, <1>11, <1>12, <1>13, <1>14 DEF Agreed

\* What is neither a SessionOpen nor a SessionClose is nobody's business here.
Idle(S) == \A e \in S : ~IsOpen(e) /\ ~IsClose(e) /\ e.s < nextId

LEMMA IdleAgreed ==
    ASSUME Agreed, LinkUp', Ordered', NEW S \in SUBSET Frames, Idle(S), Up' = Up \cup S,
           UNCHANGED <<In, Mid, Out, owner, nextId, routing, rooms, sessions, roomId,
                       players, pc, lost>>
    PROVE  Agreed'
<1>1. \A e : Down(e)' <=> Down(e)
  BY DEF Down
<1>2. \A e \in Up' : IsOpen(e) \/ IsClose(e) => e \in Up
  BY DEF Idle
<1>3. Numbers'
  <2>1. \A s \in Ids : owner'[s] # None \/ sessions'[s] # None \/ s \in Out' => s < nextId'
    BY DEF Agreed, Numbers
  <2>2. \A e \in Frames : e \in Up' \/ Down(e)' => e.s < nextId'
    BY <1>1 DEF Agreed, Numbers, Idle
  <2>3. \A e, o \in Frames : Down(e)' /\ o \in Up' /\ IsOpen(o) => e.s < o.s
    BY <1>1, <1>2 DEF Agreed, Numbers
  <2>. QED  BY <2>1, <2>2, <2>3 DEF Numbers
<1>4. UpOpens'
  BY <1>2 DEF Agreed, UpOpens
<1>5. Closes'
  BY <1>1, <1>2 DEF Agreed, Closes
<1>6. InboxRight' /\ MidRight' /\ PlayersListed' /\ KickGone' /\ ListedPlay'
  BY DEF Agreed, InboxRight, MidRight, PlayersListed, KickGone, ListedPlay, Belongs,
              Home, Stopping
<1>7. OwnPlayer' /\ OwnedPlaced'
  BY DEF Agreed, OwnPlayer, OwnedPlaced
<1>8. EndedLeave'
  <2>1. \A s : Stopping(s)' <=> Stopping(s)
    BY DEF Stopping
  <2>. QED  BY <1>1, <2>1 DEF Agreed, EndedLeave
<1>. QED  BY <1>3, <1>4, <1>5, <1>6, <1>7, <1>8 DEF Agreed

LEMMA EngineOtherAgreed ==
    ASSUME FramesInv, TableInv, TypeInv, Agreed, NEW f \in Frames, EngineOther(f),
           f.k \in {"data", "overload"}, f.k = "overload" => f.s = 0
    PROVE  Agreed'
<1>1. /\ f.k # "overload" => owner[f.s] # None
      /\ Write(f) /\ UNCHANGED <<owner, nextId, peer, conns, engineOnly>>
  BY DEF EngineOther, engineOnly
<1>2. UNCHANGED <<In, Mid, Out, acc, routing, rooms, sessions, outbox, roomId, players,
                  inbox, pc, lost, dying, rconn, wconn, cur>>
  BY <1>1, EngineOnly
<1>3. ~IsOpen(f) /\ ~IsClose(f)
  BY DEF IsOpen, IsClose
<1>4. f.s < nextId
  <2>1. CASE f.k = "data"
    BY <1>1, <2>1 DEF Agreed, Numbers, Frames
  <2>2. CASE f.k = "overload"
    BY <2>2 DEF FramesInv
  <2>. QED  BY <2>1, <2>2
<1>5. Up' = Up \cup {f} /\ Ordered' /\ LinkUp'
  <2>1. /\ Up' = Up \cup {f} /\ Ordered'
        /\ \A d \in 1 .. MaxConns : wire'[d] # <<>> => d = conns
    BY <1>1, <1>2, <1>3, Written DEF Agreed
  <2>. QED  BY <1>1, <1>2, <2>1 DEF Agreed, LinkUp
<1>6. {f} \in SUBSET Frames /\ Idle({f})
  BY <1>3, <1>4 DEF Idle
<1>. QED  BY <1>1, <1>2, <1>5, <1>6, IdleAgreed

\* What greets a connection.
LEMMA GreetingHas ==
    ASSUME NEW S \in SUBSET Ids, IsFiniteSet(S), NEW order \in SetToSeqs(S), NEW q,
           q = <<Ev("hello", 0, 0)>> \o [n \in DOMAIN order |-> Ev("resume", order[n], 0)]
    PROVE  /\ q \in Seq(Frames)
           /\ \A n \in DOMAIN q : ~IsOpen(q[n]) /\ ~IsClose(q[n]) /\ (q[n].s = 0 \/ q[n].s \in S)
<1>1. q \in Seq(Frames)
  BY Greeting
<1>2. order \in Seq(S)
  <2>1. Cardinality(S) \in Nat
    BY FS_CardinalityType
  <2>. QED  BY <2>1 DEF SetToSeqs
<1>3. PICK a : a = <<Ev("hello", 0, 0)>>
  OBVIOUS
<1>4. PICK b : b = [n \in DOMAIN order |-> Ev("resume", order[n], 0)]
  OBVIOUS
<1>5. Len(order) \in Nat /\ DOMAIN order = 1 .. Len(order) /\ \A n \in 1 .. Len(order) : order[n] \in S
  BY <1>2
<1>6. a \in Seq(Events) /\ b \in Seq(Events) /\ Len(a) = 1 /\ Len(b) = Len(order)
  BY <1>3, <1>4, <1>5 DEF Ev, Events, Kinds
<1>7. /\ DOMAIN q = 1 .. 1 + Len(order)
      /\ q[1] = Ev("hello", 0, 0)
      /\ \A n \in 2 .. 1 + Len(order) : q[n] = Ev("resume", order[n - 1], 0)
  <2>1. q = a \o b /\ a \in Seq(Events) /\ b \in Seq(Events)
    BY <1>3, <1>4, <1>6
  <2>2. /\ DOMAIN q = 1 .. Len(a) + Len(b)
        /\ \A n \in 1 .. Len(a) + Len(b) : q[n] = IF n <= Len(a) THEN a[n] ELSE b[n - Len(a)]
    BY ONLY <2>1
  <2>3. a[1] = Ev("hello", 0, 0)
    BY <1>3
  <2>4. \A n \in 2 .. 1 + Len(order) : n - 1 \in 1 .. Len(order)
    BY <1>5
  <2>. QED  BY <1>4, <1>5, <1>6, <2>2, <2>3, <2>4
<1>8. ASSUME NEW n \in DOMAIN q
      PROVE  ~IsOpen(q[n]) /\ ~IsClose(q[n]) /\ (q[n].s = 0 \/ q[n].s \in S)
  <2>1. CASE n = 1
    BY <1>7, <2>1 DEF Ev, IsOpen, IsClose
  <2>2. CASE n # 1
    <3>1. n \in 2 .. 1 + Len(order) /\ n - 1 \in 1 .. Len(order)
      BY <1>5, <1>7, <2>2
    <3>. QED  BY <1>5, <1>7, <3>1 DEF Ev, IsOpen, IsClose
  <2>. QED  BY <2>1, <2>2
<1>. QED  BY <1>1, <1>8

LEMMA EngineConnectAgreed ==
    ASSUME FramesInv, TableInv, TypeInv, Agreed, EngineConnect
    PROVE  Agreed'
<1>. DEFINE here == {s \in Ids : owner[s] # None}
            greeting(order) == <<Ev("hello", 0, 0)>>
                     \o [n \in DOMAIN order |-> Ev("resume", order[n], 0)]
<1>1. /\ ~peer /\ conns < MaxConns /\ peer' = TRUE /\ conns' = conns + 1
      /\ UNCHANGED <<owner, nextId, engineOnly>>
  BY DEF EngineConnect, engineOnly
<1>2. UNCHANGED <<In, Mid, Out, acc, routing, rooms, sessions, outbox, roomId, players,
                  inbox, pc, lost, dying, rconn, wconn, cur>>
  BY <1>1, EngineOnly
<1>3. PICK order \in SetToSeqs(here) : wire' = [wire EXCEPT ![conns + 1] = greeting(order)]
  BY DEF EngineConnect
<1>4. PICK q : q = greeting(order)
  OBVIOUS
<1>5. IsFiniteSet(here) /\ here \in SUBSET Ids
  BY IdsFinite
<1>6. /\ q \in Seq(Frames)
      /\ \A n \in DOMAIN q : ~IsOpen(q[n]) /\ ~IsClose(q[n]) /\ (q[n].s = 0 \/ q[n].s \in here)
  BY <1>4, <1>5, GreetingHas
<1>. HIDE DEF greeting
<1>7. conns = 0 /\ conns' = 1 /\ 1 \in 1 .. MaxConns /\ \A c \in 1 .. MaxConns : wire[c] = <<>>
  BY <1>1, Constants DEF Agreed, LinkUp
<1>8. wire'[1] = q /\ \A c \in 1 .. MaxConns : c # 1 => wire'[c] = <<>>
  BY <1>3, <1>4, <1>7 DEF FramesInv
<1>9. \A e, c : c \in 1 .. MaxConns /\ Has(wire'[c], e) => Has(q, e)
  BY <1>8 DEF Has
<1>10. ASSUME NEW e \in Frames, Has(q, e) PROVE ~IsOpen(e) /\ ~IsClose(e) /\ e.s < nextId
  <2>1. PICK n \in DOMAIN q : q[n] = e
    BY <1>10 DEF Has
  <2>2. e.s = 0 \/ e.s \in here
    BY <1>6, <2>1
  <2>3. nextId \in Nat /\ nextId > 0
    BY Constants DEF FramesInv
  <2>. QED  BY <1>6, <2>1, <2>2, <2>3 DEF Agreed, Numbers
<1>. DEFINE S == {e \in Frames : Has(q, e)}
<1>11. S \in SUBSET Frames /\ Idle(S)
  BY <1>10 DEF Idle
<1>12. Up' = Up \cup S
  <2>1. \A e \in Frames : Has(wire'[1], e) <=> Has(q, e)
    BY <1>8
  <2>2. \A e, c : c \in 1 .. MaxConns => ~Has(wire[c], e)
    BY <1>7 DEF Has
  <2>. QED  BY <1>2, <1>7, <1>9, <2>1, <2>2 DEF Up
<1>13. LinkUp'
  BY <1>1, <1>2, <1>7, <1>8 DEF Agreed, LinkUp
<1>14. Ordered'
  <2>1. ASSUME NEW c \in 1 .. MaxConns PROVE Ascends(wire'[c])
    BY <1>6, <1>8 DEF Ascends
  <2>2. \A e, o \in Frames : \A c \in 1 .. MaxConns :
            Has(acc, e) /\ Has(wire'[c], o) /\ IsOpen(o) => e.s < o.s
    BY <1>9, <1>10
  <2>. QED  BY <1>2, <2>1, <2>2 DEF Agreed, Ordered
<1>. HIDE DEF S
<1>. QED  BY <1>1, <1>2, <1>11, <1>12, <1>13, <1>14, IdleAgreed
-----------------------------------------------------------------------------
(* The connection.                                                         *)

LEMMA SameAgreed ==
    ASSUME Agreed, LinkUp', Ordered',
           UNCHANGED <<Up, In, Mid, Out, owner, nextId, routing, rooms, sessions, roomId,
                       players, pc, lost>>
    PROVE  Agreed'
<1>1. PICK S : S = {}
  OBVIOUS
<1>2. S \in SUBSET Frames /\ Idle(S) /\ Up' = Up \cup S
  BY <1>1 DEF Idle
<1>. QED  BY <1>2, IdleAgreed

LEMMA EnsureAgreed ==
    ASSUME FramesInv, TypeInv, Agreed, ReaderEnsure \/ WriterEnsure
    PROVE  Agreed'
<1>1. PICK conn \in 1 .. MaxConns : /\ Ensure(conn)
                                    /\ \/ rconn' = conn /\ wconn' = wconn
                                       \/ wconn' = conn /\ rconn' = rconn
  BY DEF ReaderEnsure, WriterEnsure
<1>2. UNCHANGED <<owner, nextId, peer, conns, wire, dying, acc, routing, rooms, sessions, outbox,
                  roomId, players, inbox, pc, lost>>
  BY DEF ReaderEnsure, WriterEnsure, engineVars, serverVars, roomVars
<1>3. UNCHANGED <<Up, In, Mid, Out>>
  BY <1>2 DEF Up, In, Mid, Out
<1>4. Ordered'
  BY <1>2 DEF Agreed, Ordered
<1>5. LinkUp'
  BY <1>1, <1>2 DEF Agreed, LinkUp, Ensure
<1>. QED  BY <1>2, <1>3, <1>4, <1>5, SameAgreed

LEMMA ReadAgreed ==
    ASSUME FramesInv, TypeInv, Agreed, ReadChunk
    PROVE  Agreed'
<1>1. PICK n \in DOMAIN wire[rconn] :
          /\ acc' = SubSeq(wire[rconn], 1, n)
          /\ wire' = [wire EXCEPT ![rconn] = SubSeq(@, n + 1, Len(@))]
  BY DEF ReadChunk
<1>2. UNCHANGED <<owner, nextId, peer, conns, dying, cur, rconn, wconn, routing, rooms, sessions,
                  outbox, roomId, players, inbox, pc, lost>>
  BY DEF ReadChunk, serverVars, roomVars
<1>3. acc = <<>> /\ rconn \in 1 .. MaxConns
  BY DEF ReadChunk, Reading, FramesInv
<1>4. PICK q : q = wire[rconn]
  OBVIOUS
<1>5. /\ q \in Seq(Frames) /\ Ascends(q) /\ Len(q) \in Nat /\ DOMAIN q = 1 .. Len(q)
      /\ n \in 1 .. Len(q) /\ n \in Nat
  BY <1>1, <1>3, <1>4 DEF FramesInv, Agreed, Ordered
<1>6. PICK a : a = SubSeq(q, 1, n)
  OBVIOUS
<1>7. PICK b : b = SubSeq(q, n + 1, Len(q))
  OBVIOUS
<1>8. /\ acc' = a /\ wire'[rconn] = b
      /\ \A c \in 1 .. MaxConns : c # rconn => wire'[c] = wire[c]
  BY <1>1, <1>3, <1>4, <1>6, <1>7 DEF FramesInv
<1>9. Ascends(a) /\ \A e : Has(a, e) => Has(q, e)
  <2>1. 1 \in 1 .. Len(q) + 1 /\ n \in 0 .. Len(q)
    BY <1>5
  <2>. QED  BY ONLY <1>5, <1>6, <2>1, AscendsSub
<1>10. Ascends(b) /\ \A e : Has(b, e) => Has(q, e)
  <2>1. PICK k, l : k = n + 1 /\ l = Len(q)
    OBVIOUS
  <2>2. k \in 1 .. Len(q) + 1 /\ l \in 0 .. Len(q)
    BY <1>5, <2>1
  <2>3. q \in Seq(Frames) /\ Ascends(q) /\ b = SubSeq(q, k, l)
    BY <1>5, <1>7, <2>1
  <2>. QED  BY ONLY <2>2, <2>3, AscendsSub
<1>11. /\ DOMAIN a = 1 .. n /\ \A m \in 1 .. n : a[m] = q[m]
       /\ DOMAIN b = 1 .. Len(q) - n /\ \A m \in 1 .. Len(q) - n : b[m] = q[n + m]
  BY <1>5, <1>6, <1>7
<1>12. \A e : Has(q, e) => Has(a, e) \/ Has(b, e)
  <2>1. ASSUME NEW e, Has(q, e) PROVE Has(a, e) \/ Has(b, e)
    <3>1. PICK m \in 1 .. Len(q) : q[m] = e
      BY <1>5, <2>1 DEF Has
    <3>2. CASE m <= n
      BY <1>5, <1>11, <3>1, <3>2 DEF Has
    <3>3. CASE ~(m <= n)
      <4>1. m - n \in 1 .. Len(q) - n /\ n + (m - n) = m
        BY <1>5, <3>3
      <4>. QED  BY <1>11, <3>1, <4>1 DEF Has
    <3>. QED  BY <3>2, <3>3
  <2>. QED  BY <2>1
<1>13. ASSUME NEW e, NEW o, Has(a, e), Has(b, o), IsOpen(o) PROVE e.s < o.s
  <2>1. PICK m \in 1 .. n : q[m] = e
    BY <1>11, <1>13 DEF Has
  <2>2. PICK k \in 1 .. Len(q) - n : q[n + k] = o
    BY <1>11, <1>13 DEF Has
  <2>3. n + k \in DOMAIN q /\ m \in 1 .. (n + k) - 1
    BY <1>5
  <2>. QED  BY <1>5, <1>13, <2>1, <2>2, <2>3 DEF Ascends
<1>14. \A c \in 1 .. MaxConns : c # rconn => wire[c] = <<>>
  BY <1>1, <1>3, <1>4, <1>5 DEF Agreed, LinkUp
<1>15. Up' = Up
  <2>1. ASSUME NEW e PROVE ~Has(acc, e)
    BY <1>3 DEF Has
  <2>2. ASSUME NEW e \in Frames PROVE e \in Up' <=> e \in Up
    BY <1>3, <1>4, <1>8, <1>9, <1>10, <1>12, <2>1 DEF Up
  <2>. QED  BY <2>2 DEF Up
<1>16. UNCHANGED <<In, Mid, Out>>
  BY <1>2 DEF In, Mid, Out
<1>17. LinkUp'
  <2>1. \A c \in 1 .. MaxConns : wire'[c] # <<>> => c = conns'
    <3>1. rconn = conns
      BY <1>1, <1>3, <1>4, <1>5 DEF Agreed, LinkUp
    <3>. QED  BY <1>2, <1>8, <1>14, <3>1
  <2>. QED  BY <1>2, <2>1 DEF Agreed, LinkUp
<1>18. Ordered'
  <2>1. \A c \in 1 .. MaxConns : Ascends(wire'[c])
    BY <1>8, <1>10 DEF Agreed, Ordered
  <2>2. ASSUME NEW e \in Frames, NEW o \in Frames, NEW c \in 1 .. MaxConns, Has(acc', e),
               Has(wire'[c], o), IsOpen(o)
        PROVE  e.s < o.s
    <3>1. c = rconn
      BY <1>8, <1>14, <2>2 DEF Has
    <3>. QED  BY <1>8, <1>13, <2>2, <3>1
  <2>. QED  BY <1>2, <1>8, <1>9, <2>1, <2>2 DEF Agreed, Ordered
<1>. QED  BY <1>2, <1>15, <1>16, <1>17, <1>18, SameAgreed

\* While the connection lasts nobody notices an end of it.
LEMMA NobodyDies ==
    ASSUME FramesInv, TypeInv, Agreed
    PROVE  ~ReadError /\ \A g \in Goroutines : ~OnEngineDead(g)
<1>1. ASSUME ReadError PROVE FALSE
  <2>1. rconn # 0 /\ (cur # rconn \/ ~peer \/ rconn # conns)
    BY <1>1 DEF ReadError, Reading, ClosedHere, ClosedThere
  <2>2. rconn = cur /\ conns \in 0 .. 1 /\ cur \in 0 .. conns
    BY <2>1 DEF Agreed, LinkUp, TypeInv, LinkTypes
  <2>. QED  BY <2>1, <2>2 DEF Agreed, LinkUp
<1>. QED  BY <1>1 DEF OnEngineDead, Agreed, LinkUp

LEMMA WriteAgreed ==
    ASSUME FramesInv, TableInv, TypeInv, Agreed, WriteFrame
    PROVE  Agreed'
<1>1. PICK k : k = Head(outbox)
  OBVIOUS
<1>2. wconn # 0 /\ wconn = cur /\ cur = conns /\ peer
  BY DEF WriteFrame, Agreed, LinkUp, TypeInv, LinkTypes
<1>3. /\ outbox # <<>> /\ outbox' = Tail(outbox) /\ wconn' = 0
      /\ owner' = [s \in Ids |-> IF s = k THEN None ELSE owner[s]]
      /\ UNCHANGED <<cur, dying, nextId, peer, conns, wire, rconn, acc, routing,
                     rooms, sessions, roomId, players, inbox, pc, lost>>
  BY <1>1, <1>2 DEF WriteFrame, ClosedHere, ClosedThere, roomVars
<1>4. /\ \A x : Has(outbox, x) <=> (Has(outbox', x) \/ x = k)
  <2>1. PICK S : S = Ids \cup {0}
    OBVIOUS
  <2>2. PICK q, r : q = outbox /\ r = outbox'
    OBVIOUS
  <2>3. q \in Seq(S) /\ q # <<>> /\ r = Tail(q) /\ k = Head(q)
    BY <1>1, <1>3, <2>1, <2>2 DEF TypeInv, Queues
  <2>4. \A x : Has(q, x) <=> (Has(r, x) \/ x = Head(q))
    BY ONLY <2>3, HasTail
  <2>. QED  BY <2>2, <2>3, <2>4
<1>5. Out' \subseteq Out /\ \A s \in Out : s \in Out' \/ s = k
  BY <1>4 DEF Out
<1>6. \A s \in Ids : s = k => s \in Out /\ owner'[s] = None
  BY <1>3, <1>4 DEF Out
<1>7. \A s \in Ids : owner'[s] = None \/ (owner'[s] = owner[s] /\ s # k)
  BY <1>3
<1>8. UNCHANGED <<Up, In, Mid>> /\ \A e : Down(e)' <=> Down(e)
  <2>1. UNCHANGED <<Up, In, Mid>>
    BY <1>3 DEF Up, In, Mid
  <2>. QED  BY <2>1 DEF Down
<1>9. LinkUp' /\ Ordered'
  BY <1>3 DEF Agreed, LinkUp, Ordered
<1>10. Numbers'
  <2>1. \A s \in Ids : owner'[s] # None \/ sessions'[s] # None \/ s \in Out' => s < nextId'
    BY <1>3, <1>5, <1>7 DEF Agreed, Numbers
  <2>2. \A e \in Frames : e \in Up' \/ Down(e)' => e.s < nextId'
    BY <1>3, <1>8 DEF Agreed, Numbers
  <2>3. \A e, o \in Frames : Down(e)' /\ o \in Up' /\ IsOpen(o) => e.s < o.s
    BY <1>8 DEF Agreed, Numbers
  <2>. QED  BY <2>1, <2>2, <2>3 DEF Numbers
<1>11. UpOpens'
  <2>1. ASSUME NEW o \in Up, IsOpen(o)
        PROVE  /\ sessions'[o.s] = None /\ o.s \notin Out' /\ owner'[o.s] \in {None, o.p}
               /\ owner'[o.s] # None \/ \E e \in Up' : IsClose(e) /\ e.s = o.s
    <3>1. o.s \in Ids
      BY <2>1 DEF Up, Frames, IsOpen
    <3>2. o.s \notin Out
      BY <2>1 DEF Agreed, UpOpens
    <3>3. owner'[o.s] = owner[o.s]
      BY <1>3, <1>6, <3>1, <3>2
    <3>. QED  BY <1>3, <1>5, <1>8, <2>1, <3>3 DEF Agreed, UpOpens
  <2>. QED  BY <1>8, <2>1 DEF UpOpens
<1>12. Closes'
  <2>1. ASSUME NEW e \in Frames, IsClose(e), e \in Up' \/ Down(e)' PROVE owner'[e.s] = None
    <3>1. e.s \in Ids
      BY <2>1 DEF Frames, IsClose
    <3>. QED  BY <1>7, <1>8, <2>1, <3>1 DEF Agreed, Closes
  <2>. QED  BY <2>1 DEF Closes
<1>13. InboxRight' /\ MidRight' /\ PlayersListed' /\ ListedPlay'
  BY <1>3, <1>8 DEF Agreed, InboxRight, MidRight, PlayersListed, ListedPlay, Belongs,
              Home, Stopping
<1>14. KickGone'
  BY <1>3, <1>5 DEF Agreed, KickGone, Stopping
<1>15. OwnPlayer'
  BY <1>3, <1>7 DEF Agreed, OwnPlayer
<1>16. OwnedPlaced'
  BY <1>3, <1>5, <1>7, <1>8 DEF Agreed, OwnedPlaced
<1>17. EndedLeave'
  <2>1. ASSUME NEW s \in Ids \ lost, sessions'[s] # None
        PROVE  \/ owner'[s] # None \/ Stopping(s)'
               \/ \E e \in Frames : IsClose(e) /\ e.s = s /\ (e \in Up' \/ Down(e)')
    <3>1. sessions[s] # None /\ (Stopping(s)' <=> Stopping(s))
      BY <1>3, <2>1 DEF Stopping
    <3>2. s = k => Stopping(s)
      BY <1>6, <3>1 DEF Agreed, KickGone
    <3>3. s # k => owner'[s] = owner[s]
      BY <1>3
    <3>. QED  BY <1>8, <3>1, <3>2, <3>3 DEF Agreed, EndedLeave
  <2>. QED  BY <1>3, <2>1 DEF EndedLeave
<1>. QED  BY <1>9, <1>10, <1>11, <1>12, <1>13, <1>14, <1>15, <1>16, <1>17 DEF Agreed
-----------------------------------------------------------------------------
(* The reader dispatches a frame.                                          *)

LEMMA Consumed ==
    ASSUME FramesInv, Agreed, acc # <<>>, acc' = Tail(acc), wire' = wire, NEW e, e = Head(acc)
    PROVE  /\ e \in Up /\ Up = Up' \cup {e} /\ \A o \in Up' : IsOpen(o) => e.s < o.s
           /\ (\A i \in Instances : Ascends(inbox'[i])) => Ordered'
<1>1. PICK q, r : q = acc /\ r = acc'
  OBVIOUS
<1>2. q \in Seq(Frames) /\ q # <<>> /\ r = Tail(q) /\ e = Head(q) /\ Ascends(q)
  BY <1>1 DEF FramesInv, Agreed, Ordered
<1>3. \A x : Has(q, x) <=> (Has(r, x) \/ x = e)
  <2>1. \A x : Has(q, x) <=> (Has(r, x) \/ x = Head(q))
    BY ONLY <1>2, HasTail
  <2>. QED  BY <1>2, <2>1
<1>4. Ascends(r) /\ \A o : Has(r, o) /\ IsOpen(o) => Head(q).s < o.s
  BY ONLY <1>2, AscendsTail
<1>5. e \in Frames
  BY <1>2
<1>6. e \in Up /\ Up = Up' \cup {e}
  <2>1. ASSUME NEW x PROVE x \in Up <=> x \in Up' \/ x = e
    BY <1>1, <1>3, <1>5 DEF Up
  <2>. QED  BY <2>1
<1>7. ASSUME NEW o \in Up', IsOpen(o) PROVE e.s < o.s
  <2>1. CASE Has(r, o)
    BY <1>2, <1>4, <1>7, <2>1
  <2>2. ASSUME NEW c \in 1 .. MaxConns, Has(wire[c], o) PROVE e.s < o.s
    <3>1. Has(acc, e) /\ o \in Frames
      BY <1>1, <1>3, <1>7 DEF Up
    <3>. QED  BY <1>5, <1>7, <2>2, <3>1 DEF Agreed, Ordered
  <2>. QED  BY <1>1, <1>7, <2>1, <2>2 DEF Up
<1>8. ASSUME \A i \in Instances : Ascends(inbox'[i]) PROVE Ordered'
  <2>1. \A x : Has(acc', x) => Has(acc, x)
    BY <1>1, <1>3
  <2>. QED  BY <1>1, <1>4, <1>8, <2>1 DEF Agreed, Ordered
<1>. QED  BY <1>6, <1>7, <1>8

\* What is known of a SessionOpen, o, that is dispatched.
LEMMA OpenNews ==
    ASSUME FramesInv, Agreed, NEW o \in Frames, IsOpen(o), acc # <<>>, o = Head(acc),
           acc' = Tail(acc), wire' = wire
    PROVE  /\ sessions[o.s] = None /\ o.s \notin Out /\ owner[o.s] \in {None, o.p}
           /\ owner[o.s] # None \/ \E e \in Up' : IsClose(e) /\ e.s = o.s
           /\ o.s < nextId
           /\ Up = Up' \cup {o}
           /\ \A e \in Up' : IsOpen(e) => o.s < e.s /\ e.s # o.s
           /\ \A e \in Frames : Down(e) => e.s < o.s /\ e.s # o.s
<1>1. o \in Up /\ Up = Up' \cup {o} /\ \A e \in Up' : IsOpen(e) => o.s < e.s
  BY Consumed
<1>2. \A e \in Frames : e.s \in Nat
  BY DEF Frames, Events, Ids
<1>3. \A e \in Up' : IsOpen(e) => o.s < e.s /\ e.s # o.s
  BY <1>1, <1>2 DEF Up
<1>4. \A e \in Frames : Down(e) => e.s < o.s /\ e.s # o.s
  BY <1>1, <1>2 DEF Agreed, Numbers
<1>5. /\ sessions[o.s] = None /\ o.s \notin Out /\ owner[o.s] \in {None, o.p}
      /\ owner[o.s] # None \/ \E e \in Up : IsClose(e) /\ e.s = o.s
  BY <1>1 DEF Agreed, UpOpens
<1>6. \A e \in Up : IsClose(e) => e \in Up'
  BY <1>1 DEF IsOpen, IsClose
<1>. QED  BY <1>1, <1>3, <1>4, <1>5, <1>6 DEF Agreed, Numbers

\* A session that gets no place.
LEMMA RefusedAgreed ==
    ASSUME FramesInv, TypeInv, Agreed, NEW o \in Frames, IsOpen(o), o.s \in Ids,
           acc # <<>>, o = Head(acc), acc' = Tail(acc),
           UNCHANGED <<engineVars, cur, rconn, wconn, dying, routing, rooms, sessions, roomId,
                       players, inbox, pc>>,
           outbox' = Sent(outbox, o.s), lost' = lost \cup Unsent(outbox, o.s)
    PROVE  Agreed'
<1>1. UNCHANGED <<owner, nextId, peer, conns, wire>>
  BY DEF engineVars
<1>2. /\ sessions[o.s] = None /\ o.s < nextId /\ Up = Up' \cup {o}
      /\ \A e \in Up' : IsOpen(e) => e.s # o.s
  BY <1>1, OpenNews
<1>3. Ordered'
  <2>1. \A i \in Instances : Ascends(inbox'[i])
    BY DEF Agreed, Ordered
  <2>. QED  BY <1>1, <2>1, Consumed
<1>4. Out \subseteq Out' /\ Out' \subseteq Out \cup {o.s} /\ (o.s \in Out' \/ o.s \in lost')
      /\ lost \subseteq lost'
  <2>1. o.s \in Ids \cup {0} /\ outbox \in Queues
    BY DEF TypeInv
  <2>2. /\ \A x : Has(outbox, x) => Has(outbox', x)
        /\ \A x : Has(outbox', x) => Has(outbox, x) \/ x = o.s
        /\ o.s \notin Unsent(outbox, o.s) => Has(outbox', o.s)
    BY <2>1, SentIs
  <2>. QED  BY <2>2 DEF Out
<1>5. UNCHANGED <<In, Mid>> /\ \A e : Down(e)' <=> Down(e)
  <2>1. UNCHANGED <<In, Mid>>
    BY DEF In, Mid
  <2>. QED  BY <2>1 DEF Down
<1>6. LinkUp'
  BY <1>1 DEF Agreed, LinkUp
<1>7. Numbers'
  <2>1. \A s \in Ids : owner'[s] # None \/ sessions'[s] # None \/ s \in Out' => s < nextId'
    BY <1>1, <1>2, <1>4 DEF Agreed, Numbers
  <2>2. \A e \in Frames : e \in Up' \/ Down(e)' => e.s < nextId'
    BY <1>1, <1>2, <1>5 DEF Agreed, Numbers
  <2>3. \A e, f \in Frames : Down(e)' /\ f \in Up' /\ IsOpen(f) => e.s < f.s
    BY <1>2, <1>5 DEF Agreed, Numbers
  <2>. QED  BY <2>1, <2>2, <2>3 DEF Numbers
<1>8. UpOpens'
  <2>1. ASSUME NEW f \in Up', IsOpen(f)
        PROVE  /\ sessions'[f.s] = None /\ f.s \notin Out' /\ owner'[f.s] \in {None, f.p}
               /\ owner'[f.s] # None \/ \E e \in Up' : IsClose(e) /\ e.s = f.s
    <3>1. f \in Up /\ f.s # o.s
      BY <1>2, <2>1
    <3>2. \A e \in Up : IsClose(e) => e \in Up'
      BY <1>2 DEF IsOpen, IsClose
    <3>. QED  BY <1>1, <1>4, <2>1, <3>1, <3>2 DEF Agreed, UpOpens
  <2>. QED  BY <2>1 DEF UpOpens
<1>9. Closes'
  BY <1>1, <1>2, <1>5 DEF Agreed, Closes
<1>10. InboxRight' /\ MidRight' /\ PlayersListed' /\ ListedPlay'
  BY <1>4, <1>5 DEF Agreed, InboxRight, MidRight, PlayersListed, ListedPlay, Belongs,
              Home, Stopping
<1>11. KickGone'
  BY <1>2, <1>4 DEF Agreed, KickGone, Stopping
<1>12. OwnPlayer'
  BY <1>1 DEF Agreed, OwnPlayer
<1>13. OwnedPlaced'
  <2>1. ASSUME NEW s \in Ids \ lost', owner'[s] # None
        PROVE  (\E f \in Up' : IsOpen(f) /\ f.s = s) \/ s \in Out' \/ sessions'[s] # None
    <3>1. CASE s = o.s
      BY <1>4, <2>1, <3>1
    <3>2. CASE s # o.s
      BY <1>1, <1>2, <1>4, <2>1, <3>2 DEF Agreed, OwnedPlaced
    <3>. QED  BY <3>1, <3>2
  <2>. QED  BY <2>1 DEF OwnedPlaced
<1>14. EndedLeave'
  <2>1. \A s : Stopping(s)' <=> Stopping(s)
    BY DEF Stopping
  <2>2. \A e \in Up : IsClose(e) => e \in Up'
    BY <1>2 DEF IsOpen, IsClose
  <2>. QED  BY <1>1, <1>4, <1>5, <2>1, <2>2 DEF Agreed, EndedLeave
<1>. QED  BY <1>3, <1>6, <1>7, <1>8, <1>9, <1>10, <1>11, <1>12, <1>13, <1>14 DEF Agreed

\* What a room that is made leaves as it is for those there are.
Undisturbed ==
    /\ \A s \in Ids : sessions[s] # None =>
          rooms'[sessions[s].room] = Home(s) /\ pc'[Home(s)] = pc[Home(s)]
    /\ \A s \in Ids, j \in Instances, p \in Players :
          Belongs(s, j, p) => roomId'[j] = roomId[j] /\ rooms'[roomId[j]] = j
    /\ \A j \in Instances : players[j] # Nobody => roomId'[j] = roomId[j]

\* A session that is admitted to room i.
LEMMA AdmittedAgreed ==
    ASSUME FramesInv, TableInv, TypeInv, RoomsInv, Agreed, NEW o \in Frames, IsOpen(o),
           o.s \in Ids, o.p \in Players, routing = None,
           acc # <<>>, o = Head(acc), acc' = Tail(acc),
           UNCHANGED <<engineVars, cur, rconn, wconn, dying, routing, outbox, players, lost>>,
           Undisturbed, NEW i \in Instances,
           roomId'[i] \in RoomIds, rooms'[roomId'[i]] = i,
           sessions' = [sessions EXCEPT ![o.s] = Ref(roomId'[i], o.p)],
           inbox' = [inbox EXCEPT ![i] = Append(@, o)]
    PROVE  Agreed'
<1>1. UNCHANGED <<owner, nextId, peer, conns, wire>>
  BY DEF engineVars
<1>2. /\ sessions[o.s] = None /\ o.s \notin Out /\ owner[o.s] \in {None, o.p}
      /\ owner[o.s] # None \/ \E e \in Up' : IsClose(e) /\ e.s = o.s
      /\ o.s < nextId /\ Up = Up' \cup {o}
      /\ \A e \in Up' : IsOpen(e) => o.s < e.s /\ e.s # o.s
      /\ \A e \in Frames : Down(e) => e.s < o.s /\ e.s # o.s
  BY <1>1, OpenNews
<1>3. /\ sessions \in [Ids -> Refs \cup {None}] /\ inbox \in [Instances -> Boxes]
      /\ None \notin Ids /\ None \notin Refs
  BY Constants DEF TableInv, TableTypes, TypeInv, RoomTypes, Ids
<1>4. PICK ref : ref = Ref(roomId'[i], o.p)
  OBVIOUS
<1>5. /\ sessions'[o.s] = ref /\ ref \in Refs /\ ref # None
      /\ ref.room = roomId'[i] /\ ref.player = o.p
      /\ \A s \in Ids : s # o.s => sessions'[s] = sessions[s]
  BY <1>3, <1>4 DEF Ref, Refs
<1>6. PICK q, r : q = inbox[i] /\ r = inbox'[i]
  OBVIOUS
<1>7. /\ q \in Seq(Frames) /\ r = Append(q, o)
      /\ \A j \in Instances : j # i => inbox'[j] = inbox[j]
  BY <1>3, <1>6 DEF Boxes
<1>8. \A x : Has(r, x) <=> (Has(q, x) \/ x = o)
  BY ONLY <1>7, o \in Frames, HasAppend
<1>9. /\ In'[i] = In[i] \cup {o} /\ \A j \in Instances : j # i => In'[j] = In[j]
  BY <1>6, <1>7, <1>8 DEF In
<1>10. Mid' = {} /\ Mid = {} /\ Out' = Out
  BY DEF Mid, Out
<1>11. \A e : Down(e)' <=> Down(e) \/ e = o
  <2>1. \A e : Down(e)' => Down(e) \/ e = o
    BY <1>9, <1>10 DEF Down
  <2>2. \A e : Down(e) => Down(e)'
    <3>1. ASSUME NEW j \in Instances, NEW e \in In[j] PROVE e \in In'[j]
      BY <1>9, <3>1
    <3>. QED  BY <1>10, <3>1 DEF Down
  <2>3. Down(o)'
    BY <1>9 DEF Down
  <2>. QED  BY <2>1, <2>2, <2>3
<1>12. \A j \in Instances : \A e \in In[j] : e \in Frames /\ Down(e)
  BY DEF In, Down
<1>13. Ordered'
  <2>1. Ascends(r)
    <3>1. \A e : Has(q, e) => e.s < o.s
      <4>1. ASSUME NEW e, Has(q, e) PROVE e.s < o.s
        <5>1. e \in In[i]
          <6>1. e \in Frames
            BY <1>7, <4>1 DEF Has
          <6>. QED  BY <1>6, <4>1, <6>1 DEF In
        <5>. QED  BY <1>2, <1>12, <5>1
      <4>. QED  BY <4>1
    <3>2. Ascends(q)
      BY <1>6 DEF Agreed, Ordered
    <3>. QED  BY ONLY <1>7, <3>1, <3>2, o \in Frames, AscendsAppend
  <2>2. \A j \in Instances : Ascends(inbox'[j])
    BY <1>6, <1>7, <2>1 DEF Agreed, Ordered
  <2>. QED  BY <1>1, <2>2, Consumed
<1>14. LinkUp'
  BY <1>1 DEF Agreed, LinkUp
<1>15. Numbers'
  <2>1. \A s \in Ids : owner'[s] # None \/ sessions'[s] # None \/ s \in Out' => s < nextId'
    BY <1>1, <1>2, <1>5, <1>10 DEF Agreed, Numbers
  <2>2. \A e \in Frames : e \in Up' \/ Down(e)' => e.s < nextId'
    BY <1>1, <1>2, <1>11 DEF Agreed, Numbers
  <2>3. \A e, f \in Frames : Down(e)' /\ f \in Up' /\ IsOpen(f) => e.s < f.s
    BY <1>2, <1>11 DEF Agreed, Numbers
  <2>. QED  BY <2>1, <2>2, <2>3 DEF Numbers
<1>16. \A e \in Up : IsClose(e) => e \in Up'
  BY <1>2 DEF IsOpen, IsClose
<1>17. UpOpens'
  <2>1. ASSUME NEW f \in Up', IsOpen(f)
        PROVE  /\ sessions'[f.s] = None /\ f.s \notin Out' /\ owner'[f.s] \in {None, f.p}
               /\ owner'[f.s] # None \/ \E e \in Up' : IsClose(e) /\ e.s = f.s
    <3>1. f \in Up /\ f.s # o.s /\ f.s \in Ids
      BY <1>2, <2>1 DEF Up, Frames, IsOpen
    <3>. QED  BY <1>1, <1>5, <1>10, <1>16, <2>1, <3>1 DEF Agreed, UpOpens
  <2>. QED  BY <2>1 DEF UpOpens
<1>18. Closes'
  <2>1. ~IsClose(o)
    BY DEF IsOpen, IsClose
  <2>. QED  BY <1>1, <1>2, <1>11, <2>1 DEF Agreed, Closes
<1>19. \A j \in Instances, p \in Players : players[j][p] # o.s
  <2>1. ASSUME NEW j \in Instances, NEW p \in Players, players[j][p] # None
        PROVE  sessions[players[j][p]] # None
    <3>1. players[j] # Nobody
      BY <2>1 DEF Nobody
    <3>2. roomId[j] \in RoomIds
      BY <3>1 DEF RoomsInv, RoomsStand, Runs, Stands
    <3>3. Ref(roomId[j], p) \in Refs
      BY <3>2 DEF Ref, Refs
    <3>. QED  BY <1>3, <2>1, <3>3 DEF Agreed, PlayersListed
  <2>. QED  BY <1>2, <1>3, <2>1
<1>20. ASSUME NEW s \in Ids, s # o.s, NEW j \in Instances, NEW p \in Players, Belongs(s, j, p)
       PROVE  Belongs(s, j, p)'
  BY <1>5, <1>20 DEF Undisturbed, Belongs
<1>21. InboxRight'
  <2>1. ASSUME NEW j \in Instances, NEW e \in In[j]
        PROVE  /\ IsOpen(e) => Belongs(e.s, j, e.p)' /\ \A p \in Players : players'[j][p] # e.s
               /\ IsClose(e) /\ sessions'[e.s] # None => Belongs(e.s, j, e.p)'
    <3>1. /\ e \in Frames /\ e.s # o.s
          /\ IsOpen(e) => e.s \in Ids /\ e.p \in Players
          /\ IsClose(e) => e.s \in Ids
      BY <1>2, <1>12 DEF Frames, IsOpen, IsClose
    <3>2. ASSUME IsOpen(e)
          PROVE  Belongs(e.s, j, e.p)' /\ \A p \in Players : players'[j][p] # e.s
      BY <1>20, <2>1, <3>1, <3>2 DEF Agreed, InboxRight
    <3>3. ASSUME IsClose(e), sessions'[e.s] # None PROVE Belongs(e.s, j, e.p)'
      <4>1. Belongs(e.s, j, e.p) /\ e.s \in Ids /\ sessions[e.s] # None
        BY <1>5, <2>1, <3>1, <3>3 DEF Agreed, InboxRight
      <4>2. e.p \in Players
        <5>1. Ref(roomId[j], e.p) \in Refs
          BY <1>3, <4>1 DEF Belongs
        <5>. QED  BY <5>1 DEF Ref, Refs
      <4>. QED  BY <1>20, <3>1, <4>1, <4>2
    <3>. QED  BY <3>2, <3>3
  <2>2. Belongs(o.s, i, o.p)' /\ ~IsClose(o)
    BY <1>4, <1>5 DEF Belongs, IsOpen, IsClose
  <2>3. ASSUME NEW j \in Instances, NEW e \in In'[j]
        PROVE  /\ IsOpen(e) => Belongs(e.s, j, e.p)' /\ \A p \in Players : players'[j][p] # e.s
               /\ IsClose(e) /\ sessions'[e.s] # None => Belongs(e.s, j, e.p)'
    <3>1. CASE e \in In[j]
      BY <2>1, <3>1
    <3>2. CASE j = i /\ e = o
      BY <1>19, <2>2, <3>2
    <3>. QED  BY <1>9, <2>3, <3>1, <3>2
  <2>. QED  BY <2>3 DEF InboxRight
<1>22. MidRight'
  BY <1>10 DEF MidRight
<1>23. PlayersListed'
  <2>1. ASSUME NEW j \in Instances, NEW p \in Players, players'[j][p] # None
        PROVE  sessions'[players'[j][p]] = Ref(roomId'[j], p)
    <3>1. PICK t : t = players[j][p]
      OBVIOUS
    <3>2. t \in Ids /\ sessions[t] = Ref(roomId[j], p) /\ t # o.s
      BY <1>19, <2>1, <3>1 DEF Agreed, PlayersListed, TypeInv, RoomTypes
    <3>3. players[j] # Nobody
      BY <2>1 DEF Nobody
    <3>. QED  BY <1>5, <3>1, <3>2, <3>3 DEF Undisturbed
  <2>. QED  BY <2>1 DEF PlayersListed
<1>24. OwnPlayer'
  BY <1>1, <1>2, <1>5 DEF Agreed, OwnPlayer
<1>25. ASSUME NEW s \in Ids, s # o.s, sessions[s] # None
       PROVE  Home(s)' = Home(s) /\ (Stopping(s)' <=> Stopping(s)) /\ Home(s) \in Instances
  <2>1. Home(s)' = Home(s) /\ (Stopping(s)' <=> Stopping(s))
    BY <1>5, <1>25 DEF Undisturbed, Home, Stopping
  <2>2. sessions[s].room \in RoomIds
    BY <1>3, <1>25 DEF Refs
  <2>3. Home(s) \in Instances
    BY <1>25, <2>2 DEF Home, TableInv, TableTypes, SessionRoomLives
  <2>. QED  BY <2>1, <2>3
<1>26. KickGone'
  <2>1. ASSUME NEW s \in Out PROVE sessions'[s] = None \/ Stopping(s)'
    <3>1. s \in Ids /\ s # o.s
      BY <1>2, <2>1 DEF Out
    <3>. QED  BY <1>5, <1>25, <2>1, <3>1 DEF Agreed, KickGone
  <2>. QED  BY <1>10, <2>1 DEF KickGone
<1>27. ListedPlay'
  <2>1. ASSUME NEW s \in Ids \ lost, sessions'[s] # None
        PROVE  \/ players'[Home(s)'][sessions'[s].player] = s
               \/ \E e \in In'[Home(s)'] : IsOpen(e) /\ e.s = s
               \/ Stopping(s)'
    <3>1. CASE s = o.s
      <4>1. Home(s)' = i
        BY <1>5, <3>1 DEF Home
      <4>2. o \in In'[i]
        BY <1>9
      <4>. QED  BY <3>1, <4>1, <4>2
    <3>2. CASE s # o.s
      <4>1. sessions'[s] = sessions[s] /\ Home(s)' = Home(s) /\ (Stopping(s)' <=> Stopping(s))
            /\ Home(s) \in Instances /\ sessions[s] # None
        BY <1>5, <1>25, <2>1, <3>2
      <4>2. In[Home(s)] \subseteq In'[Home(s)]
        BY <1>9, <4>1
      <4>3. \/ players[Home(s)][sessions[s].player] = s
            \/ \E e \in In[Home(s)] : IsOpen(e) /\ e.s = s
            \/ Stopping(s)
        BY <4>1 DEF Agreed, ListedPlay
      <4>. QED  BY <4>1, <4>2, <4>3
    <3>. QED  BY <3>1, <3>2
  <2>. QED  BY <2>1 DEF ListedPlay
<1>28. OwnedPlaced'
  <2>1. ASSUME NEW s \in Ids \ lost, owner'[s] # None
        PROVE  (\E f \in Up' : IsOpen(f) /\ f.s = s) \/ s \in Out' \/ sessions'[s] # None
    <3>1. CASE s = o.s
      BY <1>5, <3>1
    <3>2. CASE s # o.s
      BY <1>1, <1>2, <1>5, <1>10, <2>1, <3>2 DEF Agreed, OwnedPlaced
    <3>. QED  BY <3>1, <3>2
  <2>. QED  BY <2>1 DEF OwnedPlaced
<1>29. EndedLeave'
  <2>1. ASSUME NEW s \in Ids \ lost, sessions'[s] # None
        PROVE  \/ owner'[s] # None \/ Stopping(s)'
               \/ \E e \in Frames : IsClose(e) /\ e.s = s /\ (e \in Up' \/ Down(e)')
    <3>1. CASE s = o.s
      <4>1. Up' \subseteq Frames
        BY DEF Up
      <4>. QED  BY <1>1, <1>2, <3>1, <4>1
    <3>2. CASE s # o.s
      BY <1>1, <1>5, <1>11, <1>16, <1>25, <2>1, <3>2 DEF Agreed, EndedLeave
    <3>. QED  BY <3>1, <3>2
  <2>. QED  BY <2>1 DEF EndedLeave
<1>. QED  BY <1>13, <1>14, <1>15, <1>17, <1>18, <1>21, <1>22, <1>23, <1>24, <1>26, <1>27, <1>28,
             <1>29 DEF Agreed

\* handleSessionOpen.
LEMMA OpenAgreed ==
    ASSUME FramesInv, TableInv, TypeInv, RoomsInv, Agreed, HandleSessionOpen
    PROVE  Agreed'
<1>1. PICK o \in Frames :
              /\ acc # <<>> /\ o = Head(acc) /\ acc' = Tail(acc) /\ routing = None
              /\ o.k = "open" /\ o.s \in Ids /\ o.p \in Players
              /\ UNCHANGED <<engineVars, accepted, cur, rconn, wconn, dying, routing, cut>>
              /\ \/ Refuse(o.s)
                 \/ sessions[o.s] # None /\ UNCHANGED <<serverVars, roomVars, lost>>
                 \/ \E id \in RoomIds, i \in Instances :
                       JoinsRoom(id, i, o) \/ CreatesRoom(id, i, o)
  BY OpenIs DEF TableInv
<1>2. IsOpen(o) /\ o = Ev("open", o.s, o.p)
  BY <1>1, EventIs DEF IsOpen
<1>3. CASE Refuse(o.s)
  <2>1. /\ outbox' = Sent(outbox, o.s) /\ lost' = lost \cup Unsent(outbox, o.s)
        /\ UNCHANGED <<rooms, sessions, roomId, players, inbox, pc>>
    BY <1>3 DEF Refuse, roomVars
  <2>. QED  BY <1>1, <1>2, <2>1, RefusedAgreed
<1>4. CASE sessions[o.s] # None
  <2>1. wire' = wire
    BY <1>1 DEF engineVars
  <2>. QED  BY <1>1, <1>2, <1>4, <2>1, OpenNews
<1>5. ASSUME NEW id \in RoomIds, NEW i \in Instances, JoinsRoom(id, i, o)
      PROVE  Agreed'
  <2>1. /\ rooms[id] = i /\ UNCHANGED <<rooms, roomId, players, pc>> /\ Admit(i, o.s, o.p)
    BY <1>5 DEF JoinsRoom
  <2>2. roomId[i] = id
    BY <2>1, Constants DEF TableInv, RoomsOwnIds, Instances
  <2>3. CASE Len(inbox[i]) < InboxCap
    <3>1. /\ sessions' = [sessions EXCEPT ![o.s] = Ref(roomId'[i], o.p)]
          /\ inbox' = [inbox EXCEPT ![i] = Append(@, o)] /\ UNCHANGED <<outbox, lost>>
      BY <1>2, <2>1, <2>3 DEF Admit
    <3>2. Undisturbed
      BY <2>1 DEF Undisturbed, Home, Belongs
    <3>3. roomId'[i] \in RoomIds /\ rooms'[roomId'[i]] = i
      BY <2>1, <2>2
    <3>. QED  BY <1>1, <1>2, <2>1, <3>1, <3>2, <3>3, AdmittedAgreed
  <2>4. CASE ~(Len(inbox[i]) < InboxCap)
    <3>1. /\ outbox' = Sent(outbox, o.s) /\ lost' = lost \cup Unsent(outbox, o.s)
          /\ UNCHANGED <<sessions, inbox>>
      BY <2>1, <2>4 DEF Admit
    <3>. QED  BY <1>1, <1>2, <2>1, <3>1, RefusedAgreed
  <2>. QED  BY <2>3, <2>4
<1>6. ASSUME NEW id \in RoomIds, NEW i \in Instances, CreatesRoom(id, i, o)
      PROVE  Agreed'
  <2>1. /\ rooms[id] = None /\ pc[i] = "unborn" /\ Admit(i, o.s, o.p)
        /\ rooms' = [rooms EXCEPT ![id] = i]
        /\ roomId' = [roomId EXCEPT ![i] = id]
        /\ pc' = [pc EXCEPT ![i] = "idle"]
        /\ UNCHANGED players
    BY <1>6 DEF CreatesRoom, NewRoom, NewInstance
  <2>2. /\ rooms' [id] = i /\ \A x \in RoomIds \ {id} : rooms'[x] = rooms[x]
        /\ roomId'[i] = id /\ \A j \in Instances \ {i} : roomId'[j] = roomId[j]
        /\ pc'[i] = "idle" /\ \A j \in Instances \ {i} : pc'[j] = pc[j]
    BY <2>1 DEF TableInv, TableTypes
  <2>3. Len(inbox[i]) < InboxCap
    <3>1. inbox[i] = <<>>
      BY <2>1 DEF RoomsInv, RoomsStand
    <3>2. PICK none : none = <<>>
      OBVIOUS
    <3>3. Len(none) = 0 /\ 0 < InboxCap
      BY <3>2, Constants
    <3>. QED  BY <3>1, <3>2, <3>3
  <2>4. /\ sessions' = [sessions EXCEPT ![o.s] = Ref(roomId'[i], o.p)]
        /\ inbox' = [inbox EXCEPT ![i] = Append(@, o)] /\ UNCHANGED <<outbox, lost>>
    BY <1>2, <2>1, <2>3 DEF Admit
  <2>5. ASSUME NEW x \in RoomIds, rooms[x] # None
        PROVE  /\ rooms[x] \in Instances \ {i} /\ rooms'[x] = rooms[x]
               /\ roomId'[rooms[x]] = roomId[rooms[x]] /\ pc'[rooms[x]] = pc[rooms[x]]
    <3>1. x # id /\ rooms[x] \in Instances /\ pc[rooms[x]] # "unborn"
      BY <2>1, <2>5 DEF TableInv, TableTypes, RoomsOwnIds
    <3>2. rooms[x] # i
      BY <2>1, <3>1
    <3>. QED  BY <2>2, <3>1, <3>2
  <2>6. Undisturbed
    <3>1. ASSUME NEW s \in Ids, sessions[s] # None
          PROVE  rooms'[sessions[s].room] = Home(s) /\ pc'[Home(s)] = pc[Home(s)]
      <4>1. sessions[s].room \in RoomIds
        BY <3>1 DEF TableInv, TableTypes, Refs
      <4>2. rooms[sessions[s].room] # None
        BY <3>1 DEF TableInv, SessionRoomLives
      <4>. QED  BY <2>5, <4>1, <4>2 DEF Home
    <3>2. ASSUME NEW s \in Ids, NEW j \in Instances, NEW p \in Players, Belongs(s, j, p)
          PROVE  roomId'[j] = roomId[j] /\ rooms'[roomId[j]] = j
      <4>1. rooms[roomId[j]] = j /\ j # None
        BY <3>2, Constants DEF Belongs, Instances
      <4>2. roomId[j] \in RoomIds
        <5>1. Ref(roomId[j], p) \in Refs
          BY <3>2 DEF Belongs, TableInv, TableTypes
        <5>. QED  BY <5>1 DEF Ref, Refs
      <4>. QED  BY <2>5, <4>1, <4>2
    <3>3. ASSUME NEW j \in Instances, players[j] # Nobody PROVE roomId'[j] = roomId[j]
      <4>1. j # i
        BY <2>1, <3>3 DEF RoomsInv, RoomsStand, Runs
      <4>. QED  BY <2>2, <4>1
    <3>. QED  BY <3>1, <3>2, <3>3 DEF Undisturbed
  <2>7. roomId'[i] \in RoomIds /\ rooms'[roomId'[i]] = i
    BY <2>2
  <2>. QED  BY <1>1, <1>2, <2>1, <2>4, <2>6, <2>7, AdmittedAgreed
<1>. QED  BY <1>1, <1>3, <1>4, <1>5, <1>6

\* routeToRoom, under the lock.
LEMMA RouteAgreed ==
    ASSUME FramesInv, TableInv, TypeInv, Agreed, RouteToRoom
    PROVE  Agreed'
<1>1. PICK e \in Frames :
              /\ acc # <<>> /\ e = Head(acc) /\ acc' = Tail(acc) /\ routing = None
              /\ e.k \in {"close", "resume", "data"} /\ e.s \in Ids
              /\ \/ sessions[e.s] = None /\ routing' = None
                 \/ /\ sessions[e.s] # None /\ sessions[e.s] \in Refs
                    /\ routing' = [to |-> rooms[sessions[e.s].room],
                                   e |-> Ev(e.k, e.s, sessions[e.s].player)]
                    /\ rooms[sessions[e.s].room] \in Instances
                    /\ Ev(e.k, e.s, sessions[e.s].player) \in Frames
              /\ UNCHANGED <<engineVars, accepted, cur, rconn, wconn, dying, serverVars,
                             roomVars, lost, cut>>
  BY RouteIs
<1>2. UNCHANGED <<owner, nextId, peer, conns, wire, cur, rconn, wconn, dying, rooms, sessions,
                  outbox, roomId, players, inbox, pc, lost>>
  BY <1>1 DEF engineVars, serverVars, roomVars
<1>3. /\ e \in Up /\ Up = Up' \cup {e} /\ \A o \in Up' : IsOpen(o) => e.s < o.s /\ e.s # o.s
      /\ ~IsOpen(e)
  <2>1. e \in Up /\ Up = Up' \cup {e} /\ \A o \in Up' : IsOpen(o) => e.s < o.s
    BY <1>1, <1>2, Consumed
  <2>2. \A o \in Up' : e.s \in Nat /\ o.s \in Nat
    BY DEF Up, Frames, Events, Ids
  <2>. QED  BY <1>1, <2>1, <2>2 DEF IsOpen
<1>4. Mid = {} /\ UNCHANGED <<In, Out>>
  BY <1>1, <1>2 DEF Mid, In, Out
<1>5. ASSUME NEW x \in Mid'
      PROVE  /\ x \in Frames /\ x.s = e.s /\ x.k = e.k /\ sessions[e.s] # None
             /\ Belongs(x.s, routing'.to, x.p)
  <2>1. routing' # None /\ x = routing'.e
    BY <1>5 DEF Mid
  <2>2. PICK ref : ref = sessions[e.s]
    OBVIOUS
  <2>3. /\ ref # None /\ ref \in Refs /\ routing'.to = rooms[ref.room]
        /\ x = Ev(e.k, e.s, ref.player) /\ x \in Frames /\ rooms[ref.room] \in Instances
    BY <1>1, <2>1, <2>2
  <2>4. x.s = e.s /\ x.k = e.k /\ x.p = ref.player
    BY <2>3 DEF Ev
  <2>5. ref.room \in RoomIds /\ ref = Ref(ref.room, ref.player)
    BY <2>3 DEF Refs, Ref
  <2>6. roomId[rooms[ref.room]] = ref.room
    BY <2>3, <2>5, Constants DEF TableInv, RoomsOwnIds, Instances
  <2>. QED  BY <2>2, <2>3, <2>4, <2>5, <2>6 DEF Belongs
<1>6. sessions[e.s] # None => \E x \in Mid' : x.s = e.s /\ x.k = e.k
  <2>1. ASSUME sessions[e.s] # None PROVE \E x \in Mid' : x.s = e.s /\ x.k = e.k
    <3>1. PICK x : x = Ev(e.k, e.s, sessions[e.s].player)
      OBVIOUS
    <3>2. x \in Frames /\ routing'.e = x /\ routing' \in [to : Instances, e : Frames]
      BY <1>1, <2>1, <3>1
    <3>3. routing' # None
      <4>1. routing' \in [to : Instances, e : Events]
        BY <3>2 DEF Frames
      <4>. QED  BY <4>1, Constants
    <3>4. x \in Mid' /\ x.s = e.s /\ x.k = e.k
      BY <3>1, <3>2, <3>3 DEF Mid, Ev
    <3>. QED  BY <3>4
  <2>. QED  BY <2>1
<1>7. \A x : Down(x)' <=> Down(x) \/ x \in Mid'
  BY <1>4 DEF Down
<1>8. LinkUp' /\ Ordered'
  <2>1. LinkUp'
    BY <1>2 DEF Agreed, LinkUp
  <2>2. \A i \in Instances : Ascends(inbox'[i])
    BY <1>2 DEF Agreed, Ordered
  <2>. QED  BY <1>1, <1>2, <2>1, <2>2, Consumed
<1>9. Numbers'
  <2>1. \A s \in Ids : owner'[s] # None \/ sessions'[s] # None \/ s \in Out' => s < nextId'
    BY <1>2, <1>4 DEF Agreed, Numbers
  <2>2. \A x \in Frames : x \in Up' \/ Down(x)' => x.s < nextId'
    BY <1>2, <1>3, <1>5, <1>7 DEF Agreed, Numbers
  <2>3. \A x, o \in Frames : Down(x)' /\ o \in Up' /\ IsOpen(o) => x.s < o.s
    BY <1>3, <1>5, <1>7 DEF Agreed, Numbers
  <2>. QED  BY <2>1, <2>2, <2>3 DEF Numbers
<1>10. UpOpens'
  <2>1. ASSUME NEW o \in Up', IsOpen(o)
        PROVE  /\ sessions'[o.s] = None /\ o.s \notin Out' /\ owner'[o.s] \in {None, o.p}
               /\ owner'[o.s] # None \/ \E x \in Up' : IsClose(x) /\ x.s = o.s
    <3>1. \A x \in Up : x.s = o.s => x \in Up'
      BY <1>3, <2>1
    <3>. QED  BY <1>2, <1>3, <1>4, <2>1, <3>1 DEF Agreed, UpOpens
  <2>. QED  BY <2>1 DEF UpOpens
<1>11. Closes'
  <2>1. ASSUME NEW x \in Mid', IsClose(x) PROVE owner[x.s] = None
    BY <1>3, <1>5, <2>1 DEF Agreed, Closes, IsClose
  <2>. QED  BY <1>2, <1>3, <1>7, <2>1 DEF Agreed, Closes
<1>12. InboxRight' /\ PlayersListed' /\ KickGone' /\ ListedPlay'
  BY <1>2, <1>4 DEF Agreed, InboxRight, PlayersListed, KickGone, ListedPlay, Belongs,
              Home, Stopping
<1>13. MidRight'
  <2>1. UNCHANGED <<sessions, roomId, rooms>>
    BY <1>2
  <2>. QED  BY <1>5, <2>1 DEF MidRight, Belongs
<1>14. OwnPlayer'
  BY <1>2 DEF Agreed, OwnPlayer
<1>15. OwnedPlaced'
  BY <1>2, <1>3, <1>4 DEF Agreed, OwnedPlaced
<1>16. EndedLeave'
  <2>1. ASSUME NEW s \in Ids \ lost, sessions'[s] # None
        PROVE  \/ owner'[s] # None \/ Stopping(s)'
               \/ \E x \in Frames : IsClose(x) /\ x.s = s /\ (x \in Up' \/ Down(x)')
    <3>1. sessions[s] # None /\ (Stopping(s)' <=> Stopping(s))
      BY <1>2, <2>1 DEF Stopping
    <3>2. CASE s = e.s /\ IsClose(e)
      BY <1>5, <1>6, <1>7, <3>1, <3>2 DEF IsClose
    <3>3. CASE ~(s = e.s /\ IsClose(e))
      BY <1>2, <1>3, <1>7, <3>1, <3>3 DEF Agreed, EndedLeave
    <3>. QED  BY <3>2, <3>3
  <2>. QED  BY <1>2, <2>1 DEF EndedLeave
<1>. QED  BY <1>8, <1>9, <1>10, <1>11, <1>12, <1>13, <1>14, <1>15, <1>16 DEF Agreed

\* An event of another kind that is offered to inboxes.
LEMMA SendAgreed ==
    ASSUME FramesInv, TableInv, TypeInv, RoomsInv, Agreed, SendToRoom
    PROVE  Agreed'
<1>1. /\ routing # None /\ routing' = None
      /\ inbox' = [inbox EXCEPT ![routing.to] = Offer(@, routing.e)]
      /\ lost' = IF routing.e.k = "close" /\ Len(inbox[routing.to]) >= InboxCap
                 THEN lost \cup {routing.e.s} ELSE lost
      /\ UNCHANGED <<owner, nextId, peer, conns, wire, cur, rconn, wconn, dying, acc, rooms,
                     sessions, outbox, roomId, players, pc>>
  BY DEF SendToRoom, serverVars, engineVars
<1>2. PICK i, e : i = routing.to /\ e = routing.e
  OBVIOUS
<1>3. i \in Instances /\ e \in Frames /\ ~IsOpen(e) /\ Mid = {e} /\ Mid' = {}
  <2>1. i \in Instances /\ e \in Frames /\ e.k # "open"
    BY <1>1, <1>2 DEF TypeInv, LinkTypes, RoomsInv, RoomsStand
  <2>. QED  BY <1>1, <1>2, <2>1 DEF Mid, IsOpen
<1>4. PICK q, r : q = inbox[i] /\ r = inbox'[i]
  OBVIOUS
<1>5. /\ q \in Boxes /\ q \in Seq(Frames) /\ Ascends(q) /\ r = Offer(q, e)
      /\ \A j \in Instances : j # i => inbox'[j] = inbox[j]
  BY <1>1, <1>2, <1>3, <1>4 DEF TypeInv, RoomTypes, Boxes, Agreed, Ordered
<1>6. /\ \A x : Has(q, x) => Has(r, x)
      /\ \A x : Has(r, x) => Has(q, x) \/ x = e
      /\ Len(q) < InboxCap => Has(r, e)
      /\ r = q \/ r = Append(q, e)
  BY <1>3, <1>5, OfferIs
<1>7. Ascends(r)
  <2>1. CASE r = q
    BY <1>5, <2>1
  <2>2. CASE r = Append(q, e)
    <3>1. IsOpen(e) => \A x : Has(q, x) => x.s < e.s
      BY <1>3
    <3>2. e \in Frames /\ q \in Seq(Frames) /\ Ascends(q)
      BY <1>3, <1>5
    <3>. QED  BY ONLY <2>2, <3>1, <3>2, AscendsAppend
  <2>. QED  BY <1>6, <2>1, <2>2
<1>8. /\ In[i] \subseteq In'[i] /\ In'[i] \subseteq In[i] \cup {e}
      /\ \A j \in Instances : j # i => In'[j] = In[j]
      /\ Len(q) < InboxCap => e \in In'[i]
  BY <1>3, <1>4, <1>5, <1>6 DEF In
<1>9. UNCHANGED <<Up, Out>>
  BY <1>1 DEF Up, Out
<1>10. \A x : Down(x)' => Down(x)
  BY <1>3, <1>8 DEF Down
<1>11. ASSUME NEW x \in Frames, Down(x), IsClose(x) PROVE Down(x)' \/ x.s \in lost'
  <2>1. ASSUME NEW j \in Instances, x \in In[j] PROVE Down(x)'
    BY <1>8, <2>1 DEF Down
  <2>2. CASE x = e
    <3>1. CASE Len(q) < InboxCap
      BY <1>3, <1>8, <2>2, <3>1 DEF Down
    <3>2. CASE ~(Len(q) < InboxCap)
      <4>1. Len(inbox[routing.to]) >= InboxCap /\ routing.e.k = "close"
        <5>1. Len(q) \in Nat /\ InboxCap \in Nat
          BY <1>5, Constants
        <5>. QED  BY <1>2, <1>4, <1>11, <2>2, <3>2, <5>1 DEF IsClose
      <4>. QED  BY <1>1, <1>2, <2>2, <4>1
    <3>. QED  BY <3>1, <3>2
  <2>. QED  BY <1>3, <1>11, <2>1, <2>2 DEF Down
<1>12. lost \subseteq lost'
  BY <1>1
<1>13. LinkUp' /\ Ordered'
  <2>1. LinkUp'
    BY <1>1 DEF Agreed, LinkUp
  <2>2. \A j \in Instances : Ascends(inbox'[j])
    BY <1>4, <1>5, <1>7 DEF Agreed, Ordered
  <2>. QED  BY <1>1, <2>1, <2>2 DEF Agreed, Ordered
<1>14. Numbers'
  <2>1. \A s \in Ids : owner'[s] # None \/ sessions'[s] # None \/ s \in Out' => s < nextId'
    BY <1>1, <1>9 DEF Agreed, Numbers
  <2>2. \A x \in Frames : x \in Up' \/ Down(x)' => x.s < nextId'
    BY <1>1, <1>9, <1>10 DEF Agreed, Numbers
  <2>3. \A x, o \in Frames : Down(x)' /\ o \in Up' /\ IsOpen(o) => x.s < o.s
    BY <1>9, <1>10 DEF Agreed, Numbers
  <2>. QED  BY <2>1, <2>2, <2>3 DEF Numbers
<1>15. UpOpens'
  BY <1>1, <1>9 DEF Agreed, UpOpens
<1>16. Closes'
  BY <1>1, <1>9, <1>10 DEF Agreed, Closes
<1>17. InboxRight'
  <2>1. UNCHANGED <<sessions, roomId, rooms, players>>
    BY <1>1
  <2>2. ASSUME NEW j \in Instances, NEW x \in In'[j]
        PROVE  /\ IsOpen(x) => Belongs(x.s, j, x.p) /\ \A p \in Players : players[j][p] # x.s
               /\ IsClose(x) /\ sessions[x.s] # None => Belongs(x.s, j, x.p)
    <3>1. CASE x \in In[j]
      BY <3>1 DEF Agreed, InboxRight
    <3>2. CASE j = i /\ x = e
      BY <1>2, <1>3, <3>2 DEF Agreed, MidRight
    <3>. QED  BY <1>8, <2>2, <3>1, <3>2
  <2>. QED  BY <2>1, <2>2 DEF InboxRight, Belongs
<1>18. MidRight'
  BY <1>3 DEF MidRight
<1>19. PlayersListed' /\ OwnPlayer' /\ KickGone'
  BY <1>1, <1>9 DEF Agreed, PlayersListed, OwnPlayer, KickGone, Stopping
<1>20. ListedPlay'
  <2>1. ASSUME NEW s \in Ids \ lost, sessions[s] # None
        PROVE  \/ players[Home(s)][sessions[s].player] = s
               \/ \E x \in In'[Home(s)] : IsOpen(x) /\ x.s = s
               \/ Stopping(s)
    <3>1. sessions[s] \in Refs
      BY <2>1 DEF TableInv, TableTypes
    <3>2. sessions[s].room \in RoomIds
      BY <3>1 DEF Refs
    <3>3. Home(s) \in Instances
      BY <2>1, <3>2 DEF TableInv, TableTypes, SessionRoomLives, Home
    <3>4. In[Home(s)] \subseteq In'[Home(s)]
      BY <1>8, <3>3
    <3>. QED  BY <2>1, <3>4 DEF Agreed, ListedPlay
  <2>. QED  BY <1>1, <1>12, <2>1 DEF ListedPlay, Home, Stopping
<1>21. OwnedPlaced'
  BY <1>1, <1>9, <1>12 DEF Agreed, OwnedPlaced
<1>22. EndedLeave'
  <2>1. \A s : Stopping(s)' <=> Stopping(s)
    BY <1>1 DEF Stopping
  <2>. QED  BY <1>1, <1>9, <1>11, <1>12, <2>1 DEF Agreed, EndedLeave
<1>. QED  BY <1>13, <1>14, <1>15, <1>16, <1>17, <1>18, <1>19, <1>20, <1>21, <1>22 DEF Agreed
\* EngineHello and Overload.
LEMMA GlobalAgreed ==
    ASSUME FramesInv, TableInv, TypeInv, Agreed, DispatchGlobal
    PROVE  Agreed'
<1>1. PICK e \in Frames :
              /\ acc # <<>> /\ e = Head(acc) /\ acc' = Tail(acc) /\ routing = None
              /\ \/ e.k = "hello" /\ outbox' = Sent(outbox, 0) /\ UNCHANGED inbox
                 \/ /\ e.k = "overload" /\ UNCHANGED outbox
                    /\ inbox' = [i \in Instances |->
                           IF \E id \in OpenRooms : rooms[id] = i
                           THEN Offer(inbox[i], e) ELSE inbox[i]]
              /\ UNCHANGED <<engineVars, accepted, cur, rconn, wconn, dying, routing, rooms,
                             sessions, roomId, players, stopReq, pc, lost, cut>>
  BY GlobalIs
<1>2. UNCHANGED <<owner, nextId, peer, conns, wire, cur, rconn, wconn, dying, routing, rooms,
                  sessions, roomId, players, pc, lost>>
  BY <1>1 DEF engineVars
<1>3. /\ e \in Up /\ Up = Up' \cup {e} /\ \A o \in Up' : IsOpen(o) => e.s < o.s
      /\ ~IsOpen(e) /\ ~IsClose(e)
  <2>1. e \in Up /\ Up = Up' \cup {e} /\ \A o \in Up' : IsOpen(o) => e.s < o.s
    BY <1>1, <1>2, Consumed
  <2>. QED  BY <1>1, <2>1 DEF IsOpen, IsClose
<1>4. UNCHANGED <<Mid, Out>>
  <2>1. Mid' = Mid
    BY <1>2 DEF Mid
  <2>2. CASE outbox' = outbox
    BY <2>1, <2>2 DEF Out
  <2>3. CASE outbox' = Sent(outbox, 0)
    <3>1. /\ \A x : Has(outbox, x) => Has(outbox', x)
          /\ \A x : Has(outbox', x) => Has(outbox, x) \/ x = 0
      BY <2>3, SentIs DEF TypeInv
    <3>2. 0 \notin Ids
      BY DEF Ids
    <3>. QED  BY <2>1, <3>1, <3>2 DEF Out
  <2>. QED  BY <1>1, <2>2, <2>3
<1>5. ASSUME NEW i \in Instances
      PROVE  /\ In[i] \subseteq In'[i] /\ In'[i] \subseteq In[i] \cup {e}
             /\ Ascends(inbox'[i])
  <2>1. PICK q, r : q = inbox[i] /\ r = inbox'[i]
    OBVIOUS
  <2>2. q \in Boxes /\ q \in Seq(Frames) /\ Ascends(q) /\ (r = q \/ r = Offer(q, e))
    BY <1>1, <2>1 DEF TypeInv, RoomTypes, Boxes, Agreed, Ordered
  <2>3. CASE r = q
    BY <2>1, <2>2, <2>3 DEF In
  <2>4. CASE r = Offer(q, e)
    <3>1. /\ \A x : Has(q, x) => Has(r, x)
          /\ \A x : Has(r, x) => Has(q, x) \/ x = e
          /\ r = q \/ r = Append(q, e)
      BY <2>2, <2>4, OfferIs
    <3>2. Ascends(r)
      <4>1. IsOpen(e) => \A x : Has(q, x) => x.s < e.s
        BY <1>3
      <4>2. e \in Frames /\ q \in Seq(Frames) /\ Ascends(q)
        BY <2>2
      <4>3. r = Append(q, e) => Ascends(r)
        BY ONLY <4>1, <4>2, AscendsAppend
      <4>. QED  BY <3>1, <4>2, <4>3
    <3>. QED  BY <2>1, <3>1, <3>2 DEF In
  <2>. QED  BY <2>2, <2>3, <2>4
<1>6. \A x : (Down(x) => Down(x)') /\ (Down(x)' => Down(x) \/ x = e)
  <2>1. \A i \in Instances : In[i] \subseteq In'[i] /\ In'[i] \subseteq In[i] \cup {e}
    BY <1>5
  <2>. QED  BY <1>4, <2>1 DEF Down
<1>7. LinkUp' /\ Ordered'
  <2>1. LinkUp'
    BY <1>2 DEF Agreed, LinkUp
  <2>. QED  BY <1>1, <1>2, <1>5, <2>1, Consumed
<1>8. Numbers'
  <2>1. \A s \in Ids : owner'[s] # None \/ sessions'[s] # None \/ s \in Out' => s < nextId'
    BY <1>2, <1>4 DEF Agreed, Numbers
  <2>2. \A x \in Frames : x \in Up' \/ Down(x)' => x.s < nextId'
    BY <1>2, <1>3, <1>6 DEF Agreed, Numbers
  <2>3. \A x, o \in Frames : Down(x)' /\ o \in Up' /\ IsOpen(o) => x.s < o.s
    BY <1>3, <1>6 DEF Agreed, Numbers
  <2>. QED  BY <2>1, <2>2, <2>3 DEF Numbers
<1>9. \A x \in Up : IsOpen(x) \/ IsClose(x) => x \in Up'
  BY <1>3
<1>10. UpOpens'
  <2>1. ASSUME NEW o \in Up', IsOpen(o)
        PROVE  /\ sessions'[o.s] = None /\ o.s \notin Out' /\ owner'[o.s] \in {None, o.p}
               /\ owner'[o.s] # None \/ \E x \in Up' : IsClose(x) /\ x.s = o.s
    BY <1>2, <1>3, <1>4, <1>9, <2>1 DEF Agreed, UpOpens
  <2>. QED  BY <2>1 DEF UpOpens
<1>11. Closes'
  BY <1>2, <1>3, <1>6 DEF Agreed, Closes
<1>12. InboxRight'
  <2>1. UNCHANGED <<sessions, roomId, rooms, players>>
    BY <1>2
  <2>2. ASSUME NEW j \in Instances, NEW x \in In'[j]
        PROVE  /\ IsOpen(x) => Belongs(x.s, j, x.p) /\ \A p \in Players : players[j][p] # x.s
               /\ IsClose(x) /\ sessions[x.s] # None => Belongs(x.s, j, x.p)
    <3>1. x \in In[j] \/ x = e
      BY <1>5, <2>2
    <3>. QED  BY <1>3, <3>1 DEF Agreed, InboxRight
  <2>. QED  BY <2>1, <2>2 DEF InboxRight, Belongs
<1>13. MidRight' /\ PlayersListed' /\ OwnPlayer' /\ KickGone'
  BY <1>2, <1>4 DEF Agreed, MidRight, Belongs, PlayersListed, OwnPlayer, KickGone, Stopping
<1>14. ListedPlay'
  <2>1. ASSUME NEW s \in Ids \ lost, sessions[s] # None
        PROVE  \/ players[Home(s)][sessions[s].player] = s
               \/ \E x \in In'[Home(s)] : IsOpen(x) /\ x.s = s
               \/ Stopping(s)
    <3>1. sessions[s] \in Refs
      BY <2>1 DEF TableInv, TableTypes
    <3>2. sessions[s].room \in RoomIds
      BY <3>1 DEF Refs
    <3>3. Home(s) \in Instances
      BY <2>1, <3>2 DEF TableInv, TableTypes, SessionRoomLives, Home
    <3>4. In[Home(s)] \subseteq In'[Home(s)]
      BY <1>5, <3>3
    <3>. QED  BY <2>1, <3>4 DEF Agreed, ListedPlay
  <2>. QED  BY <1>2, <2>1 DEF ListedPlay, Home, Stopping
<1>15. OwnedPlaced'
  BY <1>2, <1>4, <1>9 DEF Agreed, OwnedPlaced
<1>16. EndedLeave'
  <2>1. \A s : Stopping(s)' <=> Stopping(s)
    BY <1>2 DEF Stopping
  <2>. QED  BY <1>2, <1>6, <1>9, <2>1 DEF Agreed, EndedLeave
<1>. QED  BY <1>7, <1>8, <1>10, <1>11, <1>12, <1>13, <1>14, <1>15, <1>16 DEF Agreed
-----------------------------------------------------------------------------
(* The goroutine of a room.                                                *)

\* What a step of it may do to the sessions and the events.
RoomMay ==
    /\ UNCHANGED <<engineVars, connVars>> /\ lost \subseteq lost'
    /\ \A j \in Instances : In'[j] \subseteq In[j] /\ Ascends(inbox'[j])
    /\ \A s \in Ids :
          /\ sessions'[s] \in {sessions[s], None}
          /\ sessions[s] # None /\ sessions'[s] = None =>
                owner[s] = None \/ s \in Out' \/ s \in lost'
          /\ sessions'[s] # None /\ Stopping(s) => Stopping(s)'
          /\ s \in Out => s \in Out'
          /\ s \in Out' /\ s \notin Out =>
                sessions[s] # None /\ (sessions'[s] = None \/ Stopping(s)')
          /\ \A j \in Instances, p \in Players :
                Belongs(s, j, p) /\ sessions'[s] # None => Belongs(s, j, p)'
    /\ \A j \in Instances : \A e \in In[j] :
          IsClose(e) /\ e \notin In'[j] => sessions'[e.s] = None \/ e.s \in lost'
    /\ \A j \in Instances : \A e \in In'[j] :
          IsOpen(e) => sessions'[e.s] # None /\ \A p \in Players : players'[j][p] # e.s

LEMMA RoomAgreed ==
    ASSUME FramesInv, TableInv, TypeInv, Agreed, RoomMay, PlayersListed', ListedPlay'
    PROVE  Agreed'
<1>1. UNCHANGED <<owner, nextId, peer, conns, wire, acc, cur, rconn, wconn, dying, routing>>
  BY DEF RoomMay, engineVars, connVars
<1>2. UNCHANGED <<Up, Mid>> /\ Mid \subseteq Frames /\ Up \subseteq Frames
  BY <1>1 DEF Up, Mid
<1>3. \A x : Down(x)' => Down(x)
  BY <1>2 DEF RoomMay, Down
<1>4. \A s \in Ids : sessions'[s] # None => sessions'[s] = sessions[s] /\ sessions[s] # None
  BY DEF RoomMay
<1>5. sessions \in [Ids -> Refs \cup {None}]
  BY DEF TableInv, TableTypes
<1>6. ASSUME NEW e \in Frames, IsOpen(e) \/ IsClose(e)
      PROVE  e.s \in Ids /\ (IsOpen(e) => e.p \in Players)
  BY <1>6 DEF Frames, IsOpen, IsClose
<1>7. ASSUME NEW s \in Ids, NEW j \in Instances, NEW p, Belongs(s, j, p), sessions'[s] # None
      PROVE  Belongs(s, j, p)'
  <2>1. p \in Players
    <3>1. Ref(roomId[j], p) \in Refs
      BY <1>5, <1>7 DEF Belongs
    <3>. QED  BY <3>1 DEF Ref, Refs
  <2>. QED  BY <1>7, <2>1 DEF RoomMay
<1>8. LinkUp' /\ Ordered'
  BY <1>1 DEF Agreed, LinkUp, Ordered, RoomMay
<1>9. Numbers'
  <2>1. \A s \in Ids : owner'[s] # None \/ sessions'[s] # None \/ s \in Out' => s < nextId'
    BY <1>1, <1>4 DEF Agreed, Numbers, RoomMay
  <2>2. \A x \in Frames : x \in Up' \/ Down(x)' => x.s < nextId'
    BY <1>1, <1>2, <1>3 DEF Agreed, Numbers
  <2>3. \A x, o \in Frames : Down(x)' /\ o \in Up' /\ IsOpen(o) => x.s < o.s
    BY <1>2, <1>3 DEF Agreed, Numbers
  <2>. QED  BY <2>1, <2>2, <2>3 DEF Numbers
<1>10. UpOpens'
  <2>1. ASSUME NEW o \in Up, IsOpen(o)
        PROVE  /\ sessions'[o.s] = None /\ o.s \notin Out' /\ owner'[o.s] \in {None, o.p}
               /\ owner'[o.s] # None \/ \E x \in Up : IsClose(x) /\ x.s = o.s
    <3>1. o.s \in Ids
      BY <1>2, <1>6, <2>1
    <3>. QED  BY <1>1, <1>4, <2>1, <3>1 DEF Agreed, UpOpens, RoomMay
  <2>. QED  BY <1>2, <2>1 DEF UpOpens
<1>11. Closes'
  BY <1>1, <1>2, <1>3 DEF Agreed, Closes
<1>12. InboxRight'
  <2>1. ASSUME NEW j \in Instances, NEW e \in In'[j]
        PROVE  /\ IsOpen(e) => Belongs(e.s, j, e.p)' /\ \A p \in Players : players'[j][p] # e.s
               /\ IsClose(e) /\ sessions'[e.s] # None => Belongs(e.s, j, e.p)'
    <3>1. e \in In[j] /\ e \in Frames
      BY <2>1 DEF RoomMay, In
    <3>2. ASSUME IsOpen(e)
          PROVE  Belongs(e.s, j, e.p)' /\ \A p \in Players : players'[j][p] # e.s
      <4>1. Belongs(e.s, j, e.p) /\ e.s \in Ids
        BY <1>6, <3>1, <3>2 DEF Agreed, InboxRight
      <4>2. sessions'[e.s] # None /\ \A p \in Players : players'[j][p] # e.s
        BY <2>1, <3>2 DEF RoomMay
      <4>. QED  BY <1>7, <4>1, <4>2
    <3>3. ASSUME IsClose(e), sessions'[e.s] # None PROVE Belongs(e.s, j, e.p)'
      <4>1. e.s \in Ids
        BY <1>6, <3>1, <3>3
      <4>2. Belongs(e.s, j, e.p)
        BY <1>4, <3>1, <3>3, <4>1 DEF Agreed, InboxRight
      <4>. QED  BY <1>7, <3>3, <4>1, <4>2
    <3>. QED  BY <3>2, <3>3
  <2>. QED  BY <2>1 DEF InboxRight
<1>13. MidRight'
  <2>1. ASSUME NEW e \in Mid, IsClose(e), sessions'[e.s] # None
        PROVE  Belongs(e.s, routing.to, e.p)'
    <3>1. PICK j : j = routing.to
      OBVIOUS
    <3>2. e.s \in Ids /\ j \in Instances
      BY <1>2, <1>6, <2>1, <3>1 DEF Mid, TypeInv, LinkTypes
    <3>3. Belongs(e.s, j, e.p)
      BY <1>4, <2>1, <3>1, <3>2 DEF Agreed, MidRight
    <3>4. Belongs(e.s, j, e.p)'
      BY <1>7, <2>1, <3>2, <3>3
    <3>. QED  BY <1>1, <3>1, <3>4 DEF Belongs
  <2>. QED  BY <1>1, <1>2, <2>1 DEF MidRight, Belongs
<1>14. OwnPlayer'
  BY <1>1, <1>4 DEF Agreed, OwnPlayer
<1>15. KickGone'
  <2>1. ASSUME NEW s \in Out', sessions'[s] # None PROVE Stopping(s)'
    <3>1. s \in Ids
      BY <2>1 DEF Out
    <3>. QED  BY <1>4, <2>1, <3>1 DEF Agreed, KickGone, RoomMay
  <2>. QED  BY <2>1 DEF KickGone
<1>16. OwnedPlaced'
  BY <1>1, <1>2 DEF Agreed, OwnedPlaced, RoomMay
<1>17. EndedLeave'
  <2>1. ASSUME NEW s \in Ids \ lost', sessions'[s] # None
        PROVE  \/ owner[s] # None \/ Stopping(s)'
               \/ \E e \in Frames : IsClose(e) /\ e.s = s /\ (e \in Up \/ Down(e)')
    <3>1. /\ s \in Ids \ lost /\ sessions[s] # None /\ (Stopping(s) => Stopping(s)')
      BY <1>4, <2>1 DEF RoomMay
    <3>2. ASSUME NEW e \in Frames, IsClose(e), e.s = s, Down(e) PROVE Down(e)'
      <4>1. CASE e \in Mid
        BY <1>2, <4>1 DEF Down
      <4>2. ASSUME NEW j \in Instances, e \in In[j] PROVE Down(e)'
        <5>1. e \in In'[j]
          BY <2>1, <3>2, <4>2 DEF RoomMay
        <5>. QED  BY <5>1 DEF Down
      <4>. QED  BY <3>2, <4>1, <4>2 DEF Down
    <3>. QED  BY <3>1, <3>2 DEF Agreed, EndedLeave
  <2>. QED  BY <1>1, <1>2, <2>1 DEF EndedLeave
<1>. QED  BY <1>8, <1>9, <1>10, <1>11, <1>12, <1>13, <1>14, <1>15, <1>16, <1>17 DEF Agreed
LEMMA AdvanceAgreed ==
    ASSUME FramesInv, TableInv, TypeInv, Agreed, NEW i \in Instances, AdvanceReturn(i)
    PROVE  Agreed'
<1>1. /\ pc[i] = "advance" /\ pc' = [pc EXCEPT ![i] = After(i, stopReq[i])]
      /\ UNCHANGED <<engineVars, connVars, rooms, sessions, outbox, roomId, players, inbox, lost>>
  BY DEF AdvanceReturn, serverVars
<1>2. UNCHANGED <<In, Out>>
  BY <1>1 DEF In, Out
<1>3. \A j \in Instances \ {i} : pc'[j] = pc[j]
  BY <1>1 DEF TableInv, TableTypes
<1>4. ASSUME NEW s \in Ids, sessions[s] # None, Stopping(s) PROVE Stopping(s)'
  <2>1. sessions[s].room \in RoomIds
    BY <1>4 DEF TableInv, TableTypes, Refs
  <2>2. rooms[sessions[s].room] \in Instances
    BY <1>4, <2>1 DEF TableInv, TableTypes, SessionRoomLives
  <2>3. rooms[sessions[s].room] # i
    BY <1>1, <1>4 DEF Stopping
  <2>. QED  BY <1>1, <1>3, <1>4, <2>2, <2>3 DEF Stopping
<1>5. \A s, j, p : Belongs(s, j, p)' <=> Belongs(s, j, p)
  BY <1>1 DEF Belongs
<1>6. RoomMay
  <2>1. \A j \in Instances : Ascends(inbox'[j])
    BY <1>1 DEF Agreed, Ordered
  <2>2. \A j \in Instances : \A e \in In[j] :
            IsOpen(e) => sessions'[e.s] # None /\ \A p \in Players : players'[j][p] # e.s
    BY <1>1 DEF Agreed, InboxRight, Belongs
  <2>. QED  BY <1>1, <1>2, <1>4, <1>5, <2>1, <2>2 DEF RoomMay
<1>7. PlayersListed'
  BY <1>1 DEF Agreed, PlayersListed
<1>8. ListedPlay'
  BY <1>1, <1>2, <1>4 DEF Agreed, ListedPlay, Home
<1>. QED  BY <1>6, <1>7, <1>8, RoomAgreed

\* The room of a session, and the sessions of a room that is in the table.
LEMMA HomeIs ==
    ASSUME TableInv, NEW s \in Ids, sessions[s] # None
    PROVE  /\ sessions[s] \in Refs /\ sessions[s].room \in RoomIds
           /\ sessions[s].player \in Players /\ Home(s) \in Instances
           /\ roomId[Home(s)] = sessions[s].room
<1>1. sessions[s] \in Refs /\ sessions[s].room \in RoomIds /\ sessions[s].player \in Players
  BY DEF TableInv, TableTypes, Refs
<1>2. rooms[sessions[s].room] # None
  BY DEF TableInv, SessionRoomLives
<1>. QED  BY <1>1, <1>2 DEF Home, TableInv, TableTypes, RoomsOwnIds

LEMMA RefIs == \A x, p, y, q : Ref(x, p).room = x /\ Ref(x, p).player = p
                               /\ (Ref(x, p) = Ref(y, q) => x = y /\ p = q)
  BY DEF Ref

\* Who is in a room, and the room is in the table.
LEMMA PlayersHome ==
    ASSUME TableInv, TypeInv, RoomsInv, Agreed, NEW j \in Instances, NEW p \in Players,
           players[j][p] # None, NEW s, s = players[j][p]
    PROVE  /\ s \in Ids /\ sessions[s] = Ref(roomId[j], p) /\ sessions[s] # None
           /\ Belongs(s, j, p) /\ Home(s) = j
<1>1. s \in Ids /\ sessions[s] = Ref(roomId[j], p)
  BY DEF TypeInv, RoomTypes, Agreed, PlayersListed
<1>2. players[j] # Nobody
  BY DEF Nobody
<1>3. roomId[j] \in RoomIds /\ rooms[roomId[j]] = j
  BY <1>2 DEF RoomsInv, RoomsStand, Runs, Stands
<1>4. Ref(roomId[j], p) \in Refs
  BY <1>3 DEF Ref, Refs
<1>5. Ref(roomId[j], p) # None /\ Ref(roomId[j], p).room = roomId[j]
  BY <1>4, Constants DEF Ref
<1>. QED  BY <1>1, <1>3, <1>5 DEF Belongs, Home

LEMMA StopAgreed ==
    ASSUME FramesInv, TableInv, TypeInv, RoomsInv, Agreed, NEW i \in Instances, Stop(i)
    PROVE  Agreed'
<1>. DEFINE here == {players[i][p] : p \in Players} \ {None}
<1>1. /\ pc[i] = "stop" /\ pc' = [pc EXCEPT ![i] = "stopped"]
      /\ players' = [players EXCEPT ![i] = Nobody]
      /\ UNCHANGED <<engineVars, connVars, rooms, sessions, roomId, inbox>>
  BY DEF Stop
<1>2. PICK order \in SetToSeqs(here) :
          outbox' = Kicks(order) /\ lost' = lost \cup {s \in here : ~Has(outbox', s)}
  BY DEF Stop
<1>3. /\ pc'[i] = "stopped" /\ \A j \in Instances \ {i} : pc'[j] = pc[j]
      /\ players'[i] = Nobody /\ \A j \in Instances \ {i} : players'[j] = players[j]
  BY <1>1 DEF TableInv, TableTypes, TypeInv, RoomTypes
<1>4. here \in SUBSET Ids /\ \A s \in here : sessions[s] # None /\ Home(s) = i
  <2>1. here \in SUBSET Ids
    BY DEF TypeInv, RoomTypes
  <2>2. ASSUME NEW p \in Players, players[i][p] # None
        PROVE  sessions[players[i][p]] # None /\ Home(players[i][p]) = i
    BY <2>2, PlayersHome
  <2>. QED  BY <2>1, <2>2
<1>. HIDE DEF here
<1>5. /\ \A x : Has(outbox, x) => Has(outbox', x)
      /\ \A x : Has(outbox', x) => Has(outbox, x) \/ x \in here
  <2>1. order \in Seq(Ids) /\ \A n \in 1 .. Len(order) : order[n] \in here
    BY <1>4, OrderType
  <2>. QED  BY <1>2, <2>1, KicksIs DEF TypeInv
<1>6. In' = In
  BY <1>1 DEF In
<1>7. ASSUME NEW s \in Ids, sessions[s] # None
      PROVE  /\ Home(s)' = Home(s) /\ Home(s) \in Instances
             /\ Stopping(s) => Stopping(s)'
             /\ Home(s) = i => Stopping(s)'
  <2>1. Home(s) \in Instances /\ Home(s)' = Home(s)
    BY <1>1, <1>7, HomeIs DEF Home
  <2>2. Stopping(s) <=> pc[Home(s)] \in {"stop", "stopped"}
    BY DEF Stopping, Home
  <2>3. Stopping(s)' <=> pc'[Home(s)] \in {"stop", "stopped"}
    BY <2>1 DEF Stopping, Home
  <2>. QED  BY <1>3, <2>1, <2>2, <2>3
<1>8. \A s, j, p : Belongs(s, j, p)' <=> Belongs(s, j, p)
  BY <1>1 DEF Belongs
<1>9. RoomMay
  <2>1. \A j \in Instances : Ascends(inbox'[j])
    BY <1>1 DEF Agreed, Ordered
  <2>2. ASSUME NEW j \in Instances, NEW e \in In[j], IsOpen(e)
        PROVE  sessions'[e.s] # None /\ \A p \in Players : players'[j][p] # e.s
    <3>1. Belongs(e.s, j, e.p) /\ \A p \in Players : players[j][p] # e.s
      BY <2>2 DEF Agreed, InboxRight
    <3>2. e.s # None
      BY <2>2, Constants DEF In, Frames, Events, Ids
    <3>3. \A p \in Players : players'[j][p] # e.s
      BY <1>3, <3>1, <3>2 DEF Nobody
    <3>. QED  BY <1>1, <3>1, <3>3 DEF Belongs
  <2>3. \A s \in Ids : /\ s \in Out => s \in Out'
                       /\ s \in Out' /\ s \notin Out => sessions[s] # None /\ Stopping(s)'
    BY <1>4, <1>5, <1>7 DEF Out
  <2>4. \A s \in Ids : sessions[s] # None /\ Stopping(s) => Stopping(s)'
    BY <1>7
  <2>. QED  BY <1>1, <1>2, <1>6, <1>8, <2>1, <2>2, <2>3, <2>4 DEF RoomMay
<1>10. PlayersListed'
  BY <1>1, <1>3 DEF Agreed, PlayersListed, Nobody
<1>11. ListedPlay'
  <2>1. ASSUME NEW s \in Ids \ lost, sessions[s] # None
        PROVE  \/ players'[Home(s)][sessions[s].player] = s
               \/ \E e \in In[Home(s)] : IsOpen(e) /\ e.s = s
               \/ Stopping(s)'
    BY <1>3, <1>7, <2>1 DEF Agreed, ListedPlay
  <2>. QED  BY <1>1, <1>2, <1>6, <2>1 DEF ListedPlay, Home
<1>. QED  BY <1>9, <1>10, <1>11, RoomAgreed

LEMMA RemoveAgreed ==
    ASSUME FramesInv, TableInv, TypeInv, RoomsInv, Agreed, NEW i \in Instances, RemoveRoom(i)
    PROVE  Agreed'
<1>1. /\ pc[i] = "stopped" /\ pc' = [pc EXCEPT ![i] = "gone"]
      /\ inbox' = [inbox EXCEPT ![i] = <<>>]
      /\ rooms' = [id \in RoomIds |-> IF rooms[id] = i THEN None ELSE rooms[id]]
      /\ sessions' = Free(Dropped(i))
      /\ lost' = lost \cup {s \in Dropped(i) : ~Has(outbox, s)}
      /\ UNCHANGED <<engineVars, connVars, outbox, roomId, players>>
  BY DEF RemoveRoom
<1>2. PICK none : none = <<>>
  OBVIOUS
<1>3. /\ inbox'[i] = none /\ \A j \in Instances \ {i} : inbox'[j] = inbox[j]
      /\ \A j \in Instances \ {i} : pc'[j] = pc[j]
  BY <1>1, <1>2 DEF TableInv, TableTypes, TypeInv, RoomTypes
<1>4. rooms[roomId[i]] = i /\ roomId[i] \in RoomIds /\ i # None /\ players[i] = Nobody
  BY <1>1, Constants DEF RoomsInv, RoomsStand, Stands, Runs, Instances
<1>5. In'[i] = {} /\ \A j \in Instances \ {i} : In'[j] = In[j]
  <2>1. DOMAIN none = {}
    BY <1>2
  <2>. QED  BY <1>3, <2>1 DEF In, Has
<1>6. Out' = Out
  BY <1>1 DEF Out
<1>7. \A s \in Ids : sessions'[s] = IF sessions[s] # None /\ sessions[s].room = roomId[i]
                                   THEN None ELSE sessions[s]
  BY <1>1 DEF Free, Dropped
<1>8. ASSUME NEW s \in Ids, sessions'[s] # None
      PROVE  /\ sessions'[s] = sessions[s] /\ Home(s)' = Home(s) /\ Home(s) \in Instances \ {i}
             /\ Stopping(s)' <=> Stopping(s)
  <2>1. sessions'[s] = sessions[s] /\ sessions[s] # None /\ sessions[s].room # roomId[i]
    BY <1>7, <1>8
  <2>2. sessions[s].room \in RoomIds /\ Home(s) \in Instances /\ roomId[Home(s)] = sessions[s].room
    BY <2>1, HomeIs
  <2>3. Home(s) # i
    BY <2>1, <2>2
  <2>4. Home(s)' = Home(s)
    BY <1>1, <2>1, <2>2, <2>3 DEF Home
  <2>5. Stopping(s)' <=> Stopping(s)
    <3>1. Stopping(s)' <=> pc'[Home(s)'] \in {"stop", "stopped"}
      BY DEF Stopping, Home
    <3>2. Stopping(s) <=> pc[Home(s)] \in {"stop", "stopped"}
      BY DEF Stopping, Home
    <3>. QED  BY <1>3, <2>2, <2>3, <2>4, <3>1, <3>2
  <2>. QED  BY <2>1, <2>2, <2>3, <2>4, <2>5
<1>9. ASSUME NEW s \in Ids, NEW j \in Instances, NEW p, Belongs(s, j, p)
      PROVE  /\ sessions[s] # None /\ sessions[s].room = roomId[j]
             /\ j = i => sessions'[s] = None
             /\ j # i => sessions'[s] = sessions[s] /\ Belongs(s, j, p)'
  <2>1. sessions[s] # None /\ sessions[s] = Ref(roomId[j], p) /\ rooms[roomId[j]] = j
    BY <1>9 DEF Belongs
  <2>2. sessions[s].room = roomId[j] /\ roomId[j] \in RoomIds
    BY <2>1, RefIs, HomeIs
  <2>3. j # i => roomId[j] # roomId[i] /\ rooms'[roomId[j]] = j
    BY <1>1, <1>4, <2>1, <2>2
  <2>4. j # i => sessions'[s] = sessions[s]
    BY <1>7, <2>2, <2>3
  <2>. QED  BY <1>1, <1>7, <2>1, <2>2, <2>3, <2>4 DEF Belongs
<1>10. RoomMay
  <2>1. ASSUME NEW j \in Instances PROVE In'[j] \subseteq In[j] /\ Ascends(inbox'[j])
    <3>1. CASE j = i
      <4>1. DOMAIN none = {}
        BY <1>2
      <4>. QED  BY <1>3, <1>5, <3>1, <4>1 DEF Ascends
    <3>2. CASE j # i
      BY <1>3, <1>5, <3>2 DEF Agreed, Ordered
    <3>. QED  BY <3>1, <3>2
  <2>2. ASSUME NEW j \in Instances, NEW e \in In'[j], IsOpen(e)
        PROVE  sessions'[e.s] # None /\ \A p \in Players : players'[j][p] # e.s
    <3>1. e \in In[j] /\ j # i /\ e.s \in Ids
      BY <1>5, <2>1, <2>2 DEF In, Frames, IsOpen
    <3>2. Belongs(e.s, j, e.p) /\ \A p \in Players : players[j][p] # e.s
      BY <2>2, <3>1 DEF Agreed, InboxRight
    <3>. QED  BY <1>1, <1>9, <3>1, <3>2
  <2>3. ASSUME NEW j \in Instances, NEW e \in In[j], IsClose(e), e \notin In'[j]
        PROVE  sessions'[e.s] = None
    <3>1. j = i /\ e.s \in Ids
      BY <1>5, <2>3 DEF In, Frames, IsClose
    <3>2. CASE sessions[e.s] = None
      BY <1>7, <3>1, <3>2
    <3>3. CASE sessions[e.s] # None
      <4>1. Belongs(e.s, j, e.p)
        BY <2>3, <3>3 DEF Agreed, InboxRight
      <4>. QED  BY <1>9, <3>1, <4>1
    <3>. QED  BY <3>2, <3>3
  <2>4. ASSUME NEW s \in Ids, sessions[s] # None, sessions'[s] = None
        PROVE  s \in Out' \/ s \in lost'
    <3>1. s \in Dropped(i)
      BY <1>7, <2>4 DEF Dropped
    <3>. QED  BY <1>1, <1>6, <3>1 DEF Out
  <2>5. ASSUME NEW s \in Ids, NEW j \in Instances, NEW p \in Players, Belongs(s, j, p),
               sessions'[s] # None
        PROVE  Belongs(s, j, p)'
    BY <1>9, <2>5
  <2>6. \A s \in Ids : sessions'[s] \in {sessions[s], None}
    BY <1>7
  <2>. QED  BY <1>1, <1>6, <1>8, <2>1, <2>2, <2>3, <2>4, <2>5, <2>6 DEF RoomMay
<1>11. PlayersListed'
  <2>1. ASSUME NEW j \in Instances, NEW p \in Players, players[j][p] # None
        PROVE  sessions'[players[j][p]] = Ref(roomId[j], p)
    <3>1. PICK s : s = players[j][p]
      OBVIOUS
    <3>2. s \in Ids /\ sessions[s] = Ref(roomId[j], p) /\ Belongs(s, j, p)
      BY <2>1, <3>1, PlayersHome
    <3>3. j # i
      BY <1>4, <2>1 DEF Nobody
    <3>. QED  BY <1>9, <3>1, <3>2, <3>3
  <2>. QED  BY <1>1, <2>1 DEF PlayersListed
<1>12. ListedPlay'
  <2>1. ASSUME NEW s \in Ids \ lost', sessions'[s] # None
        PROVE  \/ players'[Home(s)'][sessions'[s].player] = s
               \/ \E e \in In'[Home(s)'] : IsOpen(e) /\ e.s = s
               \/ Stopping(s)'
    <3>1. s \in Ids \ lost /\ sessions[s] # None
      BY <1>1, <1>8, <2>1
    <3>2. In'[Home(s)] = In[Home(s)]
      BY <1>5, <1>8, <2>1
    <3>. QED  BY <1>1, <1>8, <2>1, <3>1, <3>2 DEF Agreed, ListedPlay
  <2>. QED  BY <2>1 DEF ListedPlay
<1>. QED  BY <1>10, <1>11, <1>12, RoomAgreed
\* Room i opens session s in an event behind the n-th.
OpenLater(i, n, s) ==
    \E m \in n + 1 .. Len(inbox[i]) : IsOpen(inbox[i][m]) /\ inbox[i][m].s = s

\* After n events, r agrees with the session table and what is left to handle.
Fine(i, n, r) ==
    /\ \A p \in Players : r.players[p] # None =>
          /\ sessions[r.players[p]] = Ref(roomId[i], p) /\ r.players[p] \notin r.freed
          /\ ~OpenLater(i, n, r.players[p])
    /\ \A t \in r.freed :
          /\ sessions[t] # None /\ sessions[t].room = roomId[i]
          /\ (owner[t] = None \/ t \in r.mixed) /\ ~OpenLater(i, n, t)
    /\ \A s \in Ids \ (r.freed \cup lost \cup r.mixed) :
          sessions[s] # None /\ sessions[s].room = roomId[i] =>
              r.players[sessions[s].player] = s \/ OpenLater(i, n, s)
    /\ \A m \in 1 .. n : IsClose(inbox[i][m]) =>
          \/ sessions[inbox[i][m].s] = None
          \/ inbox[i][m].s \in r.freed \cup lost \cup r.mixed

LEMMA FineFirst ==
    ASSUME TableInv, TypeInv, RoomsInv, Agreed, NEW i \in Instances, Alive(i),
           NEW r, r = Local(i)
    PROVE  Fine(i, 0, r)
<1>1. r \in Locals /\ r.players = players[i] /\ r.freed = {} /\ r.mixed = {}
  BY LocalType DEF TypeInv
<1>2. rooms[roomId[i]] = i /\ roomId[i] \in RoomIds /\ inbox[i] \in Seq(Frames)
  BY DEF RoomsInv, RoomsStand, Stands, Alive, TypeInv, RoomTypes, Boxes
<1>3. \A s : OpenLater(i, 0, s) <=> \E o \in In[i] : IsOpen(o) /\ o.s = s
  <2>1. PICK q : q = inbox[i]
    OBVIOUS
  <2>2. q \in Seq(Frames)
    BY <1>2, <2>1
  <2>3. DOMAIN q = 0 + 1 .. Len(q) /\ \A m \in DOMAIN q : q[m] \in Frames
    BY <2>2
  <2>4. In[i] = {e \in Frames : \E m \in DOMAIN q : q[m] = e}
    BY <2>1 DEF In, Has
  <2>. QED  BY <2>1, <2>3, <2>4 DEF OpenLater
<1>4. ASSUME NEW p \in Players, r.players[p] # None
      PROVE  /\ sessions[r.players[p]] = Ref(roomId[i], p) /\ r.players[p] \notin r.freed
             /\ ~OpenLater(i, 0, r.players[p])
  BY <1>1, <1>3, <1>4 DEF Agreed, PlayersListed, InboxRight
<1>5. ASSUME NEW s \in Ids \ lost, sessions[s] # None, sessions[s].room = roomId[i]
      PROVE  r.players[sessions[s].player] = s \/ OpenLater(i, 0, s)
  <2>1. Home(s) = i /\ ~Stopping(s)
    BY <1>2, <1>5 DEF Home, Stopping, Alive
  <2>. QED  BY <1>1, <1>3, <1>5, <2>1 DEF Agreed, ListedPlay
<1>6. 1 .. 0 = {}
  OBVIOUS
<1>. QED  BY <1>1, <1>4, <1>5, <1>6 DEF Fine

LEMMA FineStep ==
    ASSUME FramesInv, TableInv, TypeInv, Agreed, NEW i \in Instances, roomId[i] \in RoomIds,
           NEW n \in 1 .. Len(inbox[i]), NEW r \in Locals, Fine(i, n - 1, r), NEW h, h = Handled(r, inbox[i][n])
    PROVE  Fine(i, n, h)
<1>1. PICK q, e : q = inbox[i] /\ e = inbox[i][n]
  OBVIOUS
<1>2. q \in Seq(Frames) /\ Ascends(q)
  BY <1>1 DEF TypeInv, RoomTypes, Boxes, Agreed, Ordered
<1>3. /\ Len(q) \in Nat /\ DOMAIN q = 1 .. Len(q) /\ n \in 1 .. Len(q) /\ n \in Nat
      /\ e = q[n] /\ \A m \in 1 .. Len(q) : q[m] \in Frames
  BY <1>1, <1>2
<1>4. e \in Frames /\ e \in In[i]
  BY <1>1, <1>3 DEF In, Has
<1>5. /\ h \in Locals
      /\ Joins(r, e, h) \/ Collides(r, e, h) \/ Leaves(r, e, h) \/ Passes(r, e, h)
  BY <1>1, <1>4, HandledIs
<1>6. /\ r.players \in [Players -> Ids \cup {None}] /\ r.freed \in SUBSET Ids
      /\ h.players \in [Players -> Ids \cup {None}] /\ None \notin Ids
  BY <1>5, LocalFields, Constants DEF Ids
<1>7. /\ e.k = "open" => e.p \in Players /\ e.s \in Ids
      /\ e.k = "close" => e.s \in Ids
  BY <1>4 DEF Frames
<1>8. \A s : OpenLater(i, n, s) => OpenLater(i, n - 1, s)
  <2>1. \A m \in n + 1 .. Len(q) : m \in (n - 1) + 1 .. Len(q)
    BY <1>3
  <2>. QED  BY <1>1, <2>1 DEF OpenLater
<1>9. \A s : OpenLater(i, n - 1, s) => OpenLater(i, n, s) \/ (IsOpen(e) /\ s = e.s)
  <2>1. \A m \in (n - 1) + 1 .. Len(q) : m = n \/ m \in n + 1 .. Len(q)
    BY <1>3
  <2>. QED  BY <1>1, <2>1 DEF OpenLater
<1>10. IsOpen(e) => OpenLater(i, n - 1, e.s)
  <2>1. n \in (n - 1) + 1 .. Len(q)
    BY <1>3
  <2>. QED  BY <1>1, <2>1 DEF OpenLater
<1>11. ~OpenLater(i, n, e.s)
  <2>1. ASSUME NEW m \in n + 1 .. Len(q), IsOpen(q[m]) PROVE q[m].s # e.s
    <3>1. m \in DOMAIN q /\ n \in 1 .. m - 1
      BY <1>3
    <3>2. e.s < q[m].s
      BY <1>2, <1>3, <2>1, <3>1 DEF Ascends
    <3>3. e.s \in Nat /\ q[m].s \in Nat
      BY <1>3, <1>4, <3>1 DEF Frames, Events, Ids
    <3>. QED  BY <3>2, <3>3
  <2>. QED  BY <1>1, <2>1 DEF OpenLater
<1>12. \A m \in 1 .. n : m = n \/ m \in 1 .. n - 1
  BY <1>3
<1>13. /\ IsOpen(e) => sessions[e.s] # None /\ sessions[e.s] = Ref(roomId[i], e.p)
       /\ IsClose(e) /\ sessions[e.s] # None => sessions[e.s] = Ref(roomId[i], e.p)
       /\ IsClose(e) => owner[e.s] = None
  BY <1>4 DEF Agreed, InboxRight, Belongs, Closes, Down
<1>14. \A p \in Players : r.players[p] # None =>
          /\ sessions[r.players[p]] = Ref(roomId[i], p) /\ r.players[p] \notin r.freed
          /\ ~OpenLater(i, n - 1, r.players[p])
  BY DEF Fine
<1>15. \A t \in r.freed :
          /\ sessions[t] # None /\ sessions[t].room = roomId[i]
          /\ (owner[t] = None \/ t \in r.mixed) /\ ~OpenLater(i, n - 1, t)
  BY DEF Fine
<1>16. \A s \in Ids \ (r.freed \cup lost \cup r.mixed) :
          sessions[s] # None /\ sessions[s].room = roomId[i] =>
              r.players[sessions[s].player] = s \/ OpenLater(i, n - 1, s)
  BY DEF Fine
<1>17. \A m \in 1 .. n - 1 : IsClose(inbox[i][m]) =>
          \/ sessions[inbox[i][m].s] = None
          \/ inbox[i][m].s \in r.freed \cup lost \cup r.mixed
  BY DEF Fine
<1>18. r.freed \subseteq h.freed /\ r.mixed \subseteq h.mixed
  BY <1>5 DEF Joins, Collides, Leaves, Passes
<1>19. \A m \in 1 .. n - 1 : IsClose(inbox[i][m]) =>
          \/ sessions[inbox[i][m].s] = None
          \/ inbox[i][m].s \in h.freed \cup lost \cup h.mixed
  BY <1>17, <1>18
<1>20. CASE Joins(r, e, h)
  <2>1. /\ IsOpen(e) /\ ~IsClose(e) /\ r.players[e.p] = None
        /\ h.players[e.p] = e.s /\ \A p \in Players : p # e.p => h.players[p] = r.players[p]
        /\ h.freed = r.freed /\ h.mixed = r.mixed
    BY <1>6, <1>7, <1>20 DEF Joins, IsOpen, IsClose
  <2>2. ASSUME NEW p \in Players, h.players[p] # None
        PROVE  /\ sessions[h.players[p]] = Ref(roomId[i], p) /\ h.players[p] \notin h.freed
               /\ ~OpenLater(i, n, h.players[p])
    <3>1. CASE p = e.p
      BY <1>10, <1>11, <1>13, <1>15, <2>1, <3>1
    <3>2. CASE p # e.p
      BY <1>8, <1>14, <2>1, <2>2, <3>2
    <3>. QED  BY <3>1, <3>2
  <2>3. ASSUME NEW s \in Ids \ (h.freed \cup lost \cup h.mixed), sessions[s] # None,
               sessions[s].room = roomId[i]
        PROVE  h.players[sessions[s].player] = s \/ OpenLater(i, n, s)
    <3>1. sessions[s].player \in Players
      BY <2>3, HomeIs
    <3>2. CASE r.players[sessions[s].player] = s
      BY <1>6, <2>1, <3>1, <3>2
    <3>3. CASE s = e.s
      <4>1. sessions[s].player = e.p
        BY <1>13, <2>1, <3>3, RefIs
      <4>. QED  BY <2>1, <3>3, <4>1
    <3>. QED  BY <1>9, <1>16, <2>1, <2>3, <3>2, <3>3
  <2>. QED  BY <1>1, <1>8, <1>12, <1>15, <1>19, <2>1, <2>2, <2>3 DEF Fine
<1>21. CASE Collides(r, e, h)
  <2>1. /\ IsOpen(e) /\ ~IsClose(e) /\ h.players = r.players /\ h.freed = r.freed
        /\ h.mixed = r.mixed \cup {e.s, r.players[e.p]}
    BY <1>21 DEF Collides, IsOpen, IsClose
  <2>2. \A s \in Ids \ (h.freed \cup lost \cup h.mixed) :
            sessions[s] # None /\ sessions[s].room = roomId[i] =>
                h.players[sessions[s].player] = s \/ OpenLater(i, n, s)
    BY <1>9, <1>16, <2>1
  <2>. QED  BY <1>1, <1>8, <1>12, <1>14, <1>15, <1>19, <2>1, <2>2 DEF Fine
<1>22. CASE Leaves(r, e, h)
  <2>1. PICK t : t = r.players[e.p]
    OBVIOUS
  <2>2. /\ ~IsOpen(e) /\ IsClose(e) /\ e.p \in Players /\ t # None /\ t \in Ids
        /\ h.players[e.p] = None /\ \A p \in Players : p # e.p => h.players[p] = r.players[p]
        /\ h.freed = r.freed \cup {t}
        /\ t = e.s \/ (t \in h.mixed /\ e.s \in h.mixed)
    BY <1>6, <1>22, <2>1 DEF Leaves, IsOpen, IsClose
  <2>3. sessions[t] = Ref(roomId[i], e.p) /\ ~OpenLater(i, n - 1, t)
    BY <1>14, <2>1, <2>2
  <2>4. sessions[t] # None /\ sessions[t].room = roomId[i] /\ sessions[t].player = e.p
    <3>1. Ref(roomId[i], e.p) \in Refs
      BY <2>2 DEF Ref, Refs
    <3>. QED  BY <2>3, <3>1, RefIs, Constants
  <2>5. ASSUME NEW p \in Players, h.players[p] # None
        PROVE  /\ sessions[h.players[p]] = Ref(roomId[i], p) /\ h.players[p] \notin h.freed
               /\ ~OpenLater(i, n, h.players[p])
    <3>1. p # e.p /\ h.players[p] = r.players[p]
      BY <2>2, <2>5
    <3>2. h.players[p] # t
      BY <1>14, <2>3, <2>5, <3>1, RefIs
    <3>. QED  BY <1>8, <1>14, <2>2, <2>5, <3>1, <3>2
  <2>6. ASSUME NEW s \in h.freed
        PROVE  /\ sessions[s] # None /\ sessions[s].room = roomId[i]
               /\ (owner[s] = None \/ s \in h.mixed) /\ ~OpenLater(i, n, s)
    <3>1. CASE s = t
      BY <1>8, <1>13, <2>2, <2>3, <2>4, <3>1
    <3>2. CASE s \in r.freed
      BY <1>8, <1>15, <1>18, <3>2
    <3>. QED  BY <2>2, <2>6, <3>1, <3>2
  <2>7. ASSUME NEW s \in Ids \ (h.freed \cup lost \cup h.mixed), sessions[s] # None,
               sessions[s].room = roomId[i]
        PROVE  h.players[sessions[s].player] = s \/ OpenLater(i, n, s)
    <3>1. sessions[s].player \in Players /\ s # t
      BY <2>2, <2>7, HomeIs
    <3>2. r.players[sessions[s].player] = s \/ OpenLater(i, n, s)
      BY <1>9, <1>16, <1>18, <2>2, <2>7
    <3>3. CASE r.players[sessions[s].player] = s
      <4>1. sessions[s].player # e.p
        BY <2>1, <3>1, <3>3
      <4>. QED  BY <2>2, <3>1, <3>3, <4>1
    <3>. QED  BY <3>2, <3>3
  <2>8. e.s \in h.freed \cup h.mixed
    BY <2>2
  <2>. QED  BY <1>1, <1>12, <1>19, <2>5, <2>6, <2>7, <2>8 DEF Fine
<1>23. CASE Passes(r, e, h)
  <2>1. h = r /\ ~IsOpen(e) /\ (IsClose(e) /\ e.p \in Players => r.players[e.p] = None)
    BY <1>23 DEF Passes, IsOpen, IsClose
  <2>2. \A s : OpenLater(i, n - 1, s) <=> OpenLater(i, n, s)
    BY <1>8, <1>9, <2>1
  <2>3. ASSUME IsClose(e), sessions[e.s] # None PROVE e.s \in h.freed \cup lost \cup h.mixed
    <3>1. /\ e.s \in Ids /\ sessions[e.s].player = e.p /\ sessions[e.s].room = roomId[i]
          /\ e.p \in Players
      BY <1>7, <1>13, <2>3, RefIs, HomeIs DEF IsClose
    <3>2. r.players[e.p] # e.s
      BY <1>6, <2>1, <2>3, <3>1
    <3>. QED  BY <1>11, <1>16, <2>1, <2>2, <2>3, <3>1, <3>2
  <2>. QED  BY <1>1, <1>12, <1>14, <1>15, <1>16, <1>19, <2>1, <2>2, <2>3 DEF Fine
<1>. QED  BY <1>5, <1>20, <1>21, <1>22, <1>23

\* drainInbox.
LEMMA FineDrained ==
    ASSUME FramesInv, TableInv, TypeInv, RoomsInv, Agreed, NEW i \in Instances, Alive(i),
           NEW f, Drains(i, f), NEW r, r = f[Len(inbox[i])]
    PROVE  Fine(i, Len(inbox[i]), r)
<1>1. PICK N : N = Len(inbox[i])
  OBVIOUS
<1>2. N \in Nat /\ roomId[i] \in RoomIds
  BY <1>1 DEF TypeInv, RoomTypes, Boxes, RoomsInv, RoomsStand, Stands, Alive
<1>3. PICK S : S = {n \in 0 .. N : Fine(i, n, f[n])}
  OBVIOUS
<1>4. 0 \in S
  <2>1. f[0] = Local(i)
    BY DEF Drains
  <2>2. Fine(i, 0, f[0])
    BY <2>1, FineFirst
  <2>. QED  BY <1>2, <1>3, <2>2
<1>5. ASSUME NEW n \in 1 .. N, n - 1 \in S PROVE n \in S
  <2>1. /\ n \in 1 .. Len(inbox[i]) /\ Fine(i, n - 1, f[n - 1]) /\ n \in 0 .. N
        /\ n - 1 \in 0 .. N
    BY <1>1, <1>2, <1>3, <1>5
  <2>2. PICK x, y : x = f[n - 1] /\ y = f[n]
    OBVIOUS
  <2>3. x \in Locals /\ y = Handled(x, inbox[i][n])
    BY <1>1, <2>1, <2>2 DEF Drains
  <2>4. Fine(i, n, y)
    BY <1>2, <2>1, <2>2, <2>3, FineStep
  <2>. QED  BY <1>3, <2>1, <2>2, <2>4
<1>6. \A n \in 1 .. N : n - 1 \in S => n \in S
  BY <1>5
<1>7. \A n \in 0 .. N : n \in S
  BY ONLY <1>2, <1>4, <1>6, StepByStep
<1>8. N \in S
  BY <1>2, <1>7
<1>. QED  BY <1>1, <1>3, <1>8
\* What the goroutine leaves when it has handled n events, r being what they make.
LEMMA EffectAgreed ==
    ASSUME FramesInv, TableInv, TypeInv, RoomsInv, Agreed, NEW i \in Instances, Alive(i),
           NEW r, NEW k, NEW box, Effect(i, r, k, box),
           NEW v \in PCs, pc' = [pc EXCEPT ![i] = v],
           NEW n \in 0 .. Len(inbox[i]), Fine(i, n, r), Ascends(box),
           \A x : Has(box, x) <=> \E m \in n + 1 .. Len(inbox[i]) : inbox[i][m] = x
    PROVE  Agreed'
<1>1. /\ r \in Locals /\ k \in Locals
      /\ players' = [players EXCEPT ![i] = k.players]
      /\ sessions' = Free(k.freed)
      /\ inbox' = [inbox EXCEPT ![i] = box]
      /\ UNCHANGED <<engineVars, connVars, rooms, roomId>>
  BY DEF Effect
<1>2. /\ players'[i] = k.players /\ \A j \in Instances \ {i} : players'[j] = players[j]
      /\ inbox'[i] = box /\ \A j \in Instances \ {i} : inbox'[j] = inbox[j]
      /\ \A j \in Instances \ {i} : pc'[j] = pc[j]
  BY <1>1 DEF TableInv, TableTypes, TypeInv, RoomTypes
<1>3. rooms[roomId[i]] = i /\ roomId[i] \in RoomIds /\ i # None /\ None \notin Ids
  BY Constants DEF RoomsInv, RoomsStand, Stands, Alive, Instances, Ids
<1>4. /\ r.players \in [Players -> Ids \cup {None}] /\ r.freed \in SUBSET Ids
      /\ k.freed \in SUBSET Ids
  BY <1>1, LocalFields
\* Kick, if there is one.
<1>5. /\ r.freed \subseteq k.freed /\ lost \subseteq lost' /\ r.mixed \subseteq lost'
      /\ \A p \in Players : k.players[p] # r.players[p] =>
                          k.players[p] = None /\ r.players[p] \in k.freed
      /\ \A t \in k.freed : t \in r.freed \/ \E p \in Players :
            r.players[p] = t /\ k.players[p] = None /\ (t \in Out' \/ t \in lost')
      /\ Out \subseteq Out' /\ \A t \in Out' : t \in Out \/ t \in k.freed
  <2>1. CASE /\ k.players = r.players /\ k.freed = r.freed
             /\ outbox' = outbox /\ lost' = lost \cup r.mixed
    <3>1. Out' = Out
      BY <2>1 DEF Out
    <3>. QED  BY <2>1, <3>1
  <2>2. ASSUME NEW p \in Players, Kicked(r, k, p)
        PROVE  /\ r.freed \subseteq k.freed /\ lost \subseteq lost' /\ r.mixed \subseteq lost'
               /\ \A x \in Players : k.players[x] # r.players[x] =>
                          k.players[x] = None /\ r.players[x] \in k.freed
               /\ \A t \in k.freed : t \in r.freed \/ \E x \in Players :
                     r.players[x] = t /\ k.players[x] = None /\ (t \in Out' \/ t \in lost')
               /\ Out \subseteq Out' /\ \A t \in Out' : t \in Out \/ t \in k.freed
    <3>1. PICK t : t = r.players[p]
      OBVIOUS
    <3>2. /\ t # None /\ t \in Ids /\ k.players = [r.players EXCEPT ![p] = None]
          /\ k.freed = r.freed \cup {t} /\ outbox' = Sent(outbox, t)
          /\ lost' = lost \cup r.mixed \cup Unsent(outbox, t)
      BY <1>4, <2>2, <3>1 DEF Kicked
    <3>3. /\ \A x : Has(outbox, x) => Has(outbox', x)
          /\ \A x : Has(outbox', x) => Has(outbox, x) \/ x = t
          /\ t \notin Unsent(outbox, t) => Has(outbox', t)
      BY <3>2, SentIs DEF TypeInv
    <3>4. k.players[p] = None /\ \A x \in Players : x # p => k.players[x] = r.players[x]
      BY <1>4, <3>2
    <3>5. Out \subseteq Out' /\ (\A x \in Out' : x \in Out \/ x = t) /\ (t \in Out' \/ t \in lost')
      BY <3>2, <3>3 DEF Out
    <3>. QED  BY <3>1, <3>2, <3>4, <3>5
  <2>. QED  BY <2>1, <2>2 DEF Effect
\* What the events leave.
<1>6. \A p \in Players : r.players[p] # None =>
          /\ sessions[r.players[p]] = Ref(roomId[i], p) /\ r.players[p] \notin r.freed
          /\ ~OpenLater(i, n, r.players[p])
  BY DEF Fine
<1>7. \A t \in r.freed :
          /\ sessions[t] # None /\ sessions[t].room = roomId[i]
          /\ (owner[t] = None \/ t \in r.mixed) /\ ~OpenLater(i, n, t)
  BY DEF Fine
<1>8. \A s \in Ids \ (r.freed \cup lost \cup r.mixed) :
          sessions[s] # None /\ sessions[s].room = roomId[i] =>
              r.players[sessions[s].player] = s \/ OpenLater(i, n, s)
  BY DEF Fine
<1>9. ASSUME NEW m \in 1 .. n, IsClose(inbox[i][m])
      PROVE  \/ sessions[inbox[i][m].s] = None
             \/ inbox[i][m].s \in r.freed \cup lost \cup r.mixed
  BY <1>9 DEF Fine
<1>10. \A s \in Ids : sessions'[s] = IF s \in k.freed THEN None ELSE sessions[s]
  BY <1>1 DEF Free
<1>11. ASSUME NEW t \in k.freed
       PROVE  /\ sessions[t] # None /\ sessions[t].room = roomId[i] /\ ~OpenLater(i, n, t)
              /\ owner[t] = None \/ t \in Out' \/ t \in lost'
  <2>1. CASE t \in r.freed
    BY <1>5, <1>7, <2>1
  <2>2. ASSUME NEW p \in Players, r.players[p] = t, t \in Out' \/ t \in lost'
        PROVE  sessions[t] # None /\ sessions[t].room = roomId[i] /\ ~OpenLater(i, n, t)
    <3>1. t # None /\ sessions[t] = Ref(roomId[i], p) /\ ~OpenLater(i, n, t)
      BY <1>3, <1>4, <1>6, <1>11, <2>2
    <3>2. Ref(roomId[i], p) \in Refs
      BY <1>3 DEF Ref, Refs
    <3>. QED  BY <3>1, <3>2, RefIs, Constants
  <2>. QED  BY <1>5, <1>11, <2>1, <2>2
\* The inbox.
<1>12. PICK q : q = inbox[i]
  OBVIOUS
<1>13. /\ q \in Seq(Frames) /\ Len(q) \in Nat /\ DOMAIN q = 1 .. Len(q) /\ n \in 0 .. Len(q)
       /\ \A m \in 1 .. Len(q) : q[m] \in Frames
  BY <1>12 DEF TypeInv, RoomTypes, Boxes
<1>14. /\ In'[i] \subseteq In[i] /\ \A j \in Instances \ {i} : In'[j] = In[j]
       /\ \A x \in In'[i] : IsOpen(x) => OpenLater(i, n, x.s)
       /\ \A s : OpenLater(i, n, s) => \E x \in In'[i] : IsOpen(x) /\ x.s = s
  <2>1. \A m \in n + 1 .. Len(q) : m \in DOMAIN q
    BY <1>13
  <2>2. \A x : Has(box, x) => Has(q, x)
    BY <1>12, <2>1 DEF Has
  <2>3. \A x : Has(inbox'[i], x) <=> Has(box, x)
    BY <1>2
  <2>4. /\ In'[i] \subseteq In[i] /\ \A j \in Instances \ {i} : In'[j] = In[j]
        /\ \A x \in In'[i] : Has(box, x)
    BY <1>2, <1>12, <2>2, <2>3 DEF In
  <2>5. \A x \in In'[i] : IsOpen(x) => OpenLater(i, n, x.s)
    BY <2>4 DEF OpenLater
  <2>6. ASSUME NEW s, OpenLater(i, n, s) PROVE \E x \in In'[i] : IsOpen(x) /\ x.s = s
    <3>1. PICK m \in n + 1 .. Len(q) : IsOpen(q[m]) /\ q[m].s = s
      BY <1>12, <2>6 DEF OpenLater
    <3>2. Has(box, q[m]) /\ q[m] \in Frames
      BY <1>12, <1>13, <2>1, <3>1
    <3>3. q[m] \in In'[i]
      BY <2>3, <3>2 DEF In
    <3>. QED  BY <3>1, <3>3
  <2>. QED  BY <2>4, <2>5, <2>6
<1>15. ASSUME NEW e \in In[i], IsClose(e), e \notin In'[i]
       PROVE  sessions'[e.s] = None \/ e.s \in lost'
  <2>1. e \in Frames /\ e.s \in Ids /\ Has(q, e)
    BY <1>12, <1>15 DEF In, Frames, IsClose
  <2>2. PICK m \in 1 .. Len(q) : q[m] = e
    BY <1>13, <2>1 DEF Has
  <2>3. ~Has(box, e)
    BY <1>2, <1>15, <2>1 DEF In
  <2>4. m \in 1 .. n
    <3>1. m \notin n + 1 .. Len(q)
      BY <1>12, <2>2, <2>3
    <3>. QED  BY <1>13, <3>1
  <2>. QED  BY <1>5, <1>9, <1>10, <1>12, <1>15, <2>1, <2>2, <2>4
\* The other rooms.
<1>16. ASSUME NEW s \in Ids, NEW j \in Instances \ {i}, NEW p, Belongs(s, j, p)
       PROVE  s \notin k.freed
  <2>1. sessions[s] # None /\ sessions[s] = Ref(roomId[j], p) /\ rooms[roomId[j]] = j
    BY <1>16 DEF Belongs
  <2>2. sessions[s].room # roomId[i]
    BY <1>3, <2>1, RefIs
  <2>. QED  BY <1>11, <2>2
<1>17. ASSUME NEW s \in Ids, sessions[s] # None
       PROVE  /\ Home(s) \in Instances /\ (Home(s) = i <=> sessions[s].room = roomId[i])
              /\ sessions'[s] # None => sessions'[s] = sessions[s] /\ Home(s)' = Home(s)
              /\ Stopping(s) => Home(s) # i
              /\ sessions'[s] # None /\ Stopping(s) => Stopping(s)'
  <2>1. Home(s) \in Instances /\ (Home(s) = i <=> sessions[s].room = roomId[i])
    BY <1>3, <1>17, HomeIs DEF Home
  <2>2. sessions'[s] # None => sessions'[s] = sessions[s] /\ Home(s)' = Home(s)
    BY <1>1, <1>10, <1>17 DEF Home
  <2>3. Stopping(s) <=> pc[Home(s)] \in {"stop", "stopped"}
    BY DEF Stopping, Home
  <2>4. Stopping(s)' <=> pc'[Home(s)'] \in {"stop", "stopped"}
    BY DEF Stopping, Home
  <2>. QED  BY <1>2, <2>1, <2>2, <2>3, <2>4 DEF Alive
<1>18. RoomMay
  <2>1. \A j \in Instances : In'[j] \subseteq In[j] /\ Ascends(inbox'[j])
    BY <1>2, <1>14 DEF Agreed, Ordered
  <2>2. ASSUME NEW j \in Instances, NEW e \in In'[j], IsOpen(e)
        PROVE  sessions'[e.s] # None /\ \A p \in Players : players'[j][p] # e.s
    <3>1. e \in In[j] /\ e.s \in Ids
      BY <2>1, <2>2 DEF In, Frames, IsOpen
    <3>2. Belongs(e.s, j, e.p) /\ \A p \in Players : players[j][p] # e.s
      BY <2>2, <3>1 DEF Agreed, InboxRight
    <3>3. sessions[e.s] # None
      BY <3>2 DEF Belongs
    <3>4. CASE j = i
      <4>1. OpenLater(i, n, e.s)
        BY <1>14, <2>2, <3>4
      <4>2. e.s \notin k.freed /\ \A p \in Players : r.players[p] # e.s
        BY <1>3, <1>6, <1>11, <3>1, <4>1
      <4>. QED  BY <1>2, <1>3, <1>5, <1>10, <3>1, <3>3, <3>4, <4>2
    <3>5. CASE j # i
      BY <1>2, <1>10, <1>16, <3>1, <3>2, <3>3, <3>5
    <3>. QED  BY <3>4, <3>5
  <2>3. ASSUME NEW s \in Ids
        PROVE  /\ sessions'[s] \in {sessions[s], None}
               /\ sessions[s] # None /\ sessions'[s] = None =>
                     owner[s] = None \/ s \in Out' \/ s \in lost'
               /\ sessions'[s] # None /\ Stopping(s) => Stopping(s)'
               /\ s \in Out => s \in Out'
               /\ s \in Out' /\ s \notin Out => sessions[s] # None /\ sessions'[s] = None
    BY <1>5, <1>10, <1>11, <1>17, <2>3
  <2>4. \A s \in Ids, j \in Instances, p \in Players :
            Belongs(s, j, p) /\ sessions'[s] # None => Belongs(s, j, p)'
    BY <1>1, <1>17 DEF Belongs
  <2>5. ASSUME NEW j \in Instances, NEW e \in In[j], IsClose(e), e \notin In'[j]
        PROVE  sessions'[e.s] = None \/ e.s \in lost'
    BY <1>14, <1>15, <2>5
  <2>. QED  BY <1>1, <1>5, <2>1, <2>2, <2>3, <2>4, <2>5 DEF RoomMay
<1>19. PlayersListed'
  <2>1. ASSUME NEW j \in Instances, NEW p \in Players, players'[j][p] # None
        PROVE  sessions'[players'[j][p]] = Ref(roomId[j], p)
    <3>1. PICK t : t = players'[j][p]
      OBVIOUS
    <3>2. CASE j = i
      <4>1. r.players[p] = t /\ t # None /\ t \in Ids
        BY <1>2, <1>4, <1>5, <2>1, <3>1, <3>2
      <4>2. sessions[t] = Ref(roomId[i], p) /\ t \notin r.freed
        BY <1>6, <4>1
      <4>3. ASSUME NEW x \in Players, r.players[x] = t, k.players[x] = None PROVE FALSE
        <5>1. sessions[t] = Ref(roomId[i], x)
          BY <1>6, <4>1, <4>3
        <5>2. x = p
          <6>1. Ref(roomId[i], x).player = x /\ Ref(roomId[i], p).player = p
            BY RefIs
          <6>. QED  BY <4>2, <5>1, <6>1
        <5>. QED  BY <1>2, <2>1, <3>2, <4>3, <5>2
      <4>4. t \notin k.freed
        BY <1>5, <4>2, <4>3
      <4>. QED  BY <1>10, <3>1, <3>2, <4>1, <4>2, <4>4
    <3>3. CASE j # i
      <4>1. t = players[j][p] /\ t # None
        BY <1>2, <2>1, <3>1, <3>3
      <4>2. t \in Ids /\ sessions[t] = Ref(roomId[j], p) /\ Belongs(t, j, p)
        BY <4>1, PlayersHome
      <4>3. t \notin k.freed
        BY <1>16, <3>3, <4>2
      <4>. QED  BY <1>10, <3>1, <4>2, <4>3
    <3>. QED  BY <3>2, <3>3
  <2>. QED  BY <1>1, <2>1 DEF PlayersListed
<1>20. ListedPlay'
  <2>1. ASSUME NEW s \in Ids \ lost', sessions'[s] # None
        PROVE  \/ players'[Home(s)'][sessions'[s].player] = s
               \/ \E e \in In'[Home(s)'] : IsOpen(e) /\ e.s = s
               \/ Stopping(s)'
    <3>1. /\ sessions[s] # None /\ s \in Ids \ (k.freed \cup lost \cup r.mixed)
      BY <1>5, <1>10, <2>1
    <3>2. /\ sessions'[s] = sessions[s] /\ Home(s)' = Home(s) /\ Home(s) \in Instances
          /\ Stopping(s) => Stopping(s)'
      BY <1>17, <2>1, <3>1
    <3>3. CASE Home(s) = i
      <4>1. sessions[s].player \in Players /\ sessions[s].room = roomId[i]
        BY <1>17, <3>1, <3>3, HomeIs
      <4>2. r.players[sessions[s].player] = s \/ OpenLater(i, n, s)
        BY <1>5, <1>8, <3>1, <4>1
      <4>3. CASE r.players[sessions[s].player] = s
        <5>1. k.players[sessions[s].player] = s
          BY <1>5, <3>1, <4>1, <4>3
        <5>. QED  BY <1>2, <3>2, <3>3, <5>1
      <4>. QED  BY <1>14, <3>2, <3>3, <4>2, <4>3
    <3>4. CASE Home(s) # i
      <4>1. players'[Home(s)] = players[Home(s)] /\ In'[Home(s)] = In[Home(s)]
        BY <1>2, <1>14, <3>2, <3>4
      <4>. QED  BY <3>1, <3>2, <4>1 DEF Agreed, ListedPlay
    <3>. QED  BY <3>3, <3>4
  <2>. QED  BY <2>1 DEF ListedPlay
<1>. QED  BY <1>18, <1>19, <1>20, RoomAgreed
LEMMA HandleAgreed ==
    ASSUME FramesInv, TableInv, TypeInv, RoomsInv, Agreed, NEW i \in Instances, HandleEvent(i)
    PROVE  Agreed'
<1>1. PICK q : q = inbox[i]
  OBVIOUS
<1>2. PICK b : b = Local(i)
  OBVIOUS
<1>3. PICK r : /\ r = Handled(b, Head(q)) /\ Effect(i, r, r, Tail(q))
               /\ q # <<>> /\ pc[i] = "idle"
               /\ pc' = [pc EXCEPT ![i] = After(i, r.stop)]
  BY <1>1, <1>2, HandleEventIs DEF TypeInv
<1>4. q \in Seq(Frames) /\ Ascends(q) /\ Alive(i) /\ roomId[i] \in RoomIds
  BY <1>1, <1>3 DEF TypeInv, RoomTypes, Boxes, Agreed, Ordered, Alive, RoomsInv, RoomsStand,
                    Stands
<1>5. /\ Len(q) \in Nat \ {0} /\ Head(q) = q[1] /\ 1 \in 1 .. Len(q) /\ 1 \in 0 .. Len(q)
      /\ DOMAIN Tail(q) = 1 .. Len(q) - 1
      /\ \A m \in 1 .. Len(q) - 1 : Tail(q)[m] = q[m + 1]
  BY <1>3, <1>4
<1>6. Fine(i, 1, r)
  <2>1. b \in Locals /\ Fine(i, 0, b)
    BY <1>2, <1>4, FineFirst, LocalType DEF TypeInv
  <2>2. r = Handled(b, inbox[i][1]) /\ 1 \in 1 .. Len(inbox[i]) /\ Fine(i, 1 - 1, b)
    BY <1>1, <1>3, <1>5, <2>1
  <2>. QED  BY <1>4, <2>1, <2>2, FineStep
<1>7. PICK box : box = Tail(q)
  OBVIOUS
<1>8. Ascends(box)
  BY ONLY <1>3, <1>4, <1>7, AscendsTail
<1>9. \A x : Has(box, x) <=> \E m \in 1 + 1 .. Len(q) : q[m] = x
  <2>1. ASSUME NEW x, Has(box, x) PROVE \E m \in 1 + 1 .. Len(q) : q[m] = x
    <3>1. PICK m \in 1 .. Len(q) - 1 : q[m + 1] = x
      BY <1>5, <1>7, <2>1 DEF Has
    <3>2. m + 1 \in 1 + 1 .. Len(q)
      BY <1>5
    <3>. QED  BY <3>1, <3>2
  <2>2. ASSUME NEW x, NEW m \in 1 + 1 .. Len(q), q[m] = x PROVE Has(box, x)
    <3>1. m - 1 \in 1 .. Len(q) - 1 /\ (m - 1) + 1 = m
      BY <1>5
    <3>2. box[m - 1] = x /\ m - 1 \in DOMAIN box
      BY <1>5, <1>7, <2>2, <3>1
    <3>. QED  BY <3>2 DEF Has
  <2>. QED  BY <2>1, <2>2
<1>10. PICK v : v = After(i, r.stop)
  OBVIOUS
<1>11. v \in PCs
  BY <1>10, AfterType
<1>12. /\ Effect(i, r, r, box) /\ pc' = [pc EXCEPT ![i] = v] /\ 1 \in 0 .. Len(inbox[i])
       /\ \A x : Has(box, x) <=> \E m \in 1 + 1 .. Len(inbox[i]) : inbox[i][m] = x
  BY <1>1, <1>3, <1>5, <1>7, <1>9, <1>10
<1>. QED  BY <1>4, <1>6, <1>8, <1>11, <1>12, EffectAgreed

LEMMA TickAgreed ==
    ASSUME FramesInv, TableInv, TypeInv, RoomsInv, Agreed, NEW i \in Instances,
           TimerTick(i) \/ CatchUp(i)
    PROVE  Agreed'
<1>1. DoTick(i) /\ Alive(i)
  BY DEF TimerTick, CatchUp, Alive
<1>2. PICK f, k : /\ Drains(i, f) /\ Effect(i, f[Len(inbox[i])], k, <<>>)
                  /\ pc' = [pc EXCEPT ![i] = "advance"]
  BY <1>1, DoTickIs DEF TypeInv
<1>3. PICK n : n = Len(inbox[i])
  OBVIOUS
<1>4. PICK r : r = f[n]
  OBVIOUS
<1>5. PICK box : box = <<>>
  OBVIOUS
<1>6. n \in Nat /\ n \in 0 .. Len(inbox[i])
  BY <1>3 DEF TypeInv, RoomTypes, Boxes
<1>7. Fine(i, n, r) /\ Effect(i, r, k, box)
  BY <1>1, <1>2, <1>3, <1>4, <1>5, FineDrained
<1>8. DOMAIN box = {} /\ n + 1 .. Len(inbox[i]) = {}
  BY <1>3, <1>5, <1>6
<1>9. Ascends(box) /\ \A x : Has(box, x) <=> \E m \in n + 1 .. Len(inbox[i]) : inbox[i][m] = x
  BY <1>8 DEF Ascends, Has
<1>10. "advance" \in PCs
  BY DEF PCs
<1>. QED  BY <1>1, <1>2, <1>6, <1>7, <1>9, <1>10, EffectAgreed
-----------------------------------------------------------------------------
LEMMA AgreedInit == Init => AgreeInv
<1>. SUFFICES ASSUME Init PROVE Agreed
  BY DEF AgreeInv
<1>1. PICK none : none = <<>>
  OBVIOUS
<1>2. \A x : ~Has(none, x)
  BY <1>1 DEF Has
<1>3. Ascends(none)
  BY <1>1 DEF Ascends
<1>4. /\ acc = none /\ wire = [c \in 1 .. MaxConns |-> none] /\ outbox = none
      /\ inbox = [i \in Instances |-> none] /\ routing = None
  BY <1>1 DEF Init
<1>5. Up = {} /\ Mid = {} /\ Out = {} /\ \A i \in Instances : In[i] = {}
  BY <1>2, <1>4 DEF Up, Mid, In, Out
<1>6. \A e : ~Down(e)
  BY <1>5 DEF Down
<1>7. /\ \A s \in Ids : owner[s] = None /\ sessions[s] = None
      /\ \A i \in Instances, p \in Players : players[i][p] = None
  BY DEF Init, Nobody
<1>8. LinkUp
  BY <1>1, <1>4 DEF Init, LinkUp
<1>9. Ordered
  BY <1>2, <1>3, <1>4 DEF Ordered
<1>. QED  BY <1>5, <1>6, <1>7, <1>8, <1>9 DEF Agreed, Numbers, UpOpens, Closes, InboxRight,
              MidRight, PlayersListed, OwnPlayer, KickGone, ListedPlay, OwnedPlaced, EndedLeave

LEMMA AgreedStep ==
    ASSUME FramesInv, TableInv, TypeInv, RoomsInv, AgreeInv, [Next]_vars
    PROVE  AgreeInv'
<1>. SUFFICES ASSUME ~cut' PROVE Agreed'
  BY DEF AgreeInv
<1>1. ~cut /\ \A dead \in BOOLEAN : ~EngineBreak(dead)
  <2>1. ASSUME NEW dead \in BOOLEAN, EngineBreak(dead) PROVE FALSE
    BY <2>1 DEF EngineBreak
  <2>2. ASSUME EngineNext PROVE cut' = cut
    BY <2>1, <2>2 DEF EngineNext, EngineOpen, EngineClose, EngineOther, EngineConnect
  <2>3. ASSUME ReaderNext PROVE cut' = cut
    BY <2>3 DEF ReaderNext, ReaderEnsure, ReadChunk, ReadError, HandleSessionOpen, RouteToRoom,
                SendToRoom, DispatchGlobal
  <2>4. ASSUME NEW i \in Instances, HandleEvent(i) \/ AdvanceReturn(i) \/ Stop(i) \/ RemoveRoom(i)
        PROVE  cut' = cut
    BY <2>4 DEF HandleEvent, AdvanceReturn, Stop, RemoveRoom
  <2>5. ASSUME NEW i \in Instances, TimerTick(i) \/ CatchUp(i) PROVE cut' = cut
    <3>1. DoTick(i)
      BY <2>5 DEF TimerTick, CatchUp
    <3>2. PICK f, k : Effect(i, f[Len(inbox[i])], k, <<>>)
      BY <3>1, DoTickIs DEF TypeInv
    <3>. QED  BY <3>2 DEF Effect
  <2>6. ASSUME WriterEnsure \/ WriteFrame \/ (\E g \in Goroutines : OnEngineDead(g)) \/ UNCHANGED vars
        PROVE  cut' = cut
    BY <2>6 DEF WriterEnsure, WriteFrame, OnEngineDead, vars
  <2>7. cut' = cut
    BY <2>2, <2>3, <2>4, <2>5, <2>6 DEF Next, RoomNext
  <2>. QED  BY <2>1, <2>7
<1>2. Agreed
  BY <1>1 DEF AgreeInv
<1>3. CASE EngineNext
  <2>1. ASSUME NEW p \in Players, EngineOpen(p) PROVE Agreed'
    BY <1>2, <2>1, EngineOpenAgreed
  <2>2. ASSUME NEW s \in Ids, EngineClose(s) PROVE Agreed'
    BY <1>2, <2>2, EngineCloseAgreed
  <2>3. ASSUME NEW s \in Ids, EngineOther(Ev("data", s, 0)) PROVE Agreed'
    <3>1. PICK f : f = Ev("data", s, 0)
      OBVIOUS
    <3>2. f \in Frames /\ f.k = "data"
      BY <3>1 DEF Ev, Frames, Events, Kinds
    <3>. QED  BY <1>2, <2>3, <3>1, <3>2, EngineOtherAgreed
  <2>4. CASE EngineOther(Ev("overload", 0, 0))
    <3>1. PICK f : f = Ev("overload", 0, 0)
      OBVIOUS
    <3>2. f \in Frames /\ f.k = "overload" /\ f.s = 0
      BY <3>1 DEF Ev, Frames, Events, Kinds
    <3>. QED  BY <1>2, <2>4, <3>1, <3>2, EngineOtherAgreed
  <2>5. CASE EngineConnect
    BY <1>2, <2>5, EngineConnectAgreed
  <2>. QED  BY <1>1, <1>3, <2>1, <2>2, <2>3, <2>4, <2>5 DEF EngineNext
<1>4. CASE ReaderNext
  BY <1>2, <1>4, EnsureAgreed, ReadAgreed, NobodyDies, OpenAgreed, RouteAgreed, SendAgreed,
     GlobalAgreed DEF ReaderNext
<1>5. CASE RoomNext
  BY <1>2, <1>5, HandleAgreed, TickAgreed, AdvanceAgreed, StopAgreed, RemoveAgreed
     DEF RoomNext
<1>6. CASE WriterEnsure \/ WriteFrame
  BY <1>2, <1>6, EnsureAgreed, WriteAgreed
<1>7. ASSUME NEW g \in Goroutines, OnEngineDead(g) PROVE FALSE
  BY <1>2, <1>7, NobodyDies
<1>8. CASE UNCHANGED vars
  <2>1. UNCHANGED <<owner, nextId, peer, conns, wire, cur, rconn, wconn, dying, acc, routing,
                    rooms, sessions, outbox, roomId, players, inbox, pc, lost>>
    BY <1>8 DEF vars, engineVars, connVars, serverVars, roomVars
  <2>2. UNCHANGED <<Up, In, Mid, Out>>
    BY <2>1 DEF Up, In, Mid, Out
  <2>3. LinkUp' /\ Ordered'
    BY <1>2, <2>1 DEF Agreed, LinkUp, Ordered
  <2>. QED  BY <1>2, <2>1, <2>2, <2>3, SameAgreed
<1>. QED  BY <1>3, <1>4, <1>5, <1>6, <1>7, <1>8 DEF Next

\* As long as the connection lasts, no order of the engine, the reader, the writer
\* and the rooms leaves a session without a place and without a Kick, or one that
\* is closed in its place.
THEOREM TableAgreesWithEngine == Spec => []SessionsAgree
<1>1. FramesInv /\ TableInv /\ TypeInv /\ AgreeInv => SessionsAgree
  BY AgreedImplies DEF AgreeInv, SessionsAgree
<1>2. FramesInv /\ TableInv /\ TypeInv /\ RoomsInv /\ AgreeInv /\ [Next]_vars
          => FramesInv' /\ TableInv' /\ TypeInv' /\ RoomsInv' /\ AgreeInv'
  BY StepKeeps, TypeStep, RoomsStep, AgreedStep
<1>. QED  BY InitHolds, TypeInit, RoomsInit, AgreedInit, <1>1, <1>2, PTL DEF Spec

\* Nor does it leave a session whose player is not in its room, or a player in a
\* room whose session is another's.
THEOREM RoomsAgreeWithTable == Spec => []MembersAgree
<1>1. FramesInv /\ TableInv /\ TypeInv /\ AgreeInv => MembersAgree
  BY AgreedImplies DEF AgreeInv, MembersAgree
<1>2. FramesInv /\ TableInv /\ TypeInv /\ RoomsInv /\ AgreeInv /\ [Next]_vars
          => FramesInv' /\ TableInv' /\ TypeInv' /\ RoomsInv' /\ AgreeInv'
  BY StepKeeps, TypeStep, RoomsStep, AgreedStep
<1>. QED  BY InitHolds, TypeInit, RoomsInit, AgreedInit, <1>1, <1>2, PTL DEF Spec
=============================================================================
