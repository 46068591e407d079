------------------------------ MODULE EventBus -------------------------------
(***************************************************************************)
(* events/__init__.py: the event bus of one process, and the WebSocket     *)
(* connections that listen to it.                                          *)
(*                                                                         *)
(* publish iterates over the set of a channel's clients and awaits a send  *)
(* to each.  A send suspends when the client's buffer is full; then other  *)
(* coroutines run, and the set may not be the same at the next iteration.  *)
(* Python raises RuntimeError if its size is another one; if one client    *)
(* left and another came, the iteration goes on with the members it has    *)
(* not passed.  (Bound: so few that the table of the set is not resized.)  *)
(*                                                                         *)
(* Left out: the queues of GraphQL subscriptions, whose schema no          *)
(* application mounts, and start and stop, which are the process's.        *)
(***************************************************************************)
EXTENDS Naturals, FiniteSets

CONSTANTS
    Publishers,   \* coroutines that publish
    Channels,     \* channels of the bus
    Connections,  \* WebSocket connections; each is used once
    Nobody        \* no publisher, channel or connection

ASSUME NobodyIsNobody == Nobody \notin Publishers \cup Channels \cup Connections
ASSUME ConnectionsFinite == IsFiniteSet(Connections)

VARIABLES
    clients,   \* self.clients
    conn,      \* what became of each connection
    queued,    \* how many messages are in message_queue
    pub,       \* the publication each publisher is in
    turn       \* the publisher that has the event loop and has not let it go

busVars == <<clients, conn, queued, pub, turn>>

\* A publication: the set as the loop found it, the members it has passed, those
\* that got the message, those whose send failed, the one it is sending to.
Publication == [channel : Channels \cup {Nobody}, audience : SUBSET Connections,
                visited : SUBSET Connections, heard : SUBSET Connections,
                failed : SUBSET Connections, at : Connections \cup {Nobody}]
Begun(ch) == [channel |-> ch, audience |-> clients[ch], visited |-> {},
              heard |-> {}, failed |-> {}, at |-> Nobody]
NoPublication == [channel |-> Nobody, audience |-> {}, visited |-> {},
                  heard |-> {}, failed |-> {}, at |-> Nobody]

BusTypeOK ==
    /\ clients \in [Channels -> SUBSET Connections]
    /\ conn \in [Connections -> {"new", "open", "dead", "gone"}]
    /\ queued \in Nat
    /\ pub \in [Publishers -> Publication]
    /\ turn \in Publishers \cup {Nobody}

BusInit ==
    /\ clients = [ch \in Channels |-> {}]
    /\ conn = [c \in Connections |-> "new"]
    /\ queued = 0
    /\ pub = [p \in Publishers |-> NoPublication]
    /\ turn = Nobody

\* The event loop runs one coroutine until it suspends or ends.
Free == turn = Nobody
Has(p) == turn \in {p, Nobody}
-----------------------------------------------------------------------------
\* subscribe: accepted, and added to the set of the channel.
Connect(c, ch) ==
    /\ Free
    /\ conn[c] = "new"
    /\ conn' = [conn EXCEPT ![c] = "open"]
    /\ clients' = [clients EXCEPT ![ch] = @ \cup {c}]
    /\ UNCHANGED <<queued, pub, turn>>

\* The peer goes away.  Nobody receives from the socket: only a send will tell.
Drop(c) ==
    /\ conn[c] = "open"
    /\ conn' = [conn EXCEPT ![c] = "dead"]
    /\ UNCHANGED <<clients, queued, pub, turn>>

\* Mutant: the subscription ends and leaves its connection in the set.
KeepaliveFailsLeaving(c) ==
    /\ Free
    /\ conn[c] = "dead"
    /\ conn' = [conn EXCEPT ![c] = "gone"]
    /\ UNCHANGED <<clients, queued, pub, turn>>

\* The loop of subscribe: every 30 seconds a keepalive.  One that fails ends
\* the loop, and the finally clause disconnects.
KeepaliveFails(c) ==
    /\ Free
    /\ conn[c] = "dead"
    /\ conn' = [conn EXCEPT ![c] = "gone"]
    /\ clients' = [ch \in Channels |-> clients[ch] \ {c}]
    /\ UNCHANGED <<queued, pub, turn>>
-----------------------------------------------------------------------------
\* Mutant: a queue of one place, which nobody empties.
HasPlaceBounded(n) == n < 1

\* asyncio.Queue() has no limit: put never waits.
HasPlace(n) == TRUE

\* publish, up to the loop.  A put that waits would let the loop go.
PublishStarts(p, ch) ==
    /\ queued' = queued + 1
    /\ pub' = [pub EXCEPT ![p] = Begun(ch)]
    /\ turn' = IF HasPlace(queued) THEN p ELSE Nobody

\* Python's test at each step of the iteration.
Resized(p) == Cardinality(clients[pub[p].channel]) # Cardinality(pub[p].audience)

InLoop(p) == pub[p].channel # Nobody

\* The send to the next member; it suspends or does not.
SendStarts(p, c) ==
    /\ InLoop(p) /\ turn = p /\ pub[p].at = Nobody
    /\ ~Resized(p)
    /\ c \in clients[pub[p].channel] \ pub[p].visited
    /\ pub' = [pub EXCEPT ![p].visited = @ \cup {c}, ![p].at = c]
    /\ turn' \in {p, Nobody}
    /\ UNCHANGED <<clients, conn, queued>>

\* The send returns, or raises because the connection is dead.  A client that
\* does not read is dead to uvicorn when it leaves a ping unanswered.
SendEnds(p) ==
    LET c == pub[p].at
    IN  /\ c # Nobody /\ Has(p)
        /\ IF conn[c] = "open"
           THEN pub' = [pub EXCEPT ![p].heard = @ \cup {c}, ![p].at = Nobody]
           ELSE pub' = [pub EXCEPT ![p].failed = @ \cup {c}, ![p].at = Nobody]
        /\ turn' = p
        /\ UNCHANGED <<clients, conn, queued>>

\* RuntimeError: Set changed size during iteration.  Nothing catches it, and
\* the clients whose send failed stay in the set.
LoopBreaks(p) ==
    /\ InLoop(p) /\ turn = p /\ pub[p].at = Nobody
    /\ Resized(p)
    /\ pub' = [pub EXCEPT ![p] = NoPublication]
    /\ turn' = Nobody
    /\ UNCHANGED <<clients, conn, queued>>

\* Mutant: the loop ends at the first send that fails.
AllPassedOrFailed(p) ==
    \/ pub[p].failed # {}
    \/ pub[p].audience \cap clients[pub[p].channel] \subseteq pub[p].visited

\* Members that joined behind the iteration are not met.
AllPassed(p) == pub[p].audience \cap clients[pub[p].channel] \subseteq pub[p].visited

\* The loop is over, and those whose send failed are disconnected.
LoopEnds(p) ==
    /\ InLoop(p) /\ turn = p /\ pub[p].at = Nobody
    /\ ~Resized(p) /\ AllPassed(p)
    /\ clients' = [clients EXCEPT ![pub[p].channel] = @ \ pub[p].failed]
    /\ pub' = [pub EXCEPT ![p] = [NoPublication EXCEPT !.audience = pub[p].audience,
                                                       !.heard = pub[p].heard]]
    /\ UNCHANGED <<conn, queued, turn>>
=============================================================================
