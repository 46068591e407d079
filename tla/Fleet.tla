-------------------------------- MODULE Fleet --------------------------------
(***************************************************************************)
(* Devices and their heartbeats: api/devices.py, cleanup/heartbeat.py and  *)
(* the event bus, in one process.                                          *)
(*                                                                         *)
(* The endpoints are coroutines of one event loop and suspend only inside  *)
(* publish.  receive_heartbeat loads the device, its heartbeat and its     *)
(* capabilities, awaits publish, and then commits what it changed in one   *)
(* transaction: what it loaded may be stale, and publish may raise.        *)
(* create_device commits first and publishes then.                         *)
(*                                                                         *)
(* A heartbeat is updated by the id of the row that was loaded.  SQLite    *)
(* gives the id of a deleted last row again, to whichever device comes     *)
(* next; PostgreSQL never does.                                            *)
(***************************************************************************)
EXTENDS EventBus

CONSTANTS
    Names,       \* what an operator may call a device
    DefaultName, \* what a heartbeat calls a device nobody has registered
    Statuses,    \* DeviceStatus, "offline" among them
    None,        \* no row
    Databases,   \* the kinds of database: "sqlite", "postgresql"
    Faults,      \* which steps may fail by themselves: "commit"
    MaxNamed,    \* bound: how often one heartbeat names one capability
    MaxRequests  \* bound: heartbeats and registrations ever received

ASSUME NoneIsNoStatus == None \notin Statuses
ASSUME HandlersFinite == IsFiniteSet(Publishers)
ASSUME FleetBounds ==
    /\ "offline" \in Statuses
    /\ DefaultName \in Names
    /\ Databases \subseteq {"sqlite", "postgresql"}
    /\ Faults \subseteq {"commit"}
    /\ MaxNamed \in Nat
    /\ MaxRequests \in Nat

Devices == Channels
Handlers == Publishers

VARIABLES
    database, \* the kind of database; never changes
    device,  \* table devices, by device_id
    beat,    \* table device_heartbeats: id and status, by device_id
    born,    \* the id that was given last
    old,     \* devices whose heartbeat is past its retention
    caps,    \* rows of device_capabilities, all of one capability, by device
    phase, req, seen,  \* per handler: its phase, its request, what it loaded
    served   \* requests received so far

fleetVars == <<database, device, beat, born, old, caps, phase, req, seen, served>>
vars == <<fleetVars, busVars>>
rows == <<database, device, beat, born, old, caps>>
-----------------------------------------------------------------------------
Device == [status : Statuses, name : Names]
NoDevice == [status |-> None, name |-> None]

Beat == [id : Nat \ {0}, status : Statuses]
NoBeat == [id |-> 0, status |-> None]

Request == [op : {"none", "create", "heartbeat"}, device : Devices \cup {Nobody},
            status : Statuses \cup {None}, name : Names \cup {None}]
NoRequest == [op |-> "none", device |-> Nobody, status |-> None, name |-> None]

\* What a heartbeat loads, and how many rows of the capability it has to add.
Seen == [device : Statuses \cup {None}, beat : Beat \cup {NoBeat}, adds : 0..MaxNamed]
NothingSeen == [device |-> None, beat |-> NoBeat, adds |-> 0]

TypeOK ==
    /\ BusTypeOK
    /\ database \in Databases
    /\ device \in [Devices -> Device \cup {NoDevice}]
    /\ beat \in [Devices -> Beat \cup {NoBeat}]
    /\ born \in Nat
    /\ old \subseteq Devices
    /\ caps \in [Devices -> Nat]
    /\ phase \in [Handlers -> {"idle", "publishing", "published"}]
    /\ req \in [Handlers -> Request]
    /\ seen \in [Handlers -> Seen]
    /\ served \in 0..MaxRequests

Init ==
    /\ BusInit
    /\ database \in Databases
    /\ device = [d \in Devices |-> NoDevice]
    /\ beat = [d \in Devices |-> NoBeat]
    /\ born = 0
    /\ old = {}
    /\ caps = [d \in Devices |-> 0]
    /\ phase = [h \in Handlers |-> "idle"]
    /\ req = [h \in Handlers |-> NoRequest]
    /\ seen = [h \in Handlers |-> NothingSeen]
    /\ served = 0
-----------------------------------------------------------------------------
Starts(h, rq, loaded) ==
    /\ Free /\ phase[h] = "idle"
    /\ served < MaxRequests /\ served' = served + 1
    /\ phase' = [phase EXCEPT ![h] = "publishing"]
    /\ req' = [req EXCEPT ![h] = rq]
    /\ seen' = [seen EXCEPT ![h] = loaded]
    /\ PublishStarts(h, rq.device)
    /\ UNCHANGED <<clients, conn>>

\* The answer; the session is closed, and what it has not committed is lost.
Ends(h) ==
    /\ phase' = [phase EXCEPT ![h] = "idle"]
    /\ req' = [req EXCEPT ![h] = NoRequest]
    /\ seen' = [seen EXCEPT ![h] = NothingSeen]
    /\ served' = served

\* Device, tags and all are committed before anybody hears of it.
CreateDevice(h, d, n) ==
    /\ device[d] = NoDevice
    /\ device' = [device EXCEPT ![d] = [status |-> "offline", name |-> n]]
    /\ Starts(h, [op |-> "create", device |-> d, status |-> "offline", name |-> n],
              NothingSeen)
    /\ UNCHANGED <<database, beat, born, old, caps>>

\* No await: loaded, changed and committed at once.
UpdateDevice(d, n) ==
    /\ Free /\ device[d] # NoDevice
    /\ device' = [device EXCEPT ![d].name = n]
    /\ UNCHANGED <<database, beat, born, old, caps, phase, req, seen, served, busVars>>

\* Mutant: the capabilities that are there are not looked up.
AddsAlways(d, n) == n

\* The loop over supported_step_types, of which n are the capability.  Nothing is
\* flushed in between: one that is missing is missing every time.
Adds(d, n) == IF caps[d] = 0 THEN n ELSE 0

\* receive_heartbeat up to the publication.
ReceiveHeartbeat(h, d, s, n) ==
    /\ Starts(h, [op |-> "heartbeat", device |-> d, status |-> s, name |-> DefaultName],
              [device |-> device[d].status, beat |-> beat[d], adds |-> Adds(d, n)])
    /\ UNCHANGED rows
-----------------------------------------------------------------------------
SendNext(h, c) == SendStarts(h, c) /\ UNCHANGED fleetVars
SendReturns(h) == SendEnds(h) /\ UNCHANGED fleetVars

\* The exception of publish is the handler's: 500, and a heartbeat is lost.
PublishFails(h) == LoopBreaks(h) /\ Ends(h) /\ UNCHANGED rows

Published(h) ==
    /\ LoopEnds(h)
    /\ phase' = [phase EXCEPT ![h] = "published"]
    /\ UNCHANGED <<rows, req, seen, served>>

Closes(h) ==
    /\ Ends(h)
    /\ pub' = [pub EXCEPT ![h] = NoPublication]
    /\ turn' = Nobody
    /\ UNCHANGED <<clients, conn, queued>>

EndCreate(h) ==
    /\ phase[h] = "published" /\ req[h].op = "create"
    /\ Closes(h)
    /\ UNCHANGED rows

\* Mutant: the status of the device is written whatever it was.
DeviceStatusForced(current, loaded, asked) == asked

\* SQLAlchemy writes a column that differs from the one loaded.
DeviceStatus(current, loaded, asked) == IF asked = loaded THEN current ELSE asked
BeatStatus(current, loaded, asked) == IF asked = loaded THEN current ELSE asked

\* Mutant: the row is written as it was loaded, the name included.
DeviceRowWhole(h, current) ==
    [status |-> DeviceStatus(current.status, seen[h].device, req[h].status),
     name |-> req[h].name]

\* Mutant: a device that comes with its first heartbeat gets no name.
DeviceRowUnnamed(h, current) ==
    [status |-> DeviceStatus(current.status, seen[h].device, req[h].status),
     name |-> current.name]

\* The row of the device after the commit of h.
DeviceRow(h, current) ==
    [status |-> DeviceStatus(current.status, seen[h].device, req[h].status),
     name |-> IF seen[h].device = None THEN req[h].name ELSE current.name]

\* The ids the next heartbeat may be given: SQLite's is the one after the greatest
\* that is there, PostgreSQL's never comes back.
NextIds ==
    IF database = "sqlite"
    THEN {i \in 1..(born + 1) : /\ \A d \in Devices : beat[d].id < i
                                /\ i > 1 => \E d \in Devices : beat[d].id = i - 1}
    ELSE {born + 1}

\* A device that had no heartbeat gets one; device_id is unique.
InsertBeat(h) ==
    LET d == req[h].device
    IN  /\ seen[h].beat = NoBeat /\ beat[d] = NoBeat
        /\ \E i \in NextIds :
              /\ beat' = [beat EXCEPT ![d] = [id |-> i, status |-> req[h].status]]
              /\ born' = i
        /\ UNCHANGED old

\* The row that has the id is updated, whichever device it is of by now.
\* last_seen is written every time, device_id never.
UpdateBeat(h) ==
    /\ seen[h].beat # NoBeat
    /\ \E d \in Devices :
          /\ beat[d].id = seen[h].beat.id
          /\ beat' = [beat EXCEPT ![d].status =
                                  BeatStatus(@, seen[h].beat.status, req[h].status)]
          /\ old' = old \ {d}
    /\ UNCHANGED born

\* The INSERTs and UPDATEs of h find what they need: no row where one is
\* inserted (device_id is unique in both tables), a row where one is updated.
Fits(h) ==
    LET d == req[h].device
    IN  /\ seen[h].device = None => device[d] = NoDevice
        /\ IF seen[h].beat = NoBeat THEN beat[d] = NoBeat
           ELSE \E e \in Devices : beat[e].id = seen[h].beat.id

\* The transaction of receive_heartbeat.
StoreHeartbeat(h) ==
    LET d == req[h].device
    IN  /\ phase[h] = "published" /\ req[h].op = "heartbeat"
        /\ Fits(h)
        /\ device' = [device EXCEPT ![d] = DeviceRow(h, device[d])]
        /\ InsertBeat(h) \/ UpdateBeat(h)
        /\ caps' = [caps EXCEPT ![d] = @ + seen[h].adds]
        /\ Closes(h)
        /\ UNCHANGED database

\* IntegrityError, StaleDataError or a failing commit: all of it is rolled back.
HeartbeatRejected(h) ==
    /\ phase[h] = "published" /\ req[h].op = "heartbeat"
    /\ "commit" \in Faults \/ ~Fits(h)
    /\ Closes(h)
    /\ UNCHANGED rows
-----------------------------------------------------------------------------
\* Seven days pass without a heartbeat of d.  That is longer than any handler
\* takes: whatever is under way at the end of them began after the row was last
\* seen, and finds it as if it had begun after the end.
Age(d) ==
    /\ beat[d] # NoBeat /\ d \notin old
    /\ \A h \in Handlers : phase[h] = "idle"
    /\ old' = old \cup {d}
    /\ UNCHANGED <<database, device, beat, born, caps, phase, req, seen, served, busVars>>

Kept == [d \in Devices |-> IF d \in old THEN NoBeat ELSE beat[d]]

\* Mutant: a device goes with its heartbeat.
CleanupWithDevice ==
    /\ Free /\ old # {}
    /\ beat' = Kept
    /\ device' = [d \in Devices |-> IF d \in old THEN NoDevice ELSE device[d]]
    /\ old' = {}
    /\ UNCHANGED <<database, born, caps, phase, req, seen, served, busVars>>

\* cleanup_old_heartbeats: one DELETE.
Cleanup ==
    /\ Free /\ old # {}
    /\ beat' = Kept
    /\ old' = {}
    /\ UNCHANGED <<database, device, born, caps, phase, req, seen, served, busVars>>

\* get_device, list_devices, get_heartbeat_stats, and requests that are refused.
ReadOnly == Free /\ UNCHANGED vars

Listen(c) ==
    /\ (\E ch \in Channels : Connect(c, ch)) \/ Drop(c) \/ KeepaliveFails(c)
    /\ UNCHANGED fleetVars

Continue(h) ==
    \/ \E c \in Connections : SendNext(h, c)
    \/ SendReturns(h) \/ PublishFails(h) \/ Published(h)
    \/ EndCreate(h) \/ StoreHeartbeat(h) \/ HeartbeatRejected(h)

Next ==
    \/ \E h \in Handlers : \E d \in Devices :
          \/ \E n \in Names : CreateDevice(h, d, n)
          \/ \E s \in Statuses : \E n \in 0..MaxNamed : ReceiveHeartbeat(h, d, s, n)
    \/ \E d \in Devices : \E n \in Names : UpdateDevice(d, n)
    \/ \E h \in Handlers : Continue(h)
    \/ \E c \in Connections : Listen(c)
    \/ \E d \in Devices : Age(d)
    \/ Cleanup
    \/ ReadOnly

Spec == Init /\ [][Next]_vars

\* The event loop runs what can run, first come first served.  uvicorn's ping
\* timeout ends a send that is stuck, and the timer of subscribe comes round
\* for every connection.
FairSpec ==
    /\ Spec
    /\ \A h \in Handlers : WF_vars(Continue(h))
    /\ \A c \in Connections : WF_vars(KeepaliveFails(c) /\ UNCHANGED fleetVars)
-----------------------------------------------------------------------------
(***************************************************************************)
(* Properties.                                                             *)
(***************************************************************************)

\* Where no id comes back, a device and its heartbeat tell the same status, although
\* two heartbeats of one device may have loaded the same rows and write only what
\* differs from them, and a cleanup may delete the row under one of them.  On SQLite
\* such a late commit may come to another device's heartbeat, and they do not.
StatusesAgree ==
    database = "postgresql" =>
        \A d \in Devices : beat[d] # NoBeat => device[d].status = beat[d].status

\* A capability is looked up before the publication and inserted after it: handlers
\* that overlap may each insert it, as often as their heartbeats name it, but it is
\* never inserted again once one row is there.
CapabilitiesBounded ==
    \A d \in Devices : caps[d] <= Cardinality(Handlers) * MaxNamed

\* When a handler goes on from publish, every client that was listening when it
\* began and still is has been sent the message, whoever else died or came.
HeardBeforeStored ==
    \A h \in Handlers : phase[h] = "published" =>
        \A c \in pub[h].audience \cap clients[req[h].device] : c \in pub[h].heard

\* The name an operator gave a device changes in no step of a handler, least
\* of all in the commit of a heartbeat that loaded the device before.
NamesKept ==
    [][\A d \in Devices : device[d] # NoDevice /\ device'[d].name # device[d].name
          => phase' = phase]_vars

\* The two tables behave like DeviceBook: however many heartbeats have loaded their
\* rows and wait in publish, whatever an operator or the cleanup commits meanwhile,
\* each commit is one entry that could have been made by itself at that moment, and
\* a failing one is no entry.  On SQLite the entry may be a misfiled one.
Book == INSTANCE DeviceBook WITH beat <- [d \in Devices |-> beat[d].status]
ImplementsBook == Book!Spec

\* Every handler comes to its end, whichever of its listeners die, and though
\* nobody takes a message out of message_queue.
HandlersFinish == \A h \in Handlers : phase[h] # "idle" ~> phase[h] = "idle"

\* A dead connection leaves the set of its channel, without any publication.
DeadLeave ==
    \A c \in Connections : conn[c] = "dead" ~> \A ch \in Channels : c \notin clients[ch]
=============================================================================
