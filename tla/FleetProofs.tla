----------------------------- MODULE FleetProofs -----------------------------
(***************************************************************************)
(* Theorems about Fleet and the event bus it publishes on, for every set   *)
(* of handlers, devices, connections, names and statuses.                  *)
(***************************************************************************)
EXTENDS Fleet, FiniteSetTheorems, TLAPS

(***************************************************************************)
(* Types.                                                                  *)
(***************************************************************************)
\* A handler has a request of its device; a device that it has loaded stays.
HandlerOK ==
    \A h \in Handlers : req[h].op # "none" =>
        /\ phase[h] # "idle"
        /\ req[h].device \in Devices
        /\ req[h].status \in Statuses
        /\ req[h].name \in Names
        /\ seen[h].device # None => device[req[h].device] # NoDevice

TypeInv == TypeOK /\ HandlerOK

LEMMA ConstantTypes ==
    /\ None \notin Statuses /\ "offline" \in Statuses /\ DefaultName \in Names
    /\ Nobody \notin Devices /\ Nobody \notin Handlers /\ Nobody \notin Connections
    /\ NoDevice.status = None /\ NoDevice \notin Device
    /\ NoRequest \in Request /\ NoRequest.op = "none" /\ NoRequest.device = Nobody
    /\ NoBeat.id = 0 /\ NoBeat.status = None /\ NoBeat \notin Beat
    /\ NothingSeen \in Seen /\ NothingSeen.adds = 0 /\ NothingSeen.beat = NoBeat
    /\ MaxNamed \in Nat
    /\ NoPublication \in Publication /\ NoPublication.channel = Nobody
BY NoneIsNoStatus, FleetBounds, NobodyIsNobody
   DEF NoDevice, Device, NoBeat, Beat, NoRequest, Request, NothingSeen, Seen, NoPublication,
       Publication, Devices, Handlers

LEMMA InitTypes == Init => TypeInv
<1> SUFFICES ASSUME Init PROVE TypeInv
  OBVIOUS
<1>1. BusTypeOK
  BY ConstantTypes DEF Init, BusInit, BusTypeOK
<1>2. TypeOK
  BY <1>1, ConstantTypes, FleetBounds DEF Init, TypeOK
<1>3. HandlerOK
  BY ConstantTypes DEF Init, HandlerOK
<1> QED BY <1>2, <1>3 DEF TypeInv

\* A request that begins publishes on the channel of its device.
LEMMA StartsKeepsTypes ==
    ASSUME TypeInv, NEW h \in Handlers, NEW rq \in Request, NEW loaded \in Seen,
           rq.device \in Devices, rq.status \in Statuses, rq.name \in Names,
           loaded.device # None => device'[rq.device] # NoDevice,
           Starts(h, rq, loaded),
           device' \in [Devices -> Device \cup {NoDevice}],
           \A d \in Devices : device[d] # NoDevice => device'[d] # NoDevice,
           UNCHANGED <<database, beat, born, old, caps>>
    PROVE  TypeInv'
<1>1. served' \in 0..MaxRequests
  BY FleetBounds DEF Starts, TypeInv, TypeOK
<1>2. Begun(rq.device) \in Publication
  BY DEF Begun, Publication, Devices, TypeInv, TypeOK, BusTypeOK
<1>3. BusTypeOK'
  BY <1>2 DEF Starts, PublishStarts, HasPlace, TypeInv, TypeOK, BusTypeOK, Handlers
<1>4. TypeOK'
  BY <1>1, <1>3 DEF Starts, TypeInv, TypeOK
<1>5. HandlerOK'
  BY DEF Starts, TypeInv, TypeOK, HandlerOK
<1> QED BY <1>4, <1>5 DEF TypeInv

\* A handler that ends forgets its request.
LEMMA EndsKeepsTypes ==
    ASSUME TypeInv, NEW h \in Handlers, Ends(h), BusTypeOK',
           device' \in [Devices -> Device \cup {NoDevice}],
           \A d \in Devices : device[d] # NoDevice => device'[d] # NoDevice,
           database' = database,
           beat' \in [Devices -> Beat \cup {NoBeat}],
           born' \in Nat,
           old' \subseteq Devices,
           caps' \in [Devices -> Nat]
    PROVE  TypeInv'
<1>1. TypeOK'
  BY ConstantTypes DEF Ends, TypeInv, TypeOK
<1>2. HandlerOK'
  BY ConstantTypes DEF Ends, TypeInv, TypeOK, HandlerOK
<1> QED BY <1>1, <1>2 DEF TypeInv

LEMMA ClosesKeepsBus ==
    ASSUME TypeInv, NEW h \in Handlers, Closes(h)
    PROVE  BusTypeOK'
<1>1. pub' \in [Publishers -> Publication]
  BY ConstantTypes DEF Closes, TypeInv, TypeOK, BusTypeOK, Handlers
<1>2. turn' = Nobody /\ UNCHANGED <<clients, conn, queued>>
  BY DEF Closes
<1> QED BY <1>1, <1>2 DEF TypeInv, TypeOK, BusTypeOK

\* A step of the bus alone.
LEMMA BusStepKeepsTypes ==
    ASSUME TypeInv, BusTypeOK', UNCHANGED fleetVars
    PROVE  TypeInv'
BY DEF TypeInv, TypeOK, HandlerOK, fleetVars

\* What a commit writes is the row of a device, with a name and a status.
LEMMA StoredRow ==
    ASSUME TypeInv, NEW h \in Handlers, req[h].op = "heartbeat", Fits(h),
           NEW d \in Devices, d = req[h].device
    PROVE  /\ DeviceRow(h, device[d]) \in Device
           /\ seen[h].device = None <=> device[d] = NoDevice
<1>1. /\ req[h].status \in Statuses /\ req[h].name \in Names
      /\ seen[h].device # None <=> device[d] # NoDevice
  BY DEF TypeInv, HandlerOK, Fits
<1>2. device[d] \in Device \cup {NoDevice}
  BY DEF TypeInv, TypeOK
<1>3. CASE seen[h].device = None
  BY <1>1, <1>3, ConstantTypes DEF DeviceRow, DeviceStatus, Device
<1>4. CASE seen[h].device # None
  BY <1>1, <1>2, <1>4 DEF DeviceRow, DeviceStatus, Device
<1> QED BY <1>1, <1>3, <1>4

\* A row whose id has been loaded is a heartbeat, of whichever device.
LEMMA LoadedId ==
    ASSUME TypeInv, NEW h \in Handlers, seen[h].beat # NoBeat,
           NEW e \in Devices, beat[e].id = seen[h].beat.id
    PROVE  beat[e] \in Beat /\ beat[e] # NoBeat /\ seen[h].beat \in Beat
<1>1. seen[h].beat \in Beat
  BY DEF TypeInv, TypeOK, Seen
<1>2. beat[e].id # 0
  BY <1>1 DEF Beat
<1> QED BY <1>1, <1>2, ConstantTypes DEF TypeInv, TypeOK

\* An id that is given is no less than one.
LEMMA NextIdsTyped ==
    ASSUME TypeInv, NEW i \in NextIds
    PROVE  i \in Nat \ {0}
BY DEF NextIds, TypeInv, TypeOK

LEMMA StoredBeat ==
    ASSUME TypeInv, NEW h \in Handlers, req[h].op = "heartbeat",
           InsertBeat(h) \/ UpdateBeat(h)
    PROVE  beat' \in [Devices -> Beat \cup {NoBeat}] /\ born' \in Nat /\ old' \subseteq Devices
<1>1. req[h].status \in Statuses
  BY DEF TypeInv, HandlerOK
<1>2. CASE InsertBeat(h)
  <2>1. PICK i \in NextIds :
           /\ beat' = [beat EXCEPT ![req[h].device] = [id |-> i, status |-> req[h].status]]
           /\ born' = i
    BY <1>2 DEF InsertBeat
  <2>2. i \in Nat \ {0}
    BY NextIdsTyped
  <2>3. [id |-> i, status |-> req[h].status] \in Beat
    BY <1>1, <2>2 DEF Beat
  <2> QED BY <1>2, <2>1, <2>2, <2>3 DEF InsertBeat, TypeInv, TypeOK
<1>3. CASE UpdateBeat(h)
  <2>1. PICK e \in Devices :
           /\ beat[e].id = seen[h].beat.id
           /\ beat' = [beat EXCEPT ![e].status =
                                   BeatStatus(@, seen[h].beat.status, req[h].status)]
           /\ old' = old \ {e}
    BY <1>3 DEF UpdateBeat
  <2>2. beat[e] \in Beat
    BY <1>3, <2>1, LoadedId DEF UpdateBeat
  <2>3. BeatStatus(beat[e].status, seen[h].beat.status, req[h].status) \in Statuses
    BY <1>1, <2>2 DEF BeatStatus, Beat
  <2>4. [beat[e] EXCEPT !.status = BeatStatus(@, seen[h].beat.status, req[h].status)] \in Beat
    BY <2>2, <2>3 DEF Beat
  <2> QED BY <1>3, <2>1, <2>4 DEF UpdateBeat, TypeInv, TypeOK
<1> QED BY <1>2, <1>3

LEMMA ContinueKeepsTypes ==
    ASSUME TypeInv, NEW h \in Handlers, Continue(h)
    PROVE  TypeInv'
<1>1. ASSUME NEW c \in Connections, SendNext(h, c) PROVE TypeInv'
  <2>1. pub[h] \in Publication /\ h \in Publishers
    BY DEF TypeInv, TypeOK, BusTypeOK, Handlers
  <2>2. [pub[h] EXCEPT !.visited = @ \cup {c}, !.at = c] \in Publication
    BY <2>1 DEF Publication
  <2>3. /\ pub' = [pub EXCEPT ![h] = [pub[h] EXCEPT !.visited = @ \cup {c}, !.at = c]]
        /\ turn' \in {h, Nobody} /\ UNCHANGED <<clients, conn, queued>>
    BY <1>1, <2>1 DEF SendNext, SendStarts, TypeInv, TypeOK, BusTypeOK
  <2>4. BusTypeOK'
    BY <2>1, <2>2, <2>3 DEF TypeInv, TypeOK, BusTypeOK
  <2> QED BY <1>1, <2>4, BusStepKeepsTypes DEF SendNext
<1>2. CASE SendReturns(h)
  <2>1. pub[h].at \in Connections
    BY <1>2 DEF SendReturns, SendEnds, TypeInv, TypeOK, BusTypeOK, Publication, Handlers
  <2>2. BusTypeOK'
    BY <1>2, <2>1 DEF SendReturns, SendEnds, TypeInv, TypeOK, BusTypeOK, Publication,
                      Handlers
  <2> QED BY <1>2, <2>2, BusStepKeepsTypes DEF SendReturns
<1>3. CASE PublishFails(h)
  <2>1. BusTypeOK'
    BY <1>3, ConstantTypes DEF PublishFails, LoopBreaks, TypeInv, TypeOK, BusTypeOK, Handlers
  <2> QED BY <1>3, <2>1, EndsKeepsTypes DEF PublishFails, rows, TypeInv, TypeOK
<1>4. CASE Published(h)
  <2>1. [NoPublication EXCEPT !.audience = pub[h].audience,
                              !.heard = pub[h].heard] \in Publication
    BY ConstantTypes DEF TypeInv, TypeOK, BusTypeOK, Publication, Handlers
  <2>2. BusTypeOK'
    BY <1>4, <2>1 DEF Published, LoopEnds, TypeInv, TypeOK, BusTypeOK, Handlers
  <2>3. TypeOK'
    BY <1>4, <2>2 DEF Published, rows, TypeInv, TypeOK
  <2> QED BY <1>4, <2>3 DEF Published, rows, TypeInv, HandlerOK
<1>5. CASE EndCreate(h)
  BY <1>5, ClosesKeepsBus, EndsKeepsTypes DEF EndCreate, Closes, rows, TypeInv, TypeOK
<1>6. CASE StoreHeartbeat(h)
  <2>1. PICK d \in Devices : d = req[h].device
    BY <1>6 DEF StoreHeartbeat, TypeInv, HandlerOK
  <2>2. /\ Fits(h) /\ req[h].op = "heartbeat" /\ Closes(h) /\ database' = database
        /\ InsertBeat(h) \/ UpdateBeat(h)
    BY <1>6 DEF StoreHeartbeat
  <2>3. DeviceRow(h, device[d]) \in Device
    BY <2>1, <2>2, StoredRow
  <2>4. /\ device' = [device EXCEPT ![d] = DeviceRow(h, device[d])]
        /\ caps' = [caps EXCEPT ![d] = @ + seen[h].adds]
    BY <1>6, <2>1 DEF StoreHeartbeat
  <2>5. /\ device' \in [Devices -> Device \cup {NoDevice}]
        /\ \A e \in Devices : device[e] # NoDevice => device'[e] # NoDevice
    BY <2>3, <2>4, ConstantTypes DEF TypeInv, TypeOK
  <2>6. seen[h].adds \in Nat
    BY ConstantTypes DEF TypeInv, TypeOK, Seen
  <2>7. caps' \in [Devices -> Nat]
    BY <2>4, <2>6 DEF TypeInv, TypeOK
  <2> QED BY <2>2, <2>5, <2>7, StoredBeat, ClosesKeepsBus, EndsKeepsTypes DEF Closes
<1>7. CASE HeartbeatRejected(h)
  BY <1>7, ClosesKeepsBus, EndsKeepsTypes
     DEF HeartbeatRejected, Closes, rows, TypeInv, TypeOK
<1> QED BY <1>1, <1>2, <1>3, <1>4, <1>5, <1>6, <1>7 DEF Continue

LEMMA NextKeepsTypes == TypeInv /\ [Next]_vars => TypeInv'
<1> SUFFICES ASSUME TypeInv, [Next]_vars PROVE TypeInv'
  OBVIOUS
<1>1. ASSUME NEW h \in Handlers, NEW d \in Devices, NEW n \in Names,
             CreateDevice(h, d, n)
      PROVE  TypeInv'
  <2> DEFINE rq == [op |-> "create", device |-> d, status |-> "offline", name |-> n]
  <2>1. /\ rq \in Request /\ rq.device = d /\ rq.status \in Statuses /\ rq.name \in Names
        /\ Starts(h, rq, NothingSeen) /\ NothingSeen.device = None
    BY <1>1, ConstantTypes DEF CreateDevice, Request, NothingSeen
  <2>2. /\ device' \in [Devices -> Device \cup {NoDevice}]
        /\ \A e \in Devices : device[e] # NoDevice => device'[e] # NoDevice
    BY <1>1, ConstantTypes DEF CreateDevice, TypeInv, TypeOK, Device
  <2> HIDE DEF rq
  <2> QED BY <1>1, <2>1, <2>2, StartsKeepsTypes, ConstantTypes DEF CreateDevice
<1>2. ASSUME NEW h \in Handlers, NEW d \in Devices, NEW s \in Statuses,
             NEW n \in 0..MaxNamed, ReceiveHeartbeat(h, d, s, n)
      PROVE  TypeInv'
  <2> DEFINE rq == [op |-> "heartbeat", device |-> d, status |-> s, name |-> DefaultName]
             loaded == [device |-> device[d].status, beat |-> beat[d], adds |-> Adds(d, n)]
  <2>1. /\ rq \in Request /\ rq.device = d /\ rq.status \in Statuses /\ rq.name \in Names
    BY ConstantTypes DEF Request
  <2>2. /\ device[d] \in Device \cup {NoDevice}
        /\ device[d].status \in Statuses \cup {None}
    BY ConstantTypes DEF TypeInv, TypeOK, Device
  <2>3. loaded \in Seen /\ (loaded.device # None => device[d] # NoDevice)
    BY <2>2, ConstantTypes DEF TypeInv, TypeOK, Seen, Adds
  <2>4. Starts(h, rq, loaded) /\ UNCHANGED rows
    BY <1>2 DEF ReceiveHeartbeat
  <2>5. /\ device' \in [Devices -> Device \cup {NoDevice}] /\ device' = device
    BY <2>4 DEF rows, TypeInv, TypeOK
  <2> HIDE DEF rq, loaded
  <2> QED BY <2>1, <2>3, <2>4, <2>5, StartsKeepsTypes DEF rows
<1>3. ASSUME NEW d \in Devices, NEW n \in Names, UpdateDevice(d, n) PROVE TypeInv'
  <2>1. /\ device' \in [Devices -> Device \cup {NoDevice}]
        /\ \A e \in Devices : device[e] # NoDevice => device'[e] # NoDevice
    <3>1. device[d] \in Device
      BY <1>3 DEF UpdateDevice, TypeInv, TypeOK
    <3>2. [device[d] EXCEPT !.name = n] \in Device
      BY <3>1 DEF Device
    <3> QED BY <1>3, <3>2, ConstantTypes DEF UpdateDevice, TypeInv, TypeOK
  <2>2. UNCHANGED <<database, beat, born, old, caps, phase, req, seen, served, busVars>>
    BY <1>3 DEF UpdateDevice
  <2>3. BusTypeOK'
    BY <2>2 DEF busVars, TypeInv, TypeOK, BusTypeOK
  <2>4. TypeOK' /\ HandlerOK'
    BY <2>1, <2>2, <2>3 DEF TypeInv, TypeOK, HandlerOK
  <2> QED BY <2>4 DEF TypeInv
<1>4. ASSUME NEW h \in Handlers, Continue(h) PROVE TypeInv'
  BY <1>4, ContinueKeepsTypes
<1>5. ASSUME NEW c \in Connections, Listen(c) PROVE TypeInv'
  <2>1. BusTypeOK'
    BY <1>5 DEF Listen, Connect, Drop, KeepaliveFails, TypeInv, TypeOK, BusTypeOK
  <2> QED BY <1>5, <2>1, BusStepKeepsTypes DEF Listen
<1>6. ASSUME NEW d \in Devices, Age(d) PROVE TypeInv'
  BY <1>6 DEF Age, busVars, TypeInv, TypeOK, BusTypeOK, HandlerOK
<1>7. CASE Cleanup
  BY <1>7 DEF Cleanup, Kept, busVars, TypeInv, TypeOK, BusTypeOK, HandlerOK
<1>8. CASE ReadOnly \/ UNCHANGED vars
  BY <1>8 DEF ReadOnly, vars, fleetVars, busVars, TypeInv, TypeOK, BusTypeOK, HandlerOK
<1> QED BY <1>1, <1>2, <1>3, <1>4, <1>5, <1>6, <1>7, <1>8 DEF Next

\* The variables of devices.py and of the event bus have their types in every
\* state: whatever a commit writes is a row with a status and a name.
THEOREM TypeCorrect == Spec => []TypeOK
<1>1. TypeInv => TypeOK
  BY DEF TypeInv
<1> QED BY <1>1, InitTypes, NextKeepsTypes, PTL DEF Spec

(***************************************************************************)
(* Names.                                                                  *)
(***************************************************************************)
\* Where the row that a handler loaded was not there, the row it writes to is
\* not there either; in every other commit the name is left alone.
LEMMA NextKeepsNames ==
    TypeInv /\ [Next]_vars =>
        [\A d \in Devices : device[d] # NoDevice /\ device'[d].name # device[d].name
              => phase' = phase]_vars
<1> SUFFICES ASSUME TypeInv, [Next]_vars,
                    NEW d \in Devices, device[d] # NoDevice,
                    device'[d].name # device[d].name
             PROVE  phase' = phase
  OBVIOUS
<1>1. device \in [Devices -> Device \cup {NoDevice}]
  BY DEF TypeInv, TypeOK
<1>2. ASSUME NEW h \in Handlers, NEW e \in Devices, NEW n \in Names,
             CreateDevice(h, e, n)
      PROVE  FALSE
  BY <1>1, <1>2 DEF CreateDevice
<1>3. ASSUME NEW h \in Handlers, StoreHeartbeat(h) PROVE FALSE
  <2>1. PICK e \in Devices : e = req[h].device
    BY <1>3 DEF StoreHeartbeat, TypeInv, HandlerOK
  <2>2. device' = [device EXCEPT ![e] = DeviceRow(h, device[e])]
    BY <1>3, <2>1 DEF StoreHeartbeat
  <2>3. seen[h].device = None <=> device[e] = NoDevice
    BY <1>3, <2>1, StoredRow DEF StoreHeartbeat
  <2>4. device[e] # NoDevice => DeviceRow(h, device[e]).name = device[e].name
    BY <2>3 DEF DeviceRow
  <2> QED BY <1>1, <2>2, <2>4
<1>4. ASSUME NEW h \in Handlers, Continue(h), ~StoreHeartbeat(h) PROVE FALSE
  BY <1>4 DEF Continue, SendNext, SendReturns, PublishFails, Published, EndCreate,
              HeartbeatRejected, fleetVars, rows
<1>5. CASE \/ \E h \in Handlers : \E e \in Devices : \E s \in Statuses :
                 \E n \in 0..MaxNamed : ReceiveHeartbeat(h, e, s, n)
           \/ \E c \in Connections : Listen(c)
           \/ \E e \in Devices : Age(e)
           \/ Cleanup
           \/ ReadOnly
           \/ UNCHANGED vars
  BY <1>5 DEF ReceiveHeartbeat, Listen, Age, Cleanup, ReadOnly, vars, fleetVars, rows
<1>6. CASE \E e \in Devices : \E n \in Names : UpdateDevice(e, n)
  BY <1>6 DEF UpdateDevice
<1> QED BY <1>2, <1>3, <1>4, <1>5, <1>6 DEF Next

\* No commit of a heartbeat, however old the rows that it loaded, takes back the
\* name that an operator gave the device in between.
THEOREM NamesStay == Spec => NamesKept
BY InitTypes, NextKeepsTypes, NextKeepsNames, PTL DEF Spec, NamesKept

(***************************************************************************)
(* A device and its heartbeat.                                             *)
(***************************************************************************)
\* No id has been given twice, and one that a handler has loaded is its device's
\* or nobody's.  A heartbeat that is not there is not old.
IdsOK ==
    /\ \A d \in Devices : beat[d].id <= born
    /\ \A d, e \in Devices : beat[d] # NoBeat /\ beat[d].id = beat[e].id => d = e
    /\ \A h \in Handlers :
          /\ seen[h].beat.id <= born
          /\ req[h].op = "heartbeat" /\ seen[h].beat # NoBeat =>
                \A e \in Devices : beat[e].id = seen[h].beat.id => e = req[h].device

\* What a handler loaded.  The status of the heartbeat was that of the device.
\* Where there was no heartbeat, there is one by now, too young to be cleaned
\* up, or the device still has the status that it had.
LoadedOK ==
    \A h \in Handlers : req[h].op = "heartbeat" =>
        LET d == req[h].device
        IN  /\ seen[h].beat # NoBeat => seen[h].device = seen[h].beat.status
            /\ seen[h].beat = NoBeat =>
                  \/ beat[d] # NoBeat /\ d \notin old
                  \/ beat[d] = NoBeat /\ seen[h].device \in {None, device[d].status}

Agree == \A d \in Devices : beat[d] # NoBeat => device[d].status = beat[d].status
OldOK == \A d \in old : beat[d] # NoBeat

AgreeInv == OldOK /\ (database = "postgresql" => Agree /\ IdsOK /\ LoadedOK)

\* What the commit of a heartbeat does to device_heartbeats where no id comes back:
\* it inserts or updates the row of its device, whose id is then i.
StoredAs(h, d, i) ==
    /\ beat' = [beat EXCEPT ![d] =
                  [id |-> i,
                   status |-> IF seen[h].beat = NoBeat THEN req[h].status
                              ELSE BeatStatus(beat[d].status, seen[h].beat.status,
                                              req[h].status)]]
    /\ old' = old \ {d} /\ born' \in Nat /\ born <= born'
    /\ \/ seen[h].beat = NoBeat /\ beat[d] = NoBeat /\ i = born' /\ born < i
       \/ seen[h].beat # NoBeat /\ beat[d] # NoBeat /\ i = beat[d].id /\ born' = born

LEMMA StoredWithoutReuse ==
    ASSUME TypeInv, AgreeInv, database = "postgresql",
           NEW h \in Handlers, req[h].op = "heartbeat", InsertBeat(h) \/ UpdateBeat(h),
           NEW d \in Devices, d = req[h].device
    PROVE  \E i \in Nat \ {0} : StoredAs(h, d, i)
<1>1. CASE InsertBeat(h)
  <2>1. PICK i \in NextIds :
           /\ beat' = [beat EXCEPT ![d] = [id |-> i, status |-> req[h].status]]
           /\ born' = i /\ old' = old
           /\ seen[h].beat = NoBeat /\ beat[d] = NoBeat
    BY <1>1 DEF InsertBeat
  <2>2. i = born + 1 /\ born \in Nat
    BY <2>1 DEF NextIds, TypeInv, TypeOK
  <2>3. old' = old \ {d}
    BY <2>1 DEF AgreeInv, OldOK
  <2>4. i \in Nat \ {0} /\ StoredAs(h, d, i)
    BY <2>1, <2>2, <2>3 DEF StoredAs
  <2> QED BY <2>4
<1>2. CASE UpdateBeat(h)
  <2>1. PICK e \in Devices :
           /\ beat[e].id = seen[h].beat.id /\ seen[h].beat # NoBeat
           /\ beat' = [beat EXCEPT ![e].status =
                                   BeatStatus(@, seen[h].beat.status, req[h].status)]
           /\ old' = old \ {e} /\ born' = born
    BY <1>2 DEF UpdateBeat
  <2>2. e = d
    BY <2>1 DEF AgreeInv, IdsOK
  <2>3. beat[d] \in Beat /\ beat[d] # NoBeat
    BY <2>1, <2>2, LoadedId
  <2> DEFINE st == BeatStatus(beat[d].status, seen[h].beat.status, req[h].status)
  <2>4. beat' = [beat EXCEPT ![d] = [beat[d] EXCEPT !.status = st]]
    BY <2>1, <2>2 DEF TypeInv, TypeOK
  <2>5. [beat[d] EXCEPT !.status = st] = [id |-> beat[d].id, status |-> st]
    BY <2>3 DEF Beat
  <2>6. beat[d].id \in Nat \ {0} /\ born \in Nat
    BY <2>3 DEF Beat, TypeInv, TypeOK
  <2>7. StoredAs(h, d, beat[d].id)
    <3>1. beat' = [beat EXCEPT ![d] =
                     [id |-> beat[d].id,
                      status |-> IF seen[h].beat = NoBeat THEN req[h].status ELSE st]]
      BY <2>1, <2>4, <2>5
    <3>2. old' = old \ {d} /\ born' \in Nat /\ born <= born'
      BY <2>1, <2>2, <2>6
    <3> QED BY <2>1, <2>3, <3>1, <3>2 DEF StoredAs
  <2> QED BY <2>6, <2>7
<1> QED BY <1>1, <1>2

\* There, a commit writes one status into both tables, also where it writes only one.
LEMMA StoredStatuses ==
    ASSUME TypeInv, AgreeInv, database = "postgresql",
           NEW h \in Handlers, req[h].op = "heartbeat", Fits(h),
           InsertBeat(h) \/ UpdateBeat(h), NEW d \in Devices, d = req[h].device
    PROVE  beat'[d].status = DeviceRow(h, device[d]).status
<1>1. DeviceRow(h, device[d]).status
         = DeviceStatus(device[d].status, seen[h].device, req[h].status)
  BY DEF DeviceRow
<1>2. beat'[d].status = IF seen[h].beat = NoBeat THEN req[h].status
                        ELSE BeatStatus(beat[d].status, seen[h].beat.status, req[h].status)
  BY StoredWithoutReuse DEF StoredAs, TypeInv, TypeOK
<1>3. CASE seen[h].beat # NoBeat
  <2>1. seen[h].device = seen[h].beat.status /\ beat[d] # NoBeat
    BY <1>3, StoredWithoutReuse DEF StoredAs, AgreeInv, LoadedOK
  <2>2. device[d].status = beat[d].status
    BY <2>1 DEF AgreeInv, Agree
  <2> QED BY <1>1, <1>2, <1>3, <2>1, <2>2 DEF DeviceStatus, BeatStatus
<1>4. CASE seen[h].beat = NoBeat
  <2>1. req[h].status # None
    BY ConstantTypes DEF TypeInv, HandlerOK
  <2>2. beat[d] = NoBeat
    BY <1>4 DEF Fits
  <2>3. seen[h].device \in {None, device[d].status}
    BY <1>4, <2>2 DEF AgreeInv, LoadedOK
  <2>4. DeviceStatus(device[d].status, seen[h].device, req[h].status) = req[h].status
    BY <2>1, <2>3 DEF DeviceStatus
  <2> QED BY <1>1, <1>2, <1>4, <2>4
<1> QED BY <1>3, <1>4

LEMMA StoreKeepsAgreement ==
    ASSUME TypeInv, AgreeInv, NEW h \in Handlers, StoreHeartbeat(h)
    PROVE  AgreeInv'
<1>1. PICK d \in Devices : d = req[h].device
  BY DEF StoreHeartbeat, TypeInv, HandlerOK
<1>2. /\ Fits(h) /\ req[h].op = "heartbeat" /\ Ends(h)
      /\ InsertBeat(h) \/ UpdateBeat(h)
      /\ device' = [device EXCEPT ![d] = DeviceRow(h, device[d])]
      /\ database' = database
  BY <1>1 DEF StoreHeartbeat, Closes
<1>3. OldOK'
  <2>1. CASE InsertBeat(h)
    <3>1. PICK i \in NextIds :
             beat' = [beat EXCEPT ![d] = [id |-> i, status |-> req[h].status]]
      BY <1>1, <2>1 DEF InsertBeat
    <3>2. [id |-> i, status |-> req[h].status] # NoBeat
      BY NextIdsTyped DEF NoBeat
    <3>3. old' = old
      BY <2>1 DEF InsertBeat
    <3> QED BY <3>1, <3>2, <3>3 DEF AgreeInv, OldOK, TypeInv, TypeOK
  <2>2. CASE UpdateBeat(h)
    <3>1. PICK e \in Devices :
             /\ beat' = [beat EXCEPT ![e].status =
                                     BeatStatus(@, seen[h].beat.status, req[h].status)]
             /\ old' = old \ {e}
      BY <2>2 DEF UpdateBeat
    <3> QED BY <3>1 DEF AgreeInv, OldOK, TypeInv, TypeOK
  <2> QED BY <1>2, <2>1, <2>2
<1>4. ASSUME database = "postgresql" PROVE (Agree /\ IdsOK /\ LoadedOK)'
  <2>1. PICK i \in Nat \ {0} :
           /\ beat' = [beat EXCEPT ![d] = [id |-> i, status |-> beat'[d].status]]
           /\ old' = old \ {d} /\ born' \in Nat /\ born <= born'
           /\ \/ seen[h].beat = NoBeat /\ beat[d] = NoBeat /\ i = born' /\ born < i
              \/ seen[h].beat # NoBeat /\ beat[d] # NoBeat /\ i = beat[d].id /\ born' = born
    <3>1. PICK i \in Nat \ {0} : StoredAs(h, d, i)
      BY <1>1, <1>2, <1>4, StoredWithoutReuse
    <3>2. PICK st : st = IF seen[h].beat = NoBeat THEN req[h].status
                         ELSE BeatStatus(beat[d].status, seen[h].beat.status, req[h].status)
      OBVIOUS
    <3>3. beat' = [beat EXCEPT ![d] = [id |-> i, status |-> st]]
      BY <3>1, <3>2 DEF StoredAs
    <3>4. beat'[d].status = st
      BY <3>3 DEF TypeInv, TypeOK
    <3>5. beat' = [beat EXCEPT ![d] = [id |-> i, status |-> beat'[d].status]]
      BY <3>3, <3>4
    <3> QED BY <3>1, <3>5 DEF StoredAs
  <2>2. beat'[d].status = DeviceRow(h, device[d]).status
    BY <1>1, <1>2, <1>4, StoredStatuses
  <2>3. /\ beat' \in [Devices -> Beat \cup {NoBeat}] /\ beat'[d] # NoBeat /\ beat'[d].id = i
        /\ \A e \in Devices : e # d => beat'[e] = beat[e] /\ device'[e] = device[e]
        /\ device'[d] = DeviceRow(h, device[d])
        /\ born \in Nat /\ born' \in Nat
    <3>1. beat'[d] = [id |-> i, status |-> beat'[d].status]
      BY <2>1 DEF TypeInv, TypeOK
    <3>2. beat'[d] # NoBeat /\ beat'[d].id = i
      BY <3>1 DEF NoBeat
    <3> QED BY <1>2, <2>1, <3>2, StoredBeat DEF TypeInv, TypeOK
  <2>4. /\ \A e \in Devices : beat[e].id \in Nat /\ beat[e].id <= born
        /\ \A g \in Handlers : seen[g].beat.id \in Nat /\ seen[g].beat.id <= born
        /\ \A g \in Handlers : seen[g].beat # NoBeat => seen[g].beat.id # 0
    <3>1. \A b \in Beat \cup {NoBeat} : b.id \in Nat /\ (b # NoBeat => b.id # 0)
      BY DEF Beat, NoBeat
    <3> QED BY <1>4, <3>1 DEF AgreeInv, IdsOK, TypeInv, TypeOK, Seen
  <2>5. Agree'
    BY <1>4, <2>2, <2>3 DEF AgreeInv, Agree
  <2>6. ASSUME NEW g \in Handlers, req'[g].op = "heartbeat"
        PROVE  g # h /\ req'[g] = req[g] /\ seen'[g] = seen[g] /\ req[g].device \in Devices
    BY <1>2, <2>6, ConstantTypes DEF Ends, TypeInv, TypeOK, HandlerOK
  <2>7. IdsOK'
    <3>1. \A e \in Devices : beat'[e].id <= born'
      <4>1. i <= born'
        BY <2>1, <2>4
      <4> QED BY <2>1, <2>3, <2>4, <4>1
    <3>2. ASSUME NEW x \in Devices, NEW y \in Devices,
                 beat'[x] # NoBeat, beat'[x].id = beat'[y].id
          PROVE  x = y
      <4>1. CASE x # d /\ y # d
        BY <1>4, <2>3, <3>2, <4>1 DEF AgreeInv, IdsOK
      <4>2. ASSUME NEW e \in Devices, e # d, beat'[e].id = i PROVE FALSE
        <5>1. beat[e].id = i /\ i <= born
          BY <2>3, <2>4, <4>2
        <5>2. beat[d] # NoBeat /\ beat[d].id = beat[e].id
          BY <2>1, <2>3, <5>1
        <5> QED BY <1>4, <4>2, <5>2 DEF AgreeInv, IdsOK
      <4> QED BY <2>3, <3>2, <4>1, <4>2
    <3>3. \A g \in Handlers : seen'[g].beat.id <= born'
      <4>1. \A g \in Handlers : seen'[g].beat.id \in Nat /\ seen'[g].beat.id <= born
        BY <1>2, <2>4, ConstantTypes DEF Ends, TypeInv, TypeOK
      <4> QED BY <2>1, <2>3, <4>1
    <3>4. ASSUME NEW g \in Handlers, req'[g].op = "heartbeat", seen'[g].beat # NoBeat,
                 NEW e \in Devices, beat'[e].id = seen'[g].beat.id
          PROVE  e = req'[g].device
      <4>1. /\ req'[g] = req[g] /\ seen'[g] = seen[g] /\ req[g].op = "heartbeat"
        BY <2>6, <3>4
      <4>2. CASE e # d
        BY <1>4, <2>3, <3>4, <4>1, <4>2 DEF AgreeInv, IdsOK
      <4>3. CASE e = d
        <5>1. i = seen[g].beat.id /\ i <= born
          BY <2>3, <2>4, <3>4, <4>1, <4>3
        <5>2. beat[d].id = seen[g].beat.id
          BY <2>1, <2>3, <5>1
        <5> QED BY <1>4, <3>4, <4>1, <4>3, <5>2 DEF AgreeInv, IdsOK
      <4> QED BY <4>2, <4>3
    <3> QED BY <3>1, <3>2, <3>3, <3>4 DEF IdsOK
  <2>8. LoadedOK'
    <3> SUFFICES ASSUME NEW g \in Handlers, req'[g].op = "heartbeat"
                 PROVE  LET e == req'[g].device
                        IN  /\ seen'[g].beat # NoBeat => seen'[g].device = seen'[g].beat.status
                            /\ seen'[g].beat = NoBeat =>
                                  \/ beat'[e] # NoBeat /\ e \notin old'
                                  \/ /\ beat'[e] = NoBeat
                                     /\ seen'[g].device \in {None, device'[e].status}
      BY DEF LoadedOK
    <3>1. g # h /\ req'[g] = req[g] /\ seen'[g] = seen[g]
      BY <2>6
    <3>2. PICK e \in Devices : e = req[g].device
      BY <2>6
    <3>3. CASE e = d
      BY <1>4, <2>1, <2>3, <3>1, <3>2, <3>3 DEF AgreeInv, LoadedOK
    <3>4. CASE e # d
      <4>1. beat'[e] = beat[e] /\ device'[e] = device[e] /\ (e \in old' <=> e \in old)
        BY <2>1, <2>3, <3>4
      <4> QED BY <1>4, <3>1, <3>2, <4>1 DEF AgreeInv, LoadedOK
    <3> QED BY <3>3, <3>4
  <2> QED BY <2>5, <2>7, <2>8
<1> QED BY <1>2, <1>3, <1>4 DEF AgreeInv

LEMMA ContinueKeepsAgreement ==
    ASSUME TypeInv, AgreeInv, NEW h \in Handlers, Continue(h)
    PROVE  AgreeInv'
<1>1. CASE StoreHeartbeat(h)
  BY <1>1, StoreKeepsAgreement
<1>2. CASE Ends(h) /\ UNCHANGED rows
  <2>1. \A g \in Handlers : \/ req'[g] = req[g] /\ seen'[g] = seen[g]
                            \/ req'[g].op = "none" /\ seen'[g].beat = NoBeat
    BY <1>2, ConstantTypes DEF Ends, TypeInv, TypeOK
  <2>2. born \in Nat /\ NoBeat.id <= born
    BY ConstantTypes DEF TypeInv, TypeOK
  <2>3. UNCHANGED <<database, device, beat, born, old>>
    BY <1>2 DEF rows
  <2>4. OldOK' /\ (database = "postgresql" => Agree')
    BY <2>3 DEF AgreeInv, OldOK, Agree
  <2>5. database = "postgresql" => IdsOK'
    BY <2>1, <2>2, <2>3 DEF AgreeInv, IdsOK
  <2>6. database = "postgresql" => LoadedOK'
    BY <2>1, <2>3 DEF AgreeInv, LoadedOK
  <2> QED BY <2>3, <2>4, <2>5, <2>6 DEF AgreeInv
<1>3. CASE UNCHANGED <<rows, req, seen>>
  BY <1>3 DEF rows, AgreeInv, OldOK, Agree, IdsOK, LoadedOK
<1> QED BY <1>1, <1>2, <1>3
        DEF Continue, SendNext, SendReturns, PublishFails, Published, EndCreate,
            HeartbeatRejected, Closes, fleetVars, rows

LEMMA CreateKeepsAgreement ==
    ASSUME TypeInv, AgreeInv, NEW h \in Handlers, NEW d \in Devices, NEW n \in Names,
           CreateDevice(h, d, n)
    PROVE  AgreeInv'
<1> DEFINE rq == [op |-> "create", device |-> d, status |-> "offline", name |-> n]
<1>1. /\ device[d] = NoDevice
      /\ device' = [device EXCEPT ![d] = [status |-> "offline", name |-> n]]
      /\ req' = [req EXCEPT ![h] = rq] /\ rq.op = "create"
      /\ seen' = [seen EXCEPT ![h] = NothingSeen]
      /\ UNCHANGED <<database, beat, born, old>>
  BY DEF CreateDevice, Starts
<1> HIDE DEF rq
<1>2. OldOK'
  BY <1>1 DEF AgreeInv, OldOK
<1>3. ASSUME NEW g \in Handlers
      PROVE  \/ /\ req'[g] = req[g] /\ seen'[g] = seen[g]
                /\ req[g].op = "heartbeat" => req[g].device \in Devices
             \/ req'[g].op = "create" /\ seen'[g].beat = NoBeat
  BY <1>1, ConstantTypes DEF TypeInv, TypeOK, HandlerOK
<1>4. ASSUME database = "postgresql" PROVE (Agree /\ IdsOK /\ LoadedOK)'
  <2>1. beat[d] = NoBeat
    <3>1. beat[d] \in Beat => beat[d].status # None
      BY ConstantTypes DEF Beat
    <3> QED BY <1>1, <1>4, <3>1, ConstantTypes DEF AgreeInv, Agree, TypeInv, TypeOK
  <2>2. \A e \in Devices : e # d => device'[e] = device[e]
    BY <1>1 DEF TypeInv, TypeOK
  <2>3. Agree'
    BY <1>1, <1>4, <2>1, <2>2 DEF AgreeInv, Agree
  <2>4. born \in Nat /\ NoBeat.id <= born
    BY ConstantTypes DEF TypeInv, TypeOK
  <2>5. IdsOK'
    BY <1>1, <1>3, <1>4, <2>4 DEF AgreeInv, IdsOK
  <2>6. LoadedOK'
    <3> SUFFICES ASSUME NEW g \in Handlers, req'[g].op = "heartbeat"
                 PROVE  LET e == req'[g].device
                        IN  /\ seen'[g].beat # NoBeat => seen'[g].device = seen'[g].beat.status
                            /\ seen'[g].beat = NoBeat =>
                                  \/ beat'[e] # NoBeat /\ e \notin old'
                                  \/ /\ beat'[e] = NoBeat
                                     /\ seen'[g].device \in {None, device'[e].status}
      BY DEF LoadedOK
    <3>1. /\ req'[g] = req[g] /\ seen'[g] = seen[g] /\ req[g].op = "heartbeat"
          /\ req[g].device \in Devices
      BY <1>3
    <3>2. PICK e \in Devices : e = req[g].device
      BY <3>1
    <3>3. CASE e = d
      BY <1>1, <1>4, <2>1, <3>1, <3>2, <3>3, ConstantTypes DEF AgreeInv, LoadedOK
    <3>4. CASE e # d
      BY <1>1, <1>4, <2>2, <3>1, <3>2, <3>4 DEF AgreeInv, LoadedOK
    <3> QED BY <3>3, <3>4
  <2> QED BY <2>3, <2>5, <2>6
<1> QED BY <1>1, <1>2, <1>4 DEF AgreeInv

LEMMA ReceiveKeepsAgreement ==
    ASSUME TypeInv, AgreeInv, NEW h \in Handlers, NEW d \in Devices, NEW s \in Statuses,
           NEW n \in 0..MaxNamed, ReceiveHeartbeat(h, d, s, n)
    PROVE  AgreeInv'
<1> DEFINE rq == [op |-> "heartbeat", device |-> d, status |-> s, name |-> DefaultName]
           loaded == [device |-> device[d].status, beat |-> beat[d], adds |-> Adds(d, n)]
<1>1. /\ req' = [req EXCEPT ![h] = rq] /\ rq.device = d
      /\ seen' = [seen EXCEPT ![h] = loaded]
      /\ loaded.beat = beat[d] /\ loaded.device = device[d].status
      /\ UNCHANGED <<database, device, beat, born, old>>
  BY DEF ReceiveHeartbeat, Starts, rows
<1> HIDE DEF rq, loaded
<1>2. /\ req'[h] = rq /\ seen'[h] = loaded
      /\ \A g \in Handlers : g # h => req'[g] = req[g] /\ seen'[g] = seen[g]
  BY <1>1 DEF TypeInv, TypeOK
<1>3. OldOK'
  BY <1>1 DEF AgreeInv, OldOK
<1>4. ASSUME database = "postgresql" PROVE (Agree /\ IdsOK /\ LoadedOK)'
  <2>1. beat[d] # NoBeat => device[d].status = beat[d].status
    BY <1>4 DEF AgreeInv, Agree
  <2>2. Agree'
    BY <1>1, <1>4 DEF AgreeInv, Agree
  <2>3. IdsOK'
    BY <1>1, <1>2, <1>4 DEF AgreeInv, IdsOK
  <2>4. LoadedOK'
    BY <1>1, <1>2, <1>4, <2>1 DEF AgreeInv, LoadedOK
  <2> QED BY <2>2, <2>3, <2>4
<1> QED BY <1>1, <1>3, <1>4 DEF AgreeInv

LEMMA CleanupKeepsAgreement ==
    ASSUME TypeInv, AgreeInv, Cleanup
    PROVE  AgreeInv'
<1>1. \A d \in Devices : /\ d \in old => beat'[d] = NoBeat
                         /\ d \notin old => beat'[d] = beat[d]
  BY DEF Cleanup, Kept
<1>2. old' = {} /\ UNCHANGED <<database, device, born, req, seen>>
  BY DEF Cleanup
<1>3. OldOK'
  BY <1>2 DEF OldOK
<1>4. ASSUME database = "postgresql" PROVE (Agree /\ IdsOK /\ LoadedOK)'
  <2>1. Agree'
    BY <1>1, <1>2, <1>4 DEF AgreeInv, Agree
  <2>2. born \in Nat /\ NoBeat.id <= born /\ (\A g \in Handlers : seen[g].beat # NoBeat
                                                  => seen[g].beat.id # NoBeat.id)
    BY ConstantTypes DEF TypeInv, TypeOK, Seen, Beat
  <2>3. \A d, e \in Devices : beat'[d] # NoBeat /\ beat'[d].id = beat'[e].id => d = e
    <3> SUFFICES ASSUME NEW d \in Devices, NEW e \in Devices,
                        beat'[d] # NoBeat, beat'[d].id = beat'[e].id
                 PROVE  d = e
      OBVIOUS
    <3>1. beat'[d] = beat[d] /\ beat[d] \in Beat
      BY <1>1 DEF TypeInv, TypeOK
    <3>2. beat'[e] # NoBeat
      BY <3>1, ConstantTypes DEF Beat
    <3>3. beat'[e] = beat[e]
      BY <1>1, <3>2
    <3> QED BY <1>4, <3>1, <3>3 DEF AgreeInv, IdsOK
  <2>4. IdsOK'
    BY <1>1, <1>2, <1>4, <2>2, <2>3 DEF AgreeInv, IdsOK
  <2>5. \A g \in Handlers : req[g].op = "heartbeat" => req[g].device \in Devices
    BY DEF TypeInv, HandlerOK
  <2>6. LoadedOK'
    BY <1>1, <1>2, <1>4, <2>5 DEF AgreeInv, LoadedOK, OldOK
  <2> QED BY <2>1, <2>4, <2>6
<1> QED BY <1>2, <1>3, <1>4 DEF AgreeInv

LEMMA NextKeepsAgreement == TypeInv /\ AgreeInv /\ [Next]_vars => AgreeInv'
<1> SUFFICES ASSUME TypeInv, AgreeInv, [Next]_vars PROVE AgreeInv'
  OBVIOUS
<1>1. ASSUME NEW d \in Devices, NEW n \in Names, UpdateDevice(d, n) PROVE AgreeInv'
  <2>1. device[d] \in Device
    BY <1>1 DEF UpdateDevice, TypeInv, TypeOK
  <2>2. \A e \in Devices : device'[e].status = device[e].status
    BY <1>1, <2>1 DEF UpdateDevice, TypeInv, TypeOK, Device
  <2>3. \A g \in Handlers : req[g].op = "heartbeat" => req[g].device \in Devices
    BY DEF TypeInv, HandlerOK
  <2> QED BY <1>1, <2>2, <2>3 DEF UpdateDevice, AgreeInv, OldOK, Agree, IdsOK, LoadedOK
<1>2. ASSUME NEW d \in Devices, Age(d) PROVE AgreeInv'
  <2>1. \A g \in Handlers : req[g].op = "none"
    BY <1>2 DEF Age, TypeInv, TypeOK, HandlerOK
  <2> QED BY <1>2, <2>1 DEF Age, AgreeInv, OldOK, Agree, IdsOK, LoadedOK
<1>3. CASE (\E c \in Connections : Listen(c)) \/ ReadOnly \/ UNCHANGED vars
  BY <1>3 DEF Listen, ReadOnly, vars, fleetVars, AgreeInv, OldOK, Agree, IdsOK, LoadedOK
<1> QED BY <1>1, <1>2, <1>3, CreateKeepsAgreement, ReceiveKeepsAgreement,
           ContinueKeepsAgreement, CleanupKeepsAgreement
        DEF Next

\* Where no id comes back, a device and its heartbeat never tell different statuses,
\* whatever a handler had loaded before its publication and whatever was stored,
\* deleted or created while it was suspended.
THEOREM StatusesAlwaysAgree == Spec => []StatusesAgree
<1>1. Init => AgreeInv
  <2> SUFFICES ASSUME Init PROVE AgreeInv
    OBVIOUS
  <2>1. born = 0 /\ \A d \in Devices : beat[d] = NoBeat
    BY DEF Init
  <2>2. \A h \in Handlers : req[h].op = "none" /\ seen[h].beat = NoBeat
    BY ConstantTypes DEF Init
  <2> QED BY <2>1, <2>2, ConstantTypes DEF Init, AgreeInv, OldOK, Agree, IdsOK, LoadedOK
<1>2. AgreeInv => StatusesAgree
  BY DEF AgreeInv, Agree, StatusesAgree
<1> QED BY <1>1, <1>2, InitTypes, NextKeepsTypes, NextKeepsAgreement, PTL DEF Spec

(***************************************************************************)
(* Capabilities.                                                           *)
(***************************************************************************)
\* The handlers that have found the capability missing and will insert it.
Adding(d) == {h \in Handlers : /\ req[h].op = "heartbeat" /\ req[h].device = d
                               /\ seen[h].adds # 0}

\* What n handlers may insert.
Room(n) == n * MaxNamed

CapsInv ==
    \A d \in Devices : caps[d] + Room(Cardinality(Adding(d))) <= Room(Cardinality(Handlers))

LEMMA RoomGrows ==
    ASSUME NEW m \in Nat, NEW n \in Nat, m <= n
    PROVE  /\ Room(m) \in Nat /\ Room(n) \in Nat /\ Room(m) <= Room(n)
           /\ m < n => Room(m) + MaxNamed <= Room(n)
<1>1. MaxNamed \in Nat
  BY ConstantTypes
<1>2. PICK k \in Nat : n = m + k
  <2>1. n - m \in Nat /\ n = m + (n - m)
    OBVIOUS
  <2> QED BY <2>1
<1>3. n * MaxNamed = m * MaxNamed + k * MaxNamed
  BY <1>1, <1>2
<1>4. m * MaxNamed \in Nat /\ n * MaxNamed \in Nat /\ k * MaxNamed \in Nat
  BY <1>1
<1>5. k > 0 => k * MaxNamed >= MaxNamed
  <2>1. CASE k > 0
    <3>1. k - 1 \in Nat
      BY <2>1
    <3>2. (k - 1) * MaxNamed \in Nat
      BY <1>1, <3>1
    <3>3. k * MaxNamed = (k - 1) * MaxNamed + MaxNamed
      BY <1>1, <3>1
    <3> QED BY <1>1, <1>4, <3>2, <3>3
  <2> QED BY <2>1
<1>6. m < n => k > 0
  BY <1>2
<1> QED BY <1>1, <1>3, <1>4, <1>5, <1>6 DEF Room

LEMMA HandlersCount ==
    ASSUME NEW X, X \subseteq Handlers
    PROVE  /\ IsFiniteSet(X) /\ Cardinality(X) \in Nat
           /\ Cardinality(Handlers) \in Nat /\ Cardinality(X) <= Cardinality(Handlers)
<1>1. IsFiniteSet(Handlers)
  BY HandlersFinite DEF Handlers
<1> QED BY <1>1, FS_Subset, FS_CardinalityType

\* The bound holds where no capability is inserted and no handler means to
\* insert one that did not mean to before.
LEMMA FewerAdding ==
    ASSUME TypeInv, CapsInv, UNCHANGED caps,
           \A d \in Devices : Adding(d)' \subseteq Adding(d)
    PROVE  CapsInv'
<1> SUFFICES ASSUME NEW d \in Devices
             PROVE  caps'[d] + Room(Cardinality(Adding(d)')) <= Room(Cardinality(Handlers))
  BY DEF CapsInv
<1>1. PICK A : A = Adding(d)
  OBVIOUS
<1>2. PICK B : B = Adding(d)'
  OBVIOUS
<1>3. B \subseteq A /\ A \subseteq Handlers
  BY <1>1, <1>2 DEF Adding
<1>4. IsFiniteSet(A) /\ Cardinality(A) \in Nat /\ Cardinality(B) \in Nat
  BY <1>3, HandlersCount
<1>5. Cardinality(B) <= Cardinality(A)
  BY <1>3, <1>4, FS_Subset
<1>8. /\ Room(Cardinality(A)) \in Nat /\ Room(Cardinality(B)) \in Nat
      /\ Room(Cardinality(B)) <= Room(Cardinality(A))
  BY <1>4, <1>5, RoomGrows
<1>6. caps[d] \in Nat /\ caps[d] + Room(Cardinality(A)) <= Room(Cardinality(Handlers))
  BY <1>1 DEF CapsInv, TypeInv, TypeOK
<1>7. Room(Cardinality(Handlers)) \in Nat
  BY HandlersCount, RoomGrows
<1> QED BY <1>2, <1>6, <1>7, <1>8

LEMMA ReceiveKeepsCaps ==
    ASSUME TypeInv, CapsInv, NEW h \in Handlers, NEW d \in Devices, NEW s \in Statuses,
           NEW n \in 0..MaxNamed, ReceiveHeartbeat(h, d, s, n)
    PROVE  CapsInv'
<1> DEFINE rq == [op |-> "heartbeat", device |-> d, status |-> s, name |-> DefaultName]
           loaded == [device |-> device[d].status, beat |-> beat[d], adds |-> Adds(d, n)]
<1>1. /\ req' = [req EXCEPT ![h] = rq] /\ rq.device = d
      /\ seen' = [seen EXCEPT ![h] = loaded] /\ loaded.adds = IF caps[d] = 0 THEN n ELSE 0
      /\ caps' = caps
  BY DEF ReceiveHeartbeat, Starts, rows, Adds
<1> HIDE DEF rq, loaded
<1>2. CASE caps[d] # 0
  <2>1. \A e \in Devices : Adding(e)' \subseteq Adding(e)
    BY <1>1, <1>2 DEF Adding, TypeInv, TypeOK
  <2> QED BY <1>1, <2>1, FewerAdding
<1>3. CASE caps[d] = 0
  <2> SUFFICES ASSUME NEW e \in Devices
               PROVE  caps'[e] + Room(Cardinality(Adding(e)')) <= Room(Cardinality(Handlers))
    BY DEF CapsInv
  <2>1. PICK B : B = Adding(e)'
    OBVIOUS
  <2>2. B \subseteq Handlers
    BY <2>1 DEF Adding
  <2>3. Cardinality(B) \in Nat /\ Cardinality(B) <= Cardinality(Handlers)
    BY <2>2, HandlersCount
  <2>4. CASE e = d
    <3>1. 0 + Room(Cardinality(B)) <= Room(Cardinality(Handlers))
      BY <2>3, HandlersCount, RoomGrows
    <3> QED BY <1>1, <1>3, <2>1, <2>4, <3>1
  <2>5. CASE e # d
    <3>1. PICK A : A = Adding(e)
      OBVIOUS
    <3>2. B \subseteq A /\ A \subseteq Handlers
      BY <1>1, <2>1, <2>5, <3>1 DEF Adding, TypeInv, TypeOK
    <3>3. IsFiniteSet(A) /\ Cardinality(A) \in Nat
      BY <3>2, HandlersCount
    <3>4. Cardinality(B) <= Cardinality(A)
      BY <3>2, <3>3, FS_Subset
    <3>5. caps[e] \in Nat /\ caps[e] + Room(Cardinality(A)) <= Room(Cardinality(Handlers))
      BY <3>1 DEF CapsInv, TypeInv, TypeOK
    <3>6. /\ Room(Cardinality(Handlers)) \in Nat /\ Room(Cardinality(A)) \in Nat
          /\ Room(Cardinality(B)) \in Nat /\ Room(Cardinality(B)) <= Room(Cardinality(A))
      BY <2>3, <3>3, <3>4, HandlersCount, RoomGrows
    <3> QED BY <1>1, <2>1, <3>5, <3>6
  <2> QED BY <2>4, <2>5
<1> QED BY <1>2, <1>3

LEMMA StoreKeepsCaps ==
    ASSUME TypeInv, CapsInv, NEW h \in Handlers, StoreHeartbeat(h)
    PROVE  CapsInv'
<1> SUFFICES ASSUME NEW e \in Devices
             PROVE  caps'[e] + Room(Cardinality(Adding(e)')) <= Room(Cardinality(Handlers))
  BY DEF CapsInv
<1>1. PICK d \in Devices : d = req[h].device
  BY DEF StoreHeartbeat, TypeInv, HandlerOK
<1>2. /\ req[h].op = "heartbeat" /\ seen[h].adds \in 0..MaxNamed
      /\ caps' = [caps EXCEPT ![d] = @ + seen[h].adds]
      /\ req' = [req EXCEPT ![h] = NoRequest]
      /\ seen' = [seen EXCEPT ![h] = NothingSeen]
  BY <1>1 DEF StoreHeartbeat, Closes, Ends, TypeInv, TypeOK, Seen
<1>3. PICK A : A = Adding(e)
  OBVIOUS
<1>4. PICK B : B = Adding(e)'
  OBVIOUS
<1>5. B = A \ {h} /\ A \subseteq Handlers
  BY <1>2, <1>3, <1>4, ConstantTypes DEF Adding, TypeInv, TypeOK
<1>6. IsFiniteSet(A) /\ Cardinality(A) \in Nat /\ Cardinality(B) \in Nat
  BY <1>5, HandlersCount
<1>7. /\ caps \in [Devices -> Nat] /\ caps[e] \in Nat
      /\ caps[e] + Room(Cardinality(A)) <= Room(Cardinality(Handlers))
      /\ Room(Cardinality(Handlers)) \in Nat /\ MaxNamed \in Nat
  BY <1>3, HandlersCount, RoomGrows, ConstantTypes DEF CapsInv, TypeInv, TypeOK
<1>8. Cardinality(B) = IF h \in A THEN Cardinality(A) - 1 ELSE Cardinality(A)
  BY <1>5, <1>6, FS_RemoveElement
<1>9. CASE e = d /\ seen[h].adds # 0
  <2>1. h \in A /\ caps'[e] = caps[e] + seen[h].adds
    BY <1>1, <1>2, <1>3, <1>7, <1>9 DEF Adding
  <2>2. Cardinality(B) < Cardinality(A) /\ Cardinality(B) <= Cardinality(A)
    BY <1>6, <1>8, <2>1
  <2>3. /\ Room(Cardinality(A)) \in Nat /\ Room(Cardinality(B)) \in Nat
        /\ Room(Cardinality(B)) + MaxNamed <= Room(Cardinality(A))
    BY <1>6, <2>2, RoomGrows
  <2> QED BY <1>2, <1>4, <1>7, <2>1, <2>3
<1>10. CASE ~(e = d /\ seen[h].adds # 0)
  <2>1. caps'[e] = caps[e]
    BY <1>2, <1>7, <1>10
  <2>2. Cardinality(B) <= Cardinality(A)
    BY <1>5, <1>6, FS_Subset
  <2>3. /\ Room(Cardinality(A)) \in Nat /\ Room(Cardinality(B)) \in Nat
        /\ Room(Cardinality(B)) <= Room(Cardinality(A))
    BY <1>6, <2>2, RoomGrows
  <2> QED BY <1>4, <1>7, <2>1, <2>3
<1> QED BY <1>9, <1>10

LEMMA NextKeepsCaps == TypeInv /\ CapsInv /\ [Next]_vars => CapsInv'
<1> SUFFICES ASSUME TypeInv, CapsInv, [Next]_vars PROVE CapsInv'
  OBVIOUS
<1>1. CASE UNCHANGED <<caps, req, seen>>
  BY <1>1 DEF CapsInv, Adding
<1>2. ASSUME NEW h \in Handlers, NEW d \in Devices, NEW n \in Names,
             CreateDevice(h, d, n)
      PROVE  CapsInv'
  <2> DEFINE rq == [op |-> "create", device |-> d, status |-> "offline", name |-> n]
  <2>1. /\ req' = [req EXCEPT ![h] = rq] /\ rq.op = "create"
        /\ seen' = [seen EXCEPT ![h] = NothingSeen] /\ caps' = caps
    BY <1>2 DEF CreateDevice, Starts
  <2> HIDE DEF rq
  <2>2. \A e \in Devices : Adding(e)' \subseteq Adding(e)
    BY <2>1, ConstantTypes DEF Adding, TypeInv, TypeOK
  <2> QED BY <2>1, <2>2, FewerAdding
<1>3. ASSUME NEW h \in Handlers, Ends(h), UNCHANGED rows PROVE CapsInv'
  <2>1. \A e \in Devices : Adding(e)' \subseteq Adding(e)
    BY <1>3, ConstantTypes DEF Ends, Adding, TypeInv, TypeOK
  <2> QED BY <1>3, <2>1, FewerAdding DEF rows
<1>4. ASSUME NEW h \in Handlers, Continue(h) PROVE CapsInv'
  BY <1>1, <1>3, <1>4, StoreKeepsCaps
     DEF Continue, SendNext, SendReturns, PublishFails, Published, EndCreate,
         HeartbeatRejected, Closes, fleetVars, rows
<1>5. CASE \/ \E d \in Devices : \E n \in Names : UpdateDevice(d, n)
           \/ \E c \in Connections : Listen(c)
           \/ \E d \in Devices : Age(d)
           \/ Cleanup \/ ReadOnly \/ UNCHANGED vars
  BY <1>1, <1>5 DEF UpdateDevice, Listen, Age, Cleanup, ReadOnly, vars, fleetVars
<1> QED BY <1>2, <1>4, <1>5, ReceiveKeepsCaps DEF Next

\* A device has no more rows of one capability than the handlers there are may name
\* in one heartbeat each, however many heartbeats it sends.
THEOREM CapabilitiesStayBounded == Spec => []CapabilitiesBounded
<1>1. Init => CapsInv
  <2> SUFFICES ASSUME Init, NEW d \in Devices
               PROVE  caps[d] + Room(Cardinality(Adding(d))) <= Room(Cardinality(Handlers))
    BY DEF CapsInv
  <2>1. caps[d] = 0 /\ Adding(d) \subseteq Handlers
    BY DEF Init, Adding
  <2>2. Cardinality(Adding(d)) \in Nat /\ Cardinality(Adding(d)) <= Cardinality(Handlers)
    BY <2>1, HandlersCount
  <2>3. /\ Room(Cardinality(Adding(d))) \in Nat
        /\ Room(Cardinality(Adding(d))) <= Room(Cardinality(Handlers))
    BY <2>1, <2>2, HandlersCount, RoomGrows
  <2> QED BY <2>1, <2>3
<1>2. TypeInv /\ CapsInv => CapabilitiesBounded
  <2> SUFFICES ASSUME TypeInv, CapsInv, NEW d \in Devices
               PROVE  caps[d] <= Room(Cardinality(Handlers))
    BY DEF CapabilitiesBounded, Room
  <2>1. Adding(d) \subseteq Handlers
    BY DEF Adding
  <2>2. Room(Cardinality(Adding(d))) \in Nat /\ Room(Cardinality(Handlers)) \in Nat
    BY <2>1, HandlersCount, RoomGrows
  <2>3. /\ caps[d] \in Nat
        /\ caps[d] + Room(Cardinality(Adding(d))) <= Room(Cardinality(Handlers))
    BY DEF CapsInv, TypeInv, TypeOK
  <2> QED BY <2>2, <2>3
<1> QED BY <1>1, <1>2, InitTypes, NextKeepsTypes, NextKeepsCaps, PTL DEF Spec

(***************************************************************************)
(* The event bus.                                                          *)
(***************************************************************************)
\* A connection is in a set only once it is open, so that the set of a channel
\* never gains a member that a publication found in it; and each member that
\* the iteration has passed got the message, or failed, or is being sent to.
BusInv ==
    /\ \A ch \in Channels : \A c \in clients[ch] : conn[c] # "new"
    /\ \A p \in Publishers :
          /\ \A c \in pub[p].audience : conn[c] # "new"
          /\ pub[p].visited \subseteq pub[p].heard \cup pub[p].failed \cup {pub[p].at}

HearInv ==
    /\ BusInv
    /\ \A h \in Handlers :
          /\ pub[h].channel = IF phase[h] = "publishing" THEN req[h].device ELSE Nobody
          /\ phase[h] # "idle" => req[h].device \in Devices
    /\ HeardBeforeStored

LEMMA HearInvInit == Init => HearInv
BY DEF Init, BusInit, HearInv, BusInv, HeardBeforeStored, NoPublication, Handlers

\* A publication that begins finds only connections that are open.
LEMMA StartsKeepsHearing ==
    ASSUME TypeInv, HearInv, NEW h \in Handlers, NEW rq, NEW loaded,
           rq.device \in Devices, Starts(h, rq, loaded)
    PROVE  HearInv'
<1>1. /\ pub' = [pub EXCEPT ![h] = Begun(rq.device)]
      /\ req' = [req EXCEPT ![h] = rq]
      /\ phase' = [phase EXCEPT ![h] = "publishing"]
      /\ UNCHANGED <<clients, conn>>
  BY DEF Starts, PublishStarts
<1>2. /\ Begun(rq.device).channel = rq.device
      /\ Begun(rq.device).audience = clients[rq.device]
      /\ Begun(rq.device).visited = {}
  BY DEF Begun
<1>3. /\ pub \in [Handlers -> Publication] /\ req \in [Handlers -> Request]
      /\ phase \in [Handlers -> {"idle", "publishing", "published"}]
  BY DEF TypeInv, TypeOK, BusTypeOK, Handlers
<1>4. BusInv'
  BY <1>1, <1>2, <1>3 DEF HearInv, BusInv, Handlers, Devices
<1> QED BY <1>1, <1>2, <1>3, <1>4 DEF HearInv, HeardBeforeStored

\* A handler that ends leaves its publication.
LEMMA EndsKeepsHearing ==
    ASSUME TypeInv, HearInv, NEW h \in Handlers, Ends(h),
           pub' = [pub EXCEPT ![h] = NoPublication], UNCHANGED <<clients, conn>>
    PROVE  HearInv'
<1>1. /\ pub \in [Handlers -> Publication] /\ req \in [Handlers -> Request]
      /\ phase \in [Handlers -> {"idle", "publishing", "published"}]
  BY DEF TypeInv, TypeOK, BusTypeOK, Handlers
<1>2. /\ NoPublication.audience = {} /\ NoPublication.visited = {}
      /\ NoPublication.channel = Nobody
  BY DEF NoPublication
<1>3. BusInv'
  BY <1>1, <1>2 DEF HearInv, BusInv, Handlers
<1> QED BY <1>1, <1>2, <1>3 DEF Ends, HearInv, HeardBeforeStored

\* A step of a publication that only moves its iteration.
LEMMA LoopKeepsHearing ==
    ASSUME TypeInv, HearInv, NEW h \in Handlers, NEW publication,
           pub' = [pub EXCEPT ![h] = publication],
           publication.channel = pub[h].channel,
           publication.audience = pub[h].audience,
           publication.visited \subseteq
               publication.heard \cup publication.failed \cup {publication.at},
           pub[h].heard \subseteq publication.heard,
           UNCHANGED <<clients, conn, phase, req>>
    PROVE  HearInv'
<1>1. pub \in [Handlers -> Publication]
  BY DEF TypeInv, TypeOK, BusTypeOK, Handlers
<1>2. BusInv'
  BY <1>1 DEF HearInv, BusInv, Handlers
<1> QED BY <1>1, <1>2 DEF HearInv, HeardBeforeStored

LEMMA PublishedKeepsHearing ==
    ASSUME TypeInv, HearInv, NEW h \in Handlers, Published(h)
    PROVE  HearInv'
<1>1. PICK ch \in Channels : ch = pub[h].channel
  BY DEF Published, LoopEnds, InLoop, TypeInv, TypeOK, BusTypeOK, Publication, Handlers
<1>2. /\ pub \in [Handlers -> Publication] /\ clients \in [Channels -> SUBSET Connections]
      /\ phase \in [Handlers -> {"idle", "publishing", "published"}]
  BY DEF TypeInv, TypeOK, BusTypeOK, Handlers
<1> DEFINE after == [NoPublication EXCEPT !.audience = pub[h].audience,
                                          !.heard = pub[h].heard]
<1>3. /\ pub' = [pub EXCEPT ![h] = after]
      /\ clients' = [clients EXCEPT ![ch] = @ \ pub[h].failed]
      /\ phase' = [phase EXCEPT ![h] = "published"]
      /\ UNCHANGED <<conn, req>>
      /\ pub[h].at = Nobody
      /\ pub[h].audience \cap clients[ch] \subseteq pub[h].visited
  BY <1>1 DEF Published, LoopEnds, AllPassed
<1>4. /\ after.audience = pub[h].audience /\ after.heard = pub[h].heard
      /\ after.visited = {} /\ after.channel = Nobody
  BY DEF NoPublication
<1> HIDE DEF after
<1>5. \A e \in Channels : clients'[e] \subseteq clients[e]
  BY <1>2, <1>3
<1>6. BusInv'
  <2>1. \A e \in Channels : \A c \in clients'[e] : conn'[c] # "new"
    BY <1>3, <1>5 DEF HearInv, BusInv
  <2>2. \A p \in Publishers :
           /\ \A c \in pub'[p].audience : conn'[c] # "new"
           /\ pub'[p].visited \subseteq pub'[p].heard \cup pub'[p].failed \cup {pub'[p].at}
    BY <1>2, <1>3, <1>4 DEF HearInv, BusInv, Handlers
  <2> QED BY <2>1, <2>2 DEF BusInv
<1>7. HeardBeforeStored'
  <2> SUFFICES ASSUME NEW g \in Handlers, phase'[g] = "published",
                      NEW c \in pub'[g].audience \cap clients'[req'[g].device]
               PROVE  c \in pub'[g].heard
    BY DEF HeardBeforeStored
  <2>1. CASE g = h
    <3>1. req'[g].device = ch
      BY <1>1, <1>3, <2>1, ConstantTypes DEF HearInv, Devices
    <3>2. c \in pub[h].audience /\ c \in clients[ch] /\ c \notin pub[h].failed
      BY <1>2, <1>3, <1>4, <2>1, <3>1
    <3>3. c \in Connections /\ c # Nobody
      BY <1>2, <3>2, ConstantTypes
    <3>4. c \in pub[h].visited
      BY <1>3, <3>2
    <3>5. c \in pub[h].heard
      BY <1>3, <3>2, <3>3, <3>4 DEF HearInv, BusInv, Handlers
    <3> QED BY <1>2, <1>3, <1>4, <2>1, <3>5
  <2>2. CASE g # h
    <3>1. /\ phase[g] = "published" /\ pub'[g] = pub[g] /\ req'[g] = req[g]
      BY <1>2, <1>3, <2>2
    <3>2. PICK e : e = req[g].device
      OBVIOUS
    <3>3. c \in clients[e]
      BY <1>2, <1>3, <3>1, <3>2
    <3> QED BY <3>1, <3>2, <3>3 DEF HearInv, HeardBeforeStored
  <2> QED BY <2>1, <2>2
<1>8. ASSUME NEW g \in Handlers
      PROVE  /\ pub'[g].channel = IF phase'[g] = "publishing" THEN req'[g].device ELSE Nobody
             /\ phase'[g] # "idle" => req'[g].device \in Devices
  <2>1. CASE g = h
    <3>1. req[h].device \in Devices
      BY <1>1, ConstantTypes DEF HearInv, Devices
    <3> QED BY <1>2, <1>3, <1>4, <2>1, <3>1
  <2>2. CASE g # h
    BY <1>2, <1>3, <2>2 DEF HearInv
  <2> QED BY <2>1, <2>2
<1> QED BY <1>6, <1>7, <1>8 DEF HearInv

LEMMA ListenKeepsHearing ==
    ASSUME TypeInv, HearInv, NEW c \in Connections, Listen(c)
    PROVE  HearInv'
<1>1. UNCHANGED <<pub, phase, req>>
  BY DEF Listen, fleetVars, Connect, Drop, KeepaliveFails
<1>2. /\ clients \in [Channels -> SUBSET Connections]
      /\ conn \in [Connections -> {"new", "open", "dead", "gone"}]
      /\ \A p \in Publishers : pub[p].audience \subseteq Connections
      /\ Handlers = Publishers
  BY DEF TypeInv, TypeOK, BusTypeOK, Publication, Handlers
<1>3. /\ conn'[c] # "new"
      /\ \A e \in Connections : conn[e] # "new" => conn'[e] # "new"
  BY <1>2 DEF Listen, Connect, Drop, KeepaliveFails
<1>4. \A ch \in Channels : \A e \in clients'[ch] : e \in clients[ch] \/ (e = c /\ conn[c] = "new")
  BY <1>2 DEF Listen, Connect, Drop, KeepaliveFails
<1>5. BusInv'
  BY <1>1, <1>2, <1>3, <1>4 DEF HearInv, BusInv
<1>6. HeardBeforeStored'
  <2> SUFFICES ASSUME NEW h \in Handlers, phase[h] = "published",
                      NEW e \in pub[h].audience \cap clients'[req[h].device]
               PROVE  e \in pub[h].heard
    BY <1>1 DEF HeardBeforeStored
  <2>1. conn[e] # "new"
    BY <1>2 DEF HearInv, BusInv
  <2>2. req[h].device \in Channels
    BY DEF HearInv, Devices
  <2>3. e \in clients[req[h].device]
    BY <1>4, <2>1, <2>2
  <2> QED BY <2>3 DEF HearInv, HeardBeforeStored
<1> QED BY <1>1, <1>5, <1>6 DEF HearInv

LEMMA NextKeepsHearing == TypeInv /\ HearInv /\ [Next]_vars => HearInv'
<1> SUFFICES ASSUME TypeInv, HearInv, [Next]_vars PROVE HearInv'
  OBVIOUS
<1>1. ASSUME NEW h \in Handlers, NEW d \in Devices, NEW n \in Names,
             CreateDevice(h, d, n)
      PROVE  HearInv'
  <2> DEFINE rq == [op |-> "create", device |-> d, status |-> "offline", name |-> n]
  <2>1. Starts(h, rq, NothingSeen) /\ rq.device \in Devices
    BY <1>1 DEF CreateDevice
  <2> HIDE DEF rq
  <2> QED BY <2>1, StartsKeepsHearing
<1>2. ASSUME NEW h \in Handlers, NEW d \in Devices, NEW s \in Statuses,
             NEW n \in 0..MaxNamed, ReceiveHeartbeat(h, d, s, n)
      PROVE  HearInv'
  <2> DEFINE rq == [op |-> "heartbeat", device |-> d, status |-> s, name |-> DefaultName]
             loaded == [device |-> device[d].status, beat |-> beat[d], adds |-> Adds(d, n)]
  <2>1. Starts(h, rq, loaded) /\ rq.device \in Devices
    BY <1>2 DEF ReceiveHeartbeat
  <2> HIDE DEF rq, loaded
  <2> QED BY <2>1, StartsKeepsHearing
<1>3. ASSUME NEW h \in Handlers, NEW c \in Connections, SendNext(h, c) PROVE HearInv'
  <2> DEFINE sending == [pub[h] EXCEPT !.visited = @ \cup {c}, !.at = c]
  <2>1. pub[h] \in Publication /\ h \in Publishers
    BY DEF TypeInv, TypeOK, BusTypeOK, Handlers
  <2>2. /\ pub' = [pub EXCEPT ![h] = sending] /\ pub[h].at = Nobody
        /\ UNCHANGED <<clients, conn, phase, req>>
    BY <1>3, <2>1 DEF SendNext, SendStarts, fleetVars, TypeInv, TypeOK, BusTypeOK
  <2>3. pub[h].visited \subseteq pub[h].heard \cup pub[h].failed
    <3>1. /\ pub[h].visited \subseteq Connections
          /\ pub[h].visited \subseteq pub[h].heard \cup pub[h].failed \cup {Nobody}
      BY <2>1, <2>2 DEF HearInv, BusInv, Publication
    <3> QED BY <3>1, ConstantTypes
  <2>4. /\ sending.channel = pub[h].channel /\ sending.audience = pub[h].audience
        /\ sending.heard = pub[h].heard /\ sending.failed = pub[h].failed
        /\ sending.at = c /\ sending.visited = pub[h].visited \cup {c}
    BY <2>1 DEF Publication
  <2> HIDE DEF sending
  <2> QED BY <2>2, <2>3, <2>4, LoopKeepsHearing
<1>4. ASSUME NEW h \in Handlers, SendReturns(h) PROVE HearInv'
  <2> DEFINE c == pub[h].at
             heard == [pub[h] EXCEPT !.heard = @ \cup {c}, !.at = Nobody]
             failed == [pub[h] EXCEPT !.failed = @ \cup {c}, !.at = Nobody]
  <2>1. pub[h] \in Publication /\ h \in Publishers /\ pub \in [Publishers -> Publication]
    BY DEF TypeInv, TypeOK, BusTypeOK, Handlers
  <2>2. /\ pub' = [pub EXCEPT ![h] = heard] \/ pub' = [pub EXCEPT ![h] = failed]
        /\ UNCHANGED <<clients, conn, phase, req>>
    BY <1>4, <2>1 DEF SendReturns, SendEnds, fleetVars
  <2>3. pub[h].visited \subseteq pub[h].heard \cup pub[h].failed \cup {c}
    BY <2>1 DEF HearInv, BusInv
  <2>4. /\ heard.channel = pub[h].channel /\ heard.audience = pub[h].audience
        /\ heard.heard = pub[h].heard \cup {c} /\ heard.failed = pub[h].failed
        /\ heard.visited = pub[h].visited
        /\ failed.channel = pub[h].channel /\ failed.audience = pub[h].audience
        /\ failed.heard = pub[h].heard /\ failed.failed = pub[h].failed \cup {c}
        /\ failed.visited = pub[h].visited
    BY <2>1 DEF Publication
  <2> HIDE DEF heard, failed
  <2>5. CASE pub' = [pub EXCEPT ![h] = heard]
    BY <2>2, <2>3, <2>4, <2>5, LoopKeepsHearing
  <2>6. CASE pub' = [pub EXCEPT ![h] = failed]
    BY <2>2, <2>3, <2>4, <2>6, LoopKeepsHearing
  <2> QED BY <2>2, <2>5, <2>6
<1>5. ASSUME NEW h \in Handlers, Published(h) PROVE HearInv'
  BY <1>5, PublishedKeepsHearing
<1>6. ASSUME NEW h \in Handlers,
             \/ PublishFails(h) \/ EndCreate(h)
             \/ StoreHeartbeat(h) \/ HeartbeatRejected(h)
      PROVE  HearInv'
  BY <1>6, EndsKeepsHearing
     DEF PublishFails, LoopBreaks, EndCreate, StoreHeartbeat, HeartbeatRejected, Closes
<1>7. CASE UNCHANGED <<pub, clients, conn, phase, req>>
  BY <1>7 DEF HearInv, BusInv, HeardBeforeStored
<1>8. CASE \/ \E d \in Devices : \E n \in Names : UpdateDevice(d, n)
           \/ \E d \in Devices : Age(d)
           \/ Cleanup \/ ReadOnly \/ UNCHANGED vars
  BY <1>7, <1>8 DEF UpdateDevice, Age, Cleanup, ReadOnly, vars, fleetVars, busVars
<1> QED BY <1>1, <1>2, <1>3, <1>4, <1>5, <1>6, <1>8, ListenKeepsHearing
        DEF Next, Continue

\* A handler that goes on from publish has sent the message to every client that
\* was there when it began and is there still, whichever sends failed, and
\* whoever joined or left the set between two of them.
THEOREM ListenersHear == Spec => []HeardBeforeStored
<1>1. HearInv => HeardBeforeStored
  BY DEF HearInv
<1> QED BY <1>1, InitTypes, HearInvInit, NextKeepsTypes, NextKeepsHearing, PTL DEF Spec

(***************************************************************************)
(* The book of devices.                                                    *)
(***************************************************************************)
\* A heartbeat names nobody but a device that it brings itself.
HeartbeatNames ==
    \A h \in Handlers : req[h].op = "heartbeat" => req[h].name = DefaultName

LEMMA NextKeepsHeartbeatNames == TypeInv /\ HeartbeatNames /\ [Next]_vars => HeartbeatNames'
<1> SUFFICES ASSUME TypeInv, HeartbeatNames, [Next]_vars PROVE HeartbeatNames'
  OBVIOUS
<1>1. ASSUME NEW h \in Handlers, NEW rq,
             rq.op = "heartbeat" => rq.name = DefaultName, req' = [req EXCEPT ![h] = rq]
      PROVE  HeartbeatNames'
  BY <1>1 DEF HeartbeatNames, TypeInv, TypeOK
<1>2. ASSUME NEW h \in Handlers, NEW d \in Devices, NEW n \in Names,
             CreateDevice(h, d, n)
      PROVE  HeartbeatNames'
  <2> DEFINE rq == [op |-> "create", device |-> d, status |-> "offline", name |-> n]
  <2>1. req' = [req EXCEPT ![h] = rq] /\ rq.op = "create"
    BY <1>2 DEF CreateDevice, Starts
  <2> HIDE DEF rq
  <2> QED BY <1>1, <2>1
<1>3. ASSUME NEW h \in Handlers, NEW d \in Devices, NEW s \in Statuses,
             NEW n \in 0..MaxNamed, ReceiveHeartbeat(h, d, s, n)
      PROVE  HeartbeatNames'
  <2> DEFINE rq == [op |-> "heartbeat", device |-> d, status |-> s, name |-> DefaultName]
  <2>1. req' = [req EXCEPT ![h] = rq] /\ rq.name = DefaultName
    BY <1>3 DEF ReceiveHeartbeat, Starts
  <2> HIDE DEF rq
  <2> QED BY <1>1, <2>1
<1>4. ASSUME NEW h \in Handlers, Ends(h) PROVE HeartbeatNames'
  BY <1>1, <1>4, ConstantTypes DEF Ends
<1>5. CASE UNCHANGED req
  BY <1>5 DEF HeartbeatNames
<1>6. ASSUME NEW h \in Handlers, Continue(h) PROVE HeartbeatNames'
  BY <1>4, <1>5, <1>6
     DEF Continue, SendNext, SendReturns, PublishFails, Published, EndCreate,
         StoreHeartbeat, HeartbeatRejected, Closes, fleetVars
<1>7. CASE \/ \E d \in Devices : \E n \in Names : UpdateDevice(d, n)
           \/ \E c \in Connections : Listen(c)
           \/ \E d \in Devices : Age(d)
           \/ Cleanup \/ ReadOnly \/ UNCHANGED vars
  BY <1>5, <1>7 DEF UpdateDevice, Listen, Age, Cleanup, ReadOnly, vars, fleetVars
<1> QED BY <1>2, <1>3, <1>6, <1>7 DEF Next

\* A commit of a heartbeat enters one status of the device, whatever the handler
\* had loaded.
LEMMA StoreIsReported ==
    ASSUME TypeInv, HeartbeatNames, NEW h \in Handlers, StoreHeartbeat(h),
           NEW d \in Devices, d = req[h].device
    PROVE  /\ DeviceRow(h, device[d]).status \in Statuses
           /\ Book!Reported(d, DeviceRow(h, device[d]).status)
<1> DEFINE s == DeviceRow(h, device[d]).status
<1>1. /\ Fits(h) /\ req[h].op = "heartbeat"
      /\ device' = [device EXCEPT ![d] = DeviceRow(h, device[d])]
  BY DEF StoreHeartbeat
<1>2. /\ DeviceRow(h, device[d]) \in Device
      /\ seen[h].device = None <=> device[d] = NoDevice
  BY <1>1, StoredRow
<1>3. req[h].name = DefaultName
  BY <1>1 DEF HeartbeatNames
<1>4. DeviceRow(h, device[d])
         = [status |-> s,
            name |-> IF device[d] = NoDevice THEN DefaultName ELSE device[d].name]
  BY <1>2, <1>3 DEF DeviceRow
<1>5. device[d] = NoDevice <=> device[d] = Book!NoDevice
  BY DEF NoDevice, Book!NoDevice
<1>6. s \in Statuses
  BY <1>2 DEF Device
<1> HIDE DEF s
<1>7. Book!Reported(d, s)
  BY <1>1, <1>4, <1>5 DEF Book!Reported, TypeInv, TypeOK
<1> QED BY <1>6, <1>7 DEF s

\* The statuses that the book sees.
StatusOf == [d \in Devices |-> beat[d].status]

\* Where no id comes back, it is a report made at that moment.
LEMMA StoreIsReport ==
    ASSUME TypeInv, AgreeInv, HeartbeatNames, database = "postgresql",
           NEW h \in Handlers, StoreHeartbeat(h)
    PROVE  \E d \in Devices : \E s \in Statuses : Book!Report(d, s)
<1>1. PICK d \in Devices : d = req[h].device
  BY DEF StoreHeartbeat, TypeInv, HandlerOK
<1>2. PICK s : s = DeviceRow(h, device[d]).status
  OBVIOUS
<1>3. /\ Fits(h) /\ req[h].op = "heartbeat" /\ database' = database
      /\ InsertBeat(h) \/ UpdateBeat(h)
  BY DEF StoreHeartbeat
<1>4. s \in Statuses /\ Book!Reported(d, s)
  BY <1>1, <1>2, StoreIsReported
<1>5. /\ beat'[d].status = s
      /\ \A e \in Devices : e # d => beat'[e] = beat[e]
  BY <1>1, <1>2, <1>3, StoredStatuses, StoredWithoutReuse DEF StoredAs, TypeInv, TypeOK
<1>6. StatusOf' = [StatusOf EXCEPT ![d] = s]
  BY <1>5 DEF StatusOf
<1>7. Book!Report(d, s)
  BY <1>3, <1>4, <1>6 DEF Book!Report, StatusOf
<1> QED BY <1>4, <1>7

\* On SQLite the status of the heartbeat may come to another device's.
LEMMA StoreIsMisfile ==
    ASSUME TypeInv, HeartbeatNames, database = "sqlite",
           NEW h \in Handlers, StoreHeartbeat(h)
    PROVE  \E d \in Devices : \E s \in Statuses :
               \E e \in Devices : \E t \in Statuses : Book!Misfile(d, s, e, t)
<1>1. PICK d \in Devices : d = req[h].device
  BY DEF StoreHeartbeat, TypeInv, HandlerOK
<1>2. PICK s : s = DeviceRow(h, device[d]).status
  OBVIOUS
<1>3. /\ database' = database /\ req[h].status \in Statuses
      /\ InsertBeat(h) \/ UpdateBeat(h)
  BY DEF StoreHeartbeat, TypeInv, HandlerOK
<1>4. s \in Statuses /\ Book!Reported(d, s)
  BY <1>1, <1>2, StoreIsReported
<1>5. CASE InsertBeat(h)
  <2>1. PICK i : beat' = [beat EXCEPT ![d] = [id |-> i, status |-> req[h].status]]
    BY <1>1, <1>5 DEF InsertBeat
  <2>2. PICK t \in Statuses : t = req[h].status
    BY <1>3
  <2>3. StatusOf' = [StatusOf EXCEPT ![d] = t]
    BY <2>1, <2>2 DEF StatusOf, TypeInv, TypeOK
  <2>4. Book!Misfile(d, s, d, t)
    BY <1>3, <1>4, <2>3 DEF Book!Misfile, StatusOf
  <2> QED BY <1>4, <2>4
<1>6. CASE UpdateBeat(h)
  <2>1. PICK e \in Devices :
           /\ beat[e].id = seen[h].beat.id /\ seen[h].beat # NoBeat
           /\ beat' = [beat EXCEPT ![e].status =
                                   BeatStatus(@, seen[h].beat.status, req[h].status)]
    BY <1>6 DEF UpdateBeat
  <2>2. beat[e] \in Beat
    BY <2>1, LoadedId
  <2>3. PICK t : t = BeatStatus(beat[e].status, seen[h].beat.status, req[h].status)
    OBVIOUS
  <2>4. t \in Statuses /\ StatusOf[e] # None
    BY <1>3, <2>2, <2>3, ConstantTypes DEF BeatStatus, Beat, StatusOf
  <2>5. [beat[e] EXCEPT !.status = t].status = t
    BY <2>2 DEF Beat
  <2>6. StatusOf' = [StatusOf EXCEPT ![e] = t]
    BY <2>1, <2>3, <2>5 DEF StatusOf, TypeInv, TypeOK
  <2>7. Book!Misfile(d, s, e, t)
    BY <1>3, <1>4, <2>4, <2>6 DEF Book!Misfile, StatusOf
  <2> QED BY <1>4, <2>4, <2>7
<1> QED BY <1>3, <1>5, <1>6

LEMMA NextIsEntry ==
    TypeInv /\ AgreeInv /\ HeartbeatNames /\ [Next]_vars
        => [Book!Next]_<<database, device, StatusOf>>
<1> SUFFICES ASSUME TypeInv, AgreeInv, HeartbeatNames, [Next]_vars
             PROVE  Book!Next \/ UNCHANGED <<database, device, StatusOf>>
  OBVIOUS
<1>1. NoDevice = Book!NoDevice
  BY DEF NoDevice, Book!NoDevice
<1>2. ASSUME NEW h \in Handlers, NEW d \in Devices, NEW n \in Names,
             CreateDevice(h, d, n)
      PROVE  Book!Enter(d, n)
  BY <1>1, <1>2 DEF CreateDevice, Book!Enter
<1>3. ASSUME NEW d \in Devices, NEW n \in Names, UpdateDevice(d, n)
      PROVE  Book!Rename(d, n)
  BY <1>1, <1>3 DEF UpdateDevice, Book!Rename
<1>4. CASE Cleanup
  <2>1. UNCHANGED <<database, device>>
    BY <1>4 DEF Cleanup
  <2>2. PICK gone \in SUBSET Devices : gone = old
    BY DEF TypeInv, TypeOK
  <2>3. \A d \in Devices : beat'[d].status = IF d \in gone THEN None ELSE beat[d].status
    BY <1>4, <2>2, ConstantTypes DEF Cleanup, Kept
  <2>4. StatusOf' = [d \in Devices |-> IF d \in gone THEN None ELSE StatusOf[d]]
    BY <2>3 DEF StatusOf
  <2>5. Book!Forget(gone)
    BY <2>1, <2>4 DEF Book!Forget, StatusOf
  <2> QED BY <2>5 DEF Book!Next
<1>5. ASSUME NEW h \in Handlers, StoreHeartbeat(h) PROVE Book!Next
  <2>1. database \in {"sqlite", "postgresql"}
    BY FleetBounds DEF TypeInv, TypeOK
  <2> QED BY <1>5, <2>1, StoreIsReport, StoreIsMisfile DEF Book!Next
<1>6. CASE UNCHANGED <<database, device, beat>>
  BY <1>6 DEF StatusOf
<1>7. ASSUME NEW h \in Handlers, Continue(h)
      PROVE  Book!Next \/ UNCHANGED <<database, device, StatusOf>>
  BY <1>5, <1>6, <1>7
     DEF Continue, SendNext, SendReturns, PublishFails, Published, EndCreate,
         HeartbeatRejected, fleetVars, rows
<1>8. CASE \/ \E h \in Handlers : \E d \in Devices : \E s \in Statuses :
                 \E n \in 0..MaxNamed : ReceiveHeartbeat(h, d, s, n)
           \/ \E c \in Connections : Listen(c)
           \/ \E d \in Devices : Age(d)
           \/ ReadOnly \/ UNCHANGED vars
  BY <1>6, <1>8 DEF ReceiveHeartbeat, Listen, Age, ReadOnly, vars, fleetVars, rows
<1> QED BY <1>2, <1>3, <1>4, <1>7, <1>8 DEF Next, Book!Next

\* Heartbeats that overlap, of one device or of several, with operators and the
\* cleanup in between, leave the tables as if each had been one report, of its own
\* status or of the one that an overlapping report has put there: a commit from what
\* was loaded before the publication mixes nothing else.  On SQLite the heartbeat
\* that a report comes to may be another's, and nothing but its status is then wrong.
THEOREM BookImplemented == Spec => ImplementsBook
<1>1. Init => AgreeInv /\ HeartbeatNames
  <2> SUFFICES ASSUME Init PROVE AgreeInv /\ HeartbeatNames
    OBVIOUS
  <2>1. born = 0 /\ \A d \in Devices : beat[d] = NoBeat
    BY DEF Init
  <2>2. \A h \in Handlers : req[h].op = "none" /\ seen[h].beat = NoBeat
    BY ConstantTypes DEF Init
  <2> QED BY <2>1, <2>2, ConstantTypes
          DEF Init, AgreeInv, OldOK, Agree, IdsOK, LoadedOK, HeartbeatNames
<1>2. Init => Book!Init
  BY ConstantTypes, FleetBounds DEF Init, Book!Init, NoDevice, Book!NoDevice
<1>3. [Book!Next]_<<database, device, StatusOf>>
        => [Book!Next]_<<database, device, [d \in Devices |-> beat[d].status]>>
  BY DEF StatusOf
<1> QED BY <1>1, <1>2, <1>3, InitTypes, NextKeepsTypes, NextKeepsAgreement,
           NextKeepsHeartbeatNames, NextIsEntry, PTL DEF Spec, ImplementsBook, Book!Spec
=============================================================================
