------------------------------ MODULE EventBuffer ------------------------------
(***************************************************************************)
(* Store-and-forward of device events: OfflineBuffer and the heartbeat     *)
(* pass of the agent that fills and flushes it, and the platform's ingest  *)
(* and heartbeat that apply a device status.  The heartbeat pass and the   *)
(* poll pass of the agent are two asynchronous loops over one buffer: while *)
(* a flush awaits the answer for an event, the poll pass may store another *)
(* one.  The platform may serve a request the agent gave up on.            *)
(***************************************************************************)
EXTENDS Integers, Sequences

CONSTANTS
  Statuses,   \* statuses of the one device modelled
  Unreported, \* no status was reported since the process started
  Nothing,    \* no event is being sent
  Capacity,   \* maxEvents
  MaxEvents,  \* bound: events ever stored
  MaxChanges  \* bound: changes of the device's real status

\* The buffer holds at least one event: maxEvents is 1000.
ASSUME BufferAssumption ==
  Capacity \in Nat \ {0} /\ MaxEvents \in Nat /\ MaxChanges \in Nat

VARIABLES
  device,    \* status of the device as the driver sees it
  changes,   \* number of changes so far
  reported,  \* lastDeviceStatus of the agent
  events,    \* the buffer in memory
  file,      \* events.jsonl
  nextId,    \* next eventId
  beat,      \* where heartbeatOnce is
  sending,   \* the event whose answer the flush awaits
  served,    \* the platform has processed that request
  sent,      \* events acknowledged in this flush; the file still has them
  wire,      \* ingest requests the agent gave up on and nobody has served
  journal,   \* gateway_events in the order of their commits
  platform,  \* device_runtime.status
  overflown  \* events dropped because the buffer was full

buffer == <<events, file>>
flush  == <<sending, served, sent>>
db     == <<journal, platform>>
vars   == <<device, changes, reported, buffer, nextId, beat, flush, wire, db, overflown>>

Event == [id : 1..MaxEvents, status : Statuses \union {"weight"}]

Ids(s) == {s[i].id : i \in 1..Len(s)}

Init ==
  /\ device \in Statuses /\ changes = 0
  /\ reported = Unreported
  /\ events = <<>> /\ file = <<>> /\ nextId = 1
  /\ beat = "idle"
  /\ sending = Nothing /\ served = FALSE /\ sent = 0
  /\ wire = {}
  /\ journal = <<>> /\ platform \in Statuses
  /\ overflown = {}

DeviceChanges ==
  /\ changes < MaxChanges
  /\ device' \in Statuses \ {device}
  /\ changes' = changes + 1
  /\ UNCHANGED <<reported, buffer, nextId, beat, flush, wire, db, overflown>>

-----------------------------------------------------------------------------
\* Mutants: the buffer is not bounded, or an event is not written to the file.
EnqueueUnbounded(status) ==
  /\ nextId <= MaxEvents
  /\ nextId' = nextId + 1
  /\ events' = Append(events, [id |-> nextId, status |-> status])
  /\ file' = events'
  /\ UNCHANGED overflown

EnqueueInMemory(status) ==
  /\ nextId <= MaxEvents /\ Len(events) < Capacity
  /\ nextId' = nextId + 1
  /\ events' = Append(events, [id |-> nextId, status |-> status])
  /\ UNCHANGED <<file, overflown>>

\* enqueue: append, drop the oldest beyond the capacity, write the file.
Enqueue(status) ==
  LET all     == Append(events, [id |-> nextId, status |-> status])
      dropped == IF Len(all) > Capacity THEN Len(all) - Capacity ELSE 0
  IN  /\ nextId <= MaxEvents
      /\ nextId' = nextId + 1
      /\ events' = SubSeq(all, dropped + 1, Len(all))
      /\ file' = events'
      /\ overflown' = overflown \union Ids(SubSeq(all, 1, dropped))

\* pollOnce stores the event of a scale reading, also while a flush waits.
StoreWeight ==
  /\ nextId + (MaxChanges - changes) < MaxEvents  \* bound: ids are left for the statuses
  /\ Enqueue("weight")
  /\ UNCHANGED <<device, changes, reported, beat, flush, wire, db>>

\* heartbeatOnce: a status that differs from the last reported one is an event.
BeginBeat ==
  /\ beat = "idle"
  /\ beat' = "beating"
  /\ reported' = device
  /\ IF reported \notin {Unreported, device}
     THEN Enqueue(device)
     ELSE UNCHANGED <<buffer, nextId, overflown>>
  /\ UNCHANGED <<device, changes, flush, wire, db>>

\* Mutant: the heartbeat only tells that the agent lives.
BeatServedAlive ==
  /\ beat = "beating"
  /\ beat' = "flushing"
  /\ UNCHANGED <<device, changes, reported, buffer, nextId, flush, wire, db, overflown>>

\* The body of the heartbeat carries the same status.
BeatServed ==
  /\ beat = "beating"
  /\ beat' = "flushing"
  /\ platform' = reported
  /\ UNCHANGED <<device, changes, reported, buffer, nextId, flush, wire, journal, overflown>>

BeatLost ==
  /\ beat = "beating"
  /\ beat' = "flushing"
  /\ UNCHANGED <<device, changes, reported, buffer, nextId, flush, wire, db, overflown>>

-----------------------------------------------------------------------------
\* flush: send the oldest event; an answer shifts the queue, a failure ends.
SendHead ==
  /\ beat = "flushing" /\ sending = Nothing /\ events # <<>>
  /\ sending' = Head(events)
  /\ served' = FALSE
  /\ UNCHANGED <<device, changes, reported, buffer, nextId, beat, sent, wire, db, overflown>>

\* Mutant: a repeated delivery is journalled and applied again.
IngestAgain(e) ==
  /\ journal' = Append(journal, e)
  /\ platform' = IF e.status \in Statuses THEN e.status ELSE platform

\* ingest: the first delivery of an eventId is journalled and applied.
Ingest(e) ==
  IF e.id \in Ids(journal)
  THEN UNCHANGED db
  ELSE /\ journal' = Append(journal, e)
       /\ platform' = IF e.status \in Statuses THEN e.status ELSE platform

Serve ==
  /\ sending # Nothing /\ ~served
  /\ Ingest(sending)
  /\ served' = TRUE
  /\ UNCHANGED <<device, changes, reported, buffer, nextId, beat, sending, sent, wire, overflown>>

Acknowledged ==
  /\ sending # Nothing /\ served
  /\ events' = Tail(events)
  /\ sent' = sent + 1
  /\ sending' = Nothing
  /\ served' = FALSE
  /\ UNCHANGED <<device, changes, reported, file, nextId, beat, wire, db, overflown>>

\* The loop ends; the file is written only if something was delivered.
EndBeat ==
  /\ beat' = "idle"
  /\ file' = IF sent > 0 THEN events ELSE file
  /\ sending' = Nothing /\ served' = FALSE /\ sent' = 0
  /\ UNCHANGED <<device, changes, reported, events, nextId, db, overflown>>

SendFails ==
  /\ sending # Nothing
  /\ \/ wire' = wire \union IF served THEN {} ELSE {sending}
     \/ UNCHANGED wire
  /\ EndBeat

Drained ==
  /\ beat = "flushing" /\ sending = Nothing /\ events = <<>>
  /\ EndBeat
  /\ UNCHANGED wire

ServeLate ==
  \E e \in wire :
    /\ Ingest(e)
    /\ wire' = wire \ {e}
    /\ UNCHANGED <<device, changes, reported, buffer, nextId, beat, flush, overflown>>

\* The process dies and loads the file; a request may still be on its way.
Crash ==
  /\ events' = file
  /\ reported' = Unreported
  /\ beat' = "idle"
  /\ wire' = wire \union IF sending = Nothing \/ served THEN {} ELSE {sending}
  /\ sending' = Nothing /\ served' = FALSE /\ sent' = 0
  /\ UNCHANGED <<device, changes, file, nextId, db, overflown>>

Next ==
  \/ DeviceChanges \/ StoreWeight
  \/ BeginBeat \/ BeatServed \/ BeatLost
  \/ SendHead \/ Serve \/ Acknowledged \/ SendFails \/ Drained
  \/ ServeLate \/ Crash

Spec == Init /\ [][Next]_vars

-----------------------------------------------------------------------------
TypeOK ==
  /\ device \in Statuses /\ changes \in 0..MaxChanges
  /\ reported \in Statuses \union {Unreported}
  /\ events \in Seq(Event) /\ file \in Seq(Event)
  /\ Len(events) <= Capacity
  /\ nextId \in 1..MaxEvents + 1
  /\ beat \in {"idle", "beating", "flushing"}
  /\ sending \in Event \union {Nothing} /\ served \in BOOLEAN /\ sent \in Nat
  /\ wire \subseteq Event
  /\ journal \in Seq(Event) /\ platform \in Statuses
  /\ overflown \subseteq 1..MaxEvents

Held == Ids(events) \union Ids(journal)

\* As long as the buffer never filled up, an event stored once is in the
\* buffer or in the journal, through failed sends, crashes and reloads.
NothingIsLost == overflown = {} => 1..nextId - 1 \subseteq Held

\* As long as the buffer never filled up, events are journalled in the order
\* they were stored, through retries, late requests and reloads of the file.
JournalInOrder ==
  overflown = {} => \A i, j \in 1..Len(journal) : i < j => journal[i].id < journal[j].id

\* The flush keeps everything it has not delivered: only the capacity drops
\* events.  It fails when an overflow removes the event that is being sent.
OnlyOverflowDrops == 1..nextId - 1 \subseteq Held \union overflown

-----------------------------------------------------------------------------
(* Why the invariants hold: the buffer and the file are two ends of one       *)
(* numbered queue, and the journal overlaps the part before the buffer.       *)

\* Events a queue that ends with the newest event no longer has.
Before(s) == nextId - 1 - Len(s)

\* A run of consecutive events, the first of them number n + 1.
Numbered(s, n) == \A i \in 1..Len(s) : s[i].id = n + i

\* A reload fits the buffer, a status is reported, a delivery is from the buffer.
Loadable ==
  /\ Len(file) <= Capacity
  /\ beat = "beating" => reported \in Statuses
  /\ sending # Nothing => events # <<>>

\* Memory and file end with the newest event; the file may lag behind what was
\* acknowledged, so that a reload sends again what the journal already has.
QueuesReachTheNewest ==
  /\ Numbered(events, Before(events)) /\ Numbered(file, Before(file))
  /\ 0 <= Before(file) /\ Before(file) <= Before(events)

\* The journal starts with the first event and has all that left the buffer.
JournalMeetsBuffer ==
  /\ Numbered(journal, 0)
  /\ Before(events) <= Len(journal) /\ Len(journal) < nextId

\* Whatever is under way is journalled already, or is the next event to be.
NothingRunsAhead ==
  /\ sending # Nothing => sending.id = Before(events) + 1
  /\ served => sending # Nothing /\ sending.id <= Len(journal)
  /\ \A e \in wire : e.id < nextId /\ e.id <= Len(journal) + 1

Ordered == QueuesReachTheNewest /\ JournalMeetsBuffer /\ NothingRunsAhead

IInv == TypeOK /\ Loadable /\ (overflown = {} => Ordered)

-----------------------------------------------------------------------------
\* The heartbeat interval, a platform that is reachable again and again, and
\* requests that end.
Fairness ==
  /\ WF_vars(BeginBeat) /\ WF_vars(BeatServed \/ BeatLost) /\ SF_vars(BeatServed)
  /\ WF_vars(SendHead) /\ WF_vars(Drained)
  /\ WF_vars(Serve \/ SendFails) /\ SF_vars(Serve)
  /\ SF_vars(Acknowledged)

FairSpec == Spec /\ Fairness

\* Stale statuses that are delivered late do not stick: when the device stops
\* changing, the platform ends up showing its status and keeps showing it.
PlatformConverges == <>[](platform = device)
================================================================================
