-------------------------- MODULE EventBufferProofs --------------------------
(***************************************************************************)
(* Theorems about the event buffer of an agent, for every capacity, every  *)
(* set of statuses and every number of events.                             *)
(***************************************************************************)
EXTENDS EventBuffer, TLAPS

-----------------------------------------------------------------------------
(* The three operations on queues.                                           *)

LEMMA AppendAt ==
  ASSUME NEW S, NEW s \in Seq(S), NEW e \in S
  PROVE  /\ Append(s, e) \in Seq(S)
         /\ Len(Append(s, e)) = Len(s) + 1
         /\ \A i \in 1..Len(s) : Append(s, e)[i] = s[i]
         /\ Append(s, e)[Len(s) + 1] = e
  OBVIOUS

LEMMA TailAt ==
  ASSUME NEW S, NEW s \in Seq(S), s # <<>>
  PROVE  /\ Head(s) \in S /\ Head(s) = s[1] /\ Len(s) \in Nat \ {0}
         /\ Tail(s) \in Seq(S)
         /\ Len(Tail(s)) = Len(s) - 1
         /\ \A i \in 1..Len(Tail(s)) : Tail(s)[i] = s[i + 1]
  OBVIOUS

LEMMA SubSeqAt ==
  ASSUME NEW S, NEW s \in Seq(S), NEW m \in 1..Len(s) + 1, NEW n \in 0..Len(s), m <= n + 1
  PROVE  /\ SubSeq(s, m, n) \in Seq(S)
         /\ Len(SubSeq(s, m, n)) = n - m + 1
         /\ \A i \in 1..n - m + 1 : SubSeq(s, m, n)[i] = s[m + i - 1]
<1>1. \A i \in m..n : s[i] \in S
  OBVIOUS
<1> QED
  BY <1>1

LEMMA SameElements ==
  ASSUME NEW S, NEW s \in Seq(S), NEW t \in Seq(S), Len(s) = Len(t),
         \A i \in 1..Len(s) : s[i] = t[i]
  PROVE  s = t
  OBVIOUS

LEMMA Typed ==
  ASSUME NEW S, NEW s \in Seq(S)
  PROVE  Len(s) \in Nat /\ \A i \in 1..Len(s) : s[i] \in S
  OBVIOUS

-----------------------------------------------------------------------------
(* What a stored and what a served event do.                                 *)

\* The buffer stays within its capacity and is never left empty; as long as
\* nothing is dropped, storing an event only appends it.
LEMMA EnqueueEffect ==
  ASSUME TypeOK, NEW status \in Statuses \union {"weight"}, Enqueue(status)
  PROVE  /\ events' \in Seq(Event) /\ Len(events') <= Capacity /\ events' # <<>>
         /\ file' = events'
         /\ nextId' = nextId + 1 /\ nextId' \in 1..MaxEvents + 1
         /\ overflown' \subseteq 1..MaxEvents
         /\ overflown' = {} =>
              /\ overflown = {}
              /\ events' = Append(events, [id |-> nextId, status |-> status])
<1> DEFINE new     == [id |-> nextId, status |-> status]
           all     == Append(events, new)
           dropped == IF Len(all) > Capacity THEN Len(all) - Capacity ELSE 0
<1>1. /\ nextId <= MaxEvents /\ nextId' = nextId + 1
      /\ events' = SubSeq(all, dropped + 1, Len(all)) /\ file' = events'
      /\ overflown' = overflown \union Ids(SubSeq(all, 1, dropped))
  BY DEF Enqueue
<1>2. nextId \in 1..MaxEvents /\ new \in Event
  BY <1>1, BufferAssumption DEF TypeOK, Event
<1>3. /\ all \in Seq(Event) /\ Len(all) = Len(events) + 1
      /\ Len(events) \in Nat /\ Len(events) <= Capacity
  BY <1>2, AppendAt, Typed DEF TypeOK
<1> HIDE DEF all, new
<1>4. dropped \in 0..Len(all) - 1 /\ Len(all) - dropped <= Capacity
  BY <1>3, BufferAssumption
<1> HIDE DEF dropped
<1>5. events' \in Seq(Event) /\ Len(events') = Len(all) - dropped
  <2>1. dropped + 1 \in 1..Len(all) + 1 /\ Len(all) \in 0..Len(all) /\ dropped + 1 <= Len(all) + 1
    BY <1>3, <1>4
  <2>2. /\ SubSeq(all, dropped + 1, Len(all)) \in Seq(Event)
        /\ Len(SubSeq(all, dropped + 1, Len(all))) = Len(all) - (dropped + 1) + 1
    BY <1>3, <2>1, SubSeqAt
  <2> QED BY <1>1, <1>3, <1>4, <2>2
<1>6. /\ SubSeq(all, 1, dropped) \in Seq(Event) /\ Len(SubSeq(all, 1, dropped)) = dropped
  <2>1. 1 \in 1..Len(all) + 1 /\ dropped \in 0..Len(all) /\ 1 <= dropped + 1
    BY <1>3, <1>4
  <2>2. /\ SubSeq(all, 1, dropped) \in Seq(Event)
        /\ Len(SubSeq(all, 1, dropped)) = dropped - 1 + 1
    BY <1>3, <2>1, SubSeqAt
  <2> QED BY <1>4, <2>2
<1>7. overflown' \subseteq 1..MaxEvents
  <2>1. \A i \in 1..dropped : SubSeq(all, 1, dropped)[i] \in Event
    BY <1>6, Typed
  <2>2. Ids(SubSeq(all, 1, dropped)) \subseteq 1..MaxEvents
    BY <1>6, <2>1 DEF Ids, Event
  <2> QED BY <1>1, <2>2 DEF TypeOK
<1>8. ASSUME overflown' = {}
      PROVE  overflown = {} /\ events' = all
  <2>1. overflown = {} /\ Ids(SubSeq(all, 1, dropped)) = {}
    BY <1>1, <1>8
  <2>2. dropped = 0
    <3>1. SUFFICES ASSUME 1 \in 1..dropped PROVE FALSE
      BY <1>3, <1>4
    <3>2. SubSeq(all, 1, dropped)[1].id \in Ids(SubSeq(all, 1, dropped))
      BY <1>6, <3>1 DEF Ids
    <3> QED BY <2>1, <3>2
  <2>3. \A i \in 1..Len(all) : SubSeq(all, 1, Len(all))[i] = all[i]
    <3>1. 1 \in 1..Len(all) + 1 /\ Len(all) \in 0..Len(all) /\ 1 <= Len(all) + 1
      BY <1>3
    <3>2. \A i \in 1..Len(all) - 1 + 1 : SubSeq(all, 1, Len(all))[i] = all[1 + i - 1]
      BY <1>3, <3>1, SubSeqAt
    <3> QED BY <1>3, <3>2
  <2>4. events' = SubSeq(all, 1, Len(all)) /\ Len(events') = Len(all)
    BY <1>1, <1>3, <1>5, <2>2
  <2> QED BY <1>3, <1>5, <2>1, <2>3, <2>4, SameElements
<1>9. events' # <<>> /\ Len(events') <= Capacity
  BY <1>3, <1>4, <1>5
<1> QED
  <2>1. nextId' = nextId + 1 /\ nextId' \in 1..MaxEvents + 1
    BY <1>1, <1>2, BufferAssumption
  <2>2. overflown' = {} => overflown = {} /\ events' = Append(events, [id |-> nextId, status |-> status])
    BY <1>8 DEF all, new
  <2> QED BY <1>1, <1>5, <1>7, <1>9, <2>1, <2>2

LEMMA IngestEffect ==
  ASSUME TypeOK, NEW e \in Event, Ingest(e)
  PROVE  /\ journal' \in Seq(Event) /\ platform' \in Statuses
         /\ \/ e.id \in Ids(journal) /\ journal' = journal
            \/ e.id \notin Ids(journal) /\ journal' = Append(journal, e)
<1>1. CASE e.id \in Ids(journal)
  BY <1>1 DEF Ingest, db, TypeOK
<1>2. CASE e.id \notin Ids(journal)
  <2>1. journal' = Append(journal, e) /\ platform' \in Statuses
    BY <1>2 DEF Ingest, TypeOK
  <2> QED BY <1>2, <2>1, AppendAt DEF TypeOK
<1> QED BY <1>1, <1>2

-----------------------------------------------------------------------------
(* Types.                                                                    *)

LEMMA InitTyped == Init => TypeOK /\ Loadable
<1> SUFFICES ASSUME Init PROVE TypeOK /\ Loadable
  OBVIOUS
<1>1. events \in Seq(Event) /\ file \in Seq(Event) /\ journal \in Seq(Event)
  BY DEF Init
<1>2. Len(events) <= Capacity /\ Len(file) <= Capacity
  BY BufferAssumption DEF Init
<1>3. changes \in 0..MaxChanges /\ nextId \in 1..MaxEvents + 1 /\ sent \in Nat
  BY BufferAssumption DEF Init
<1> QED
  BY <1>1, <1>2, <1>3 DEF Init, TypeOK, Loadable

\* A pass of the heartbeat ends with the buffer it had.
LEMMA EndBeatTyped ==
  ASSUME TypeOK, Loadable, EndBeat, wire' \subseteq Event
  PROVE  TypeOK' /\ Loadable'
<1>1. /\ events' = events /\ file' \in {events, file} /\ beat' = "idle"
      /\ sending' = Nothing /\ served' = FALSE /\ sent' = 0
      /\ UNCHANGED <<device, changes, reported, nextId, journal, platform, overflown>>
  BY DEF EndBeat, db
<1>2. file' \in Seq(Event) /\ Len(file') <= Capacity
  BY <1>1 DEF TypeOK, Loadable
<1> QED
  BY <1>1, <1>2 DEF TypeOK, Loadable

LEMMA NextTyped ==
  ASSUME TypeOK, Loadable, [Next]_vars
  PROVE  TypeOK' /\ Loadable'
<1>1. CASE DeviceChanges
  <2>1. device' \in Statuses /\ changes' \in 0..MaxChanges
    BY <1>1, BufferAssumption DEF DeviceChanges, TypeOK
  <2> QED BY <1>1, <2>1 DEF DeviceChanges, buffer, flush, db, TypeOK, Loadable
<1>2. CASE StoreWeight
  <2>1. Enqueue("weight")
    BY <1>2 DEF StoreWeight
  <2> QED BY <1>2, <2>1, EnqueueEffect DEF StoreWeight, flush, db, TypeOK, Loadable
<1>3. CASE BeginBeat
  <2>1. /\ beat' = "beating" /\ reported' = device
        /\ UNCHANGED <<device, changes, sending, served, sent, wire, journal, platform>>
    BY <1>3 DEF BeginBeat, flush, db
  <2>2. CASE reported \notin {Unreported, device}
    <3>1. Enqueue(device) /\ device \in Statuses
      BY <1>3, <2>2 DEF BeginBeat, TypeOK
    <3> QED BY <2>1, <3>1, EnqueueEffect DEF TypeOK, Loadable
  <2>3. CASE reported \in {Unreported, device}
    <3>1. UNCHANGED <<events, file, nextId, overflown>>
      BY <1>3, <2>3 DEF BeginBeat, buffer
    <3> QED BY <2>1, <3>1 DEF TypeOK, Loadable
  <2> QED BY <2>2, <2>3
<1>4. CASE BeatServed
  BY <1>4 DEF BeatServed, buffer, flush, TypeOK, Loadable
<1>5. CASE BeatLost
  BY <1>5 DEF BeatLost, buffer, flush, db, TypeOK, Loadable
<1>6. CASE SendHead
  <2>1. sending' \in Event /\ events # <<>>
    BY <1>6, TailAt DEF SendHead, TypeOK
  <2> QED BY <1>6, <2>1 DEF SendHead, buffer, db, TypeOK, Loadable
<1>7. CASE Serve
  <2>1. sending \in Event /\ Ingest(sending)
    BY <1>7 DEF Serve, TypeOK
  <2>2. journal' \in Seq(Event) /\ platform' \in Statuses
    BY <2>1, IngestEffect
  <2> QED BY <1>7, <2>2 DEF Serve, buffer, TypeOK, Loadable
<1>8. CASE Acknowledged
  <2>1. events # <<>> /\ events' = Tail(events)
    BY <1>8 DEF Acknowledged, Loadable
  <2>2. events' \in Seq(Event) /\ Len(events') <= Capacity
    BY <2>1, TailAt, BufferAssumption DEF TypeOK
  <2>3. /\ sending' = Nothing /\ served' = FALSE /\ sent' \in Nat
        /\ UNCHANGED <<device, changes, reported, file, nextId, beat, wire, journal, platform, overflown>>
    BY <1>8 DEF Acknowledged, db, TypeOK
  <2> QED BY <2>2, <2>3 DEF TypeOK, Loadable
<1>9. CASE SendFails
  <2>1. sending \in Event
    BY <1>9 DEF SendFails, TypeOK
  <2>2. wire' \subseteq Event
    BY <1>9, <2>1 DEF SendFails, TypeOK
  <2> QED BY <1>9, <2>2, EndBeatTyped DEF SendFails
<1>10. CASE Drained
  BY <1>10, EndBeatTyped DEF Drained, TypeOK
<1>11. CASE ServeLate
  <2>1. PICK e \in wire :
          /\ Ingest(e) /\ wire' = wire \ {e}
          /\ UNCHANGED <<device, changes, reported, buffer, nextId, beat, flush, overflown>>
    BY <1>11 DEF ServeLate
  <2>2. journal' \in Seq(Event) /\ platform' \in Statuses
    BY <2>1, IngestEffect DEF TypeOK
  <2> QED BY <2>1, <2>2 DEF buffer, flush, TypeOK, Loadable
<1>12. CASE Crash
  <2>1. wire' \subseteq Event
    BY <1>12 DEF Crash, TypeOK
  <2> QED BY <1>12, <2>1 DEF Crash, db, TypeOK, Loadable
<1>13. CASE UNCHANGED vars
  BY <1>13 DEF vars, buffer, flush, db, TypeOK, Loadable
<1> QED
  BY <1>1, <1>2, <1>3, <1>4, <1>5, <1>6, <1>7, <1>8, <1>9, <1>10, <1>11, <1>12, <1>13 DEF Next

-----------------------------------------------------------------------------
(* Numbers: as long as nothing was dropped.                                  *)

LEMMA EventsAreNumbers ==
  ASSUME TypeOK
  PROVE  /\ Len(events) \in Nat /\ Len(file) \in Nat /\ Len(journal) \in Nat
         /\ nextId \in Nat \ {0} /\ Before(events) \in Int /\ Before(file) \in Int
         /\ \A i \in 1..Len(events) : events[i] \in Event /\ events[i].id \in Nat \ {0}
         /\ \A i \in 1..Len(file) : file[i] \in Event /\ file[i].id \in Nat \ {0}
         /\ \A i \in 1..Len(journal) : journal[i] \in Event /\ journal[i].id \in Nat \ {0}
         /\ sending # Nothing => sending.id \in Nat \ {0}
         /\ \A e \in wire : e.id \in Nat \ {0}
<1>1. \A e \in Event : e.id \in Nat \ {0}
  BY BufferAssumption DEF Event
<1>2. /\ Len(events) \in Nat /\ Len(file) \in Nat /\ Len(journal) \in Nat
      /\ \A i \in 1..Len(events) : events[i] \in Event
      /\ \A i \in 1..Len(file) : file[i] \in Event
      /\ \A i \in 1..Len(journal) : journal[i] \in Event
  BY Typed DEF TypeOK
<1>3. nextId \in Nat \ {0}
  BY BufferAssumption DEF TypeOK
<1> QED
  BY <1>1, <1>2, <1>3 DEF TypeOK, Before

LEMMA StoredInOrder ==
  ASSUME TypeOK, QueuesReachTheNewest,
         NEW status \in Statuses \union {"weight"}, Enqueue(status), overflown' = {}
  PROVE  /\ overflown = {} /\ nextId' = nextId + 1
         /\ Before(events)' = Before(events)
         /\ QueuesReachTheNewest'
<1> DEFINE new == [id |-> nextId, status |-> status]
<1>1. /\ overflown = {} /\ nextId' = nextId + 1
      /\ events' = Append(events, new) /\ file' = events'
  BY EnqueueEffect
<1>2. new \in Event /\ new.id = nextId
  <2>1. nextId \in 1..MaxEvents
    BY BufferAssumption DEF Enqueue, TypeOK
  <2> QED BY <2>1 DEF Event
<1> HIDE DEF new
<1>3. /\ Len(events') = Len(events) + 1
      /\ \A i \in 1..Len(events) : events'[i] = events[i]
      /\ events'[Len(events) + 1] = new
  BY <1>1, <1>2, AppendAt DEF TypeOK
<1>4. Before(events)' = Before(events)
  BY <1>1, <1>3, EventsAreNumbers DEF Before
<1>5. \A i \in 1..Len(events') : events'[i].id = Before(events) + i
  <2>1. \A i \in 1..Len(events) : events'[i].id = Before(events) + i
    BY <1>3 DEF QueuesReachTheNewest, Numbered
  <2>2. events'[Len(events) + 1].id = Before(events) + (Len(events) + 1)
    BY <1>2, <1>3, EventsAreNumbers DEF Before
  <2>3. \A i \in 1..Len(events') : i \in 1..Len(events) \/ i = Len(events) + 1
    BY <1>3, EventsAreNumbers
  <2> QED BY <2>1, <2>2, <2>3
<1>6. Before(events) >= 0
  BY EventsAreNumbers DEF QueuesReachTheNewest
<1>7. Before(file)' = Before(events)
  BY <1>1, <1>4 DEF Before
<1>8. Numbered(events, Before(events))' /\ Numbered(file, Before(file))'
  BY <1>1, <1>4, <1>5, <1>7 DEF Numbered
<1> QED
  BY <1>1, <1>4, <1>6, <1>7, <1>8, EventsAreNumbers DEF QueuesReachTheNewest

\* A request that does not run ahead of the journal extends it by one at most.
LEMMA IngestedInOrder ==
  ASSUME TypeOK, JournalMeetsBuffer, NEW e \in Event, Ingest(e),
         e.id < nextId, e.id <= Len(journal) + 1
  PROVE  /\ Numbered(journal', 0)
         /\ Len(journal) <= Len(journal') /\ Len(journal') < nextId
         /\ e.id <= Len(journal')
<1>0. e.id \in Nat \ {0}
  BY BufferAssumption DEF Event
<1>1. CASE e.id \in Ids(journal) /\ journal' = journal
  <2>1. PICK i \in 1..Len(journal) : e.id = journal[i].id
    BY <1>1 DEF Ids
  <2> QED BY <1>1, <2>1, EventsAreNumbers DEF JournalMeetsBuffer, Numbered
<1>2. CASE e.id \notin Ids(journal) /\ journal' = Append(journal, e)
  <2>1. /\ Len(journal') = Len(journal) + 1
        /\ \A i \in 1..Len(journal) : journal'[i] = journal[i]
        /\ journal'[Len(journal) + 1] = e
    BY <1>2, AppendAt DEF TypeOK
  <2>2. e.id = Len(journal) + 1
    <3>1. SUFFICES ASSUME e.id \in 1..Len(journal) PROVE FALSE
      BY <1>0, EventsAreNumbers
    <3>2. journal[e.id].id = e.id
      BY <3>1, EventsAreNumbers DEF JournalMeetsBuffer, Numbered
    <3> QED BY <1>2, <3>1, <3>2 DEF Ids
  <2> QED BY <2>1, <2>2, EventsAreNumbers DEF JournalMeetsBuffer, Numbered
<1> QED
  BY <1>1, <1>2, IngestEffect

LEMMA InitOrdered == Init => Ordered
  BY DEF Init, Ordered, QueuesReachTheNewest, JournalMeetsBuffer, NothingRunsAhead, Numbered, Before

LEMMA StoreKeepsOrder ==
  ASSUME TypeOK, Ordered, NEW status \in Statuses \union {"weight"}, Enqueue(status),
         UNCHANGED <<sending, served, wire, journal>>, overflown' = {}
  PROVE  Ordered'
<1>1. nextId' = nextId + 1 /\ Before(events)' = Before(events) /\ QueuesReachTheNewest'
  BY StoredInOrder DEF Ordered
<1>2. JournalMeetsBuffer'
  BY <1>1, EventsAreNumbers DEF Ordered, JournalMeetsBuffer, Numbered
<1>3. NothingRunsAhead'
  BY <1>1, EventsAreNumbers DEF Ordered, NothingRunsAhead
<1> QED BY <1>1, <1>2, <1>3 DEF Ordered

\* The end of a flush writes the buffer into the file, or leaves the file alone.
LEMMA EndBeatKeepsOrder ==
  ASSUME TypeOK, Loadable, Ordered, EndBeat,
         \A e \in wire' : e \in wire \/ (e = sending /\ sending # Nothing)
  PROVE  Ordered'
<1>1. /\ events' = events /\ file' \in {events, file} /\ sending' = Nothing /\ served' = FALSE
      /\ nextId' = nextId /\ journal' = journal
  BY DEF EndBeat, db
<1>2. QueuesReachTheNewest'
  BY <1>1, EventsAreNumbers DEF Ordered, QueuesReachTheNewest, Numbered, Before
<1>3. JournalMeetsBuffer'
  BY <1>1 DEF Ordered, JournalMeetsBuffer, Numbered, Before
<1>4. sending # Nothing => sending.id < nextId /\ sending.id <= Len(journal) + 1
  BY EventsAreNumbers DEF Loadable, Ordered, NothingRunsAhead, JournalMeetsBuffer, Before
<1>5. NothingRunsAhead'
  BY <1>1, <1>4 DEF Ordered, NothingRunsAhead
<1> QED BY <1>2, <1>3, <1>5 DEF Ordered

LEMMA NextOrdered ==
  ASSUME TypeOK, Loadable, Ordered, [Next]_vars, overflown' = {}
  PROVE  Ordered'
<1>0. sending # Nothing => sending \in Event /\ sending.id < nextId /\ sending.id <= Len(journal) + 1
  BY EventsAreNumbers DEF TypeOK, Loadable, Ordered, NothingRunsAhead, JournalMeetsBuffer, Before
<1>1. ASSUME UNCHANGED <<events, file, nextId, sending, served, wire, journal>>
      PROVE  Ordered'
  BY <1>1 DEF Ordered, QueuesReachTheNewest, JournalMeetsBuffer, NothingRunsAhead, Numbered, Before
<1>2. CASE DeviceChanges \/ BeatServed \/ BeatLost \/ UNCHANGED vars
  BY <1>1, <1>2 DEF DeviceChanges, BeatServed, BeatLost, vars, buffer, flush, db
<1>3. CASE StoreWeight
  BY <1>3, StoreKeepsOrder DEF StoreWeight, flush, db
<1>4. CASE BeginBeat
  <2>1. CASE reported \notin {Unreported, device}
    <3>1. Enqueue(device) /\ device \in Statuses
      BY <1>4, <2>1 DEF BeginBeat, TypeOK
    <3> QED BY <1>4, <3>1, StoreKeepsOrder DEF BeginBeat, flush, db
  <2>2. CASE reported \in {Unreported, device}
    BY <1>1, <1>4, <2>2 DEF BeginBeat, buffer, flush, db
  <2> QED BY <2>1, <2>2
<1>5. CASE SendHead
  <2>1. sending' = Head(events) /\ served' = FALSE /\ events # <<>>
        /\ UNCHANGED <<events, file, nextId, wire, journal>>
    BY <1>5 DEF SendHead, buffer, db
  <2>2. sending'.id = Before(events) + 1
    <3>1. Head(events) = events[1] /\ 1 \in 1..Len(events)
      BY <2>1, TailAt DEF TypeOK
    <3> QED BY <2>1, <3>1 DEF Ordered, QueuesReachTheNewest, Numbered
  <2> QED BY <2>1, <2>2 DEF Ordered, QueuesReachTheNewest, JournalMeetsBuffer, NothingRunsAhead, Numbered, Before
<1>6. CASE Serve
  <2>1. /\ sending # Nothing /\ Ingest(sending) /\ served' = TRUE
        /\ UNCHANGED <<events, file, nextId, sending, wire>>
    BY <1>6 DEF Serve, buffer
  <2>2. /\ Numbered(journal', 0) /\ Len(journal) <= Len(journal') /\ Len(journal') < nextId
        /\ sending.id <= Len(journal')
    BY <1>0, <2>1, IngestedInOrder DEF Ordered
  <2>3. Len(journal') \in Nat
    BY NextTyped, Typed DEF TypeOK
  <2>4. QueuesReachTheNewest'
    BY <2>1 DEF Ordered, QueuesReachTheNewest, Numbered, Before
  <2>5. JournalMeetsBuffer'
    BY <2>1, <2>2, <2>3, EventsAreNumbers DEF Ordered, JournalMeetsBuffer, Numbered, Before
  <2>6. NothingRunsAhead'
    BY <2>1, <2>2, <2>3, EventsAreNumbers DEF Ordered, NothingRunsAhead, Before
  <2> QED BY <2>4, <2>5, <2>6 DEF Ordered
<1>7. CASE Acknowledged
  <2>1. /\ events' = Tail(events) /\ events # <<>> /\ sending' = Nothing /\ served' = FALSE
        /\ served /\ sending # Nothing
        /\ UNCHANGED <<file, nextId, wire, journal>>
    BY <1>7 DEF Acknowledged, Loadable, db
  <2>2. /\ Len(events) \in Nat \ {0} /\ Len(events') = Len(events) - 1
        /\ \A i \in 1..Len(events') : events'[i] = events[i + 1]
    BY <2>1, TailAt DEF TypeOK
  <2>3. Before(events)' = Before(events) + 1 /\ Before(file)' = Before(file)
    BY <2>1, <2>2, EventsAreNumbers DEF Before
  <2>4. Numbered(events, Before(events))'
    <3>1. \A i \in 1..Len(events') : events'[i].id = Before(events) + (i + 1)
      BY <2>2 DEF Ordered, QueuesReachTheNewest, Numbered
    <3> QED BY <2>2, <2>3, <3>1, EventsAreNumbers DEF Numbered
  <2>5. QueuesReachTheNewest'
    BY <2>1, <2>3, <2>4, EventsAreNumbers DEF Ordered, QueuesReachTheNewest, Numbered
  <2>6. JournalMeetsBuffer'
    BY <2>1, <2>3, EventsAreNumbers DEF Ordered, NothingRunsAhead, JournalMeetsBuffer, Numbered
  <2>7. NothingRunsAhead'
    BY <2>1 DEF Ordered, NothingRunsAhead
  <2> QED BY <2>5, <2>6, <2>7 DEF Ordered
<1>8. CASE SendFails
  BY <1>8, EndBeatKeepsOrder DEF SendFails
<1>9. CASE Drained
  <2>1. EndBeat /\ wire' = wire
    BY <1>9 DEF Drained
  <2>2. \A e \in wire' : e \in wire \/ (e = sending /\ sending # Nothing)
    BY <2>1
  <2> QED BY <2>1, <2>2, EndBeatKeepsOrder
<1>10. CASE ServeLate
  <2>1. PICK e \in wire :
          /\ Ingest(e) /\ wire' = wire \ {e}
          /\ UNCHANGED <<events, file, nextId, sending, served>>
    BY <1>10 DEF ServeLate, buffer, flush
  <2>2. e \in Event /\ e.id < nextId /\ e.id <= Len(journal) + 1
    BY <2>1 DEF TypeOK, Ordered, NothingRunsAhead
  <2>3. Numbered(journal', 0) /\ Len(journal) <= Len(journal') /\ Len(journal') < nextId
    BY <2>1, <2>2, IngestedInOrder DEF Ordered
  <2>4. Len(journal') \in Nat
    BY NextTyped, Typed DEF TypeOK
  <2>5. QueuesReachTheNewest'
    BY <2>1 DEF Ordered, QueuesReachTheNewest, Numbered, Before
  <2>6. JournalMeetsBuffer'
    BY <2>1, <2>3, <2>4, EventsAreNumbers DEF Ordered, JournalMeetsBuffer, Numbered, Before
  <2>7. NothingRunsAhead'
    BY <2>1, <2>3, <2>4, EventsAreNumbers DEF Ordered, NothingRunsAhead, Before
  <2> QED BY <2>5, <2>6, <2>7 DEF Ordered
<1>11. CASE Crash
  <2>1. /\ events' = file /\ sending' = Nothing /\ served' = FALSE
        /\ wire' = wire \union IF sending = Nothing \/ served THEN {} ELSE {sending}
        /\ UNCHANGED <<file, nextId, journal>>
    BY <1>11 DEF Crash, db
  <2>2. Before(events)' = Before(file) /\ Before(file)' = Before(file)
    BY <2>1 DEF Before
  <2>3. QueuesReachTheNewest'
    BY <2>1, <2>2, EventsAreNumbers DEF Ordered, QueuesReachTheNewest, Numbered
  <2>4. JournalMeetsBuffer'
    BY <2>1, <2>2, EventsAreNumbers DEF Ordered, QueuesReachTheNewest, JournalMeetsBuffer, Numbered
  <2>5. \A e \in wire' : e.id < nextId /\ e.id <= Len(journal) + 1
    BY <1>0, <2>1 DEF Ordered, NothingRunsAhead
  <2>6. NothingRunsAhead'
    BY <2>1, <2>5 DEF NothingRunsAhead
  <2> QED BY <2>3, <2>4, <2>6 DEF Ordered
<1> QED
  BY <1>2, <1>3, <1>4, <1>5, <1>6, <1>7, <1>8, <1>9, <1>10, <1>11 DEF Next

\* What the overflow dropped stays recorded.
LEMMA OverflowIsRemembered ==
  ASSUME TypeOK, [Next]_vars
  PROVE  overflown \subseteq overflown'
<1>1. ASSUME NEW status, Enqueue(status)
      PROVE  overflown \subseteq overflown'
  BY <1>1 DEF Enqueue
<1> QED
  BY <1>1 DEF Next, DeviceChanges, StoreWeight, BeginBeat, BeatServed, BeatLost, SendHead, Serve,
              Acknowledged, SendFails, Drained, ServeLate, Crash, EndBeat, vars, flush, db

-----------------------------------------------------------------------------
\* The memory, the file, the journal and what is under way are windows of one
\* numbered queue, as long as the buffer never filled up.
THEOREM Invariance == Spec => []IInv
<1>1. Init => IInv
  BY InitTyped, InitOrdered DEF IInv
<1>2. IInv /\ [Next]_vars => IInv'
  <2> SUFFICES ASSUME IInv, [Next]_vars PROVE IInv'
    OBVIOUS
  <2>1. TypeOK /\ Loadable /\ TypeOK' /\ Loadable'
    BY NextTyped DEF IInv
  <2>2. ASSUME overflown' = {} PROVE Ordered'
    <3>1. overflown = {}
      BY <2>1, <2>2, OverflowIsRemembered
    <3>2. Ordered
      BY <3>1 DEF IInv
    <3> QED BY <2>1, <2>2, <3>2, NextOrdered
  <2> QED BY <2>1, <2>2 DEF IInv
<1> QED BY <1>1, <1>2, PTL DEF Spec

\* OfflineBuffer never holds more than maxEvents, and a flush shifts a buffer
\* that has an event, whatever is stored, reloaded or given up meanwhile.
THEOREM TypeCorrect == Spec => []TypeOK
<1>1. IInv => TypeOK
  BY DEF IInv
<1> QED BY <1>1, Invariance, PTL

\* Through failed sends, crashes between a delivery and the write of the file
\* and late requests, an event is in the buffer or in gateway_events.
THEOREM NothingLost == Spec => []NothingIsLost
<1>1. IInv => NothingIsLost
  <2> SUFFICES ASSUME IInv, overflown = {}, NEW k \in 1..nextId - 1
               PROVE  k \in Held
    BY DEF NothingIsLost
  <2>0. TypeOK /\ Ordered
    BY DEF IInv
  <2>1. CASE k <= Len(journal)
    <3>1. k \in 1..Len(journal) /\ journal[k].id = k
      BY <2>0, <2>1, EventsAreNumbers DEF Ordered, JournalMeetsBuffer, Numbered
    <3> QED BY <3>1 DEF Held, Ids
  <2>2. CASE k > Len(journal)
    <3>1. k - Before(events) \in 1..Len(events)
      BY <2>0, <2>2, EventsAreNumbers DEF Ordered, JournalMeetsBuffer, Before
    <3>2. events[k - Before(events)].id = k
      BY <2>0, <3>1, EventsAreNumbers DEF Ordered, QueuesReachTheNewest, Numbered
    <3> QED BY <3>1, <3>2 DEF Held, Ids
  <2> QED BY <2>0, <2>1, <2>2, EventsAreNumbers
<1> QED BY <1>1, Invariance, PTL

\* gateway_events has the events in the order the agent stored them: retries
\* and late requests repeat what is there or bring the next one.
THEOREM JournalledInOrder == Spec => []JournalInOrder
<1>1. IInv => JournalInOrder
  BY EventsAreNumbers DEF IInv, Ordered, JournalInOrder, JournalMeetsBuffer, Numbered
<1> QED BY <1>1, Invariance, PTL
================================================================================
