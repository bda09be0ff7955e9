----------------------------- MODULE OneCStockPush -----------------------------
(***************************************************************************)
(* WarehouseOneCStockPushService: the one write of the platform into 1C.   *)
(* A push posts the current stock snapshot as a document; it is claimed    *)
(* durably, unique by operation key and by snapshot, before 1C is called,  *)
(* and a claim whose outcome is not known is never tried again.            *)
(*                                                                         *)
(* A snapshot hash covers the revision of every stock row, and a trigger   *)
(* bumps a revision on every change, so a hash stands for one state of the *)
(* stock: it is modelled as the number of changes so far.  1C is external: *)
(* it may serve a request late, after the platform has given up on it, or  *)
(* never, and its answer may be lost.                                      *)
(***************************************************************************)
EXTENDS Naturals, FiniteSets

CONSTANTS
  Calls,        \* calls of push
  Keys,         \* operation keys chosen by the clients
  Actors,       \* users
  MaxRevision,  \* bound: states of the stock
  Nothing       \* no request yet, or a lookup that found no row

VARIABLES
  revision,  \* the current state of the stock
  ops,       \* onec_stock_push_operations; a row carries the call that inserted it
  req,       \* the request of a call: key, actor, hash
  pc,        \* where a call is
  seen,      \* the row a call found by its key after the insert
  answer,    \* what the client got
  sent,      \* requests ever sent to 1C: [call, step]
  wire,      \* requests on their way to 1C
  served,    \* requests 1C has answered
  created,   \* calls whose document 1C created
  posted     \* calls whose document 1C posted

db       == <<revision, ops>>
client   == <<req, answer>>
onec     == <<created, posted>>
network  == <<sent, wire, served>>
vars     == <<db, client, pc, seen, network, onec>>

Hashes   == 1..MaxRevision
Statuses == {"in_progress", "succeeded", "outcome_unknown"}
Row      == [call : Calls, key : Keys, actor : Actors, hash : Hashes, status : Statuses]
Request  == [key : Keys, actor : Actors, hash : Hashes]
Places   == {"idle", "checking", "by_key", "by_hash", "inserting", "inserted", "skipped",
             "winner", "claimed", "creating", "posting", "acked", "failed", "over"}
Answers  == {"none", "changed", "not_ready", "conflict", "reconcile", "replayed", "unknown",
             "completion_unknown", "succeeded", "error"}

ASSUME StockAssumption ==
  /\ MaxRevision \in Nat \ {0}
  /\ Nothing \notin Row \union Request

Goto(c, place) == pc' = [pc EXCEPT ![c] = place]

Respond(c, what) ==
  /\ Goto(c, "over")
  /\ answer' = [answer EXCEPT ![c] = what]

ByKey(c)  == {row \in ops : row.key = req[c].key}
ByHash(c) == {row \in ops : row.hash = req[c].hash}

-----------------------------------------------------------------------------
\* Any write that moves a stock row.
StockChanges ==
  /\ revision < MaxRevision
  /\ revision' = revision + 1
  /\ UNCHANGED <<ops, client, pc, seen, network, onec>>

\* A client that has seen a preview, now or earlier, asks for a push.
Start(c) ==
  /\ pc[c] = "idle"
  /\ \E k \in Keys, a \in Actors, h \in 1..revision :
       req' = [req EXCEPT ![c] = [key |-> k, actor |-> a, hash |-> h]]
  /\ Goto(c, "checking")
  /\ UNCHANGED <<db, answer, seen, network, onec>>

\* The snapshot is built again and compared with the one the client has seen.
Check(c) ==
  /\ pc[c] = "checking"
  /\ IF req[c].hash # revision
     THEN Respond(c, "changed")
     ELSE Respond(c, "not_ready") \/ (Goto(c, "by_key") /\ UNCHANGED answer)
  /\ UNCHANGED <<db, req, seen, network, onec>>

-----------------------------------------------------------------------------
\* claim: look for the key, for the snapshot, insert unless either is taken,
\* look again.

Classify(c, row) ==
  IF row.actor # req[c].actor \/ row.hash # req[c].hash THEN Respond(c, "conflict")
  ELSE IF row.status = "succeeded" THEN Respond(c, "replayed")
  ELSE Respond(c, "reconcile")

FindByKey(c) ==
  /\ pc[c] = "by_key"
  /\ \/ \E row \in ByKey(c) : Classify(c, row)
     \/ ByKey(c) = {} /\ Goto(c, "by_hash") /\ UNCHANGED answer
  /\ UNCHANGED <<db, req, seen, network, onec>>

FindByHash(c) ==
  /\ pc[c] = "by_hash"
  /\ \/ \E row \in ByHash(c) : Classify(c, row)
     \/ ByHash(c) = {} /\ Goto(c, "inserting") /\ UNCHANGED answer
  /\ UNCHANGED <<db, req, seen, network, onec>>

Claim(c) == [call |-> c, key |-> req[c].key, actor |-> req[c].actor, hash |-> req[c].hash,
             status |-> "in_progress"]

\* Mutant: only the operation key is unique.
InsertByKey(c) ==
  /\ pc[c] = "inserting"
  /\ IF ByKey(c) = {}
     THEN ops' = ops \union {Claim(c)} /\ Goto(c, "inserted")
     ELSE UNCHANGED ops /\ Goto(c, "skipped")
  /\ UNCHANGED <<revision, client, seen, network, onec>>

\* createMany with skipDuplicates under the two unique indexes.
Insert(c) ==
  /\ pc[c] = "inserting"
  /\ IF ByKey(c) \union ByHash(c) = {}
     THEN ops' = ops \union {Claim(c)} /\ Goto(c, "inserted")
     ELSE UNCHANGED ops /\ Goto(c, "skipped")
  /\ UNCHANGED <<revision, client, seen, network, onec>>

\* An inserted row is found by its key and matches; the two lookups of a
\* skipped insert are separate reads.
Claimed(c) ==
  /\ pc[c] = "inserted"
  /\ Goto(c, "claimed")
  /\ UNCHANGED <<db, client, seen, network, onec>>

LookAgain(c) ==
  /\ pc[c] = "skipped"
  /\ Goto(c, "winner")
  /\ \/ \E row \in ByKey(c) : seen' = [seen EXCEPT ![c] = row]
     \/ ByKey(c) = {} /\ seen' = [seen EXCEPT ![c] = Nothing]
  /\ UNCHANGED <<db, client, network, onec>>

Winner(c) ==
  /\ pc[c] = "winner"
  /\ IF seen[c] # Nothing THEN Classify(c, seen[c])
     ELSE \/ \E row \in ByHash(c) : Classify(c, row)
          \/ ByHash(c) = {} /\ Respond(c, "conflict")
  /\ UNCHANGED <<db, req, seen, network, onec>>

\* A query of the snapshot or of the claim throws; an insert may have been
\* committed all the same.
QueryFails(c) ==
  /\ pc[c] \in {"checking", "by_key", "by_hash", "inserting", "inserted", "skipped", "winner"}
  /\ Respond(c, "error")
  /\ UNCHANGED <<db, req, seen, network, onec>>

-----------------------------------------------------------------------------
\* pushStock: create the document, post it, record the audit fact.

Send(w) == sent' = sent \union {w} /\ wire' = wire \union {w}

SendCreate(c) ==
  /\ pc[c] = "claimed"
  /\ Send([call |-> c, step |-> "create"])
  /\ Goto(c, "creating")
  /\ UNCHANGED <<db, client, seen, served, onec>>

\* 1C serves a request, or refuses it.
Serve(w) ==
  /\ wire' = wire \ {w}
  /\ served' = served \union {w}
  /\ IF w.step = "create"
     THEN created' = created \union {w.call} /\ UNCHANGED posted
     ELSE posted' = posted \union {w.call} /\ UNCHANGED created
  /\ UNCHANGED <<db, client, pc, seen, sent>>

Refuse(w) ==
  /\ wire' = wire \ {w}
  /\ UNCHANGED <<db, client, pc, seen, sent, served, onec>>

\* Mutant: a created document counts as confirmed.
SendPostSkipped(c) ==
  /\ pc[c] = "creating" /\ [call |-> c, step |-> "create"] \in served
  /\ Goto(c, "acked")
  /\ UNCHANGED <<db, client, seen, network, onec>>

SendPost(c) ==
  /\ pc[c] = "creating" /\ [call |-> c, step |-> "create"] \in served
  /\ Send([call |-> c, step |-> "post"])
  /\ Goto(c, "posting")
  /\ UNCHANGED <<db, client, seen, served, onec>>

Acknowledge(c) ==
  /\ pc[c] = "posting" /\ [call |-> c, step |-> "post"] \in served
  /\ Goto(c, "acked")
  /\ UNCHANGED <<db, client, seen, network, onec>>

\* Readiness is lost before the write, a request fails or times out, the ack
\* is not what was asked for, or the audit record of the success fails.
Fail(c) ==
  /\ pc[c] \in {"claimed", "creating", "posting", "acked"}
  /\ Goto(c, "failed")
  /\ UNCHANGED <<db, client, seen, network, onec>>

-----------------------------------------------------------------------------
\* Settling the claim. The guard of both updates is status = in_progress.
Settle(c, status) ==
  ops' = {IF row.call = c /\ row.status = "in_progress" THEN [row EXCEPT !.status = status]
          ELSE row : row \in ops}

\* Mutants: a failed push is written as failed, or releases its claim.
MarkUnknownFailed(c) ==
  /\ pc[c] = "failed"
  /\ Settle(c, "failed") \/ UNCHANGED ops
  /\ Respond(c, "unknown")
  /\ UNCHANGED <<revision, req, seen, network, onec>>

MarkUnknownReleased(c) ==
  /\ pc[c] = "failed"
  /\ ops' = {row \in ops : row.call # c}
  /\ Respond(c, "unknown")
  /\ UNCHANGED <<revision, req, seen, network, onec>>

\* The update itself may fail: the error is swallowed, the claim stays.
MarkUnknown(c) ==
  /\ pc[c] = "failed"
  /\ Settle(c, "outcome_unknown") \/ UNCHANGED ops
  /\ Respond(c, "unknown")
  /\ UNCHANGED <<revision, req, seen, network, onec>>

Complete(c) ==
  /\ pc[c] = "acked"
  /\ Settle(c, "succeeded")
  /\ Respond(c, "succeeded")
  /\ UNCHANGED <<revision, req, seen, network, onec>>

\* The update throws, before or after it took effect.
CompleteFails(c) ==
  /\ pc[c] = "acked"
  /\ Settle(c, "succeeded") \/ UNCHANGED ops
  /\ Respond(c, "completion_unknown")
  /\ UNCHANGED <<revision, req, seen, network, onec>>

\* The API process dies: every open call ends without an answer.
Restart ==
  /\ pc' = [c \in Calls |-> IF pc[c] = "idle" THEN "idle" ELSE "over"]
  /\ UNCHANGED <<db, client, seen, network, onec>>

-----------------------------------------------------------------------------
Init ==
  /\ revision = 1
  /\ ops = {}
  /\ req = [c \in Calls |-> Nothing]
  /\ pc = [c \in Calls |-> "idle"]
  /\ seen = [c \in Calls |-> Nothing]
  /\ answer = [c \in Calls |-> "none"]
  /\ sent = {} /\ wire = {} /\ served = {}
  /\ created = {} /\ posted = {}

Claiming(c) ==
  \/ Start(c) \/ Check(c) \/ FindByKey(c) \/ FindByHash(c)
  \/ Insert(c) \/ Claimed(c) \/ LookAgain(c) \/ Winner(c) \/ QueryFails(c)

Pushing(c) == SendCreate(c) \/ SendPost(c) \/ Acknowledge(c) \/ Fail(c)

Settling(c) == MarkUnknown(c) \/ Complete(c) \/ CompleteFails(c)

Next ==
  \/ StockChanges
  \/ \E c \in Calls : Claiming(c) \/ Pushing(c) \/ Settling(c)
  \/ \E w \in wire : Serve(w) \/ Refuse(w)
  \/ Restart

Spec == Init /\ [][Next]_vars

-----------------------------------------------------------------------------
Wires == [call : Calls, step : {"create", "post"}]

TypeOK ==
  /\ revision \in Hashes
  /\ ops \subseteq Row
  /\ req \in [Calls -> Request \union {Nothing}]
  /\ \A c \in Calls : pc[c] # "idle" => req[c] # Nothing
  /\ pc \in [Calls -> Places]
  /\ seen \in [Calls -> Row \union {Nothing}]
  /\ answer \in [Calls -> Answers]
  /\ sent \subseteq Wires /\ wire \subseteq sent /\ served \subseteq sent
  /\ created \subseteq Calls /\ posted \subseteq Calls

\* One snapshot reaches 1C in one attempt: neither a second key, a second user,
\* a retry after an unknown outcome, nor a restart sends it again, so 1C never
\* gets two documents for one state of the stock.
OneAttemptPerSnapshot ==
  \A v, w \in sent : v.step = w.step /\ req[v.call].hash = req[w.call].hash => v = w

\* A push answered as done, also from the stored result of another call, has
\* its document posted in 1C.
SuccessIsPosted ==
  \A c \in Calls : answer[c] \in {"succeeded", "replayed"} =>
    \E d \in posted : req[d].hash = req[c].hash /\ req[d].actor = req[c].actor

\* The table is good evidence for the manual reconciliation: a document in 1C
\* has its row, and a row that says succeeded has its posted document.
LedgerTellsTheTruth ==
  /\ \A c \in created : \E row \in ops : row.call = c /\ row.hash = req[c].hash
  /\ \A row \in ops : row.status = "succeeded" => row.call \in posted

-----------------------------------------------------------------------------
\* What these rest on: the parts of the inductive invariant.

Working == {"inserted", "claimed", "creating", "posting", "acked", "failed"}

\* A row is the request of the call that inserted it, and no two rows are
\* about the same snapshot.
RowsAreClaims ==
  /\ \A row \in ops :
       /\ pc[row.call] \in Working \union {"over"}
       /\ row.hash = req[row.call].hash /\ row.actor = req[row.call].actor
  /\ \A r, s \in ops : r.hash = s.hash => r = s

\* Only a call that holds a claim talks to 1C.
ClaimComesFirst ==
  /\ \A c \in Calls : pc[c] \in Working => \E row \in ops : row.call = c
  /\ \A w \in sent : \E row \in ops : row.call = w.call

\* Whoever believes that a document is posted is right.
ConfirmationsAreTrue ==
  /\ \A w \in served : w.step = "post" => w.call \in posted
  /\ \A c \in created \union posted : \E w \in sent : w.call = c
  /\ \A c \in Calls : pc[c] = "acked" => c \in posted
  /\ \A c \in Calls : answer[c] # "none" => pc[c] = "over"
  /\ \A c \in Calls : pc[c] = "winner" /\ seen[c] # Nothing =>
       /\ pc[seen[c].call] # "idle"
       /\ seen[c].hash = req[seen[c].call].hash /\ seen[c].actor = req[seen[c].call].actor
       /\ seen[c].status = "succeeded" => seen[c].call \in posted

IInv == TypeOK /\ RowsAreClaims /\ ClaimComesFirst /\ ConfirmationsAreTrue
          /\ SuccessIsPosted /\ LedgerTellsTheTruth
================================================================================
