------------------------- MODULE OneCStockPushProofs -------------------------
(***************************************************************************)
(* Theorems about the push of the stock into 1C, for every number of calls,*)
(* keys, users and states of the stock.                                    *)
(***************************************************************************)
EXTENDS OneCStockPush, TLAPS

-----------------------------------------------------------------------------
(* Types. *)

LEMMA SettleType ==
  ASSUME ops \subseteq Row, NEW c, NEW status \in Statuses, Settle(c, status)
  PROVE  ops' \subseteq Row
<1>1. \A row \in Row : [row EXCEPT !.status = status] \in Row
  BY DEF Row
<1> QED
  BY <1>1 DEF Settle

LEMMA ClassifyType ==
  ASSUME TypeOK, NEW c \in Calls, NEW row, Classify(c, row)
  PROVE  pc' = [pc EXCEPT ![c] = "over"] /\ answer' \in [Calls -> Answers]
  BY DEF TypeOK, Classify, Respond, Goto, Answers

LEMMA ClaimingType ==
  ASSUME TypeOK, NEW c \in Calls, Claiming(c)
  PROVE  TypeOK'
<1> USE DEF TypeOK
<1>1. CASE Start(c)
  <2>1. PICK k \in Keys, a \in Actors, h \in 1..revision :
          req' = [req EXCEPT ![c] = [key |-> k, actor |-> a, hash |-> h]]
    BY <1>1 DEF Start
  <2>2. h \in Hashes
    BY StockAssumption DEF Hashes
  <2>4. \E r \in Request : req' = [req EXCEPT ![c] = r]
    BY <2>1, <2>2 DEF Request
  <2>5. pc' = [pc EXCEPT ![c] = "checking"] /\ UNCHANGED <<db, answer, seen, network, onec>>
    BY <1>1 DEF Start, Goto
  <2>6. \A d \in Calls : pc'[d] # "idle" => req'[d] # Nothing
    BY <2>4, <2>5, StockAssumption
  <2> QED
    BY <2>4, <2>5, <2>6 DEF Places, db, network, onec
<1>2. CASE Check(c)
  BY <1>2 DEF Check, Respond, Goto, Places, Answers, db, network, onec
<1>3. CASE FindByKey(c)
  <2>1. CASE \E row \in ByKey(c) : Classify(c, row)
    BY <1>3, <2>1, ClassifyType DEF FindByKey, Places, db, network, onec
  <2>2. CASE Goto(c, "by_hash") /\ UNCHANGED answer
    BY <1>3, <2>2 DEF FindByKey, Goto, Places, db, network, onec
  <2> QED BY <1>3, <2>1, <2>2 DEF FindByKey
<1>4. CASE FindByHash(c)
  <2>1. CASE \E row \in ByHash(c) : Classify(c, row)
    BY <1>4, <2>1, ClassifyType DEF FindByHash, Places, db, network, onec
  <2>2. CASE Goto(c, "inserting") /\ UNCHANGED answer
    BY <1>4, <2>2 DEF FindByHash, Goto, Places, db, network, onec
  <2> QED BY <1>4, <2>1, <2>2 DEF FindByHash
<1>5. CASE Insert(c)
  <2>1. Claim(c) \in Row
    BY <1>5 DEF Insert, Claim, Row, Request, Statuses
  <2> QED
    BY <1>5, <2>1 DEF Insert, Goto, Places, client, network, onec
<1>6. CASE Claimed(c)
  BY <1>6 DEF Claimed, Goto, Places, db, client, network, onec
<1>7. CASE LookAgain(c)
  <2>1. ByKey(c) \subseteq Row
    BY DEF ByKey
  <2> QED
    BY <1>7, <2>1 DEF LookAgain, Goto, Places, db, client, network, onec
<1>8. CASE Winner(c)
  <2>1. CASE \E row : Classify(c, row)
    BY <1>8, <2>1, ClassifyType DEF Winner, Places, db, network, onec
  <2>2. CASE Respond(c, "conflict")
    BY <1>8, <2>2 DEF Winner, Respond, Goto, Places, Answers, db, network, onec
  <2> QED BY <1>8, <2>1, <2>2 DEF Winner
<1>9. CASE QueryFails(c)
  BY <1>9 DEF QueryFails, Respond, Goto, Places, Answers, db, network, onec
<1> QED
  BY <1>1, <1>2, <1>3, <1>4, <1>5, <1>6, <1>7, <1>8, <1>9 DEF Claiming

LEMMA PushingType ==
  ASSUME TypeOK, NEW c \in Calls, Pushing(c)
  PROVE  TypeOK'
<1> USE DEF TypeOK, Goto, Places, db, client, network, onec
<1>1. CASE SendCreate(c)
  BY <1>1 DEF SendCreate, Send, Wires
<1>2. CASE SendPost(c)
  BY <1>2 DEF SendPost, Send, Wires
<1>3. CASE Acknowledge(c)
  BY <1>3 DEF Acknowledge
<1>4. CASE Fail(c)
  BY <1>4 DEF Fail
<1> QED
  BY <1>1, <1>2, <1>3, <1>4 DEF Pushing

LEMMA SettlingType ==
  ASSUME TypeOK, NEW c \in Calls, Settling(c)
  PROVE  TypeOK'
<1>1. ops' \subseteq Row
  <2>1. \/ UNCHANGED ops
        \/ Settle(c, "outcome_unknown")
        \/ Settle(c, "succeeded")
    BY DEF Settling, MarkUnknown, Complete, CompleteFails
  <2> QED
    BY <2>1, SettleType DEF TypeOK, Statuses
<1>2. /\ pc[c] # "idle"
      /\ pc' = [pc EXCEPT ![c] = "over"]
      /\ \E what \in Answers : answer' = [answer EXCEPT ![c] = what]
      /\ UNCHANGED <<revision, req, seen, network, onec>>
  BY DEF Settling, MarkUnknown, Complete, CompleteFails, Respond, Goto, Answers
<1>3. pc' \in [Calls -> Places] /\ answer' \in [Calls -> Answers]
  BY <1>2 DEF TypeOK, Places
<1>4. \A d \in Calls : pc'[d] # "idle" => req[d] # Nothing
  BY <1>2 DEF TypeOK
<1> QED
  BY <1>1, <1>2, <1>3, <1>4 DEF TypeOK, network, onec

LEMMA ServiceType ==
  ASSUME TypeOK, NEW w \in wire, Serve(w) \/ Refuse(w)
  PROVE  TypeOK'
  BY DEF TypeOK, Serve, Refuse, Wires, db, client, onec

LEMMA TypeStep == TypeOK /\ [Next]_vars => TypeOK'
<1> SUFFICES ASSUME TypeOK, [Next]_vars
             PROVE  TypeOK'
  OBVIOUS
<1>1. CASE StockChanges
  BY <1>1, StockAssumption DEF TypeOK, StockChanges, Hashes, client, network, onec
<1>2. CASE Restart
  BY <1>2 DEF TypeOK, Restart, Places, db, client, network, onec
<1>3. CASE UNCHANGED vars
  BY <1>3 DEF TypeOK, vars, db, client, network, onec
<1> QED
  BY <1>1, <1>2, <1>3, ClaimingType, PushingType, SettlingType, ServiceType DEF Next

LEMMA TypeInit == Init => TypeOK
  BY StockAssumption DEF Init, TypeOK, Hashes, Places, Answers

\* Every variable has its type; in particular a row never leaves the three
\* statuses the CHECK constraint of the table allows.
THEOREM TypeCorrect == Spec => []TypeOK
  BY TypeInit, TypeStep, PTL DEF Spec

-----------------------------------------------------------------------------
(* What a step does to requests and rows. *)

\* A request, once made, stays as it is, and its call never becomes idle again.
LEMMA RequestsStay ==
  ASSUME TypeOK, [Next]_vars, NEW c \in Calls, pc[c] # "idle"
  PROVE  req'[c] = req[c] /\ pc'[c] # "idle"
<1>1. CASE \E d \in Calls : Start(d)
  BY <1>1 DEF Start, Goto, TypeOK
<1>2. CASE \E d \in Calls : Check(d) \/ FindByKey(d) \/ FindByHash(d) \/ Insert(d)
                            \/ Claimed(d) \/ LookAgain(d) \/ Winner(d) \/ QueryFails(d)
  BY <1>2 DEF Check, FindByKey, FindByHash, Insert, Claimed, LookAgain, Winner, QueryFails, Classify,
              Respond, Goto, client, TypeOK
<1>3. CASE \E d \in Calls : Pushing(d)
  BY <1>3 DEF Pushing, SendCreate, SendPost, Acknowledge, Fail, Goto, client, TypeOK
<1>4. CASE \E d \in Calls : Settling(d)
  BY <1>4 DEF Settling, MarkUnknown, Complete, CompleteFails, Respond, Goto, TypeOK
<1>5. CASE StockChanges \/ Restart \/ UNCHANGED vars
           \/ \E w \in wire : Serve(w) \/ Refuse(w)
  BY <1>5 DEF StockChanges, Restart, Serve, Refuse, vars, client, TypeOK
<1> QED
  BY <1>1, <1>2, <1>3, <1>4, <1>5 DEF Next, Claiming

SameClaim(r, s) == r.call = s.call /\ r.hash = s.hash /\ r.actor = s.actor

\* What a settled row looks like next to the row it was.
LEMMA SettledRow ==
  ASSUME NEW row \in Row, NEW status \in Statuses
  PROVE  SameClaim(row, [row EXCEPT !.status = status])
  BY DEF SameClaim, Row

\* Rows are inserted for a snapshot that has none, or keep their claim.
RowsKept ==
  /\ \A r \in ops : \E s \in ops' : SameClaim(r, s)
  /\ \A s \in ops' : \E r \in ops : SameClaim(r, s)
  /\ \A s, t \in ops' : s.hash = t.hash => s = t
  /\ \A s \in ops' : s.status = "succeeded" => s \in ops \/ pc[s.call] = "acked"

Inserted(c) ==
  /\ Insert(c) /\ Goto(c, "inserted")
  /\ ByHash(c) = {}
  /\ ops' = ops \union {Claim(c)}

LEMMA SettleKeeps ==
  ASSUME TypeOK, RowsAreClaims, NEW c \in Calls, NEW status \in Statuses, Settle(c, status),
         status = "succeeded" => pc[c] = "acked"
  PROVE  RowsKept
<1> DEFINE f(row) == IF row.call = c /\ row.status = "in_progress"
                     THEN [row EXCEPT !.status = status] ELSE row
<1>1. ops' = {f(row) : row \in ops}
  BY DEF Settle
<1>2. \A row \in ops : SameClaim(row, f(row))
  BY SettledRow DEF TypeOK, SameClaim
<1>3. \A row \in ops : f(row).status = "succeeded" => f(row) \in ops \/ pc[f(row).call] = "acked"
  BY <1>2 DEF TypeOK, Row, SameClaim
<1> HIDE DEF f
<1> QED
  BY <1>1, <1>2, <1>3 DEF RowsKept, SameClaim, RowsAreClaims

LEMMA RowsMove ==
  ASSUME TypeOK, RowsAreClaims, [Next]_vars
  PROVE  RowsKept \/ \E c \in Calls : Inserted(c)
<1>1. CASE UNCHANGED ops
  BY <1>1 DEF RowsKept, SameClaim, RowsAreClaims
<1>2. CASE \E c \in Calls : Insert(c)
  BY <1>1, <1>2 DEF Insert, Inserted
<1>3. ASSUME NEW c \in Calls, Settling(c)
      PROVE  UNCHANGED ops \/ RowsKept
  <2>1. \/ UNCHANGED ops
        \/ Settle(c, "outcome_unknown")
        \/ Settle(c, "succeeded") /\ pc[c] = "acked"
    BY <1>3 DEF Settling, MarkUnknown, Complete, CompleteFails
  <2> QED
    BY <2>1, SettleKeeps DEF Statuses
<1>4. ASSUME NEW c \in Calls, Claiming(c) \/ Pushing(c), ~Insert(c)
      PROVE  UNCHANGED ops
  BY <1>4 DEF Claiming, Start, Check, FindByKey, FindByHash, Claimed, LookAgain, Winner, QueryFails,
              Pushing, SendCreate, SendPost, Acknowledge, Fail, db
<1>5. CASE StockChanges \/ Restart \/ UNCHANGED vars \/ \E w \in wire : Serve(w) \/ Refuse(w)
  BY <1>1, <1>5 DEF StockChanges, Restart, Serve, Refuse, vars, db
<1> QED
  BY <1>1, <1>2, <1>3, <1>4, <1>5 DEF Next

\* A call works on a claim only after its own insert, and never goes back.
LEMMA CallsMove ==
  ASSUME TypeOK, [Next]_vars, NEW c \in Calls
  PROVE  /\ pc[c] \in Working \union {"over"} => pc'[c] \in Working \union {"over"}
         /\ pc'[c] \in Working => pc[c] \in Working \/ Inserted(c)
         /\ pc'[c] = "acked" => pc[c] = "acked" \/ Acknowledge(c)
<1>1. CASE \E d \in Calls : Claiming(d) /\ ~Insert(d)
  BY <1>1 DEF Claiming, Start, Check, FindByKey, FindByHash, Claimed, LookAgain, Winner, QueryFails, Classify,
              Respond, Goto, TypeOK, Working
<1>2. CASE \E d \in Calls : Insert(d)
  BY <1>2 DEF Insert, Inserted, Goto, TypeOK, Working
<1>3. CASE \E d \in Calls : Pushing(d)
  BY <1>3 DEF Pushing, SendCreate, SendPost, Acknowledge, Fail, Goto, TypeOK, Working
<1>4. CASE \E d \in Calls : Settling(d)
  BY <1>4 DEF Settling, MarkUnknown, Complete, CompleteFails, Respond, Goto, TypeOK, Working
<1>5. CASE StockChanges \/ Restart \/ UNCHANGED vars
           \/ \E w \in wire : Serve(w) \/ Refuse(w)
  BY <1>5 DEF StockChanges, Restart, Serve, Refuse, vars, TypeOK, Working
<1> QED
  BY <1>1, <1>2, <1>3, <1>4, <1>5 DEF Next

\* What a call remembers it has read from the table, just now or before.
LEMMA MemoriesMove ==
  ASSUME TypeOK, [Next]_vars, NEW c \in Calls, pc'[c] = "winner"
  PROVE  \/ pc[c] = "winner" /\ seen'[c] = seen[c]
         \/ seen'[c] \in ops \union {Nothing}
<1>1. CASE \E d \in Calls : Claiming(d) /\ ~LookAgain(d)
  BY <1>1 DEF Claiming, Start, Check, FindByKey, FindByHash, Insert, Claimed, Winner, QueryFails, Classify,
              Respond, Goto, TypeOK
<1>2. CASE \E d \in Calls : LookAgain(d)
  BY <1>2 DEF LookAgain, ByKey, Goto, TypeOK
<1>3. CASE \E d \in Calls : Pushing(d)
  BY <1>3 DEF Pushing, SendCreate, SendPost, Acknowledge, Fail, Goto, TypeOK
<1>4. CASE \E d \in Calls : Settling(d)
  BY <1>4 DEF Settling, MarkUnknown, Complete, CompleteFails, Respond, Goto, TypeOK
<1>5. CASE StockChanges \/ Restart \/ UNCHANGED vars
           \/ \E w \in wire : Serve(w) \/ Refuse(w)
  BY <1>5 DEF StockChanges, Restart, Serve, Refuse, vars, TypeOK
<1> QED
  BY <1>1, <1>2, <1>3, <1>4, <1>5 DEF Next

\* Only a working call sends; what is created or posted stays so.
LEMMA WritesMove ==
  ASSUME TypeOK, [Next]_vars
  PROVE  /\ sent \subseteq sent' /\ created \subseteq created' /\ posted \subseteq posted'
         /\ \A w \in sent' : w \in sent \/ pc[w.call] \in Working
         /\ \A w \in served' : w \in served \/ (w \in wire /\ (w.step = "post" => w.call \in posted'))
         /\ \A c \in created' \union posted' :
              c \in created \union posted \/ \E w \in wire : w.call = c
<1>1. CASE \E d \in Calls : Claiming(d)
  BY <1>1 DEF Claiming, Start, Check, FindByKey, FindByHash, Insert, Claimed, LookAgain, Winner, QueryFails,
              network, onec
<1>2. CASE \E d \in Calls : Pushing(d)
  BY <1>2 DEF Pushing, SendCreate, SendPost, Acknowledge, Fail, Send, network, onec, Working
<1>3. CASE \E d \in Calls : Settling(d)
  BY <1>3 DEF Settling, MarkUnknown, Complete, CompleteFails, network, onec
<1>4. CASE \E w \in wire : Serve(w) \/ Refuse(w)
  BY <1>4 DEF Serve, Refuse, onec, TypeOK
<1>5. CASE StockChanges \/ Restart \/ UNCHANGED vars
  BY <1>5 DEF StockChanges, Restart, vars, network, onec
<1> QED
  BY <1>1, <1>2, <1>3, <1>4, <1>5 DEF Next

-----------------------------------------------------------------------------
(* The parts of the invariant. *)

LEMMA RowsStep ==
  ASSUME TypeOK, TypeOK', RowsAreClaims, [Next]_vars
  PROVE  RowsAreClaims'
<1>1. \A row \in ops : /\ pc'[row.call] \in Working \union {"over"}
                       /\ req'[row.call] = req[row.call]
  BY CallsMove, RequestsStay DEF TypeOK, Row, RowsAreClaims, Working
<1>2. CASE RowsKept
  BY <1>1, <1>2 DEF RowsKept, SameClaim, RowsAreClaims
<1>3. ASSUME NEW c \in Calls, Inserted(c)
      PROVE  RowsAreClaims'
  <2>1. pc'[c] = "inserted" /\ req' = req
    BY <1>3 DEF Inserted, Insert, Goto, client, TypeOK
  <2>2. /\ Claim(c).call = c /\ Claim(c).hash = req[c].hash /\ Claim(c).actor = req[c].actor
        /\ \A row \in ops : row.hash # Claim(c).hash
    BY <1>3 DEF Inserted, Claim, ByHash
  <2>3. ops' = ops \union {Claim(c)}
    BY <1>3 DEF Inserted
  <2>4. \A row \in ops' : /\ pc'[row.call] \in Working \union {"over"}
                          /\ row.hash = req'[row.call].hash /\ row.actor = req'[row.call].actor
    BY <1>1, <2>1, <2>2, <2>3 DEF RowsAreClaims, Working
  <2>5. \A r, s \in ops' : r.hash = s.hash => r = s
    BY <2>2, <2>3 DEF RowsAreClaims
  <2> QED
    BY <2>4, <2>5 DEF RowsAreClaims
<1> QED
  BY <1>2, <1>3, RowsMove

LEMMA ClaimStep ==
  ASSUME TypeOK, TypeOK', RowsAreClaims, ClaimComesFirst, [Next]_vars
  PROVE  ClaimComesFirst'
<1>1. \A c \in Calls : (\E row \in ops : row.call = c) => \E row \in ops' : row.call = c
  BY RowsMove DEF RowsKept, SameClaim, Inserted
<1>2. ASSUME NEW c \in Calls, Inserted(c)
      PROVE  \E row \in ops' : row.call = c
  <2>1. Claim(c) \in ops'
    BY <1>2 DEF Inserted
  <2>2. Claim(c).call = c
    BY DEF Claim
  <2> QED
    BY <2>1, <2>2
<1>3. \A c \in Calls : pc'[c] \in Working => \E row \in ops' : row.call = c
  BY <1>1, <1>2, CallsMove DEF ClaimComesFirst
<1>4. \A w \in sent' : w.call \in Calls /\ \E row \in ops : row.call = w.call
  <2> TAKE w \in sent'
  <2>1. w.call \in Calls
    BY DEF TypeOK, Wires
  <2> QED
    BY <2>1, WritesMove DEF ClaimComesFirst
<1> QED
  BY <1>1, <1>3, <1>4 DEF ClaimComesFirst

\* One claim per snapshot and one call per claim make one attempt.
LEMMA OneAttempt ==
  TypeOK /\ RowsAreClaims /\ ClaimComesFirst => OneAttemptPerSnapshot
<1> SUFFICES ASSUME TypeOK, RowsAreClaims, ClaimComesFirst, NEW v \in sent, NEW w \in sent, v.step = w.step,
                    req[v.call].hash = req[w.call].hash
             PROVE  v = w
  BY DEF OneAttemptPerSnapshot
<1>1. PICK r \in ops : r.call = v.call
  BY DEF ClaimComesFirst
<1>2. PICK s \in ops : s.call = w.call
  BY DEF ClaimComesFirst
<1>3. r = s
  BY <1>1, <1>2 DEF RowsAreClaims
<1> QED
  BY <1>1, <1>2, <1>3 DEF TypeOK, Wires

\* An answer is given once; a success is confirmed by 1C or read from the table.
LEMMA AnswersMove ==
  ASSUME TypeOK, [Next]_vars, NEW c \in Calls, answer'[c] # answer[c]
  PROVE  /\ pc[c] \notin {"idle", "over"} /\ pc'[c] = "over"
         /\ answer'[c] = "succeeded" => pc[c] = "acked"
         /\ answer'[c] = "replayed" =>
              \/ \E row \in ops : Classify(c, row)
              \/ pc[c] = "winner" /\ seen[c] # Nothing /\ Classify(c, seen[c])
<1>1. CASE \E d \in Calls : Claiming(d)
  <2>1. CASE \E d \in Calls : Start(d) \/ Insert(d) \/ Claimed(d) \/ LookAgain(d)
    BY <2>1 DEF Start, Insert, Claimed, LookAgain, client
  <2>2. CASE \E d \in Calls : Check(d)
    BY <2>2 DEF Check, Respond, Goto, TypeOK
  <2>3. CASE \E d \in Calls : FindByKey(d) \/ FindByHash(d)
    BY <2>3 DEF FindByKey, FindByHash, ByKey, ByHash, Classify, Respond, Goto, TypeOK
  <2>4. CASE \E d \in Calls : Winner(d)
    BY <2>4 DEF Winner, ByHash, Classify, Respond, Goto, TypeOK
  <2>5. CASE \E d \in Calls : QueryFails(d)
    BY <2>5 DEF QueryFails, Respond, Goto, TypeOK
  <2> QED
    BY <1>1, <2>1, <2>2, <2>3, <2>4, <2>5 DEF Claiming
<1>2. CASE \E d \in Calls : Pushing(d)
  BY <1>2 DEF Pushing, SendCreate, SendPost, Acknowledge, Fail, client
<1>3. CASE \E d \in Calls : Settling(d)
  BY <1>3 DEF Settling, MarkUnknown, Complete, CompleteFails, Respond, Goto, TypeOK
<1>4. CASE StockChanges \/ Restart \/ UNCHANGED vars
           \/ \E w \in wire : Serve(w) \/ Refuse(w)
  BY <1>4 DEF StockChanges, Restart, Serve, Refuse, vars, client, db
<1> QED
  BY <1>1, <1>2, <1>3, <1>4 DEF Next

\* A call that is over stays over.
LEMMA OverStays ==
  ASSUME TypeOK, [Next]_vars, NEW c \in Calls, pc[c] = "over"
  PROVE  pc'[c] = "over"
<1>1. CASE \E d \in Calls : Claiming(d)
  BY <1>1 DEF Claiming, Start, Check, FindByKey, FindByHash, Insert, Claimed, LookAgain, Winner, QueryFails,
              Classify, Respond, Goto, TypeOK
<1>2. CASE \E d \in Calls : Pushing(d)
  BY <1>2 DEF Pushing, SendCreate, SendPost, Acknowledge, Fail, Goto, TypeOK
<1>3. CASE \E d \in Calls : Settling(d)
  BY <1>3 DEF Settling, MarkUnknown, Complete, CompleteFails, Respond, Goto, TypeOK
<1>4. CASE StockChanges \/ Restart \/ UNCHANGED vars
           \/ \E w \in wire : Serve(w) \/ Refuse(w)
  BY <1>4 DEF StockChanges, Restart, Serve, Refuse, vars
<1> QED
  BY <1>1, <1>2, <1>3, <1>4 DEF Next

LEMMA ConfirmationsStep ==
  ASSUME TypeOK, TypeOK', RowsAreClaims, ConfirmationsAreTrue, LedgerTellsTheTruth, [Next]_vars
  PROVE  ConfirmationsAreTrue'
<1>1. \A w \in served' : w.step = "post" => w.call \in posted'
  BY WritesMove DEF ConfirmationsAreTrue
<1>2. \A c \in created' \union posted' : \E w \in sent' : w.call = c
  BY WritesMove DEF ConfirmationsAreTrue, TypeOK
<1>3. ASSUME NEW c \in Calls, pc'[c] = "acked"
      PROVE  c \in posted'
  <2>1. pc[c] = "acked" \/ Acknowledge(c)
    BY <1>3, CallsMove
  <2>2. Acknowledge(c) => c \in posted
    BY DEF Acknowledge, ConfirmationsAreTrue
  <2> QED
    BY <2>1, <2>2, WritesMove DEF ConfirmationsAreTrue
<1>4. ASSUME NEW c \in Calls, pc'[c] = "winner", seen'[c] # Nothing
      PROVE  /\ pc'[seen'[c].call] # "idle"
             /\ seen'[c].hash = req'[seen'[c].call].hash
             /\ seen'[c].actor = req'[seen'[c].call].actor
             /\ seen'[c].status = "succeeded" => seen'[c].call \in posted'
  <2>1. \/ pc[c] = "winner" /\ seen'[c] = seen[c]
        \/ seen'[c] \in ops
    BY <1>4, MemoriesMove
  <2>2. CASE pc[c] = "winner" /\ seen'[c] = seen[c]
    <3>1. seen[c] \in Row
      BY <1>4, <2>2 DEF TypeOK
    <3>2. seen[c].call \in Calls /\ pc[seen[c].call] # "idle"
      BY <1>4, <2>2, <3>1 DEF ConfirmationsAreTrue, Row
    <3> QED
      BY <1>4, <2>2, <3>2, RequestsStay, WritesMove DEF ConfirmationsAreTrue
  <2>3. CASE seen'[c] \in ops
    <3>1. seen'[c].call \in Calls /\ pc[seen'[c].call] # "idle"
      BY <2>3 DEF TypeOK, Row, RowsAreClaims, Working
    <3>2. pc'[seen'[c].call] # "idle" /\ req'[seen'[c].call] = req[seen'[c].call]
      BY <3>1, RequestsStay
    <3>3. seen'[c].status = "succeeded" => seen'[c].call \in posted
      BY <2>3 DEF LedgerTellsTheTruth
    <3> QED
      BY <2>3, <3>2, <3>3, WritesMove DEF RowsAreClaims
  <2> QED
    BY <2>1, <2>2, <2>3
<1>5. ASSUME NEW c \in Calls, answer'[c] # "none"
      PROVE  pc'[c] = "over"
  BY <1>5, AnswersMove, OverStays DEF ConfirmationsAreTrue
<1> QED
  BY <1>1, <1>2, <1>3, <1>4, <1>5 DEF ConfirmationsAreTrue

LEMMA LedgerStep ==
  ASSUME TypeOK, TypeOK', RowsAreClaims, ClaimComesFirst, ConfirmationsAreTrue,
         LedgerTellsTheTruth, [Next]_vars
  PROVE  LedgerTellsTheTruth'
<1>1. ASSUME NEW c \in created'
      PROVE  \E row \in ops' : row.call = c /\ row.hash = req'[c].hash
  <2>1. \E w \in sent : w.call = c
    BY <1>1, WritesMove DEF TypeOK, ConfirmationsAreTrue
  <2>2. c \in Calls /\ \E row \in ops : row.call = c
    BY <1>1, <2>1 DEF TypeOK, ClaimComesFirst
  <2>3. \E row \in ops' : row.call = c
    BY <2>2, RowsMove DEF RowsKept, SameClaim, Inserted
  <2> QED
    BY <2>3, RowsStep DEF RowsAreClaims
<1>2. ASSUME NEW row \in ops', row.status = "succeeded"
      PROVE  row.call \in posted'
  <2>1. row \in ops \/ pc[row.call] = "acked"
    <3>1. CASE RowsKept
      BY <1>2, <3>1 DEF RowsKept
    <3>2. ASSUME NEW c \in Calls, Inserted(c)
          PROVE  row \in ops
      BY <1>2, <3>2 DEF Inserted, Claim
    <3> QED
      BY <3>1, <3>2, RowsMove
  <2>2. row.call \in Calls
    BY <1>2 DEF TypeOK, Row
  <2> QED
    BY <1>2, <2>1, <2>2, WritesMove DEF LedgerTellsTheTruth, ConfirmationsAreTrue
<1> QED
  BY <1>1, <1>2 DEF LedgerTellsTheTruth

LEMMA SuccessStep ==
  ASSUME TypeOK, TypeOK', RowsAreClaims, ClaimComesFirst, ConfirmationsAreTrue, SuccessIsPosted,
         LedgerTellsTheTruth, [Next]_vars
  PROVE  SuccessIsPosted'
<1> DEFINE Backed(c) == \E d \in posted : req[d].hash = req[c].hash /\ req[d].actor = req[c].actor
<1> SUFFICES ASSUME NEW c \in Calls, answer'[c] \in {"succeeded", "replayed"}
             PROVE  \E d \in posted' : req'[d].hash = req'[c].hash /\ req'[d].actor = req'[c].actor
  BY DEF SuccessIsPosted
<1>1. Backed(c) /\ pc[c] # "idle"
  <2>1. CASE answer'[c] = answer[c]
    BY <2>1 DEF SuccessIsPosted, ConfirmationsAreTrue
  <2>2. CASE answer'[c] # answer[c] /\ answer'[c] = "succeeded"
    BY <2>2, AnswersMove DEF ConfirmationsAreTrue
  <2>3. ASSUME answer'[c] # answer[c], answer'[c] = "replayed", NEW row, Classify(c, row),
               row.status = "succeeded" =>
                 row.call \in posted /\ row.hash = req[row.call].hash /\ row.actor = req[row.call].actor
        PROVE  Backed(c)
    <3>1. row.status = "succeeded" /\ row.actor = req[c].actor /\ row.hash = req[c].hash
      BY <2>3 DEF Classify, Respond, TypeOK
    <3> QED
      BY <2>3, <3>1
  <2>4. CASE answer'[c] # answer[c] /\ answer'[c] = "replayed"
    <3>1. ASSUME NEW row \in ops, Classify(c, row)
          PROVE  Backed(c)
      <4>1. row.status = "succeeded" =>
              row.call \in posted /\ row.hash = req[row.call].hash /\ row.actor = req[row.call].actor
        BY DEF RowsAreClaims, LedgerTellsTheTruth
      <4> QED
        BY <2>3, <2>4, <3>1, <4>1
    <3>2. ASSUME pc[c] = "winner", seen[c] # Nothing, Classify(c, seen[c])
          PROVE  Backed(c)
      BY <2>3, <2>4, <3>2 DEF ConfirmationsAreTrue
    <3>3. Backed(c)
      BY <2>4, <3>1, <3>2, AnswersMove
    <3>4. pc[c] # "idle"
      BY <2>4, AnswersMove
    <3> QED
      BY <3>3, <3>4
  <2> QED
    BY <2>1, <2>2, <2>4
<1>2. PICK d \in posted : req[d].hash = req[c].hash /\ req[d].actor = req[c].actor
  BY <1>1
<1>3. d \in Calls /\ pc[d] # "idle"
  BY DEF TypeOK, ConfirmationsAreTrue, ClaimComesFirst, RowsAreClaims, Working
<1>4. req'[d] = req[d] /\ req'[c] = req[c] /\ d \in posted'
  BY <1>1, <1>3, RequestsStay, WritesMove
<1> QED
  BY <1>2, <1>4

-----------------------------------------------------------------------------
(* The theorems. *)

LEMMA IInvInit == Init => IInv
  BY TypeInit DEF Init, IInv, RowsAreClaims, ClaimComesFirst, ConfirmationsAreTrue, Working,
                  SuccessIsPosted, LedgerTellsTheTruth

LEMMA IInvStep == IInv /\ [Next]_vars => IInv'
<1> SUFFICES ASSUME IInv, [Next]_vars
             PROVE  IInv'
  OBVIOUS
<1> USE DEF IInv
<1>1. TypeOK'
  BY TypeStep
<1>2. RowsAreClaims' /\ ClaimComesFirst'
  BY <1>1, RowsStep, ClaimStep
<1>3. ConfirmationsAreTrue' /\ SuccessIsPosted' /\ LedgerTellsTheTruth'
  BY <1>1, ConfirmationsStep, SuccessStep, LedgerStep
<1> QED
  BY <1>1, <1>2, <1>3

LEMMA Invariance == Spec => []IInv
  BY IInvInit, IInvStep, PTL DEF Spec

\* However calls, keys, users, late answers of 1C and restarts interleave, one
\* state of the stock is sent to 1C in one attempt.
THEOREM OneAttemptOnly == Spec => []OneAttemptPerSnapshot
<1>1. IInv => OneAttemptPerSnapshot
  BY OneAttempt DEF IInv
<1> QED
  BY <1>1, Invariance, PTL

\* A push that is answered as done has its posted document in 1C.
THEOREM SuccessIsReal == Spec => []SuccessIsPosted
<1>1. IInv => SuccessIsPosted
  BY DEF IInv
<1> QED
  BY <1>1, Invariance, PTL

\* A document in 1C has its row, and a succeeded row its posted document.
THEOREM LedgerIsTrue == Spec => []LedgerTellsTheTruth
<1>1. IInv => LedgerTellsTheTruth
  BY DEF IInv
<1> QED
  BY <1>1, Invariance, PTL
================================================================================
