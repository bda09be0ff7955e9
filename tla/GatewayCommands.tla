--------------------------- MODULE GatewayCommands ---------------------------
(***************************************************************************)
(* The platform side of the post <-> platform command protocol: the        *)
(* gateway_commands table, the transactions of GatewayService that change  *)
(* it, and the in-memory map through which a business request waits for    *)
(* its answer.  The agent is an arbitrary environment here: it may answer  *)
(* any command with any lease it was ever given (or none) and any reply,   *)
(* at any time and more than once.                                         *)
(*                                                                         *)
(* PostgreSQL runs these transactions at READ COMMITTED: a plain read sees *)
(* the committed row, a guarded UPDATE waits for a row lock and evaluates  *)
(* its WHERE on the newest version.  cmd holds the committed rows; draft   *)
(* holds the versions a poll transaction has written and not committed     *)
(* (its row locks); the transactions that read first and write later carry *)
(* the row they saw.  One clock `now` stands for the UTC wall clock that   *)
(* the API process and the database share.                                 *)
(***************************************************************************)
EXTENDS Integers, FiniteSets

CONSTANTS
  Commands,     \* command identifiers, each dispatched at most once
  Posts,        \* posts (machines with an agent)
  PostOf,       \* the post a command is addressed to
  Unsafe,       \* commands of kind print or device_recover
  Replies,      \* what tells two answers with the same status apart
  Timeout,      \* gatewayCommandTimeoutMs in clock ticks
  MaxTime,      \* bound: the clock stops here
  MaxResolving, \* bound: concurrent result transactions
  NoRow         \* absence of a row version

VARIABLES
  now,       \* wall clock
  cmd,       \* committed rows of gateway_commands
  draft,     \* versions written by the open poll transaction of the row's post
  polling,   \* posts whose row is locked by an open poll transaction
  budget,    \* executionBudgetMs computed by that transaction for its claim
  resolving, \* result transactions that have read their row
  acks,      \* committed result transactions that have not answered yet
  caller,    \* the request that dispatched the command
  answer,    \* the result that request received
  firing,    \* the row handlePendingTimeout read in its open transaction
  verdict    \* timeout outcome decided and not delivered yet

tables  == <<cmd, draft, polling, budget>>
results == <<resolving, acks>>
memory  == <<caller, answer, firing, verdict>>
vars    == <<now, tables, results, memory>>

-----------------------------------------------------------------------------
\* Rows and results.

Open     == {"queued", "in_flight"}
Terminal == {"done", "failed", "expired", "delivery_unknown"}
Status   == {"none"} \union Open \union Terminal
Reasons  == {"deadline", "not_dispatched"}

Result   == [status : Terminal \union {"none"}, reason : Replies \union Reasons \union {"none"}]
NoResult == [status |-> "none", reason |-> "none"]

\* What an agent may report: completionStatus maps ok to done, delivery_unknown
\* to itself and every other failure to failed.
AgentResult == [status : {"done", "failed", "delivery_unknown"}, reason : Replies]

\* A lease token is the attempt that minted it; 0 is SQL NULL.
Row == [status : Status, lease : Nat, leaseExp : Nat, created : Nat, deadline : Nat,
        attempt : Nat, result : Result]

Blank == [status |-> "none", lease |-> 0, leaseExp |-> 0, created |-> 0, deadline |-> 0,
          attempt |-> 0, result |-> NoResult]

CommandLease == IF (Timeout * 6) \div 10 > 1 THEN (Timeout * 6) \div 10 ELSE 1

LeaseEnd(c, deadline) ==
  IF c \in Unsafe \/ deadline < now + CommandLease THEN deadline ELSE now + CommandLease

ASSUME ConstantsAssumption ==
  /\ PostOf \in [Commands -> Posts]
  /\ Unsafe \subseteq Commands
  /\ Timeout \in Nat \ {0}
  /\ MaxTime \in Nat
  /\ MaxResolving \in Nat
  /\ NoRow \notin Row
  /\ "none" \notin Replies
  /\ Replies \intersect Reasons = {}

-----------------------------------------------------------------------------
\* Settling a command.

\* Mutants: the outcome ignores that a print may have happened, or keeps the
\* status the row had.
TimeoutResultForgetful(c, status) == [status |-> "expired", reason |-> "deadline"]
TimeoutResultUnmapped(c, status) ==
  [status |-> IF c \in Unsafe THEN "delivery_unknown" ELSE status, reason |-> "deadline"]

\* timeoutFact: a dispatched command with a physical effect may have happened.
TimeoutResult(c, status) ==
  [status |-> IF status = "in_flight" /\ c \in Unsafe THEN "delivery_unknown" ELSE "expired",
   reason |-> IF status # "in_flight" /\ c \in Unsafe THEN "not_dispatched" ELSE "deadline"]

Settled(row, result) ==
  [row EXCEPT !.status = result.status, !.result = result, !.leaseExp = 0]

Requeued(row) == [row EXCEPT !.status = "queued", !.lease = 0, !.leaseExp = 0]

\* Mutant: only dispatched commands have a deadline.
ReconciledInFlight(c) ==
  IF cmd[c].status = "in_flight" /\ cmd[c].deadline <= now
  THEN Settled(cmd[c], TimeoutResult(c, "in_flight"))
  ELSE cmd[c]

\* One row after reconcileWithClient: a passed deadline settles it, a lapsed
\* lease gives a repeatable command back to the queue.  A lapsed lease of an
\* unsafe command cannot precede its deadline (LeaseEnd), so the branch that
\* marks it abandoned is covered by the first case.
Reconciled(c) ==
  LET row == cmd[c]
  IN  IF row.status \in Open /\ row.deadline <= now
      THEN Settled(row, TimeoutResult(c, row.status))
      ELSE IF row.status = "in_flight" /\ c \notin Unsafe /\ row.leaseExp <= now
      THEN Requeued(row)
      ELSE row

Locked(c) == draft[c] # NoRow

Write(c, row) == cmd' = [cmd EXCEPT ![c] = row]

-----------------------------------------------------------------------------
\* The clock.

Tick ==
  /\ now < MaxTime
  /\ now' = now + 1
  /\ UNCHANGED <<tables, results, memory>>

-----------------------------------------------------------------------------
\* dispatchCommand: insert the row, then attach to the pending map and start
\* the timer, then look whether a fast agent has already answered.

Create(c) ==
  /\ cmd[c].status = "none"
  /\ now + Timeout <= MaxTime  \* bound: the clock reaches every deadline
  /\ Write(c, [Blank EXCEPT !.status = "queued", !.created = now, !.deadline = now + Timeout])
  /\ caller' = [caller EXCEPT ![c] = "creating"]
  /\ UNCHANGED <<now, draft, polling, budget, results, answer, firing, verdict>>

Register(c) ==
  /\ caller[c] = "creating"
  /\ caller' = [caller EXCEPT ![c] = "activating"]
  /\ UNCHANGED <<now, tables, results, answer, firing, verdict>>

Pending == {"activating", "waiting"}  \* the request has an entry in the pending map

\* resolvePending: answers the request that still waits, if there is one.
Answer(c, result) ==
  IF caller[c] \in Pending
  THEN /\ caller' = [caller EXCEPT ![c] = "answered"]
       /\ answer' = [answer EXCEPT ![c] = result]
  ELSE UNCHANGED <<caller, answer>>

\* Mutant: the request does not look whether the answer is already there.
ActivateBlind(c) ==
  /\ caller[c] = "activating"
  /\ caller' = [caller EXCEPT ![c] = "waiting"]
  /\ UNCHANGED <<now, tables, results, answer, firing, verdict>>

Activate(c) ==
  /\ caller[c] = "activating"
  /\ IF cmd[c].status \in Terminal
     THEN Answer(c, cmd[c].result)
     ELSE caller' = [caller EXCEPT ![c] = "waiting"] /\ UNCHANGED answer
  /\ UNCHANGED <<now, tables, results, firing, verdict>>

\* The read of activateCommand fails: the waiting request is rejected.
ActivateFails(c) ==
  /\ caller[c] = "activating"
  /\ caller' = [caller EXCEPT ![c] = "error"]
  /\ UNCHANGED <<now, tables, results, answer, firing, verdict>>

-----------------------------------------------------------------------------
\* pollCommands: under the lock of the post row, settle and requeue what is
\* overdue, then hand out the oldest queued command if none is in flight.

AtPost(p) == {c \in Commands : PostOf[c] = p}

\* Mutant: a command in flight does not hold back the next one.
HeadsUnheld(p) ==
  LET waiting == {c \in AtPost(p) : Reconciled(c).status = "queued" /\ cmd[c].deadline > now}
  IN  {c \in waiting : \A d \in waiting : cmd[c].created <= cmd[d].created}

Heads(p) ==
  LET waiting == {c \in AtPost(p) : Reconciled(c).status = "queued" /\ cmd[c].deadline > now}
  IN  {c \in waiting :
         /\ \A d \in AtPost(p) : Reconciled(d).status # "in_flight"
         /\ \A d \in waiting : cmd[c].created <= cmd[d].created}

Claimed(c) ==
  [Reconciled(c) EXCEPT !.status = "in_flight", !.attempt = @ + 1, !.lease = cmd[c].attempt + 1,
                        !.leaseExp = LeaseEnd(c, cmd[c].deadline)]

PollDraft(p, picked) ==
  [c \in Commands |->
     IF PostOf[c] # p THEN draft[c]
     ELSE IF c \in picked THEN Claimed(c)
     ELSE IF Reconciled(c) # cmd[c] THEN Reconciled(c)
     ELSE NoRow]

PollBegin(p) ==
  /\ p \notin polling
  /\ polling' = polling \union {p}
  /\ \/ \E c \in Heads(p) :
          /\ draft' = PollDraft(p, {c})
          /\ budget' = [budget EXCEPT ![p] = cmd[c].deadline - now]
     \/ /\ Heads(p) = {}
        /\ draft' = PollDraft(p, {})
        /\ UNCHANGED budget
  /\ UNCHANGED <<now, cmd, results, memory>>

\* What the open transaction of a post hands out when it commits.
Handout(p) == {c \in AtPost(p) : Locked(c) /\ draft[c].status = "in_flight"}

Unlocked(p) == [c \in Commands |-> IF PostOf[c] = p THEN NoRow ELSE draft[c]]

PollCommit(p) ==
  /\ p \in polling
  /\ polling' = polling \ {p}
  /\ cmd' = [c \in Commands |-> IF PostOf[c] = p /\ Locked(c) THEN draft[c] ELSE cmd[c]]
  /\ draft' = Unlocked(p)
  /\ budget' = [budget EXCEPT ![p] = 0]
  /\ UNCHANGED <<now, results, memory>>

\* The transaction is rolled back: nothing was handed out.
PollAbort(p) ==
  /\ p \in polling
  /\ polling' = polling \ {p}
  /\ draft' = Unlocked(p)
  /\ budget' = [budget EXCEPT ![p] = 0]
  /\ UNCHANGED <<now, cmd, results, memory>>

\* The sweeper settles and requeues for every post, without the post locks.
Sweep ==
  /\ \E c \in Commands : Reconciled(c) # cmd[c]
  /\ \A c \in Commands : Reconciled(c) # cmd[c] => ~Locked(c)
  /\ cmd' = [c \in Commands |-> Reconciled(c)]
  /\ UNCHANGED <<now, draft, polling, budget, results, memory>>

-----------------------------------------------------------------------------
\* resolveCommand: read the row, write under guards, answer after the commit.

ResolveRead(c, lease, reply) ==
  /\ cmd[c].status # "none"
  /\ Cardinality(resolving \union acks) < MaxResolving
  /\ resolving' = resolving \union {[cmd |-> c, lease |-> lease, reply |-> reply, seen |-> cmd[c],
                                    late |-> cmd[c].status \in Open /\ cmd[c].deadline <= now]}
  /\ UNCHANGED <<now, tables, acks, memory>>

Holds(row, t) == row.status = "in_flight" /\ row.lease = t.lease

\* Mutant: any retry under the same lease counts as the stored result.
SameLease(row, t) == row.status \in Terminal /\ row.lease = t.lease

Same(row, t)  == row.status \in Terminal /\ row.lease = t.lease /\ row.result = t.reply

\* Mutant: a late answer replaces any settled row of its lease.
RecoverableAlways(row, t) == row.status \in Terminal /\ row.lease = t.lease

\* A definite answer replaces the unknown delivery the deadline left behind.
Recoverable(row, t) ==
  /\ row.status = "delivery_unknown"
  /\ row.lease = t.lease
  /\ row.result.reason = "deadline"
  /\ t.reply.status # "delivery_unknown"

\* The row the transaction reasons about (view) and the row its guarded
\* UPDATE finds (base): they differ when another transaction came between.
\* A transaction that read the row after its deadline settles it first.
Base(t) ==
  IF t.late /\ cmd[t.cmd].status \in Open
  THEN Settled(cmd[t.cmd], TimeoutResult(t.cmd, t.seen.status))
  ELSE cmd[t.cmd]

View(t) == IF t.late THEN Base(t) ELSE t.seen

\* Mutant: the UPDATE of an accepted result has no guard on status and lease.
OutcomeUnguarded(t) ==
  CASE Same(View(t), t)  -> "deduped"
    [] Holds(View(t), t) -> "accepted"
    [] OTHER             -> "result_conflict"

Outcome(t) ==
  LET view == View(t)
      base == Base(t)
  IN  CASE Same(view, t) -> "deduped"
        [] Recoverable(view, t) ->
             IF Recoverable(base, t) THEN "recovered"
             ELSE IF Same(base, t) THEN "deduped" ELSE "result_conflict"
        [] Holds(view, t) ->
             IF Holds(base, t) THEN "accepted"
             ELSE IF Same(base, t) THEN "deduped"
             ELSE IF base.status \in Terminal /\ base.lease = t.lease
             THEN "result_conflict" ELSE "lease_conflict"
        [] OTHER ->
             IF view.status \in Terminal /\ view.lease = t.lease
             THEN "result_conflict" ELSE "lease_conflict"

ResolveCommit(t) ==
  /\ t.late \/ Holds(View(t), t) => ~Locked(t.cmd)
  /\ Write(t.cmd, IF Outcome(t) \in {"accepted", "recovered"} THEN Settled(Base(t), t.reply) ELSE Base(t))
  /\ resolving' = resolving \ {t}
  /\ acks' = acks \union {[cmd |-> t.cmd, lease |-> t.lease, reply |-> t.reply, outcome |-> Outcome(t)]}
  /\ UNCHANGED <<now, draft, polling, budget, memory>>

\* The transaction fails and is rolled back: the agent gets a 5xx.
ResolveAbort(t) ==
  /\ resolving' = resolving \ {t}
  /\ UNCHANGED <<now, tables, acks, memory>>

Accepting == {"accepted", "recovered", "deduped"}

\* The audit record of a conflicting result fails: the agent gets a 5xx
\* instead of the final 409 and keeps the result for another try.
ConflictUnaudited(a) ==
  /\ a.outcome = "result_conflict"
  /\ acks' = acks \ {a}
  /\ UNCHANGED <<now, tables, resolving, memory>>

ResolveAnswer(a) ==
  /\ acks' = acks \ {a}
  /\ IF a.outcome \in Accepting THEN Answer(a.cmd, a.reply) ELSE UNCHANGED <<caller, answer>>
  /\ UNCHANGED <<now, tables, resolving, firing, verdict>>

-----------------------------------------------------------------------------
\* handlePendingTimeout: the timer of a waiting request.

\* Mutant: the timer only looks at commands nobody has settled.
TimeoutReadOpen(c) ==
  /\ caller[c] \in Pending /\ cmd[c].status \in Open
  /\ cmd[c].deadline <= now
  /\ firing[c] = NoRow /\ verdict[c] = "none"
  /\ firing' = [firing EXCEPT ![c] = cmd[c]]
  /\ UNCHANGED <<now, tables, results, caller, answer, verdict>>

TimeoutRead(c) ==
  /\ caller[c] \in Pending
  /\ cmd[c].deadline <= now
  /\ firing[c] = NoRow /\ verdict[c] = "none"
  /\ firing' = [firing EXCEPT ![c] = cmd[c]]
  /\ UNCHANGED <<now, tables, results, caller, answer, verdict>>

TimeoutCommit(c) ==
  LET seen    == firing[c]
      settles == seen.status \in Open /\ cmd[c].status = seen.status
      current == IF settles THEN Settled(cmd[c], TimeoutResult(c, seen.status))
                 ELSE IF seen.status \in Terminal THEN seen ELSE cmd[c]
  IN  /\ firing[c] # NoRow
      /\ seen.status \in Open => ~Locked(c)
      /\ IF settles THEN Write(c, current) ELSE UNCHANGED cmd
      /\ firing' = [firing EXCEPT ![c] = NoRow]
      /\ IF current.status \in {"done", "failed"}
         THEN Answer(c, current.result) /\ UNCHANGED verdict
         ELSE /\ verdict' = [verdict EXCEPT ![c] =
                              IF current.status \in Terminal THEN current.status
                              ELSE TimeoutResult(c, seen.status).status]
              /\ UNCHANGED <<caller, answer>>
      /\ UNCHANGED <<now, draft, polling, budget, results>>

\* The transaction fails: before its read the worst is assumed, after it the
\* status it had derived from the row stays in force.
TimeoutAbort(c) ==
  /\ firing[c] # NoRow
  /\ \E status \in {"in_flight"} \union ({firing[c].status} \intersect Open) :
       verdict' = [verdict EXCEPT ![c] = TimeoutResult(c, status).status]
  /\ firing' = [firing EXCEPT ![c] = NoRow]
  /\ UNCHANGED <<now, tables, results, caller, answer>>

TimeoutReject(c) ==
  /\ verdict[c] # "none"
  /\ caller' = [caller EXCEPT ![c] = IF @ \in Pending THEN verdict[c] ELSE @]
  /\ verdict' = [verdict EXCEPT ![c] = "none"]
  /\ UNCHANGED <<now, tables, results, answer, firing>>

-----------------------------------------------------------------------------
\* The API process dies: open transactions roll back, memory is gone.
Restart ==
  /\ polling' = {}
  /\ budget' = [p \in Posts |-> 0]
  /\ draft' = [c \in Commands |-> NoRow]
  /\ resolving' = {} /\ acks' = {}
  /\ caller' = [c \in Commands |-> IF caller[c] \in {"creating"} \union Pending THEN "error" ELSE caller[c]]
  /\ firing' = [c \in Commands |-> NoRow]
  /\ verdict' = [c \in Commands |-> "none"]
  /\ UNCHANGED <<now, cmd, answer>>

Init ==
  /\ now = 0
  /\ cmd = [c \in Commands |-> Blank]
  /\ draft = [c \in Commands |-> NoRow]
  /\ polling = {}
  /\ budget = [p \in Posts |-> 0]
  /\ resolving = {} /\ acks = {}
  /\ caller = [c \in Commands |-> "none"]
  /\ answer = [c \in Commands |-> NoResult]
  /\ firing = [c \in Commands |-> NoRow]
  /\ verdict = [c \in Commands |-> "none"]

Dispatching(c) == Create(c) \/ Register(c) \/ Activate(c) \/ ActivateFails(c)
TimingOut(c)   == TimeoutRead(c) \/ TimeoutCommit(c) \/ TimeoutAbort(c) \/ TimeoutReject(c)
Polling(p)     == PollBegin(p) \/ PollCommit(p) \/ PollAbort(p)
Resolving ==
  \/ \E t \in resolving : ResolveCommit(t) \/ ResolveAbort(t)
  \/ \E a \in acks : ResolveAnswer(a) \/ ConflictUnaudited(a)

\* Any answer with any lease that was handed out: the agent as environment.
Reporting(c) ==
  \E lease \in 1..cmd[c].attempt : \E reply \in AgentResult : ResolveRead(c, lease, reply)

Next ==
  \/ Tick
  \/ \E c \in Commands : Dispatching(c) \/ TimingOut(c) \/ Reporting(c)
  \/ \E p \in Posts : Polling(p)
  \/ Resolving
  \/ Sweep
  \/ Restart

Spec == Init /\ [][Next]_vars

-----------------------------------------------------------------------------
Callers == {"none", "creating", "answered", "expired", "delivery_unknown", "error"} \union Pending

\* Every variable has its type.
TypeOK ==
  /\ now \in Nat
  /\ cmd \in [Commands -> Row]
  /\ draft \in [Commands -> Row \union {NoRow}]
  /\ polling \subseteq Posts
  /\ budget \in [Posts -> Nat]
  /\ resolving \subseteq [cmd : Commands, lease : Nat, reply : AgentResult, seen : Row, late : BOOLEAN]
  /\ acks \subseteq [cmd : Commands, lease : Nat, reply : AgentResult,
                     outcome : Accepting \union {"result_conflict", "lease_conflict"}]
  /\ caller \in [Commands -> Callers]
  /\ answer \in [Commands -> Result]
  /\ firing \in [Commands -> Row \union {NoRow}]
  /\ verdict \in [Commands -> {"none", "expired", "delivery_unknown"}]

\* pollCommands hands a post one command at a time: whatever concurrent polls,
\* sweeps and results commit, no post ever has two commands in flight.
OneInFlightPerPost ==
  \A c, d \in Commands :
    cmd[c].status = "in_flight" /\ cmd[d].status = "in_flight" /\ PostOf[c] = PostOf[d] => c = d

\* A definite answer given to the business request is the one the table keeps:
\* no later sweep, timeout, recovery or divergent reply replaces it.
DefiniteAnswerIsDurable ==
  \A c \in Commands :
    answer[c].status \in {"done", "failed"} => cmd[c].result = answer[c]

\* An agent is told "stored" (and forgets the result) only when the row holds
\* exactly that result under that lease, whatever ran between the read, the
\* guarded update and the reply.
AcknowledgedIsStored ==
  \A a \in acks : a.outcome \in Accepting =>
    cmd[a.cmd].status \in Terminal /\ cmd[a.cmd].lease = a.lease /\ cmd[a.cmd].result = a.reply

\* No answer is missed: a request that has looked at its row and still waits,
\* while the row holds a definite answer, is about to be given it.  An agent
\* faster than the registration in the pending map leaves nobody waiting for an
\* answer that has already gone by (activateCommand).
NoAnswerIsMissed ==
  \A c \in Commands :
    caller[c] = "waiting" /\ cmd[c].status \in {"done", "failed"} =>
      \E a \in acks : a.cmd = c /\ a.outcome \in Accepting

Contract == INSTANCE CommandContract WITH fate <- [c \in Commands |-> cmd[c].status]

\* The table implements the promise of CommandContract.
ImplementsContract == Contract!Spec

-----------------------------------------------------------------------------
\* What the safety properties rest on: the parts of the inductive invariant.

\* A settled row that no late answer may replace.
Final(row) ==
  row.status \in Terminal /\ ~(row.status = "delivery_unknown" /\ row.result.reason = "deadline")

\* An uncommitted version belongs to the open poll of its post, over an open
\* row, and its commit is a step of the contract.
DraftsAreLegal ==
  \A c \in Commands : Locked(c) =>
    /\ PostOf[c] \in polling
    /\ cmd[c].status \in Open
    /\ \/ Contract!Legal(c, cmd[c].status, draft[c].status)
       \/ draft[c].status = "in_flight" /\ cmd[c].status = "in_flight"
    /\ draft[c].status \in Terminal => draft[c].result.status = draft[c].status

\* A claimed command is alone: nothing else at its post is in flight, or will
\* be when the poll commits.
ClaimIsAlone ==
  \A c, d \in Commands :
    /\ c # d /\ PostOf[c] = PostOf[d]
    /\ Locked(c) /\ draft[c].status = "in_flight"
    => (IF Locked(d) THEN draft[d] ELSE cmd[d]).status # "in_flight"

\* A command with a physical effect is queued only before its first handout,
\* and no answer is being processed for one that is still queued.
UnsafeIsNeverRequeued ==
  /\ \A c \in Unsafe : cmd[c].status = "queued" => cmd[c].attempt = 0
  /\ \A t \in resolving :
       /\ cmd[t.cmd].status # "none"
       /\ t.late => t.seen.status \in Open
       /\ t.cmd \in Unsafe => t.seen.status # "queued" /\ cmd[t.cmd].status # "queued"

\* Every copy of a final row, and every answer given from one, is still true.
CopiesAreTrue ==
  /\ \A c \in Commands : cmd[c].status \in Terminal => cmd[c].result.status = cmd[c].status
  /\ \A t \in resolving : Final(t.seen) => cmd[t.cmd] = t.seen
  /\ \A c \in Commands : firing[c] # NoRow /\ Final(firing[c]) => cmd[c] = firing[c]
  /\ \A a \in acks : a.outcome \in Accepting =>
       Final(cmd[a.cmd]) /\ cmd[a.cmd].lease = a.lease /\ cmd[a.cmd].result = a.reply
  /\ \A c \in Commands : answer[c].status \in {"done", "failed"} =>
       Final(cmd[c]) /\ cmd[c].result = answer[c]

IInv == TypeOK /\ DraftsAreLegal /\ OneInFlightPerPost /\ ClaimIsAlone
          /\ UnsafeIsNeverRequeued /\ CopiesAreTrue

-----------------------------------------------------------------------------
\* What the agent's side of a command rests on.

\* A row remembers how often it was handed out and keeps its deadline; one with
\* a physical effect is handed out once.
RowsRemember ==
  /\ \A c \in Commands : cmd[c].status = "none" => cmd[c].attempt = 0
  /\ \A c \in Unsafe :
       /\ cmd[c].lease = cmd[c].attempt
       /\ cmd[c].attempt = IF cmd[c].status \in {"none", "queued", "expired"} THEN 0 ELSE 1

\* An uncommitted version hands its row out, requeues it, or settles it after its
\* deadline.
DraftsRemember ==
  \A c \in Commands : Locked(c) =>
    /\ draft[c].deadline = cmd[c].deadline
    /\ draft[c].status \in {"in_flight", "queued", "expired", "delivery_unknown"}
    /\ draft[c].attempt = cmd[c].attempt + (IF draft[c].status = "in_flight" THEN 1 ELSE 0)
    /\ draft[c].status = "in_flight" => draft[c].lease = draft[c].attempt
    /\ draft[c].status \in {"expired", "delivery_unknown"} => cmd[c].deadline <= now
    /\ c \in Unsafe =>
         /\ draft[c].status \in {"in_flight", "expired"} => cmd[c].status = "queued"
         /\ draft[c].status = "delivery_unknown" => cmd[c].status = "in_flight"
         /\ draft[c].lease = draft[c].attempt

\* A request waits for a row that exists; its timer fires after the deadline.
WaitersInStep ==
  \A c \in Commands :
    /\ caller[c] # "none" => cmd[c].status # "none"
    /\ firing[c] # NoRow =>
         firing[c].status # "none" /\ cmd[c].status # "none" /\ cmd[c].deadline <= now

\* A result of a command with a physical effect carries its only lease, and is
\* turned down only when the row is settled.
ResultsInStep ==
  /\ \A t \in resolving : t.cmd \in Unsafe =>
       /\ t.seen.status \in {"in_flight", "done", "failed", "delivery_unknown"}
       /\ t.lease = 1 /\ t.seen.lease = 1
       /\ t.seen.status # "in_flight" => cmd[t.cmd].status \in Terminal
  /\ \A a \in acks : a.cmd \in Unsafe /\ a.outcome \notin Accepting => cmd[a.cmd].status \in Terminal

History == RowsRemember /\ DraftsRemember /\ WaitersInStep /\ ResultsInStep

-----------------------------------------------------------------------------
\* The sweeper runs on an interval, timers fire, transactions end, time passes.
\* A transaction that waits for a row lock is queued behind its holder and gets
\* it: strong fairness for the two that can be made to wait again and again.
Fairness ==
  /\ WF_vars(Tick)
  /\ SF_vars(Sweep)
  /\ \A p \in Posts : WF_vars(PollCommit(p) \/ PollAbort(p))
  /\ \A c \in Commands :
       /\ WF_vars(Register(c))
       /\ WF_vars(TimeoutRead(c))
       /\ SF_vars(TimeoutCommit(c) \/ TimeoutAbort(c))
       /\ WF_vars(TimeoutReject(c))

FairSpec == Spec /\ Fairness

\* Every dispatched command is settled, agent or no agent.
EveryCommandSettles == \A c \in Commands : (cmd[c].status = "queued") ~> (cmd[c].status \in Terminal)

\* No business request waits for ever, also when the API restarts under it.
NoRequestHangs ==
  \A c \in Commands : (caller[c] \in {"creating"} \union Pending) ~> (caller[c] \notin {"creating"} \union Pending)
==============================================================================
