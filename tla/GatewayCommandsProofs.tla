------------------------ MODULE GatewayCommandsProofs ------------------------
(***************************************************************************)
(* Theorems about the platform side of the command protocol, for every     *)
(* number of commands and posts, every timeout and every agent.            *)
(***************************************************************************)
EXTENDS GatewayCommands, TLAPS

\* Results and rows that the helpers build are well typed.
LEMMA TimeoutResultType ==
  ASSUME NEW c, NEW status
  PROVE  /\ TimeoutResult(c, status) \in Result
         /\ TimeoutResult(c, status).status \in {"expired", "delivery_unknown"}
  BY DEF TimeoutResult, Result, Terminal, Reasons

LEMMA SettledType ==
  ASSUME NEW row \in Row, NEW result \in Result, result.status \in Terminal
  PROVE  Settled(row, result) \in Row
  BY DEF Settled, Row, Status, Terminal, Open

LEMMA RequeuedType ==
  ASSUME NEW row \in Row
  PROVE  Requeued(row) \in Row
  BY DEF Requeued, Row, Status, Open

LEMMA ReconciledType ==
  ASSUME TypeOK, NEW c \in Commands
  PROVE  Reconciled(c) \in Row
<1>1. cmd[c] \in Row
  BY DEF TypeOK
<1>2. TimeoutResult(c, cmd[c].status).status \in Terminal
  BY TimeoutResultType DEF Terminal
<1> QED
  BY <1>1, <1>2, TimeoutResultType, SettledType, RequeuedType DEF Reconciled

LEMMA LeaseType ==
  ASSUME TypeOK, NEW c \in Commands, NEW deadline \in Nat
  PROVE  LeaseEnd(c, deadline) \in Nat
  BY ConstantsAssumption DEF LeaseEnd, CommandLease, TypeOK

LEMMA ClaimType ==
  ASSUME NEW row \in Row, NEW attempt \in Nat, NEW lease \in Nat, NEW leaseExp \in Nat
  PROVE  [row EXCEPT !.status = "in_flight", !.attempt = attempt, !.lease = lease,
                     !.leaseExp = leaseExp] \in Row
  BY DEF Row, Status, Open

LEMMA ClaimedType ==
  ASSUME TypeOK, NEW c \in Commands
  PROVE  Claimed(c) \in Row
<1> DEFINE row   == Reconciled(c)
           lease == LeaseEnd(c, cmd[c].deadline)
<1>1. row \in Row /\ cmd[c] \in Row
  BY ReconciledType DEF TypeOK
<1>2. row.attempt + 1 \in Nat /\ cmd[c].attempt + 1 \in Nat /\ cmd[c].deadline \in Nat
  BY <1>1 DEF Row
<1>3. lease \in Nat
  BY <1>2, LeaseType
<1> HIDE DEF row, lease
<1>4. [row EXCEPT !.status = "in_flight", !.attempt = row.attempt + 1,
                  !.lease = cmd[c].attempt + 1, !.leaseExp = lease] \in Row
  BY <1>1, <1>2, <1>3, ClaimType
<1> QED
  BY <1>4 DEF Claimed, row, lease

LEMMA AgentResultType == AgentResult \subseteq Result
  BY DEF AgentResult, Result, Terminal

LEMMA OutcomeType ==
  ASSUME NEW t
  PROVE  Outcome(t) \in Accepting \union {"result_conflict", "lease_conflict"}
  BY DEF Outcome, Accepting

LEMMA AnswerType ==
  ASSUME TypeOK, NEW c \in Commands, NEW result \in Result, Answer(c, result)
  PROVE  caller' \in [Commands -> Callers] /\ answer' \in [Commands -> Result]
  BY DEF Answer, TypeOK, Callers

LEMMA BaseType ==
  ASSUME TypeOK, NEW t \in resolving
  PROVE  /\ Base(t) \in Row
         /\ Settled(Base(t), t.reply) \in Row
         /\ t.cmd \in Commands /\ t.reply \in AgentResult /\ t.lease \in Nat
<1>1. t.cmd \in Commands /\ t.reply \in AgentResult /\ t.lease \in Nat
  BY DEF TypeOK
<1>2. cmd[t.cmd] \in Row
  BY <1>1 DEF TypeOK
<1>3. Base(t) \in Row
  <2>1. TimeoutResult(t.cmd, t.seen.status).status \in Terminal
    BY TimeoutResultType DEF Terminal
  <2> QED BY <1>2, <2>1, TimeoutResultType, SettledType DEF Base
<1>4. t.reply \in Result /\ t.reply.status \in Terminal
  BY <1>1, AgentResultType DEF AgentResult, Terminal
<1> QED
  BY <1>1, <1>3, <1>4, SettledType

LEMMA BlankType == Blank \in Row
  BY DEF Blank, Row, Status, NoResult, Result

-----------------------------------------------------------------------------
(* TypeOK is inductive. *)

LEMMA TypeInit == Init => TypeOK
  BY ConstantsAssumption, BlankType DEF Init, TypeOK, Callers, NoResult, Result

LEMMA TypeDispatching ==
  ASSUME TypeOK, NEW c \in Commands, Dispatching(c)
  PROVE  TypeOK'
<1>1. CASE Create(c)
  <2>1. [Blank EXCEPT !.status = "queued", !.created = now, !.deadline = now + Timeout] \in Row
    <3>1. now \in Nat /\ now + Timeout \in Nat
      BY ConstantsAssumption DEF TypeOK
    <3>2. \A a, b \in Nat :
            [Blank EXCEPT !.status = "queued", !.created = a, !.deadline = b] \in Row
      BY BlankType DEF Row, Status, Open
    <3> QED BY <3>1, <3>2
  <2> QED BY <1>1, <2>1 DEF Create, Write, TypeOK, Callers, results
<1>2. CASE Register(c)
  BY <1>2 DEF Register, TypeOK, Callers, Pending, tables, results
<1>3. CASE Activate(c)
  <2>1. cmd[c].result \in Result
    BY DEF TypeOK, Row
  <2>2. caller' \in [Commands -> Callers] /\ answer' \in [Commands -> Result]
    BY <1>3, <2>1, AnswerType DEF Activate, TypeOK, Callers, Pending
  <2> QED BY <1>3, <2>2 DEF Activate, TypeOK, tables, results
<1>4. CASE ActivateFails(c)
  BY <1>4 DEF ActivateFails, TypeOK, Callers, tables, results
<1> QED
  BY <1>1, <1>2, <1>3, <1>4 DEF Dispatching

LEMMA TypePolling ==
  ASSUME TypeOK, NEW p \in Posts, Polling(p)
  PROVE  TypeOK'
<1>1. CASE PollBegin(p)
  <2>1. \A picked : PollDraft(p, picked) \in [Commands -> Row \union {NoRow}]
    BY ReconciledType, ClaimedType DEF PollDraft, TypeOK
  <2>2. \A c \in Heads(p) : cmd[c].deadline - now \in Nat
    BY DEF Heads, AtPost, TypeOK, Row
  <2>3. draft' \in [Commands -> Row \union {NoRow}]
    BY <1>1, <2>1 DEF PollBegin
  <2>4. budget' \in [Posts -> Nat]
    BY <1>1, <2>2 DEF PollBegin, TypeOK
  <2> QED BY <1>1, <2>3, <2>4 DEF PollBegin, TypeOK, results, memory
<1>2. CASE PollCommit(p)
  <2>1. cmd' \in [Commands -> Row]
    BY <1>2 DEF PollCommit, TypeOK, Locked
  <2> QED BY <1>2, <2>1 DEF PollCommit, Unlocked, TypeOK, results, memory
<1>3. CASE PollAbort(p)
  BY <1>3 DEF PollAbort, Unlocked, TypeOK, results, memory
<1> QED
  BY <1>1, <1>2, <1>3 DEF Polling

LEMMA TypeResolving ==
  ASSUME TypeOK, Resolving
  PROVE  TypeOK'
<1>1. ASSUME NEW t \in resolving, ResolveCommit(t)
      PROVE  TypeOK'
  <2>1. cmd' \in [Commands -> Row]
    BY <1>1, BaseType DEF ResolveCommit, Write, TypeOK
  <2>2. resolving' \subseteq resolving
    BY <1>1 DEF ResolveCommit
  <2>3. acks' \subseteq acks \union {[cmd |-> t.cmd, lease |-> t.lease, reply |-> t.reply,
                                      outcome |-> Outcome(t)]}
    BY <1>1 DEF ResolveCommit
  <2>4. [cmd |-> t.cmd, lease |-> t.lease, reply |-> t.reply, outcome |-> Outcome(t)] \in
          [cmd : Commands, lease : Nat, reply : AgentResult,
           outcome : Accepting \union {"result_conflict", "lease_conflict"}]
    BY BaseType, OutcomeType
  <2> QED BY <1>1, <2>1, <2>2, <2>3, <2>4 DEF ResolveCommit, TypeOK, memory
<1>2. ASSUME NEW t \in resolving, ResolveAbort(t)
      PROVE  TypeOK'
  BY <1>2 DEF ResolveAbort, TypeOK, tables, memory
<1>3. ASSUME NEW a \in acks, ResolveAnswer(a)
      PROVE  TypeOK'
  <2>1. a.cmd \in Commands /\ a.reply \in Result
    BY AgentResultType DEF TypeOK
  <2>2. caller' \in [Commands -> Callers] /\ answer' \in [Commands -> Result]
    BY <1>3, <2>1, AnswerType DEF ResolveAnswer, TypeOK
  <2> QED BY <1>3, <2>2 DEF ResolveAnswer, TypeOK, tables
<1>4. ASSUME NEW a \in acks, ConflictUnaudited(a)
      PROVE  TypeOK'
  BY <1>4 DEF ConflictUnaudited, TypeOK, tables, memory
<1> QED
  BY <1>1, <1>2, <1>3, <1>4 DEF Resolving

LEMMA TypeReporting ==
  ASSUME TypeOK, NEW c \in Commands, Reporting(c)
  PROVE  TypeOK'
<1>1. PICK lease \in 1..cmd[c].attempt, reply \in AgentResult : ResolveRead(c, lease, reply)
  BY DEF Reporting
<1>2. lease \in Nat /\ cmd[c] \in Row
  BY DEF TypeOK, Row
<1>3. [cmd |-> c, lease |-> lease, reply |-> reply, seen |-> cmd[c],
       late |-> cmd[c].status \in Open /\ cmd[c].deadline <= now] \in
        [cmd : Commands, lease : Nat, reply : AgentResult, seen : Row, late : BOOLEAN]
  BY <1>2
<1> QED
  BY <1>1, <1>3 DEF ResolveRead, TypeOK, tables, memory

LEMMA TypeTimingOut ==
  ASSUME TypeOK, NEW c \in Commands, TimingOut(c)
  PROVE  TypeOK'
<1>1. CASE TimeoutRead(c)
  BY <1>1 DEF TimeoutRead, TypeOK, tables, results
<1>2. CASE TimeoutCommit(c)
  <2> DEFINE seen    == firing[c]
             settles == seen.status \in Open /\ cmd[c].status = seen.status
             current == IF settles THEN Settled(cmd[c], TimeoutResult(c, seen.status))
                        ELSE IF seen.status \in Terminal THEN seen ELSE cmd[c]
  <2>1. seen \in Row /\ cmd[c] \in Row
    BY <1>2 DEF TimeoutCommit, TypeOK
  <2>2. Settled(cmd[c], TimeoutResult(c, seen.status)) \in Row
    BY <2>1, TimeoutResultType, SettledType DEF Terminal
  <2>3. current \in Row /\ current.result \in Result
    BY <2>1, <2>2 DEF Row
  <2>4. cmd' \in [Commands -> Row]
    BY <1>2, <2>2 DEF TimeoutCommit, Write, TypeOK
  <2>5. /\ caller' \in [Commands -> Callers] /\ answer' \in [Commands -> Result]
        /\ verdict' \in [Commands -> {"none", "expired", "delivery_unknown"}]
    <3>1. CASE current.status \in {"done", "failed"}
      BY <1>2, <2>3, <3>1, AnswerType DEF TimeoutCommit, TypeOK
    <3>2. CASE current.status \notin {"done", "failed"}
      BY <1>2, <3>2, TimeoutResultType DEF TimeoutCommit, TypeOK, Terminal
    <3> QED BY <3>1, <3>2
  <2> QED BY <1>2, <2>4, <2>5 DEF TimeoutCommit, TypeOK, results
<1>3. CASE TimeoutAbort(c)
  BY <1>3, TimeoutResultType DEF TimeoutAbort, TypeOK, tables, results
<1>4. CASE TimeoutReject(c)
  BY <1>4 DEF TimeoutReject, TypeOK, Callers, tables, results
<1> QED
  BY <1>1, <1>2, <1>3, <1>4 DEF TimingOut

LEMMA TypeStep == TypeOK /\ [Next]_vars => TypeOK'
<1> SUFFICES ASSUME TypeOK, [Next]_vars
             PROVE  TypeOK'
  OBVIOUS
<1>1. CASE Tick
  BY <1>1 DEF Tick, TypeOK, tables, results, memory
<1>2. CASE Sweep
  BY <1>2, ReconciledType DEF Sweep, TypeOK, results, memory
<1>3. CASE Restart
  BY <1>3 DEF Restart, TypeOK, Callers
<1>4. CASE UNCHANGED vars
  BY <1>4 DEF vars, TypeOK, tables, results, memory
<1> QED
  BY <1>1, <1>2, <1>3, <1>4, TypeDispatching, TypeTimingOut, TypeReporting, TypePolling,
     TypeResolving DEF Next

\* Every reachable state is well typed: in particular the execution budget a
\* poll hands out is never negative, and a timeout verdict is one of the two
\* outcomes a business request can be told.
THEOREM TypeCorrect == Spec => []TypeOK
  BY TypeInit, TypeStep, PTL DEF Spec

-----------------------------------------------------------------------------
(* How a step may change the row of a command. *)

Changed(c) ==
  /\ ~Final(cmd[c])
  /\ Contract!Legal(c, cmd[c].status, cmd'[c].status)
  /\ cmd'[c].status \in Terminal => cmd'[c].result.status = cmd'[c].status
  /\ c \in Unsafe /\ cmd'[c].status = "queued" => cmd'[c].attempt = 0

\* What a step outside a poll's commit does to a row.
Kept(c) ==
  \/ cmd'[c] = cmd[c]
  \/ Changed(c) /\ ~Locked(c) /\ cmd'[c].status # "in_flight"

Sound(old, new, c) ==
  /\ old.status \in Open
  /\ Contract!Legal(c, old.status, new.status)
  /\ new.status # "in_flight"
  /\ new.status \in Terminal => new.result.status = new.status
  /\ new.status = "queued" => c \notin Unsafe

LEMMA OpenIsNotFinal ==
  ASSUME NEW row, row.status \in Open
  PROVE  ~Final(row) /\ row.status # "none"
  BY DEF Final, Open, Terminal

LEMMA SettledFields ==
  ASSUME NEW row \in Row, NEW result
  PROVE  /\ Settled(row, result).status = result.status
         /\ Settled(row, result).result = result
         /\ Settled(row, result).lease = row.lease
  BY DEF Settled, Row

LEMMA RequeuedFields ==
  ASSUME NEW row \in Row
  PROVE  Requeued(row).status = "queued" /\ Requeued(row).result = row.result
  BY DEF Requeued, Row

\* A deadline settles a command the way the contract allows.
LEMMA TimeoutIsSound ==
  ASSUME NEW c \in Commands, NEW row \in Row, row.status \in Open
  PROVE  Sound(row, Settled(row, TimeoutResult(c, row.status)), c)
<1> DEFINE result == TimeoutResult(c, row.status)
<1>1. result.status \in Terminal
  BY TimeoutResultType DEF Terminal
<1>2. Contract!Legal(c, row.status, result.status)
  BY DEF TimeoutResult, Open, Contract!Legal
<1>3. Settled(row, result).status = result.status /\ Settled(row, result).result = result
  BY SettledFields
<1> QED
  BY <1>1, <1>2, <1>3 DEF Sound, Terminal

LEMMA ReconciledIsSound ==
  ASSUME TypeOK, NEW c \in Commands
  PROVE  Reconciled(c) = cmd[c] \/ Sound(cmd[c], Reconciled(c), c)
<1>1. cmd[c] \in Row
  BY DEF TypeOK
<1>2. CASE cmd[c].status \in Open /\ cmd[c].deadline <= now
  BY <1>1, <1>2, TimeoutIsSound DEF Reconciled
<1>3. CASE /\ ~(cmd[c].status \in Open /\ cmd[c].deadline <= now)
           /\ cmd[c].status = "in_flight" /\ c \notin Unsafe /\ cmd[c].leaseExp <= now
  BY <1>1, <1>3, RequeuedFields DEF Reconciled, Sound, Open, Terminal, Contract!Legal
<1>4. CASE /\ ~(cmd[c].status \in Open /\ cmd[c].deadline <= now)
           /\ ~(cmd[c].status = "in_flight" /\ c \notin Unsafe /\ cmd[c].leaseExp <= now)
  BY <1>4 DEF Reconciled
<1> QED
  BY <1>2, <1>3, <1>4

LEMMA SoundIsChange ==
  ASSUME NEW c \in Commands, Sound(cmd[c], cmd'[c], c), ~Locked(c)
  PROVE  Kept(c)
  BY OpenIsNotFinal DEF Sound, Kept, Changed

\* What the outcome of a result transaction says about the two rows it saw.
LEMMA OutcomeMeans ==
  ASSUME NEW t
  PROVE  /\ Outcome(t) = "accepted"  => Holds(View(t), t) /\ Holds(Base(t), t)
         /\ Outcome(t) = "recovered" => Recoverable(View(t), t) /\ Recoverable(Base(t), t)
         /\ Outcome(t) = "deduped"   => Same(View(t), t) \/ Same(Base(t), t)
  BY DEF Outcome

\* An agent result is definite or its own delivery_unknown, never the deadline's.
LEMMA ReplyIsFinal ==
  ASSUME NEW row \in Row, NEW reply \in AgentResult
  PROVE  /\ Final(Settled(row, reply))
         /\ reply.status \in Terminal
         /\ reply.reason \notin Reasons
<1>1. reply.status \in Terminal /\ reply.reason \notin Reasons
  BY ConstantsAssumption DEF AgentResult, Terminal
<1> QED
  BY <1>1, SettledFields DEF Final, Reasons

\* resolveCommand keeps the contract: the deadline settles the row it finds,
\* an accepted result settles a row in flight, a recovered one an unknown.
LEMMA ResolveCommitKeeps ==
  ASSUME TypeOK, DraftsAreLegal, UnsafeIsNeverRequeued,
         NEW t \in resolving, ResolveCommit(t), NEW c \in Commands
  PROVE  Kept(c)
<1>1. CASE c # t.cmd
  BY <1>1 DEF ResolveCommit, Write, Kept, TypeOK
<1>2. CASE c = t.cmd
  <2> DEFINE base == Base(t)
             new  == IF Outcome(t) \in {"accepted", "recovered"} THEN Settled(base, t.reply) ELSE base
  <2>1. cmd'[c] = new
    BY <1>2 DEF ResolveCommit, Write, TypeOK
  <2>2. base \in Row /\ cmd[c] \in Row /\ t.reply \in AgentResult
    BY <1>2, BaseType DEF TypeOK
  <2>3. /\ Settled(base, t.reply).status = t.reply.status
        /\ Settled(base, t.reply).result = t.reply
        /\ t.reply.status \in {"done", "failed", "delivery_unknown"}
    BY <2>2, SettledFields DEF AgentResult
  <2>4. CASE t.late /\ cmd[c].status \in Open
    <3> DEFINE result == TimeoutResult(c, t.seen.status)
    <3>1. base = Settled(cmd[c], result)
      BY <1>2, <2>4 DEF Base
    <3>2. base.status = result.status /\ base.result = result
      BY <2>2, <3>1, SettledFields
    <3>3. result.status \in {"expired", "delivery_unknown"}
      BY TimeoutResultType
    <3>4. c \in Unsafe => cmd[c].status = "in_flight" /\ result.status = "delivery_unknown"
      BY <1>2, <2>4 DEF UnsafeIsNeverRequeued, Open, TimeoutResult
    <3>5. c \notin Unsafe => result.status = "expired"
      BY DEF TimeoutResult
    <3>6. CASE Outcome(t) \in {"accepted", "recovered"}
      <4>1. Recoverable(base, t)
        BY <3>2, <3>3, <3>6, OutcomeMeans DEF Holds
      <4>2. c \in Unsafe /\ t.reply.status \in {"done", "failed"}
        BY <2>3, <3>2, <3>5, <4>1 DEF Recoverable
      <4>3. new = Settled(base, t.reply)
        BY <3>6
      <4> QED
        BY <1>2, <2>1, <2>3, <2>4, <3>4, <4>2, <4>3, OpenIsNotFinal
           DEF Kept, Changed, ResolveCommit, Contract!Legal
    <3>7. CASE Outcome(t) \notin {"accepted", "recovered"}
      <4>1. new = base
        BY <3>7
      <4>2. Contract!Legal(c, cmd[c].status, base.status)
        BY <2>4, <3>2, <3>3, <3>4, <3>5 DEF Contract!Legal, Open
      <4> QED
        BY <1>2, <2>1, <2>4, <3>2, <3>3, <4>1, <4>2, OpenIsNotFinal
           DEF Kept, Changed, ResolveCommit
    <3> QED BY <3>6, <3>7
  <2>5. CASE ~(t.late /\ cmd[c].status \in Open)
    <3>1. base = cmd[c]
      BY <1>2, <2>5 DEF Base
    <3>2. CASE Outcome(t) = "accepted"
      <4>1. Holds(View(t), t) /\ cmd[c].status = "in_flight"
        BY <3>1, <3>2, OutcomeMeans DEF Holds
      <4>2. ~Locked(c)
        BY <1>2, <4>1 DEF ResolveCommit
      <4> QED
        BY <2>1, <2>3, <3>2, <4>1, <4>2, OpenIsNotFinal
           DEF Kept, Changed, Open, Contract!Legal
    <3>3. CASE Outcome(t) = "recovered"
      <4>1. Recoverable(cmd[c], t)
        BY <3>1, <3>3, OutcomeMeans
      <4>2. ~Locked(c) /\ ~Final(cmd[c])
        BY <4>1 DEF Recoverable, DraftsAreLegal, Open, Final
      <4> QED
        BY <2>1, <2>3, <3>3, <4>1, <4>2 DEF Kept, Changed, Recoverable, Contract!Legal
    <3>4. CASE Outcome(t) \notin {"accepted", "recovered"}
      BY <2>1, <3>1, <3>4 DEF Kept
    <3> QED BY <3>2, <3>3, <3>4
  <2> QED BY <2>4, <2>5
<1> QED
  BY <1>1, <1>2

\* handlePendingTimeout keeps the contract.
LEMMA TimingOutKeeps ==
  ASSUME TypeOK, NEW d \in Commands, TimingOut(d), NEW c \in Commands
  PROVE  Kept(c)
<1>1. CASE TimeoutCommit(d) /\ c = d /\ firing[c].status \in Open /\ cmd[c].status = firing[c].status
  <2>1. cmd[c] \in Row
    BY DEF TypeOK
  <2>2. cmd'[c] = Settled(cmd[c], TimeoutResult(c, cmd[c].status)) /\ ~Locked(c)
    BY <1>1 DEF TimeoutCommit, Write, TypeOK
  <2> QED
    BY <1>1, <2>1, <2>2, TimeoutIsSound, SoundIsChange
<1>2. CASE ~(TimeoutCommit(d) /\ c = d /\ firing[c].status \in Open /\ cmd[c].status = firing[c].status)
  BY <1>2 DEF TimingOut, TimeoutRead, TimeoutCommit, TimeoutAbort, TimeoutReject, Write, Kept,
              TypeOK, tables
<1> QED
  BY <1>1, <1>2

LEMMA SweepKeeps ==
  ASSUME TypeOK, Sweep, NEW c \in Commands
  PROVE  Kept(c)
<1>1. cmd'[c] = Reconciled(c)
  BY DEF Sweep
<1>2. CASE Reconciled(c) = cmd[c]
  BY <1>1, <1>2 DEF Kept
<1>3. CASE Reconciled(c) # cmd[c]
  BY <1>1, <1>3, ReconciledIsSound, SoundIsChange DEF Sweep
<1> QED
  BY <1>2, <1>3

LEMMA DispatchingKeeps ==
  ASSUME TypeOK, DraftsAreLegal, NEW d \in Commands, Dispatching(d), NEW c \in Commands
  PROVE  Kept(c)
<1>1. CASE Create(d) /\ c = d
  <2>1. cmd[c].status = "none" /\ cmd'[c].status = "queued" /\ cmd'[c].attempt = 0
    BY <1>1 DEF Create, Write, TypeOK, Blank
  <2>2. ~Final(cmd[c]) /\ ~Locked(c)
    BY <2>1 DEF Final, Terminal, DraftsAreLegal, Open
  <2> QED
    BY <2>1, <2>2 DEF Kept, Changed, Contract!Legal, Terminal
<1>2. CASE ~(Create(d) /\ c = d)
  BY <1>2 DEF Dispatching, Create, Register, Activate, ActivateFails, Write, Kept, TypeOK, tables
<1> QED
  BY <1>1, <1>2

\* A step that is not the commit of a poll.
Elsewhere ==
  \/ Tick \/ Sweep \/ Restart \/ Resolving \/ UNCHANGED vars
  \/ \E c \in Commands : Dispatching(c) \/ TimingOut(c) \/ Reporting(c)

LEMMA ElsewhereKeeps ==
  ASSUME TypeOK, DraftsAreLegal, UnsafeIsNeverRequeued, Elsewhere, NEW c \in Commands
  PROVE  Kept(c)
<1>1. CASE Resolving
  <2>1. CASE \E t \in resolving : ResolveCommit(t)
    BY <2>1, ResolveCommitKeeps
  <2>2. CASE ~\E t \in resolving : ResolveCommit(t)
    BY <1>1, <2>2 DEF Resolving, ResolveAbort, ResolveAnswer, ConflictUnaudited, Kept, tables
  <2> QED BY <2>1, <2>2
<1>2. CASE Tick \/ Restart \/ UNCHANGED vars \/ \E d \in Commands : Reporting(d)
  BY <1>2 DEF Tick, Restart, Reporting, ResolveRead, Kept, vars, tables
<1> QED
  BY <1>1, <1>2, SweepKeeps, DispatchingKeeps, TimingOutKeeps DEF Elsewhere

\* Outside a poll the drafts stay as they are, or a restart discards them.
LEMMA ElsewhereDrafts ==
  ASSUME Elsewhere
  PROVE  \/ draft' = draft /\ polling' = polling
         \/ draft' = [c \in Commands |-> NoRow]
  BY DEF Elsewhere, Tick, Sweep, Restart, Resolving, ResolveCommit, ResolveAbort, ResolveAnswer,
         ConflictUnaudited, vars, tables, Dispatching, Create, Register, Activate, ActivateFails,
         TimingOut, TimeoutRead, TimeoutCommit, TimeoutAbort, TimeoutReject, Reporting, ResolveRead

-----------------------------------------------------------------------------
(* The commit of a poll. *)

\* pollCommands writes a version of an open row of its post; only the command
\* it picks is in flight in it, and nothing else at the post is or will be.
LEMMA PollBeginDrafts ==
  ASSUME TypeOK, NEW p \in Posts, PollBegin(p)
  PROVE  \E picked \in {{}} \union {{c} : c \in Heads(p)} : draft' = PollDraft(p, picked)
  BY DEF PollBegin

LEMMA ClaimedFields ==
  ASSUME TypeOK, NEW c \in Commands
  PROVE  Claimed(c).status = "in_flight"
<1>1. Reconciled(c) \in Row
  BY ReconciledType
<1> QED
  BY <1>1 DEF Claimed, Row

LEMMA HeadFields ==
  ASSUME TypeOK, NEW p \in Posts, NEW c \in Heads(p)
  PROVE  /\ c \in Commands /\ PostOf[c] = p
         /\ cmd[c].status \in Open
         /\ \/ Contract!Legal(c, cmd[c].status, "in_flight")
            \/ cmd[c].status = "in_flight"
         /\ \A d \in Commands : PostOf[d] = p => Reconciled(d).status # "in_flight"
<1>1. c \in Commands /\ PostOf[c] = p /\ Reconciled(c).status = "queued"
  BY DEF Heads, AtPost
<1>2. cmd[c].status \in Open
  BY <1>1, ReconciledIsSound DEF Sound, Open
<1> QED
  BY <1>1, <1>2 DEF Heads, AtPost, Open, Contract!Legal

LEMMA PollBeginKeeps ==
  ASSUME TypeOK, DraftsAreLegal, ClaimIsAlone, NEW p \in Posts, PollBegin(p)
  PROVE  DraftsAreLegal' /\ ClaimIsAlone'
<1>1. PICK picked \in {{}} \union {{c} : c \in Heads(p)} : draft' = PollDraft(p, picked)
  BY PollBeginDrafts
<1>2. cmd' = cmd /\ polling' = polling \union {p} /\ p \notin polling
  BY DEF PollBegin
<1>3. ASSUME NEW c \in Commands, PostOf[c] # p
      PROVE  draft'[c] = draft[c]
  BY <1>1, <1>3 DEF PollDraft
<1>4. ASSUME NEW c \in Commands, c \in picked
      PROVE  /\ c \in Heads(p) /\ picked = {c}
             /\ draft'[c] = Claimed(c) /\ draft'[c].status = "in_flight"
  <2>1. c \in Heads(p) /\ picked = {c}
    BY <1>1, <1>4
  <2> QED
    BY <1>1, <1>4, <2>1, HeadFields, ClaimedFields DEF PollDraft
<1>5. ASSUME NEW c \in Commands, PostOf[c] = p, c \notin picked
      PROVE  \/ draft'[c] = NoRow /\ Reconciled(c) = cmd[c]
             \/ draft'[c] = Reconciled(c) /\ Sound(cmd[c], Reconciled(c), c)
  BY <1>1, <1>5, ReconciledIsSound DEF PollDraft
<1>6. DraftsAreLegal'
  <2> SUFFICES ASSUME NEW c \in Commands, Locked(c)'
               PROVE  /\ PostOf[c] \in polling'
                      /\ cmd[c].status \in Open
                      /\ \/ Contract!Legal(c, cmd[c].status, draft'[c].status)
                         \/ draft'[c].status = "in_flight" /\ cmd[c].status = "in_flight"
                      /\ draft'[c].status \in Terminal => draft'[c].result.status = draft'[c].status
    BY <1>2 DEF DraftsAreLegal, Contract!Legal
  <2>1. CASE PostOf[c] # p
    BY <1>2, <1>3, <2>1 DEF DraftsAreLegal, Locked
  <2>2. CASE PostOf[c] = p /\ c \in picked
    BY <1>2, <1>4, <2>2, HeadFields DEF Terminal
  <2>3. CASE PostOf[c] = p /\ c \notin picked
    BY <1>2, <1>5, <2>3 DEF Sound, Locked
  <2> QED BY <2>1, <2>2, <2>3
<1>7. ClaimIsAlone'
  <2> SUFFICES ASSUME NEW c \in Commands, NEW d \in Commands, c # d, PostOf[c] = PostOf[d],
                      draft'[c] # NoRow, draft'[c].status = "in_flight"
               PROVE  (IF draft'[d] # NoRow THEN draft'[d] ELSE cmd[d]).status # "in_flight"
    BY <1>2 DEF ClaimIsAlone, Locked
  <2>1. CASE PostOf[c] # p
    BY <1>3, <2>1 DEF ClaimIsAlone, Locked
  <2>2. CASE PostOf[c] = p
    <3>1. c \in picked
      BY <1>5, <2>2 DEF Sound
    <3>2. c \in Heads(p) /\ d \notin picked /\ PostOf[d] = p
      BY <1>4, <2>2, <3>1
    <3>3. Reconciled(d).status # "in_flight" /\ Reconciled(d) # NoRow
      BY <3>2, HeadFields, ReconciledType, ConstantsAssumption
    <3> QED BY <1>5, <3>2, <3>3
  <2> QED BY <2>1, <2>2
<1> QED
  BY <1>6, <1>7

LEMMA ElsewhereKeepsDrafts ==
  ASSUME TypeOK, DraftsAreLegal, UnsafeIsNeverRequeued, ClaimIsAlone, OneInFlightPerPost, Elsewhere
  PROVE  DraftsAreLegal' /\ ClaimIsAlone' /\ OneInFlightPerPost'
<1>1. \A c \in Commands : Kept(c)
  BY ElsewhereKeeps
<1>2. \A c \in Commands : draft'[c] # NoRow =>
        draft'[c] = draft[c] /\ Locked(c) /\ cmd'[c] = cmd[c] /\ polling' = polling
  BY <1>1, ElsewhereDrafts DEF Kept, Locked
<1>3. \A c \in Commands : cmd'[c].status = "in_flight" => cmd[c].status = "in_flight"
  BY <1>1 DEF Kept
<1>4. OneInFlightPerPost'
  BY <1>3 DEF OneInFlightPerPost
<1>5. DraftsAreLegal'
  BY <1>2 DEF DraftsAreLegal, Locked, Contract!Legal
<1>6. ClaimIsAlone'
  <2> SUFFICES ASSUME NEW c \in Commands, NEW d \in Commands, c # d, PostOf[c] = PostOf[d],
                      draft'[c] # NoRow, draft'[c].status = "in_flight"
               PROVE  (IF draft'[d] # NoRow THEN draft'[d] ELSE cmd'[d]).status # "in_flight"
    BY DEF ClaimIsAlone, Locked
  <2>1. (IF Locked(d) THEN draft[d] ELSE cmd[d]).status # "in_flight" /\ draft' = draft
    BY <1>2, ElsewhereDrafts DEF ClaimIsAlone
  <2> QED BY <1>3, <2>1 DEF Locked
<1> QED
  BY <1>4, <1>5, <1>6

\* Committing or rolling back a poll releases its drafts.
LEMMA PollEndKeepsDrafts ==
  ASSUME TypeOK, DraftsAreLegal, ClaimIsAlone, OneInFlightPerPost,
         NEW p \in Posts, PollCommit(p) \/ PollAbort(p)
  PROVE  DraftsAreLegal' /\ ClaimIsAlone' /\ OneInFlightPerPost'
<1>1. polling' = polling \ {p} /\ draft' = Unlocked(p)
  BY DEF PollCommit, PollAbort
<1>2. ASSUME NEW c \in Commands, PostOf[c] # p
      PROVE  draft'[c] = draft[c] /\ cmd'[c] = cmd[c]
  BY <1>1, <1>2 DEF Unlocked, PollCommit, PollAbort, TypeOK
<1>3. ASSUME NEW c \in Commands, PostOf[c] = p
      PROVE  draft'[c] = NoRow
  BY <1>1, <1>3 DEF Unlocked
<1>4. DraftsAreLegal'
  BY <1>1, <1>2, <1>3 DEF DraftsAreLegal, Locked, Contract!Legal
<1>5. ClaimIsAlone'
  BY <1>2, <1>3 DEF ClaimIsAlone, Locked
<1>6. OneInFlightPerPost'
  <2> SUFFICES ASSUME NEW c \in Commands, NEW d \in Commands, PostOf[c] = PostOf[d], c # d,
                      cmd'[c].status = "in_flight", cmd'[d].status = "in_flight"
               PROVE  FALSE
    BY DEF OneInFlightPerPost
  <2>1. CASE PostOf[c] # p
    BY <1>2, <2>1 DEF OneInFlightPerPost
  <2>2. CASE PostOf[c] = p /\ PollAbort(p)
    BY <2>2 DEF OneInFlightPerPost, PollAbort
  <2>3. CASE PostOf[c] = p /\ PollCommit(p)
    <3>1. /\ cmd'[c] = IF Locked(c) THEN draft[c] ELSE cmd[c]
          /\ cmd'[d] = IF Locked(d) THEN draft[d] ELSE cmd[d]
      BY <2>3 DEF PollCommit
    <3>2. CASE Locked(c)
      BY <3>1, <3>2 DEF ClaimIsAlone
    <3>3. CASE Locked(d)
      BY <3>1, <3>3 DEF ClaimIsAlone
    <3>4. CASE ~Locked(c) /\ ~Locked(d)
      BY <3>1, <3>4 DEF OneInFlightPerPost
    <3> QED BY <3>2, <3>3, <3>4
  <2> QED BY <2>1, <2>2, <2>3
<1> QED
  BY <1>4, <1>5, <1>6

-----------------------------------------------------------------------------
(* What any step does to a row, and the invariants that follow from it. *)

Moved(c) ==
  /\ ~Final(cmd[c])
  /\ \/ Contract!Legal(c, cmd[c].status, cmd'[c].status)
     \/ cmd[c].status = "in_flight" /\ cmd'[c].status = "in_flight"
  /\ cmd'[c].status \in Terminal => cmd'[c].result.status = cmd'[c].status
  /\ c \in Unsafe /\ cmd'[c].status = "queued" => cmd'[c].attempt = 0

LEMMA NextCases ==
  ASSUME [Next]_vars
  PROVE  \/ Elsewhere
         \/ \E p \in Posts : PollBegin(p)
         \/ \E p \in Posts : PollCommit(p) \/ PollAbort(p)
  BY DEF Next, Elsewhere, Polling

LEMMA RowsMove ==
  ASSUME TypeOK, DraftsAreLegal, UnsafeIsNeverRequeued, [Next]_vars, NEW c \in Commands
  PROVE  cmd'[c] = cmd[c] \/ Moved(c)
<1>1. CASE Elsewhere
  BY <1>1, ElsewhereKeeps DEF Kept, Changed, Moved
<1>2. CASE \E p \in Posts : PollBegin(p)
  BY <1>2 DEF PollBegin
<1>3. CASE \E p \in Posts : PollCommit(p) \/ PollAbort(p)
  <2>1. cmd'[c] = cmd[c] \/ (Locked(c) /\ cmd'[c] = draft[c])
    BY <1>3 DEF PollCommit, PollAbort
  <2>2. CASE Locked(c) /\ cmd'[c] = draft[c]
    <3>1. c \in Unsafe => draft[c].status # "queued"
      BY <2>2 DEF DraftsAreLegal, Contract!Legal, Open
    <3> QED
      BY <2>2, <3>1, OpenIsNotFinal DEF DraftsAreLegal, Moved
  <2> QED BY <2>1, <2>2
<1> QED
  BY <1>1, <1>2, <1>3, NextCases

\* A final row is never written again.
LEMMA FinalStays ==
  ASSUME TypeOK, DraftsAreLegal, UnsafeIsNeverRequeued, [Next]_vars,
         NEW c \in Commands, Final(cmd[c])
  PROVE  cmd'[c] = cmd[c]
  BY RowsMove DEF Moved

\* Result transactions under way, committed ones, timers and answers change
\* only by the actions that read or wrote the row.
LEMMA ResolvingGrows ==
  ASSUME [Next]_vars, NEW t \in resolving'
  PROVE  \/ t \in resolving
         \/ \E c \in Commands : \E lease \in 1..cmd[c].attempt : \E reply \in AgentResult :
              /\ cmd[c].status # "none" /\ cmd' = cmd
              /\ t = [cmd |-> c, lease |-> lease, reply |-> reply, seen |-> cmd[c],
                      late |-> cmd[c].status \in Open /\ cmd[c].deadline <= now]
<1>1. CASE \E c \in Commands : Reporting(c)
  BY <1>1 DEF Reporting, ResolveRead, tables
<1>2. CASE Resolving
  BY <1>2 DEF Resolving, ResolveCommit, ResolveAbort, ResolveAnswer, ConflictUnaudited, results
<1>3. CASE \E c \in Commands : Dispatching(c) \/ TimingOut(c)
  BY <1>3 DEF Dispatching, Create, Register, Activate, ActivateFails, TimingOut, TimeoutRead,
              TimeoutCommit, TimeoutAbort, TimeoutReject, results
<1>4. CASE Tick \/ Sweep \/ Restart \/ UNCHANGED vars \/ \E p \in Posts : Polling(p)
  BY <1>4 DEF Tick, Sweep, Restart, vars, results, Polling, PollBegin, PollCommit, PollAbort
<1> QED
  BY <1>1, <1>2, <1>3, <1>4 DEF Next

LEMMA UnsafeStep ==
  ASSUME TypeOK, DraftsAreLegal, UnsafeIsNeverRequeued, [Next]_vars
  PROVE  UnsafeIsNeverRequeued'
<1>1. ASSUME NEW c \in Unsafe, cmd'[c].status = "queued"
      PROVE  cmd'[c].attempt = 0
  <2>1. c \in Commands
    BY ConstantsAssumption
  <2> QED BY <1>1, <2>1, RowsMove DEF Moved, UnsafeIsNeverRequeued
<1>2. ASSUME NEW t \in resolving'
      PROVE  /\ cmd'[t.cmd].status # "none"
             /\ t.late => t.seen.status \in Open
             /\ t.cmd \in Unsafe => t.seen.status # "queued" /\ cmd'[t.cmd].status # "queued"
  <2>1. CASE t \in resolving
    <3>1. t.cmd \in Commands
      BY <2>1 DEF TypeOK
    <3> QED BY <2>1, <3>1, RowsMove DEF UnsafeIsNeverRequeued, Moved, Contract!Legal
  <2>2. CASE t \notin resolving
    <3>1. PICK c \in Commands : \E lease \in 1..cmd[c].attempt : \E reply \in AgentResult :
              /\ cmd[c].status # "none" /\ cmd' = cmd
              /\ t = [cmd |-> c, lease |-> lease, reply |-> reply, seen |-> cmd[c],
                      late |-> cmd[c].status \in Open /\ cmd[c].deadline <= now]
      BY <2>2, ResolvingGrows
    <3>2. PICK lease \in 1..cmd[c].attempt, reply \in AgentResult :
              /\ cmd[c].status # "none" /\ cmd' = cmd
              /\ t = [cmd |-> c, lease |-> lease, reply |-> reply, seen |-> cmd[c],
                      late |-> cmd[c].status \in Open /\ cmd[c].deadline <= now]
      BY <3>1
    <3>3. /\ t.cmd = c /\ t.seen = cmd[c]
          /\ t.late = (cmd[c].status \in Open /\ cmd[c].deadline <= now)
      BY <3>2
    <3>4. cmd[c].attempt \in Nat
      BY DEF TypeOK, Row
    <3>5. cmd[c].attempt # 0
      BY <3>2, <3>4
    <3> QED BY <3>2, <3>3, <3>5 DEF UnsafeIsNeverRequeued
  <2> QED BY <2>1, <2>2
<1> QED
  BY <1>1, <1>2 DEF UnsafeIsNeverRequeued, Open

-----------------------------------------------------------------------------
(* Copies of final rows, and answers given from them. *)

LEMMA TimeoutReason ==
  ASSUME NEW c, NEW status
  PROVE  TimeoutResult(c, status).reason \in Reasons
  BY DEF TimeoutResult, Reasons

\* A reply the row already holds is in the committed row, and final there.
LEMMA SameIsStored ==
  ASSUME TypeOK, CopiesAreTrue, NEW t \in resolving, Same(View(t), t) \/ Same(Base(t), t)
  PROVE  /\ Base(t) = cmd[t.cmd] /\ Final(cmd[t.cmd])
         /\ cmd[t.cmd].lease = t.lease /\ cmd[t.cmd].result = t.reply
<1>1. cmd[t.cmd] \in Row /\ t.reply \in AgentResult
  BY BaseType DEF TypeOK
<1>2. t.reply.reason \notin Reasons
  BY <1>1, ConstantsAssumption DEF AgentResult
<1>3. ASSUME NEW row, Same(row, t)
      PROVE  Final(row)
  BY <1>2, <1>3 DEF Same, Final, Reasons
<1>4. CASE Same(Base(t), t)
  <2>1. Base(t).result.reason \notin Reasons
    BY <1>2, <1>4 DEF Same
  <2>2. Base(t) = cmd[t.cmd]
    <3>1. Settled(cmd[t.cmd], TimeoutResult(t.cmd, t.seen.status)).result.reason \in Reasons
      BY <1>1, SettledFields, TimeoutReason
    <3> QED BY <2>1, <3>1 DEF Base
  <2> QED BY <1>3, <1>4, <2>2 DEF Same
<1>5. CASE Same(View(t), t) /\ ~Same(Base(t), t)
  <2>1. View(t) = t.seen /\ ~t.late
    BY <1>5 DEF View
  <2>2. Final(t.seen)
    BY <1>3, <1>5, <2>1
  <2>3. cmd[t.cmd] = t.seen /\ Base(t) = cmd[t.cmd]
    BY <2>1, <2>2 DEF CopiesAreTrue, Base
  <2> QED BY <1>5, <2>1, <2>3
<1> QED
  BY <1>4, <1>5

\* What a committed result transaction tells the agent is true of the row.
LEMMA CommitTellsTheTruth ==
  ASSUME TypeOK, CopiesAreTrue, NEW t \in resolving, ResolveCommit(t), Outcome(t) \in Accepting
  PROVE  /\ Final(cmd'[t.cmd])
         /\ cmd'[t.cmd].lease = t.lease /\ cmd'[t.cmd].result = t.reply
<1>1. Base(t) \in Row /\ t.reply \in AgentResult /\ t.cmd \in Commands
  BY BaseType
<1>2. cmd'[t.cmd] = IF Outcome(t) \in {"accepted", "recovered"} THEN Settled(Base(t), t.reply)
                    ELSE Base(t)
  BY <1>1 DEF ResolveCommit, Write, TypeOK
<1>3. CASE Outcome(t) \in {"accepted", "recovered"}
  <2>1. Base(t).lease = t.lease
    BY <1>3, OutcomeMeans DEF Holds, Recoverable
  <2>2. cmd'[t.cmd] = Settled(Base(t), t.reply)
    BY <1>2, <1>3
  <2> QED BY <1>1, <2>1, <2>2, ReplyIsFinal, SettledFields
<1>4. CASE Outcome(t) = "deduped"
  BY <1>2, <1>4, OutcomeMeans, SameIsStored
<1> QED
  BY <1>3, <1>4 DEF Accepting

LEMMA AcksGrow ==
  ASSUME [Next]_vars, NEW a \in acks'
  PROVE  \/ a \in acks
         \/ \E t \in resolving :
              /\ ResolveCommit(t)
              /\ a = [cmd |-> t.cmd, lease |-> t.lease, reply |-> t.reply, outcome |-> Outcome(t)]
<1>1. CASE Resolving
  BY <1>1 DEF Resolving, ResolveCommit, ResolveAbort, ResolveAnswer, ConflictUnaudited
<1>2. CASE ~Resolving
  BY <1>2 DEF Next, Dispatching, Create, Register, Activate, ActivateFails, TimingOut, TimeoutRead,
              TimeoutCommit, TimeoutAbort, TimeoutReject, Reporting, ResolveRead, Tick, Sweep,
              Restart, vars, results, Polling, PollBegin, PollCommit, PollAbort
<1> QED
  BY <1>1, <1>2

LEMMA FiringCopies ==
  ASSUME TypeOK, [Next]_vars, NEW c \in Commands
  PROVE  firing'[c] = firing[c] \/ firing'[c] = NoRow \/ (firing'[c] = cmd[c] /\ cmd' = cmd)
<1>1. CASE \E d \in Commands : TimingOut(d)
  BY <1>1 DEF TimingOut, TimeoutRead, TimeoutCommit, TimeoutAbort, TimeoutReject, TypeOK, tables
<1>2. CASE \E d \in Commands : Dispatching(d) \/ Reporting(d)
  BY <1>2 DEF Dispatching, Create, Register, Activate, ActivateFails, Reporting, ResolveRead, memory
<1>3. CASE Resolving
  BY <1>3 DEF Resolving, ResolveCommit, ResolveAbort, ResolveAnswer, ConflictUnaudited, memory
<1>4. CASE Tick \/ Sweep \/ Restart \/ UNCHANGED vars \/ \E p \in Posts : Polling(p)
  BY <1>4 DEF Tick, Sweep, Restart, vars, memory, Polling, PollBegin, PollCommit, PollAbort
<1> QED
  BY <1>1, <1>2, <1>3, <1>4 DEF Next

\* An answer is taken from the committed row, after the row is final.
Answered(c) ==
  \/ answer'[c] = answer[c]
  \/ answer'[c].status \in {"done", "failed"} => Final(cmd'[c]) /\ cmd'[c].result = answer'[c]

LEMMA TimeoutAnswers ==
  ASSUME TypeOK, CopiesAreTrue, NEW c \in Commands, TimeoutCommit(c), answer'[c] # answer[c]
  PROVE  Final(cmd'[c]) /\ cmd'[c].result = answer'[c]
<1> DEFINE seen    == firing[c]
           settles == seen.status \in Open /\ cmd[c].status = seen.status
           current == IF settles THEN Settled(cmd[c], TimeoutResult(c, seen.status))
                      ELSE IF seen.status \in Terminal THEN seen ELSE cmd[c]
<1>1. current.status \in {"done", "failed"} /\ answer'[c] = current.result
  BY DEF TimeoutCommit, Answer, TypeOK
<1>2. ~settles
  <2>1. Settled(cmd[c], TimeoutResult(c, seen.status)).status \in {"expired", "delivery_unknown"}
    BY SettledFields, TimeoutResultType DEF TypeOK
  <2> QED BY <1>1, <2>1
<1>3. cmd' = cmd /\ seen # NoRow
  BY <1>2 DEF TimeoutCommit
<1>4. Final(current)
  BY <1>1 DEF Final, Terminal
<1>5. current = cmd[c]
  BY <1>2, <1>3, <1>4 DEF CopiesAreTrue
<1> QED
  BY <1>1, <1>3, <1>4, <1>5

LEMMA AnswersAreTaken ==
  ASSUME TypeOK, CopiesAreTrue, [Next]_vars, NEW c \in Commands
  PROVE  Answered(c)
<1>1. ASSUME NEW d \in Commands, Activate(d)
      PROVE  Answered(c)
  <2>1. CASE answer'[c] = answer[c]
    BY <2>1 DEF Answered
  <2>2. CASE answer'[c] # answer[c]
    <3>1. c = d /\ cmd[c].status \in Terminal /\ answer'[c] = cmd[c].result /\ cmd' = cmd
      BY <1>1, <2>2 DEF Activate, Answer, TypeOK, tables
    <3>2. cmd[c].result.status = cmd[c].status
      BY <3>1 DEF CopiesAreTrue
    <3> QED BY <3>1, <3>2 DEF Answered, Final
  <2> QED BY <2>1, <2>2
<1>2. ASSUME NEW a \in acks, ResolveAnswer(a)
      PROVE  Answered(c)
  <2>1. CASE answer'[c] = answer[c]
    BY <2>1 DEF Answered
  <2>2. CASE answer'[c] # answer[c]
    <3>1. c = a.cmd /\ a.outcome \in Accepting /\ answer'[c] = a.reply /\ cmd' = cmd
      BY <1>2, <2>2 DEF ResolveAnswer, Answer, TypeOK, tables
    <3> QED BY <3>1 DEF Answered, CopiesAreTrue
  <2> QED BY <2>1, <2>2
<1>3. ASSUME NEW d \in Commands, TimeoutCommit(d)
      PROVE  Answered(c)
  <2>1. CASE c = d
    BY <1>3, <2>1, TimeoutAnswers DEF Answered
  <2>2. CASE c # d
    BY <1>3, <2>2 DEF Answered, TimeoutCommit, Answer, TypeOK
  <2> QED BY <2>1, <2>2
<1>4. ASSUME NEW d \in Commands,
             \/ Dispatching(d) /\ ~Activate(d)
             \/ TimingOut(d) /\ ~TimeoutCommit(d)
             \/ Reporting(d)
      PROVE  Answered(c)
  BY <1>4 DEF Answered, Dispatching, Create, Register, ActivateFails, Reporting, ResolveRead, memory,
              TimingOut, TimeoutRead, TimeoutAbort, TimeoutReject
<1>5. CASE Resolving /\ ~\E a \in acks : ResolveAnswer(a)
  BY <1>5 DEF Answered, Resolving, ResolveCommit, ResolveAbort, ConflictUnaudited, memory
<1>6. CASE Tick \/ Sweep \/ Restart \/ UNCHANGED vars \/ \E p \in Posts : Polling(p)
  BY <1>6 DEF Answered, Tick, Sweep, Restart, vars, memory, Polling, PollBegin, PollCommit, PollAbort
<1> QED
  BY <1>1, <1>2, <1>3, <1>4, <1>5, <1>6 DEF Next, Dispatching, TimingOut

LEMMA CopiesStep ==
  ASSUME TypeOK, DraftsAreLegal, UnsafeIsNeverRequeued, CopiesAreTrue, [Next]_vars
  PROVE  CopiesAreTrue'
<1>1. ASSUME NEW c \in Commands, cmd'[c].status \in Terminal
      PROVE  cmd'[c].result.status = cmd'[c].status
  BY <1>1, RowsMove DEF Moved, CopiesAreTrue
<1>2. ASSUME NEW t \in resolving', Final(t.seen)
      PROVE  cmd'[t.cmd] = t.seen
  <2>1. CASE t \in resolving
    <3>1. t.cmd \in Commands /\ cmd[t.cmd] = t.seen
      BY <1>2, <2>1 DEF TypeOK, CopiesAreTrue
    <3> QED BY <1>2, <3>1, FinalStays
  <2>2. CASE t \notin resolving
    <3>1. \E c \in Commands : t.cmd = c /\ t.seen = cmd[c] /\ cmd' = cmd
      BY <2>2, ResolvingGrows
    <3> QED BY <3>1
  <2> QED BY <2>1, <2>2
<1>3. ASSUME NEW c \in Commands, firing'[c] # NoRow, Final(firing'[c])
      PROVE  cmd'[c] = firing'[c]
  <2>1. CASE firing'[c] = firing[c]
    <3>1. cmd[c] = firing[c]
      BY <1>3, <2>1 DEF CopiesAreTrue
    <3> QED BY <1>3, <2>1, <3>1, FinalStays
  <2>2. CASE firing'[c] # firing[c]
    BY <1>3, <2>2, FiringCopies
  <2> QED BY <2>1, <2>2
<1>4. ASSUME NEW a \in acks', a.outcome \in Accepting
      PROVE  Final(cmd'[a.cmd]) /\ cmd'[a.cmd].lease = a.lease /\ cmd'[a.cmd].result = a.reply
  <2>1. CASE a \in acks
    <3>1. /\ a.cmd \in Commands
          /\ Final(cmd[a.cmd]) /\ cmd[a.cmd].lease = a.lease /\ cmd[a.cmd].result = a.reply
      BY <1>4, <2>1 DEF TypeOK, CopiesAreTrue
    <3>2. cmd'[a.cmd] = cmd[a.cmd]
      BY <3>1, FinalStays
    <3> QED BY <3>1, <3>2
  <2>2. CASE a \notin acks
    <3>1. PICK t \in resolving :
            /\ ResolveCommit(t)
            /\ a = [cmd |-> t.cmd, lease |-> t.lease, reply |-> t.reply, outcome |-> Outcome(t)]
      BY <2>2, AcksGrow
    <3> QED BY <1>4, <3>1, CommitTellsTheTruth
  <2> QED BY <2>1, <2>2
<1>5. ASSUME NEW c \in Commands, answer'[c].status \in {"done", "failed"}
      PROVE  Final(cmd'[c]) /\ cmd'[c].result = answer'[c]
  <2>1. CASE answer'[c] = answer[c]
    <3>1. Final(cmd[c]) /\ cmd[c].result = answer[c]
      BY <1>5, <2>1 DEF CopiesAreTrue
    <3> QED BY <2>1, <3>1, FinalStays
  <2>2. CASE answer'[c] # answer[c]
    BY <1>5, <2>2, AnswersAreTaken DEF Answered
  <2> QED BY <2>1, <2>2
<1> QED
  BY <1>1, <1>2, <1>3, <1>4, <1>5 DEF CopiesAreTrue, Final

-----------------------------------------------------------------------------
(* The inductive invariant and what follows from it. *)

LEMMA IInvInit == Init => IInv
<1> SUFFICES ASSUME Init
             PROVE  IInv
  OBVIOUS
<1>1. TypeOK
  BY TypeInit
<1>2. \A c \in Commands : cmd[c].status = "none" /\ cmd[c].attempt = 0 /\ ~Locked(c)
  BY DEF Init, Blank, Locked
<1>3. resolving = {} /\ acks = {}
  BY DEF Init
<1>4. \A c \in Commands : firing[c] = NoRow /\ answer[c].status = "none"
  BY DEF Init, NoResult
<1>5. DraftsAreLegal /\ OneInFlightPerPost /\ ClaimIsAlone
  BY <1>2 DEF DraftsAreLegal, OneInFlightPerPost, ClaimIsAlone
<1>6. UnsafeIsNeverRequeued /\ CopiesAreTrue
  BY <1>2, <1>3, <1>4, ConstantsAssumption DEF UnsafeIsNeverRequeued, CopiesAreTrue, Terminal
<1> QED
  BY <1>1, <1>5, <1>6 DEF IInv

LEMMA IInvStep == IInv /\ [Next]_vars => IInv'
<1> SUFFICES ASSUME IInv, [Next]_vars
             PROVE  IInv'
  OBVIOUS
<1> USE DEF IInv
<1>1. TypeOK' /\ UnsafeIsNeverRequeued' /\ CopiesAreTrue'
  BY TypeStep, UnsafeStep, CopiesStep
<1>2. DraftsAreLegal' /\ ClaimIsAlone' /\ OneInFlightPerPost'
  <2>1. CASE Elsewhere
    BY <2>1, ElsewhereKeepsDrafts
  <2>2. CASE \E p \in Posts : PollBegin(p)
    BY <2>2, PollBeginKeeps DEF PollBegin, OneInFlightPerPost
  <2>3. CASE \E p \in Posts : PollCommit(p) \/ PollAbort(p)
    BY <2>3, PollEndKeepsDrafts
  <2> QED BY <2>1, <2>2, <2>3, NextCases
<1> QED
  BY <1>1, <1>2

LEMMA Invariance == Spec => []IInv
  BY IInvInit, IInvStep, PTL DEF Spec

\* However polls, sweeps, results, timeouts and restarts interleave, no post
\* ever has two commands in flight.
THEOREM OneInFlight == Spec => []OneInFlightPerPost
<1>1. IInv => OneInFlightPerPost
  BY DEF IInv
<1> QED
  BY <1>1, Invariance, PTL

\* A definite answer given to a business request stays the one in the table.
THEOREM DurableAnswers == Spec => []DefiniteAnswerIsDurable
<1>1. IInv => DefiniteAnswerIsDurable
  BY DEF IInv, CopiesAreTrue, DefiniteAnswerIsDurable
<1> QED
  BY <1>1, Invariance, PTL

\* The platform acknowledges a result, which makes the agent forget it, only
\* when the row holds exactly that result under that lease.
THEOREM StoredAcknowledgements == Spec => []AcknowledgedIsStored
<1>1. IInv => AcknowledgedIsStored
  BY DEF IInv, CopiesAreTrue, AcknowledgedIsStored, Final
<1> QED
  BY <1>1, Invariance, PTL

\* The table, under every interleaving of its transactions, makes only the
\* moves CommandContract promises: in particular a print command is handed
\* out at most once and a settled command never reopens.
THEOREM Refinement == Spec => ImplementsContract
<1> DEFINE fate == [c \in Commands |-> cmd[c].status]
<1>1. Init => Contract!Init
  BY DEF Init, Contract!Init, Blank
<1>2. IInv /\ IInv' /\ [Next]_vars => [Contract!Step]_fate
  <2> SUFFICES ASSUME IInv, IInv', [Next]_vars
               PROVE  Contract!Step
    OBVIOUS
  <2> USE DEF IInv
  <2>1. fate' \in [Commands -> Contract!Fates]
    BY DEF TypeOK, Row, Status, Open, Terminal, Contract!Fates
  <2>2. ASSUME NEW c \in Commands
        PROVE  fate'[c] = fate[c] \/ Contract!Legal(c, fate[c], fate'[c])
    BY RowsMove DEF Moved, Contract!Legal
  <2>3. Contract!OneInFlight(fate')
    BY DEF OneInFlightPerPost, Contract!OneInFlight
  <2> QED BY <2>1, <2>2, <2>3 DEF Contract!Step
<1> QED
  BY <1>1, <1>2, Invariance, PTL DEF Spec, ImplementsContract, Contract!Spec

-----------------------------------------------------------------------------
(* What rows remember: attempts, deadlines and leases. *)

\* What a step outside a poll's commit does to the fields a row remembers.
Remembered(c) ==
  \/ cmd'[c] = cmd[c]
  \/ cmd[c].status = "none" /\ cmd'[c].attempt = 0 /\ cmd'[c].lease = 0
  \/ /\ cmd'[c].deadline = cmd[c].deadline
     /\ cmd'[c].attempt = cmd[c].attempt
     /\ c \in Unsafe => cmd'[c].lease = cmd[c].lease

LEMMA SettledRemembers ==
  ASSUME NEW row \in Row, NEW result
  PROVE  /\ Settled(row, result).deadline = row.deadline
         /\ Settled(row, result).attempt = row.attempt
         /\ Settled(row, result).lease = row.lease
  BY DEF Settled, Row

LEMMA RequeuedRemembers ==
  ASSUME NEW row \in Row
  PROVE  Requeued(row).deadline = row.deadline /\ Requeued(row).attempt = row.attempt
  BY DEF Requeued, Row

LEMMA ReconciledRemembers ==
  ASSUME TypeOK, NEW c \in Commands
  PROVE  /\ Reconciled(c).deadline = cmd[c].deadline
         /\ Reconciled(c).attempt = cmd[c].attempt
         /\ c \in Unsafe => Reconciled(c).lease = cmd[c].lease
<1>1. cmd[c] \in Row
  BY DEF TypeOK
<1> QED
  BY <1>1, SettledRemembers, RequeuedRemembers DEF Reconciled

LEMMA ResolveRemembers ==
  ASSUME TypeOK, NEW t \in resolving, ResolveCommit(t), NEW c \in Commands
  PROVE  Remembered(c)
<1>1. CASE c # t.cmd
  BY <1>1 DEF ResolveCommit, Write, Remembered, TypeOK
<1>2. CASE c = t.cmd
  <2>1. cmd'[c] = Settled(Base(t), t.reply) \/ cmd'[c] = Base(t)
    BY <1>2 DEF ResolveCommit, Write, TypeOK
  <2>2. Base(t) \in Row /\ cmd[c] \in Row
    BY <1>2, BaseType DEF TypeOK
  <2>3. /\ Base(t).deadline = cmd[c].deadline
        /\ Base(t).attempt = cmd[c].attempt
        /\ Base(t).lease = cmd[c].lease
    BY <1>2, <2>2, SettledRemembers DEF Base
  <2> QED
    BY <2>1, <2>2, <2>3, SettledRemembers DEF Remembered
<1> QED
  BY <1>1, <1>2

LEMMA TimingOutRemembers ==
  ASSUME TypeOK, NEW d \in Commands, TimingOut(d), NEW c \in Commands
  PROVE  Remembered(c)
<1>1. CASE TimeoutCommit(d) /\ c = d /\ firing[c].status \in Open /\ cmd[c].status = firing[c].status
  <2>1. cmd[c] \in Row
    BY DEF TypeOK
  <2>2. cmd'[c] = Settled(cmd[c], TimeoutResult(c, cmd[c].status))
    BY <1>1 DEF TimeoutCommit, Write, TypeOK
  <2> QED
    BY <2>1, <2>2, SettledRemembers DEF Remembered
<1>2. CASE ~(TimeoutCommit(d) /\ c = d /\ firing[c].status \in Open /\ cmd[c].status = firing[c].status)
  BY <1>2 DEF TimingOut, TimeoutRead, TimeoutCommit, TimeoutAbort, TimeoutReject, Write, Remembered,
              TypeOK, tables
<1> QED
  BY <1>1, <1>2

LEMMA DispatchingRemembers ==
  ASSUME TypeOK, NEW d \in Commands, Dispatching(d), NEW c \in Commands
  PROVE  Remembered(c)
<1>1. CASE Create(d) /\ c = d
  BY <1>1 DEF Create, Write, TypeOK, Blank, Remembered
<1>2. CASE ~(Create(d) /\ c = d)
  BY <1>2 DEF Dispatching, Create, Register, Activate, ActivateFails, Write, Remembered, TypeOK, tables
<1> QED
  BY <1>1, <1>2

LEMMA ElsewhereRemembers ==
  ASSUME TypeOK, Elsewhere, NEW c \in Commands
  PROVE  Remembered(c)
<1>1. CASE Resolving
  <2>1. CASE \E t \in resolving : ResolveCommit(t)
    BY <2>1, ResolveRemembers
  <2>2. CASE ~\E t \in resolving : ResolveCommit(t)
    BY <1>1, <2>2 DEF Resolving, ResolveAbort, ResolveAnswer, ConflictUnaudited, Remembered, tables
  <2> QED BY <2>1, <2>2
<1>2. CASE Sweep
  BY <1>2, ReconciledRemembers DEF Sweep, Remembered
<1>3. CASE Tick \/ Restart \/ UNCHANGED vars \/ \E d \in Commands : Reporting(d)
  BY <1>3 DEF Tick, Restart, Reporting, ResolveRead, Remembered, vars, tables
<1> QED
  BY <1>1, <1>2, <1>3, DispatchingRemembers, TimingOutRemembers DEF Elsewhere

\* The commit of a poll puts its drafts in force; nothing else does.
LEMMA RowsAge ==
  ASSUME IInv, [Next]_vars, NEW c \in Commands
  PROVE  \/ Remembered(c) /\ (cmd'[c] = cmd[c] \/ cmd'[c].status # "in_flight")
         \/ Locked(c) /\ cmd'[c] = draft[c]
<1>1. CASE Elsewhere
  BY <1>1, ElsewhereRemembers, ElsewhereKeeps DEF Kept, IInv
<1>2. CASE \E p \in Posts : PollBegin(p)
  BY <1>2 DEF PollBegin, Remembered
<1>3. CASE \E p \in Posts : PollCommit(p) \/ PollAbort(p)
  BY <1>3 DEF PollCommit, PollAbort, Remembered
<1> QED
  BY <1>1, <1>2, <1>3, NextCases

\* A row that exists keeps existing, with its deadline; its attempts only grow;
\* a settled row stays settled.
LEMMA RowsPersist ==
  ASSUME IInv, History, [Next]_vars, NEW c \in Commands
  PROVE  /\ cmd'[c].attempt >= cmd[c].attempt
         /\ cmd[c].status # "none" =>
              cmd'[c].status # "none" /\ cmd'[c].deadline = cmd[c].deadline
         /\ cmd[c].status \in Terminal => cmd'[c].status \in Terminal
<1>1. cmd[c] \in Row /\ cmd'[c] \in Row
  BY TypeStep DEF IInv, TypeOK
<1>2. cmd[c].attempt \in Nat /\ cmd'[c].attempt \in Nat
  BY <1>1 DEF Row
<1>3. cmd'[c] = cmd[c] \/ Moved(c)
  BY RowsMove DEF IInv
<1>4. /\ cmd[c].status # "none" => cmd'[c].status # "none"
      /\ cmd[c].status \in Terminal => cmd'[c].status \in Terminal
  BY <1>3 DEF Moved, Contract!Legal, Terminal
<1>5. CASE Remembered(c)
  BY <1>2, <1>4, <1>5 DEF Remembered, History, RowsRemember
<1>6. CASE Locked(c) /\ cmd'[c] = draft[c]
  BY <1>2, <1>4, <1>6 DEF History, DraftsRemember
<1> QED
  BY <1>4, <1>5, <1>6, RowsAge

LEMMA RowsRememberStep ==
  ASSUME IInv, History, [Next]_vars
  PROVE  RowsRemember'
<1>1. ASSUME NEW c \in Commands, cmd'[c].status = "none"
      PROVE  cmd'[c].attempt = 0
  <2>1. cmd'[c] = cmd[c]
    BY <1>1, RowsMove DEF IInv, Moved, Contract!Legal
  <2> QED BY <1>1, <2>1 DEF History, RowsRemember
<1>2. ASSUME NEW c \in Unsafe
      PROVE  /\ cmd'[c].lease = cmd'[c].attempt
             /\ cmd'[c].attempt = IF cmd'[c].status \in {"none", "queued", "expired"} THEN 0 ELSE 1
  <2>1. c \in Commands
    BY ConstantsAssumption
  <2>2. /\ cmd[c].lease = cmd[c].attempt
        /\ cmd[c].attempt = IF cmd[c].status \in {"none", "queued", "expired"} THEN 0 ELSE 1
    BY DEF History, RowsRemember
  <2>3. CASE cmd'[c] = cmd[c]
    BY <2>2, <2>3
  <2>4. CASE cmd'[c] # cmd[c]
    <3>1. Contract!Legal(c, cmd[c].status, cmd'[c].status) \/ cmd'[c].status = "in_flight"
      BY <2>1, <2>4, RowsMove DEF IInv, Moved
    <3>2. CASE Remembered(c) /\ cmd'[c].status # "in_flight"
      BY <2>1, <2>2, <2>4, <3>1, <3>2 DEF Remembered, Contract!Legal
    <3>3. CASE Locked(c) /\ cmd'[c] = draft[c]
      <4>1. /\ draft[c].status \in {"in_flight", "queued", "expired", "delivery_unknown"}
            /\ draft[c].attempt = cmd[c].attempt + (IF draft[c].status = "in_flight" THEN 1 ELSE 0)
            /\ draft[c].status \in {"in_flight", "expired"} => cmd[c].status = "queued"
            /\ draft[c].status = "delivery_unknown" => cmd[c].status = "in_flight"
            /\ draft[c].lease = draft[c].attempt
        BY <2>1, <3>3 DEF History, DraftsRemember
      <4>2. draft[c].status # "queued"
        BY <2>1, <3>1, <3>3 DEF DraftsAreLegal, IInv, Contract!Legal, Open
      <4> QED BY <2>2, <3>3, <4>1, <4>2
    <3> QED BY <2>1, <2>4, <3>2, <3>3, RowsAge
  <2> QED BY <2>3, <2>4
<1> QED
  BY <1>1, <1>2 DEF RowsRemember

\* A draft that does not hand its row out settles or requeues it.
LEMMA ReconciledStatus ==
  ASSUME TypeOK, NEW c \in Commands, Reconciled(c) # cmd[c]
  PROVE  /\ Reconciled(c).status \in {"queued", "expired", "delivery_unknown"}
         /\ Reconciled(c).status # "queued" => cmd[c].deadline <= now
<1>1. cmd[c] \in Row
  BY DEF TypeOK
<1>2. Settled(cmd[c], TimeoutResult(c, cmd[c].status)).status \in {"expired", "delivery_unknown"}
  BY <1>1, SettledFields, TimeoutResultType
<1>3. Requeued(cmd[c]).status = "queued"
  BY <1>1, RequeuedFields
<1> QED
  BY <1>2, <1>3 DEF Reconciled

LEMMA ClaimedRemembers ==
  ASSUME TypeOK, NEW c \in Commands
  PROVE  /\ Claimed(c).deadline = cmd[c].deadline
         /\ Claimed(c).attempt = cmd[c].attempt + 1
         /\ Claimed(c).lease = cmd[c].attempt + 1
<1>1. Reconciled(c) \in Row
  BY ReconciledType
<1>2. /\ Claimed(c).deadline = Reconciled(c).deadline
      /\ Claimed(c).attempt = Reconciled(c).attempt + 1
      /\ Claimed(c).lease = cmd[c].attempt + 1
  BY <1>1 DEF Claimed, Row
<1> QED
  BY <1>2, ReconciledRemembers

\* What a poll's transaction writes for a row of its post.
DraftRemembers(c, row) ==
  /\ row.deadline = cmd[c].deadline
  /\ row.status \in {"in_flight", "queued", "expired", "delivery_unknown"}
  /\ row.attempt = cmd[c].attempt + (IF row.status = "in_flight" THEN 1 ELSE 0)
  /\ row.status = "in_flight" => row.lease = row.attempt
  /\ row.status \in {"expired", "delivery_unknown"} => cmd[c].deadline <= now
  /\ c \in Unsafe =>
       /\ row.status \in {"in_flight", "expired"} => cmd[c].status = "queued"
       /\ row.status = "delivery_unknown" => cmd[c].status = "in_flight"
       /\ row.lease = row.attempt

LEMMA PollBeginRemembers ==
  ASSUME IInv, History, NEW p \in Posts, PollBegin(p), NEW c \in Commands, PostOf[c] = p,
         draft'[c] # NoRow
  PROVE  /\ DraftRemembers(c, draft'[c])
         /\ draft'[c].status = "in_flight" => budget'[p] = cmd[c].deadline - now
<1>0. TypeOK
  BY DEF IInv
<1>1. cmd[c].attempt \in Nat
  BY <1>0 DEF TypeOK, Row
<1>2. CASE draft'[c] = Claimed(c) /\ c \in Heads(p) /\ budget'[p] = cmd[c].deadline - now
  <2>1. Claimed(c).status = "in_flight"
    BY <1>0, ClaimedFields
  <2>2. c \in Unsafe => cmd[c].status = "queued"
    <3>1. Reconciled(c).status = "queued"
      BY <1>2 DEF Heads
    <3> QED BY <1>0, <3>1, ReconciledIsSound DEF Sound
  <2> QED
    BY <1>0, <1>1, <1>2, <2>1, <2>2, ClaimedRemembers DEF DraftRemembers
<1>3. CASE draft'[c] = Reconciled(c) /\ Reconciled(c) # cmd[c]
  <2>1. /\ Reconciled(c).status \in {"queued", "expired", "delivery_unknown"}
        /\ Reconciled(c).status # "queued" => cmd[c].deadline <= now
    BY <1>0, <1>3, ReconciledStatus
  <2>2. Sound(cmd[c], Reconciled(c), c)
    BY <1>0, <1>3, ReconciledIsSound
  <2>3. c \in Unsafe =>
          /\ Reconciled(c).status = "expired" => cmd[c].status = "queued"
          /\ Reconciled(c).status = "delivery_unknown" => cmd[c].status = "in_flight"
    BY <2>2 DEF Sound, Contract!Legal
  <2>4. c \in Unsafe => Reconciled(c).lease = Reconciled(c).attempt
    BY <1>0, ReconciledRemembers DEF History, RowsRemember
  <2> QED
    BY <1>0, <1>1, <1>3, <2>1, <2>3, <2>4, ReconciledRemembers DEF DraftRemembers
<1>4. \/ draft'[c] = Claimed(c) /\ c \in Heads(p) /\ budget'[p] = cmd[c].deadline - now
      \/ draft'[c] = Reconciled(c) /\ Reconciled(c) # cmd[c]
  <2>1. CASE Heads(p) = {} /\ draft' = PollDraft(p, {})
    BY <2>1 DEF PollDraft
  <2>2. CASE \E h \in Heads(p) : /\ draft' = PollDraft(p, {h})
                                 /\ budget' = [budget EXCEPT ![p] = cmd[h].deadline - now]
    BY <1>0, <2>2 DEF PollDraft, TypeOK
  <2> QED BY <2>1, <2>2 DEF PollBegin
<1> QED
  BY <1>2, <1>3, <1>4

\* The clock never runs back.
LEMMA ClockRuns ==
  ASSUME TypeOK, [Next]_vars
  PROVE  now' \in Nat /\ now' >= now
<1>1. now' = now \/ now' = now + 1
  BY DEF Next, Elsewhere, Dispatching, Create, Register, Activate, ActivateFails, TimingOut,
         TimeoutRead, TimeoutCommit, TimeoutAbort, TimeoutReject, Reporting, ResolveRead, Tick, Sweep,
         Restart, vars, Polling, PollBegin, PollCommit, PollAbort, Resolving, ResolveCommit,
         ResolveAbort, ResolveAnswer, ConflictUnaudited
<1> QED
  BY <1>1 DEF TypeOK

LEMMA DraftsRememberStep ==
  ASSUME IInv, History, [Next]_vars
  PROVE  DraftsRemember'
<1>0. TypeOK /\ DraftsAreLegal /\ UnsafeIsNeverRequeued
  BY DEF IInv
<1> SUFFICES ASSUME NEW c \in Commands, draft'[c] # NoRow
             PROVE  /\ draft'[c].deadline = cmd'[c].deadline
                    /\ draft'[c].status \in {"in_flight", "queued", "expired", "delivery_unknown"}
                    /\ draft'[c].attempt = cmd'[c].attempt + (IF draft'[c].status = "in_flight" THEN 1 ELSE 0)
                    /\ draft'[c].status = "in_flight" => draft'[c].lease = draft'[c].attempt
                    /\ draft'[c].status \in {"expired", "delivery_unknown"} => cmd'[c].deadline <= now'
                    /\ c \in Unsafe =>
                         /\ draft'[c].status \in {"in_flight", "expired"} => cmd'[c].status = "queued"
                         /\ draft'[c].status = "delivery_unknown" => cmd'[c].status = "in_flight"
                         /\ draft'[c].lease = draft'[c].attempt
  BY DEF DraftsRemember, Locked
<1>1. CASE draft'[c] = draft[c] /\ cmd'[c] = cmd[c]
  <2>1. now \in Nat /\ now' \in Nat /\ now' >= now /\ cmd[c].deadline \in Nat
    BY <1>0, ClockRuns DEF TypeOK, Row
  <2> QED BY <1>1, <2>1 DEF History, DraftsRemember, Locked
<1>2. CASE Elsewhere
  <2>1. draft'[c] = draft[c]
    BY <1>2, ElsewhereDrafts
  <2>2. Locked(c)
    BY <2>1 DEF Locked
  <2>3. cmd'[c] = cmd[c]
    BY <1>0, <1>2, <2>2, ElsewhereKeeps DEF Kept
  <2> QED BY <1>1, <2>1, <2>3
<1>3. CASE \E p \in Posts : PollBegin(p)
  <2>1. PICK p \in Posts : PollBegin(p)
    BY <1>3
  <2>2. cmd' = cmd /\ now' = now
    BY <2>1 DEF PollBegin
  <2>3. CASE PostOf[c] = p
    BY <2>1, <2>2, <2>3, PollBeginRemembers DEF DraftRemembers
  <2>4. CASE PostOf[c] # p
    BY <1>1, <2>1, <2>2, <2>4 DEF PollBegin, PollDraft
  <2> QED BY <2>3, <2>4
<1>4. CASE \E p \in Posts : PollCommit(p) \/ PollAbort(p)
  <2>1. PICK p \in Posts : PollCommit(p) \/ PollAbort(p)
    BY <1>4
  <2>2. PostOf[c] # p /\ draft'[c] = draft[c]
    BY <2>1 DEF PollCommit, PollAbort, Unlocked
  <2>3. cmd'[c] = cmd[c]
    BY <2>1, <2>2 DEF PollCommit, PollAbort
  <2> QED BY <1>1, <2>2, <2>3
<1> QED
  BY <1>2, <1>3, <1>4, NextCases

\* What a step does to a waiting request, its timer and its verdict.
Timed(c) ==
  /\ caller'[c] # "none" => caller[c] # "none" \/ cmd'[c].status = "queued"
  /\ firing'[c] # NoRow => firing'[c] = firing[c] \/ TimeoutRead(c)
  /\ caller'[c] = "expired" => caller[c] = "expired" \/ verdict[c] = "expired"
  /\ verdict'[c] = "expired" => verdict[c] = "expired" \/ TimeoutCommit(c) \/ TimeoutAbort(c)

LEMMA AnswerKeepsTime ==
  ASSUME TypeOK, NEW d \in Commands, NEW result, Answer(d, result), NEW c \in Commands
  PROVE  caller'[c] = caller[c] \/ (caller[c] # "none" /\ caller'[c] = "answered")
  BY DEF Answer, Pending, TypeOK

LEMMA StepsAreTimed ==
  ASSUME TypeOK, [Next]_vars, NEW c \in Commands
  PROVE  Timed(c)
<1>1. ASSUME NEW d \in Commands, Dispatching(d)
      PROVE  Timed(c)
  <2>1. CASE Create(d)
    <3>1. cmd'[d].status = "queued"
      BY <2>1 DEF Create, Write, Blank, TypeOK
    <3> QED BY <2>1, <3>1 DEF Create, Timed, Pending, TypeOK
  <2>2. CASE Register(d)
    BY <2>2 DEF Register, Timed, Pending, TypeOK
  <2>3. CASE Activate(d)
    <3>1. \/ caller'[c] = caller[c]
          \/ caller[c] # "none" /\ caller'[c] = "answered"
          \/ c = d /\ caller'[c] = "waiting" /\ caller[c] = "activating"
      BY <2>3, AnswerKeepsTime DEF Activate, TypeOK
    <3> QED BY <2>3, <3>1 DEF Activate, Timed, Pending
  <2>4. CASE ActivateFails(d)
    BY <2>4 DEF ActivateFails, Timed, Pending, TypeOK
  <2> QED BY <1>1, <2>1, <2>2, <2>3, <2>4 DEF Dispatching
<1>2. ASSUME NEW d \in Commands, TimingOut(d)
      PROVE  Timed(c)
  <2>1. CASE TimeoutRead(d)
    BY <2>1 DEF TimeoutRead, Timed, TypeOK
  <2>2. CASE TimeoutCommit(d)
    <3>1. caller'[c] = caller[c] \/ (caller[c] # "none" /\ caller'[c] = "answered")
      BY <2>2, AnswerKeepsTime DEF TimeoutCommit
    <3>2. c # d => firing'[c] = firing[c] /\ verdict'[c] = verdict[c]
      BY <2>2 DEF TimeoutCommit, TypeOK
    <3>3. firing'[d] = NoRow
      BY <2>2 DEF TimeoutCommit, TypeOK
    <3> QED BY <2>2, <3>1, <3>2, <3>3 DEF Timed, Pending
  <2>3. CASE TimeoutAbort(d)
    BY <2>3 DEF TimeoutAbort, Timed, TypeOK
  <2>4. CASE TimeoutReject(d)
    BY <2>4 DEF TimeoutReject, Timed, Pending, TypeOK
  <2> QED BY <1>2, <2>1, <2>2, <2>3, <2>4 DEF TimingOut
<1>3. CASE Resolving
  <2>1. ASSUME NEW a \in acks, ResolveAnswer(a)
        PROVE  Timed(c)
    <3>1. a.cmd \in Commands
      BY DEF TypeOK
    <3>2. caller'[c] = caller[c] \/ (caller[c] # "none" /\ caller'[c] = "answered")
      BY <2>1, <3>1, AnswerKeepsTime DEF ResolveAnswer
    <3> QED BY <2>1, <3>2 DEF ResolveAnswer, Timed, Pending
  <2>2. CASE ~\E a \in acks : ResolveAnswer(a)
    BY <1>3, <2>2 DEF Resolving, ResolveCommit, ResolveAbort, ConflictUnaudited, memory, Timed
  <2> QED BY <2>1, <2>2
<1>4. CASE Restart
  BY <1>4 DEF Restart, Timed, Pending, TypeOK
<1>5. CASE Tick \/ Sweep \/ UNCHANGED vars \/ \E d \in Commands : Reporting(d)
  BY <1>5 DEF Tick, Sweep, vars, Reporting, ResolveRead, memory, Timed
<1>6. CASE \E p \in Posts : Polling(p)
  BY <1>6 DEF Polling, PollBegin, PollCommit, PollAbort, memory, Timed
<1> QED
  BY <1>1, <1>2, <1>3, <1>4, <1>5, <1>6 DEF Next

LEMMA WaitersStep ==
  ASSUME IInv, History, [Next]_vars
  PROVE  WaitersInStep'
<1>0. TypeOK
  BY DEF IInv
<1> SUFFICES ASSUME NEW c \in Commands
             PROVE  /\ caller'[c] # "none" => cmd'[c].status # "none"
                    /\ firing'[c] # NoRow =>
                         /\ firing'[c].status # "none" /\ cmd'[c].status # "none"
                         /\ cmd'[c].deadline <= now'
  BY DEF WaitersInStep, Pending
<1>1. Timed(c)
  BY <1>0, StepsAreTimed
<1>2. cmd[c].status # "none" => cmd'[c].status # "none" /\ cmd'[c].deadline = cmd[c].deadline
  BY RowsPersist
<1>3. caller'[c] # "none" => cmd'[c].status # "none"
  BY <1>1, <1>2 DEF Timed, History, WaitersInStep
<1>4. ASSUME firing'[c] # NoRow
      PROVE  firing'[c].status # "none" /\ cmd[c].status # "none" /\ cmd[c].deadline <= now
  <2>1. CASE firing'[c] = firing[c]
    BY <1>4, <2>1 DEF History, WaitersInStep
  <2>2. CASE TimeoutRead(c)
    <3>1. caller[c] \in Pending /\ cmd[c].deadline <= now /\ firing'[c] = cmd[c]
      BY <1>0, <2>2 DEF TimeoutRead, TypeOK
    <3> QED BY <3>1 DEF History, WaitersInStep, Pending
  <2> QED BY <1>1, <1>4, <2>1, <2>2 DEF Timed
<1>5. now' >= now /\ now \in Nat /\ now' \in Nat /\ cmd[c].deadline \in Nat
  BY <1>0, ClockRuns DEF TypeOK, Row
<1> QED
  BY <1>2, <1>3, <1>4, <1>5

\* A result of a print that is turned down finds its row settled.
LEMMA RefusalMeansSettled ==
  ASSUME IInv, History, NEW t \in resolving, t.cmd \in Unsafe,
         ResolveCommit(t), Outcome(t) \notin Accepting
  PROVE  cmd'[t.cmd].status \in Terminal
<1>0. TypeOK
  BY DEF IInv
<1> DEFINE row == cmd[t.cmd]
<1>1. t.cmd \in Commands /\ row \in Row
  BY <1>0, BaseType DEF TypeOK
<1>2. cmd'[t.cmd] = Base(t)
  BY <1>0, <1>1 DEF ResolveCommit, Write, TypeOK, Accepting
<1>3. row.status \notin {"none", "queued"}
  BY DEF IInv, UnsafeIsNeverRequeued
<1>4. /\ t.lease = 1 /\ t.seen.lease = 1
      /\ t.seen.status # "in_flight" => row.status \in Terminal
  BY DEF History, ResultsInStep
<1>5. CASE t.late /\ row.status \in Open
  <2>1. Base(t) = Settled(row, TimeoutResult(t.cmd, t.seen.status))
    BY <1>5 DEF Base
  <2>2. Base(t).status \in {"expired", "delivery_unknown"}
    BY <1>1, <2>1, SettledFields, TimeoutResultType
  <2> QED BY <1>2, <2>2 DEF Terminal
<1>6. CASE ~(t.late /\ row.status \in Open)
  <2>1. Base(t) = row
    BY <1>6 DEF Base
  <2>2. row.status \in Open \union Terminal
    BY <1>1, <1>3 DEF Row, Status
  <2>3. CASE row.status \in Open
    <3>1. row.status = "in_flight" /\ t.seen.status = "in_flight" /\ ~t.late
      BY <1>3, <1>4, <1>6, <2>3 DEF Open, Terminal
    <3>2. row.lease = 1
      BY <3>1 DEF History, RowsRemember
    <3>3. Holds(View(t), t) /\ Holds(Base(t), t)
      BY <1>4, <2>1, <3>1, <3>2 DEF Holds, View
    <3>4. Outcome(t) = "accepted"
      BY <2>1, <3>1, <3>3 DEF Outcome, Same, Recoverable, Terminal, Holds
    <3> QED BY <3>4 DEF Accepting
  <2> QED BY <1>2, <2>1, <2>2, <2>3
<1> QED
  BY <1>5, <1>6

LEMMA ResultsStep ==
  ASSUME IInv, History, [Next]_vars
  PROVE  ResultsInStep'
<1>0. TypeOK
  BY DEF IInv
<1>1. ASSUME NEW t \in resolving', t.cmd \in Unsafe
      PROVE  /\ t.seen.status \in {"in_flight", "done", "failed", "delivery_unknown"}
             /\ t.lease = 1 /\ t.seen.lease = 1
             /\ t.seen.status # "in_flight" => cmd'[t.cmd].status \in Terminal
  <2>1. t.cmd \in Commands
    BY <1>1, ConstantsAssumption
  <2>2. CASE t \in resolving
    BY <1>1, <2>1, <2>2, RowsPersist DEF History, ResultsInStep
  <2>3. CASE t \notin resolving
    <3>0. PICK c \in Commands : \E lease \in 1..cmd[c].attempt : \E reply \in AgentResult :
            /\ cmd[c].status # "none" /\ cmd' = cmd
            /\ t = [cmd |-> c, lease |-> lease, reply |-> reply, seen |-> cmd[c],
                    late |-> cmd[c].status \in Open /\ cmd[c].deadline <= now]
      BY <2>3, ResolvingGrows
    <3>1. PICK lease \in 1..cmd[c].attempt, reply \in AgentResult :
            /\ cmd[c].status # "none" /\ cmd' = cmd
            /\ t = [cmd |-> c, lease |-> lease, reply |-> reply, seen |-> cmd[c],
                    late |-> cmd[c].status \in Open /\ cmd[c].deadline <= now]
      BY <3>0
    <3>2. t.cmd = c /\ t.lease = lease /\ t.seen = cmd[c]
      BY <3>1
    <3>3. /\ cmd[c].lease = cmd[c].attempt
          /\ cmd[c].attempt = IF cmd[c].status \in {"none", "queued", "expired"} THEN 0 ELSE 1
      BY <1>1, <3>2 DEF History, RowsRemember
    <3>4. cmd[c].attempt = 1 /\ lease = 1 /\ cmd[c].status \notin {"none", "queued", "expired"}
      BY <3>3
    <3>5. cmd[c].status \in Status
      BY <1>0 DEF TypeOK, Row
    <3>6. cmd[c].status \in {"in_flight", "done", "failed", "delivery_unknown"}
      BY <3>4, <3>5 DEF Status, Open, Terminal
    <3> QED BY <3>1, <3>2, <3>3, <3>4, <3>6 DEF Terminal
  <2> QED BY <2>2, <2>3
<1>2. ASSUME NEW a \in acks', a.cmd \in Unsafe, a.outcome \notin Accepting
      PROVE  cmd'[a.cmd].status \in Terminal
  <2>1. a.cmd \in Commands
    BY <1>2, ConstantsAssumption
  <2>2. CASE a \in acks
    BY <1>2, <2>1, <2>2, RowsPersist DEF History, ResultsInStep
  <2>3. CASE a \notin acks
    <3>1. PICK t \in resolving :
            /\ ResolveCommit(t)
            /\ a = [cmd |-> t.cmd, lease |-> t.lease, reply |-> t.reply, outcome |-> Outcome(t)]
      BY <2>3, AcksGrow
    <3>2. a.cmd = t.cmd /\ a.outcome = Outcome(t)
      BY <3>1
    <3> QED BY <1>2, <3>1, <3>2, RefusalMeansSettled
  <2> QED BY <2>2, <2>3
<1> QED
  BY <1>1, <1>2 DEF ResultsInStep, Terminal, Accepting

LEMMA HistoryInit == Init => History
<1> SUFFICES ASSUME Init
             PROVE  History
  OBVIOUS
<1>1. \A c \in Commands : /\ cmd[c].status = "none" /\ cmd[c].attempt = 0 /\ cmd[c].lease = 0
                          /\ ~Locked(c) /\ caller[c] = "none" /\ firing[c] = NoRow
  BY DEF Init, Blank, Locked
<1>2. resolving = {} /\ acks = {}
  BY DEF Init
<1>3. RowsRemember
  BY <1>1, ConstantsAssumption DEF RowsRemember
<1>4. DraftsRemember /\ WaitersInStep
  BY <1>1 DEF DraftsRemember, WaitersInStep, Pending
<1>5. ResultsInStep
  BY <1>2 DEF ResultsInStep
<1> QED
  BY <1>3, <1>4, <1>5 DEF History

LEMMA HistoryStep == IInv /\ History /\ [Next]_vars => History'
  BY RowsRememberStep, DraftsRememberStep, WaitersStep, ResultsStep DEF History

LEMMA HistoryInvariance == Spec => [](IInv /\ History)
  BY IInvInit, IInvStep, HistoryInit, HistoryStep, PTL DEF Spec

\* A command with a physical effect is handed out at most once, and a result
\* of one is turned down only when its row is already settled.
THEOREM HandedOutOnce == Spec => [](RowsRemember /\ ResultsInStep)
<1>1. History => RowsRemember /\ ResultsInStep
  BY DEF History
<1> QED
  BY <1>1, HistoryInvariance, PTL

-----------------------------------------------------------------------------
(* Where definite statuses and "expired" verdicts come from. *)

\* Only a result of the agent makes a row done or failed.
LEMMA DefiniteIsReported ==
  ASSUME IInv, History, [Next]_vars, NEW c \in Commands, cmd'[c].status \in {"done", "failed"}
  PROVE  \/ cmd[c].status = cmd'[c].status
         \/ \E t \in resolving : t.cmd = c /\ ResolveCommit(t) /\ t.reply.status = cmd'[c].status
<1>0. TypeOK
  BY DEF IInv
<1>1. cmd[c] \in Row
  BY <1>0 DEF TypeOK
<1> DEFINE Silent == cmd'[c].status = cmd[c].status \/ cmd'[c].status \notin {"done", "failed"}
<1>2. ASSUME NEW t \in resolving, ResolveCommit(t), c = t.cmd
      PROVE  Silent \/ t.reply.status = cmd'[c].status
  <2>1. cmd'[c] = Settled(Base(t), t.reply) \/ cmd'[c] = Base(t)
    BY <1>0, <1>2 DEF ResolveCommit, Write, TypeOK
  <2>2. CASE cmd'[c] = Settled(Base(t), t.reply)
    BY <1>0, <2>2, BaseType, SettledFields
  <2>3. CASE cmd'[c] = Base(t)
    BY <1>1, <1>2, <2>3, SettledFields, TimeoutResultType DEF Base
  <2> QED BY <2>1, <2>2, <2>3
<1>3. ASSUME NEW t \in resolving, ResolveCommit(t), c # t.cmd
      PROVE  Silent
  BY <1>0, <1>3 DEF ResolveCommit, Write, TypeOK
<1>4. CASE Resolving /\ ~\E t \in resolving : ResolveCommit(t)
  BY <1>4 DEF Resolving, ResolveAbort, ResolveAnswer, ConflictUnaudited, tables
<1>5. CASE Sweep
  BY <1>0, <1>5, ReconciledStatus DEF Sweep
<1>6. ASSUME NEW d \in Commands, TimingOut(d)
      PROVE  Silent
  <2>1. CASE TimeoutCommit(d) /\ c = d /\ firing[c].status \in Open /\ cmd[c].status = firing[c].status
    <3>1. cmd'[c] = Settled(cmd[c], TimeoutResult(c, cmd[c].status))
      BY <1>0, <2>1 DEF TimeoutCommit, Write, TypeOK
    <3> QED BY <1>1, <3>1, SettledFields, TimeoutResultType
  <2>2. CASE ~(TimeoutCommit(d) /\ c = d /\ firing[c].status \in Open /\ cmd[c].status = firing[c].status)
    BY <1>0, <1>6, <2>2 DEF TimingOut, TimeoutRead, TimeoutCommit, TimeoutAbort, TimeoutReject, Write,
                            TypeOK, tables
  <2> QED BY <2>1, <2>2
<1>7. ASSUME NEW d \in Commands, Dispatching(d)
      PROVE  Silent
  BY <1>0, <1>7 DEF Dispatching, Create, Register, Activate, ActivateFails, Write, Blank, TypeOK, tables
<1>8. CASE Tick \/ Restart \/ UNCHANGED vars \/ \E d \in Commands : Reporting(d)
  BY <1>8 DEF Tick, Restart, Reporting, ResolveRead, vars, tables
<1>9. CASE \E p \in Posts : Polling(p)
  BY <1>9 DEF Polling, PollBegin, PollCommit, PollAbort, History, DraftsRemember
<1>10. Silent \/ \E t \in resolving : t.cmd = c /\ ResolveCommit(t) /\ t.reply.status = cmd'[c].status
  BY <1>2, <1>3, <1>4, <1>5, <1>6, <1>7, <1>8, <1>9 DEF Next
<1> QED
  BY <1>10

\* A print whose request is told "expired" was still queued when its timer read
\* the row, or its row has expired.
LEMMA ExpiredVerdict ==
  ASSUME IInv, History, NEW c \in Unsafe, TimeoutCommit(c) \/ TimeoutAbort(c), verdict'[c] = "expired"
  PROVE  \/ verdict[c] = "expired"
         \/ firing[c] # NoRow /\ (firing[c].status = "queued" \/ cmd[c].status = "expired")
<1>0. TypeOK /\ c \in Commands /\ firing[c] # NoRow
  BY ConstantsAssumption DEF IInv, TimeoutCommit, TimeoutAbort
<1>1. TimeoutResult(c, "in_flight").status = "delivery_unknown"
  BY DEF TimeoutResult
<1>2. CASE TimeoutAbort(c)
  <2>1. \E status \in {"in_flight"} \union ({firing[c].status} \intersect Open) :
          TimeoutResult(c, status).status = "expired"
    BY <1>0, <1>2 DEF TimeoutAbort, TypeOK
  <2> QED BY <1>0, <1>1, <2>1 DEF Open
<1>3. CASE TimeoutCommit(c)
  <2> DEFINE seen    == firing[c]
             settles == seen.status \in Open /\ cmd[c].status = seen.status
             current == IF settles THEN Settled(cmd[c], TimeoutResult(c, seen.status))
                        ELSE IF seen.status \in Terminal THEN seen ELSE cmd[c]
  <2>1. \/ verdict[c] = "expired"
        \/ current.status \in Terminal /\ current.status = "expired"
        \/ current.status \notin Terminal /\ TimeoutResult(c, seen.status).status = "expired"
    BY <1>0, <1>3 DEF TimeoutCommit, TypeOK
  <2>2. seen \in Row /\ cmd[c] \in Row /\ seen.status # "none"
    BY <1>0 DEF TypeOK, History, WaitersInStep
  <2>3. seen.status \in Open \union Terminal
    BY <2>2 DEF Row, Status
  <2>4. Settled(cmd[c], TimeoutResult(c, seen.status)).status = TimeoutResult(c, seen.status).status
    BY <2>2, SettledFields
  <2>5. CASE seen.status = "queued"
    BY <1>0, <2>5
  <2>6. CASE seen.status = "in_flight"
    <3>1. TimeoutResult(c, seen.status).status = "delivery_unknown"
      BY <1>1, <2>6
    <3> QED BY <1>0, <2>1, <2>4, <2>6, <3>1 DEF Terminal
  <2>7. CASE seen.status \in Terminal
    <3>1. current = seen /\ ~settles
      BY <2>7 DEF Open, Terminal
    <3>2. verdict[c] = "expired" \/ seen.status = "expired"
      BY <2>1, <2>7, <3>1
    <3>3. seen.status = "expired" => cmd[c] = seen
      BY <1>0 DEF IInv, CopiesAreTrue, Final, Terminal
    <3> QED BY <1>0, <3>2, <3>3
  <2> QED BY <2>3, <2>5, <2>6, <2>7 DEF Open
<1> QED
  BY <1>2, <1>3
\* A print in flight stays in flight until its deadline, or until a result of it
\* is processed.
LEMMA InFlightEnds ==
  ASSUME IInv, History, [Next]_vars, NEW c \in Unsafe,
         cmd[c].status = "in_flight", cmd'[c].status # "in_flight"
  PROVE  cmd[c].deadline <= now \/ \E t \in resolving : t.cmd = c
<1>0. TypeOK /\ c \in Commands
  BY ConstantsAssumption DEF IInv
<1>1. ASSUME NEW t \in resolving, ResolveCommit(t)
      PROVE  t.cmd = c
  BY <1>0, <1>1 DEF ResolveCommit, Write, TypeOK
<1>2. CASE Resolving /\ ~\E t \in resolving : ResolveCommit(t)
  BY <1>2 DEF Resolving, ResolveAbort, ResolveAnswer, ConflictUnaudited, tables
<1>3. CASE Sweep
  BY <1>0, <1>3, ReconciledStatus, ReconciledIsSound DEF Sweep, Sound, Contract!Legal
<1>4. ASSUME NEW d \in Commands, TimingOut(d)
      PROVE  cmd[c].deadline <= now
  <2>1. firing[c] # NoRow
    BY <1>0, <1>4 DEF TimingOut, TimeoutRead, TimeoutCommit, TimeoutAbort, TimeoutReject, Write, TypeOK, tables
  <2> QED BY <1>0, <2>1 DEF History, WaitersInStep
<1>5. ASSUME NEW d \in Commands, Dispatching(d)
      PROVE  FALSE
  BY <1>0, <1>5 DEF Dispatching, Create, Register, Activate, ActivateFails, Write, TypeOK, tables
<1>6. CASE \E p \in Posts : Polling(p)
  <2>1. Locked(c) /\ cmd'[c] = draft[c]
    BY <1>0, <1>6 DEF Polling, PollBegin, PollCommit, PollAbort
  <2>2. /\ draft[c].status \in {"in_flight", "queued", "expired", "delivery_unknown"}
        /\ draft[c].status \in {"expired", "delivery_unknown"} => cmd[c].deadline <= now
    BY <1>0, <2>1 DEF History, DraftsRemember
  <2>3. draft[c].status # "queued"
    BY <1>0, <2>1 DEF IInv, DraftsAreLegal, Contract!Legal
  <2> QED BY <2>1, <2>2, <2>3
<1>7. CASE Tick \/ Restart \/ UNCHANGED vars \/ \E d \in Commands : Reporting(d)
  BY <1>7 DEF Tick, Restart, Reporting, ResolveRead, vars, tables
<1> QED
  BY <1>1, <1>2, <1>3, <1>4, <1>5, <1>6, <1>7 DEF Next

-----------------------------------------------------------------------------
(* What the request that dispatched a command is told. *)

Waits == {"none", "creating"} \union Pending

\* It is told the status of the row, the verdict of its timer, or an error.
Hears(c) ==
  /\ caller[c] \in {"creating"} \union Pending
  /\ cmd'[c] = cmd[c]
  /\ \/ caller'[c] = "answered" /\ cmd[c].status \in Terminal /\ answer'[c].status = cmd[c].status
     \/ caller'[c] = "error"
     \/ caller'[c] = verdict[c] /\ verdict[c] # "none"

Listens(c) ==
  \/ caller'[c] = caller[c] /\ answer'[c] = answer[c]
  \/ caller[c] \in Waits /\ caller'[c] \in Waits
  \/ Hears(c)

LEMMA AnswerIsHeard ==
  ASSUME TypeOK, NEW c \in Commands, NEW d \in Commands, NEW result, Answer(d, result), cmd' = cmd,
         c = d => cmd[c].status \in Terminal /\ result.status = cmd[c].status
  PROVE  Listens(c)
<1>1. CASE c = d /\ caller[c] \in Pending
  <2>1. caller'[c] = "answered" /\ answer'[c] = result
    BY <1>1 DEF Answer, TypeOK
  <2> QED BY <1>1, <2>1 DEF Listens, Hears
<1>2. CASE ~(c = d /\ caller[c] \in Pending)
  BY <1>2 DEF Answer, Listens, TypeOK
<1> QED
  BY <1>1, <1>2

LEMMA CallersMove ==
  ASSUME IInv, History, [Next]_vars, NEW c \in Commands
  PROVE  Listens(c)
<1>0. TypeOK /\ CopiesAreTrue
  BY DEF IInv
<1>1. ASSUME NEW d \in Commands, Dispatching(d)
      PROVE  Listens(c)
  <2>1. CASE Create(d)
    BY <1>0, <2>1 DEF Create, Listens, Waits, TypeOK, History, WaitersInStep
  <2>2. CASE Register(d)
    BY <1>0, <2>2 DEF Register, Listens, Waits, Pending, TypeOK
  <2>3. CASE Activate(d) /\ cmd[d].status \in Terminal
    BY <1>0, <2>3, AnswerIsHeard DEF Activate, tables, CopiesAreTrue
  <2>4. CASE Activate(d) /\ cmd[d].status \notin Terminal
    BY <1>0, <2>4 DEF Activate, Listens, Waits, Pending, TypeOK
  <2>5. CASE ActivateFails(d)
    BY <1>0, <2>5 DEF ActivateFails, Listens, Hears, Pending, tables, TypeOK
  <2> QED BY <1>1, <2>1, <2>2, <2>3, <2>4, <2>5 DEF Dispatching
<1>2. ASSUME NEW d \in Commands, TimeoutCommit(d)
      PROVE  Listens(c)
  <2> DEFINE seen    == firing[d]
             settles == seen.status \in Open /\ cmd[d].status = seen.status
             current == IF settles THEN Settled(cmd[d], TimeoutResult(d, seen.status))
                        ELSE IF seen.status \in Terminal THEN seen ELSE cmd[d]
  <2>1. CASE current.status \notin {"done", "failed"}
    BY <1>2, <2>1 DEF TimeoutCommit, Listens
  <2>2. CASE current.status \in {"done", "failed"}
    <3>1. ~settles
      <4>1. Settled(cmd[d], TimeoutResult(d, seen.status)).status \in {"expired", "delivery_unknown"}
        BY <1>0, SettledFields, TimeoutResultType DEF TypeOK
      <4> QED BY <2>2, <4>1
    <3>2. cmd' = cmd /\ seen # NoRow /\ Answer(d, current.result)
      BY <1>2, <2>2, <3>1 DEF TimeoutCommit
    <3>3. current = cmd[d]
      <4>1. Final(current)
        BY <2>2 DEF Final, Terminal
      <4> QED BY <1>0, <3>1, <3>2, <4>1 DEF CopiesAreTrue
    <3>4. cmd[d].status \in Terminal /\ current.result.status = cmd[d].status
      BY <1>0, <2>2, <3>3 DEF CopiesAreTrue, Terminal
    <3> QED BY <1>0, <3>2, <3>4, AnswerIsHeard
  <2> QED BY <2>1, <2>2
<1>3. ASSUME NEW d \in Commands, TimingOut(d), ~TimeoutCommit(d)
      PROVE  Listens(c)
  <2>1. CASE TimeoutReject(d)
    BY <1>0, <2>1 DEF TimeoutReject, Listens, Hears, tables, TypeOK
  <2>2. CASE TimeoutRead(d) \/ TimeoutAbort(d)
    BY <2>2 DEF TimeoutRead, TimeoutAbort, Listens
  <2> QED BY <1>3, <2>1, <2>2 DEF TimingOut
<1>4. ASSUME NEW a \in acks, ResolveAnswer(a)
      PROVE  Listens(c)
  <2>1. CASE a.outcome \in Accepting
    <3>1. a.cmd \in Commands /\ cmd' = cmd /\ Answer(a.cmd, a.reply)
      BY <1>0, <1>4, <2>1 DEF ResolveAnswer, TypeOK, tables
    <3>2. cmd[a.cmd].status \in Terminal /\ a.reply.status = cmd[a.cmd].status
      BY <1>0, <2>1, <3>1 DEF CopiesAreTrue, Final
    <3> QED BY <1>0, <3>1, <3>2, AnswerIsHeard
  <2>2. CASE a.outcome \notin Accepting
    BY <1>4, <2>2 DEF ResolveAnswer, Listens
  <2> QED BY <2>1, <2>2
<1>5. CASE Resolving /\ ~\E a \in acks : ResolveAnswer(a)
  BY <1>5 DEF Listens, Resolving, ResolveCommit, ResolveAbort, ConflictUnaudited, memory
<1>6. CASE Restart
  <2>1. cmd' = cmd /\ answer' = answer
    BY <1>6 DEF Restart
  <2>2. caller'[c] = IF caller[c] \in {"creating"} \union Pending THEN "error" ELSE caller[c]
    BY <1>6 DEF Restart
  <2> QED BY <2>1, <2>2 DEF Listens, Hears
<1>7. CASE Tick \/ Sweep \/ UNCHANGED vars \/ \E p \in Posts : Polling(p)
  BY <1>7 DEF Listens, Tick, Sweep, vars, memory, Polling, PollBegin, PollCommit, PollAbort
<1>8. CASE \E d \in Commands : Reporting(d)
  BY <1>8 DEF Listens, Reporting, ResolveRead, memory
<1> QED
  BY <1>1, <1>2, <1>3, <1>4, <1>5, <1>6, <1>7, <1>8 DEF Next

-----------------------------------------------------------------------------
(* No answer is lost between the insert of a command and its registration. *)

\* A request starts to wait only while its row is open.
LEMMA WaitingStarts ==
  ASSUME IInv, [Next]_vars, NEW c \in Commands, caller'[c] = "waiting"
  PROVE  caller[c] = "waiting" \/ (cmd' = cmd /\ cmd[c].status \notin Terminal)
<1>0. TypeOK
  BY DEF IInv
<1>1. ASSUME NEW d \in Commands, Dispatching(d)
      PROVE  caller[c] = "waiting" \/ (cmd' = cmd /\ cmd[c].status \notin Terminal)
  <2>1. CASE Create(d) \/ Register(d) \/ ActivateFails(d)
    BY <1>0, <2>1 DEF Create, Register, ActivateFails, TypeOK
  <2>2. CASE Activate(d)
    BY <1>0, <2>2 DEF Activate, Answer, TypeOK, tables
  <2> QED BY <1>1, <2>1, <2>2 DEF Dispatching
<1>2. ASSUME NEW d \in Commands, TimingOut(d)
      PROVE  caller[c] = "waiting"
  BY <1>0, <1>2 DEF TimingOut, TimeoutRead, TimeoutCommit, TimeoutAbort, TimeoutReject, Answer, TypeOK
<1>3. CASE Resolving
  BY <1>0, <1>3 DEF Resolving, ResolveCommit, ResolveAbort, ResolveAnswer, ConflictUnaudited, Answer,
                    TypeOK, memory
<1>4. CASE Restart
  BY <1>0, <1>4 DEF Restart, TypeOK
<1>5. CASE Tick \/ Sweep \/ UNCHANGED vars \/ \E d \in Commands : Reporting(d)
  BY <1>5 DEF Tick, Sweep, Reporting, ResolveRead, vars, memory
<1>6. CASE \E p \in Posts : Polling(p)
  BY <1>6 DEF Polling, PollBegin, PollCommit, PollAbort, memory
<1> QED
  BY <1>1, <1>2, <1>3, <1>4, <1>5, <1>6 DEF Next

\* The result transaction that settles a row leaves its acknowledgement behind.
LEMMA DefiniteIsAcknowledged ==
  ASSUME IInv, NEW t \in resolving, ResolveCommit(t),
         cmd[t.cmd].status \notin {"done", "failed"}, cmd'[t.cmd].status \in {"done", "failed"}
  PROVE  \E a \in acks' : a.cmd = t.cmd /\ a.outcome \in Accepting
<1>0. TypeOK
  BY DEF IInv
<1>1. t.cmd \in Commands /\ cmd[t.cmd] \in Row
  BY <1>0 DEF TypeOK
<1>2. Base(t).status \notin {"done", "failed"}
  BY <1>1, SettledFields, TimeoutResultType DEF Base
<1>3. Outcome(t) \in {"accepted", "recovered"}
  BY <1>0, <1>1, <1>2 DEF ResolveCommit, Write, TypeOK
<1>4. [cmd |-> t.cmd, lease |-> t.lease, reply |-> t.reply, outcome |-> Outcome(t)] \in acks'
  BY DEF ResolveCommit
<1> QED
  BY <1>3, <1>4 DEF Accepting

\* An acknowledgement that answers goes away with the wait, or with the process.
LEMMA AcksServe ==
  ASSUME IInv, [Next]_vars, NEW a \in acks, a.outcome \in Accepting, caller'[a.cmd] = "waiting"
  PROVE  a \in acks'
<1>0. TypeOK /\ a.cmd \in Commands
  BY DEF IInv, TypeOK
<1>1. CASE Resolving
  <2>1. ASSUME NEW b \in acks, ResolveAnswer(b)
        PROVE  b # a
    BY <1>0, <2>1 DEF ResolveAnswer, Answer, TypeOK, Pending
  <2>2. ASSUME NEW b \in acks, ConflictUnaudited(b)
        PROVE  b # a
    BY <2>2 DEF ConflictUnaudited, Accepting
  <2> QED
    BY <1>1, <2>1, <2>2 DEF Resolving, ResolveCommit, ResolveAbort, ResolveAnswer, ConflictUnaudited
<1>2. CASE Restart
  BY <1>0, <1>2 DEF Restart, Pending, TypeOK
<1>3. CASE ~Resolving /\ ~Restart
  BY <1>3 DEF Next, Dispatching, Create, Register, Activate, ActivateFails, TimingOut, TimeoutRead,
              TimeoutCommit, TimeoutAbort, TimeoutReject, Reporting, ResolveRead, Tick, Sweep,
              vars, results, Polling, PollBegin, PollCommit, PollAbort
<1> QED
  BY <1>1, <1>2, <1>3

LEMMA AnswersStep == IInv /\ History /\ NoAnswerIsMissed /\ [Next]_vars => NoAnswerIsMissed'
<1> SUFFICES ASSUME IInv, History, NoAnswerIsMissed, [Next]_vars, NEW c \in Commands,
                    caller'[c] = "waiting", cmd'[c].status \in {"done", "failed"}
             PROVE  \E a \in acks' : a.cmd = c /\ a.outcome \in Accepting
  BY DEF NoAnswerIsMissed
<1>1. CASE cmd[c].status \in {"done", "failed"}
  <2>1. caller[c] = "waiting"
    BY <1>1, WaitingStarts DEF Terminal
  <2>2. PICK a \in acks : a.cmd = c /\ a.outcome \in Accepting
    BY <1>1, <2>1 DEF NoAnswerIsMissed
  <2> QED BY <2>2, AcksServe
<1>2. CASE cmd[c].status \notin {"done", "failed"}
  BY <1>2, DefiniteIsReported, DefiniteIsAcknowledged
<1> QED
  BY <1>1, <1>2

\* The answer of an agent that is faster than dispatchCommand's registration in
\* the pending map reaches the request all the same: one that has looked at its
\* row and waits has either no definite answer yet or one under way to it.
THEOREM NoAnswerLost == Spec => []NoAnswerIsMissed
<1>1. Init => NoAnswerIsMissed
  BY DEF Init, NoAnswerIsMissed
<1>2. IInv /\ History /\ NoAnswerIsMissed /\ [Next]_vars => NoAnswerIsMissed'
  BY AnswersStep
<1> QED
  BY <1>1, <1>2, HistoryInvariance, PTL DEF Spec
================================================================================
