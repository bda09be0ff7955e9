------------------------- MODULE GatewayLinkProofs -------------------------
(***************************************************************************)
(* Theorems about a post and the platform together, for every number of    *)
(* commands, every timeout and every bound on what is under way.           *)
(***************************************************************************)
EXTENDS GatewayLink, TLAPS

\* The theorems about the platform, for the table of this post.
Proved == INSTANCE GatewayCommandsProofs
            WITH Posts <- {Post}, PostOf <- [c \in Commands |-> Post], Replies <- {Reason}

-----------------------------------------------------------------------------
(* Platform and Proved are the same module under the same substitution: each  *)
(* definition of the one is the definition of the other.                      *)

LEMMA PlatformConstants == Proved!ConstantsAssumption
  BY LinkAssumption
     DEF Proved!ConstantsAssumption, Proved!Open, Platform!Open, Proved!Terminal, Platform!Terminal,
         Proved!Status, Platform!Status, Proved!Reasons, Platform!Reasons, Proved!Result,
         Platform!Result, Proved!Row, Platform!Row, Reason

USE DEF
        Platform!tables, Proved!tables, Platform!results, Proved!results, Platform!memory,
        Proved!memory, Platform!vars, Proved!vars, Platform!Open, Proved!Open,
        Platform!Terminal, Proved!Terminal, Platform!Status, Proved!Status, Platform!Reasons,
        Proved!Reasons, Platform!Result, Proved!Result, Platform!NoResult, Proved!NoResult,
        Platform!AgentResult, Proved!AgentResult, Platform!Row, Proved!Row, Platform!Blank,
        Proved!Blank, Platform!CommandLease, Proved!CommandLease, Platform!LeaseEnd,
        Proved!LeaseEnd, Platform!TimeoutResult, Proved!TimeoutResult, Platform!Settled,
        Proved!Settled, Platform!Requeued, Proved!Requeued, Platform!Reconciled,
        Proved!Reconciled, Platform!Locked, Proved!Locked, Platform!Write, Proved!Write,
        Platform!Tick, Proved!Tick, Platform!Create, Proved!Create, Platform!Register,
        Proved!Register, Platform!Pending, Proved!Pending, Platform!Answer, Proved!Answer,
        Platform!Activate, Proved!Activate, Platform!ActivateFails, Proved!ActivateFails,
        Platform!AtPost, Proved!AtPost, Platform!Heads, Proved!Heads, Platform!Claimed,
        Proved!Claimed, Platform!PollDraft, Proved!PollDraft, Platform!PollBegin,
        Proved!PollBegin, Platform!Handout, Proved!Handout, Platform!Unlocked, Proved!Unlocked,
        Platform!PollCommit, Proved!PollCommit, Platform!PollAbort, Proved!PollAbort,
        Platform!Sweep, Proved!Sweep, Platform!ResolveRead, Proved!ResolveRead, Platform!Holds,
        Proved!Holds, Platform!Same, Proved!Same, Platform!Recoverable, Proved!Recoverable,
        Platform!Base, Proved!Base, Platform!View, Proved!View, Platform!Outcome,
        Proved!Outcome, Platform!ResolveCommit, Proved!ResolveCommit, Platform!ResolveAbort,
        Proved!ResolveAbort, Platform!Accepting, Proved!Accepting, Platform!ConflictUnaudited,
        Proved!ConflictUnaudited, Platform!ResolveAnswer, Proved!ResolveAnswer,
        Platform!TimeoutRead, Proved!TimeoutRead, Platform!TimeoutCommit, Proved!TimeoutCommit,
        Platform!TimeoutAbort, Proved!TimeoutAbort, Platform!TimeoutReject,
        Proved!TimeoutReject, Platform!Restart, Proved!Restart, Platform!Init, Proved!Init,
        Platform!Dispatching, Proved!Dispatching, Platform!TimingOut, Proved!TimingOut,
        Platform!Polling, Proved!Polling, Platform!Resolving, Proved!Resolving,
        Platform!Reporting, Proved!Reporting, Platform!Next, Proved!Next, Platform!Callers,
        Proved!Callers, Platform!TypeOK, Proved!TypeOK, Platform!OneInFlightPerPost,
        Proved!OneInFlightPerPost, Platform!Final, Proved!Final, Platform!DraftsAreLegal,
        Proved!DraftsAreLegal, Platform!ClaimIsAlone, Proved!ClaimIsAlone,
        Platform!UnsafeIsNeverRequeued, Proved!UnsafeIsNeverRequeued, Platform!CopiesAreTrue,
        Proved!CopiesAreTrue, Platform!IInv, Proved!IInv, Platform!RowsRemember,
        Proved!RowsRemember, Platform!DraftsRemember, Proved!DraftsRemember,
        Platform!WaitersInStep, Proved!WaitersInStep, Platform!ResultsInStep,
        Proved!ResultsInStep, Platform!History, Proved!History, Platform!Contract!Legal,
        Proved!Contract!Legal

LEMMA SameInit == Platform!Init <=> Proved!Init
  BY Zenon

LEMMA Samevars == Platform!vars = Proved!vars
  BY Zenon

LEMMA SameTick == Platform!Tick <=> Proved!Tick
  BY Zenon

LEMMA SameDispatching ==
  ASSUME NEW c
  PROVE  Platform!Dispatching(c) <=> Proved!Dispatching(c)
  BY Zenon

LEMMA SameTimingOut ==
  ASSUME NEW c
  PROVE  Platform!TimingOut(c) <=> Proved!TimingOut(c)
  BY Zenon

LEMMA SameSweep == Platform!Sweep <=> Proved!Sweep
  BY Zenon

LEMMA SamePollBegin ==
  ASSUME NEW p
  PROVE  Platform!PollBegin(p) <=> Proved!PollBegin(p)
  BY Zenon

LEMMA SamePollCommit ==
  ASSUME NEW p
  PROVE  Platform!PollCommit(p) <=> Proved!PollCommit(p)
  BY Zenon

LEMMA SamePollAbort ==
  ASSUME NEW p
  PROVE  Platform!PollAbort(p) <=> Proved!PollAbort(p)
  BY Zenon

LEMMA SameResolveRead ==
  ASSUME NEW c, NEW lease, NEW reply
  PROVE  Platform!ResolveRead(c, lease, reply) <=> Proved!ResolveRead(c, lease, reply)
  BY Zenon DEF Platform!Cardinality, Proved!Cardinality

LEMMA SameResolveCommit ==
  ASSUME NEW t
  PROVE  Platform!ResolveCommit(t) <=> Proved!ResolveCommit(t)
  BY Zenon

LEMMA SameResolveAbort ==
  ASSUME NEW t
  PROVE  Platform!ResolveAbort(t) <=> Proved!ResolveAbort(t)
  BY Zenon

LEMMA SameConflictUnaudited ==
  ASSUME NEW a
  PROVE  Platform!ConflictUnaudited(a) <=> Proved!ConflictUnaudited(a)
  BY Zenon

LEMMA SameResolveAnswer ==
  ASSUME NEW a
  PROVE  Platform!ResolveAnswer(a) <=> Proved!ResolveAnswer(a)
  BY Zenon

LEMMA SameRestart == Platform!Restart <=> Proved!Restart
  BY Zenon

\* The invariants of the platform, before and after a step.
LEMMA SamePlatformInv ==
  /\ Platform!IInv <=> Proved!IInv
  /\ Platform!History <=> Proved!History
  /\ Platform!IInv' <=> Proved!IInv'
  /\ Platform!History' <=> Proved!History'
<1>1. Platform!IInv <=> Proved!IInv
  BY Zenon
<1>2. Platform!History <=> Proved!History
  BY Zenon
<1>3. Platform!IInv' <=> Proved!IInv'
  BY Zenon
<1>4. Platform!History' <=> Proved!History'
  BY Zenon
<1> QED
  BY <1>1, <1>2, <1>3, <1>4

LEMMA SameNames ==
  /\ Platform!Row = Proved!Row
  /\ Platform!Open = Proved!Open
  /\ Platform!Terminal = Proved!Terminal
  /\ Platform!Accepting = Proved!Accepting
  /\ Platform!AgentResult = Proved!AgentResult
  BY Zenon

HIDE DEF
        Platform!tables, Proved!tables, Platform!results, Proved!results, Platform!memory,
        Proved!memory, Platform!vars, Proved!vars, Platform!Open, Proved!Open,
        Platform!Terminal, Proved!Terminal, Platform!Status, Proved!Status, Platform!Reasons,
        Proved!Reasons, Platform!Result, Proved!Result, Platform!NoResult, Proved!NoResult,
        Platform!AgentResult, Proved!AgentResult, Platform!Row, Proved!Row, Platform!Blank,
        Proved!Blank, Platform!CommandLease, Proved!CommandLease, Platform!LeaseEnd,
        Proved!LeaseEnd, Platform!TimeoutResult, Proved!TimeoutResult, Platform!Settled,
        Proved!Settled, Platform!Requeued, Proved!Requeued, Platform!Reconciled,
        Proved!Reconciled, Platform!Locked, Proved!Locked, Platform!Write, Proved!Write,
        Platform!Tick, Proved!Tick, Platform!Create, Proved!Create, Platform!Register,
        Proved!Register, Platform!Pending, Proved!Pending, Platform!Answer, Proved!Answer,
        Platform!Activate, Proved!Activate, Platform!ActivateFails, Proved!ActivateFails,
        Platform!AtPost, Proved!AtPost, Platform!Heads, Proved!Heads, Platform!Claimed,
        Proved!Claimed, Platform!PollDraft, Proved!PollDraft, Platform!PollBegin,
        Proved!PollBegin, Platform!Handout, Proved!Handout, Platform!Unlocked, Proved!Unlocked,
        Platform!PollCommit, Proved!PollCommit, Platform!PollAbort, Proved!PollAbort,
        Platform!Sweep, Proved!Sweep, Platform!ResolveRead, Proved!ResolveRead, Platform!Holds,
        Proved!Holds, Platform!Same, Proved!Same, Platform!Recoverable, Proved!Recoverable,
        Platform!Base, Proved!Base, Platform!View, Proved!View, Platform!Outcome,
        Proved!Outcome, Platform!ResolveCommit, Proved!ResolveCommit, Platform!ResolveAbort,
        Proved!ResolveAbort, Platform!Accepting, Proved!Accepting, Platform!ConflictUnaudited,
        Proved!ConflictUnaudited, Platform!ResolveAnswer, Proved!ResolveAnswer,
        Platform!TimeoutRead, Proved!TimeoutRead, Platform!TimeoutCommit, Proved!TimeoutCommit,
        Platform!TimeoutAbort, Proved!TimeoutAbort, Platform!TimeoutReject,
        Proved!TimeoutReject, Platform!Restart, Proved!Restart, Platform!Init, Proved!Init,
        Platform!Dispatching, Proved!Dispatching, Platform!TimingOut, Proved!TimingOut,
        Platform!Polling, Proved!Polling, Platform!Resolving, Proved!Resolving,
        Platform!Reporting, Proved!Reporting, Platform!Next, Proved!Next, Platform!Callers,
        Proved!Callers, Platform!TypeOK, Proved!TypeOK, Platform!OneInFlightPerPost,
        Proved!OneInFlightPerPost, Platform!Final, Proved!Final, Platform!DraftsAreLegal,
        Proved!DraftsAreLegal, Platform!ClaimIsAlone, Proved!ClaimIsAlone,
        Platform!UnsafeIsNeverRequeued, Proved!UnsafeIsNeverRequeued, Platform!CopiesAreTrue,
        Proved!CopiesAreTrue, Platform!IInv, Proved!IInv, Platform!RowsRemember,
        Proved!RowsRemember, Platform!DraftsRemember, Proved!DraftsRemember,
        Platform!WaitersInStep, Proved!WaitersInStep, Platform!ResultsInStep,
        Proved!ResultsInStep, Platform!History, Proved!History, Platform!Contract!Legal,
        Proved!Contract!Legal

-----------------------------------------------------------------------------
(* The platform in the link makes only steps of GatewayCommands: the agent of *)
(* this post is one of the agents its environment allows.                     *)

LEMMA PlatformStarts == Init => Proved!Init
  BY SameInit DEF Init

LEMMA ResultsAreReports ==
  ASSUME IInv, ServeResult
  PROVE  \E c \in Commands : Proved!Reporting(c)
<1>1. PICK e \in sent : Platform!ResolveRead(e.cmd, e.lease, e.reply)
  BY DEF ServeResult
<1>2. e.cmd \in Commands /\ e.reply \in Proved!AgentResult
  BY SameNames DEF IInv, LinkInv, AgentTypes, Entries
<1>3. e.lease \in 1..cmd[e.cmd].attempt
  BY DEF IInv, LinkInv, OnlyWhatWasGiven, Written
<1>4. Proved!ResolveRead(e.cmd, e.lease, e.reply)
  BY <1>1, SameResolveRead
<1> QED
  BY <1>2, <1>3, <1>4 DEF Proved!Reporting

LEMMA PlatformMoves ==
  ASSUME IInv, [Next]_vars
  PROVE  [Proved!Next]_(Proved!vars)
<1>1. ASSUME UNCHANGED platform
      PROVE  UNCHANGED Proved!vars
  BY <1>1 DEF platform, Proved!vars, Proved!tables, Proved!results, Proved!memory
<1>2. CASE PlatformStep
  <2>1. CASE Platform!Tick \/ Platform!Sweep
    BY <2>1, SameTick, SameSweep DEF Proved!Next
  <2>2. CASE \E c \in Commands : Platform!Dispatching(c) \/ Platform!TimingOut(c)
    BY <2>2, SameDispatching, SameTimingOut DEF Proved!Next
  <2>3. CASE \E t \in resolving : Platform!ResolveCommit(t) \/ Platform!ResolveAbort(t)
    BY <2>3, SameResolveCommit, SameResolveAbort DEF Proved!Next, Proved!Resolving
  <2>4. CASE \E a \in acks : Platform!ConflictUnaudited(a)
    BY <2>4, SameConflictUnaudited DEF Proved!Next, Proved!Resolving
  <2> QED BY <1>2, <2>1, <2>2, <2>3, <2>4 DEF PlatformStep
<1>3. CASE ServePoll
  BY <1>3, SamePollBegin DEF ServePoll, Proved!Next, Proved!Polling
<1>4. CASE AnswerPoll
  BY <1>4, SamePollCommit DEF AnswerPoll, Proved!Next, Proved!Polling
<1>5. CASE FailPoll
  BY <1>5, SamePollAbort DEF FailPoll, Proved!Next, Proved!Polling
<1>6. CASE ServeResult
  BY <1>6, ResultsAreReports DEF Proved!Next
<1>7. CASE AnswerResult
  BY <1>7, SameResolveAnswer DEF AnswerResult, Proved!Next, Proved!Resolving
<1>8. CASE RestartPlatform
  BY <1>8, SameRestart DEF RestartPlatform, Proved!Next
<1>9. CASE \/ AgentStep \/ SendPoll \/ ReceivePoll \/ GiveUpPoll \/ SendResult \/ CrashAgent
           \/ UNCHANGED vars
  BY <1>1, <1>9 DEF AgentStep, SendPoll, ReceivePoll, GiveUpPoll, SendResult, CrashAgent, vars
<1> QED
  BY <1>2, <1>3, <1>4, <1>5, <1>6, <1>7, <1>8, <1>9 DEF Next

LEMMA PlatformKeeps ==
  ASSUME IInv, [Next]_vars
  PROVE  Platform!IInv' /\ Platform!History'
<1>1. Proved!IInv /\ Proved!History /\ [Proved!Next]_(Proved!vars)
  BY PlatformMoves, SamePlatformInv DEF IInv
<1>2. Proved!IInv'
  BY <1>1, Proved!IInvStep, PlatformConstants
<1>3. Proved!History'
  BY <1>1, Proved!HistoryStep, PlatformConstants
<1> QED
  BY <1>2, <1>3, SamePlatformInv

\* What the link needs to know of a step of the platform.
RowGoesOn(c) ==
  /\ cmd[c].attempt \in Nat /\ cmd'[c].attempt \in Nat /\ cmd'[c].attempt >= cmd[c].attempt
  /\ cmd[c].deadline \in Nat /\ cmd'[c].deadline \in Nat
  /\ cmd[c].attempt > 0 => cmd[c].status # "none"
  /\ cmd[c].status # "none" => cmd'[c].status # "none" /\ cmd'[c].deadline = cmd[c].deadline
  /\ cmd[c].status \in Platform!Terminal => cmd'[c].status \in Platform!Terminal

LEMMA PlatformTypes ==
  ASSUME IInv
  PROVE  /\ Proved!IInv /\ Proved!History /\ Proved!TypeOK
         /\ now \in Nat /\ cmd \in [Commands -> Proved!Row]
         /\ \A c \in Commands : /\ cmd[c].attempt \in Nat /\ cmd[c].deadline \in Nat
                                /\ cmd[c].attempt > 0 => cmd[c].status # "none"
         /\ budget[Post] \in Nat
<1>1. Proved!IInv /\ Proved!History /\ Proved!TypeOK
  BY SamePlatformInv DEF IInv, Proved!IInv
<1>2. now \in Nat /\ cmd \in [Commands -> Proved!Row] /\ budget[Post] \in Nat
  BY <1>1 DEF Proved!TypeOK
<1>3. ASSUME NEW c \in Commands
      PROVE  /\ cmd[c].attempt \in Nat /\ cmd[c].deadline \in Nat
             /\ cmd[c].attempt > 0 => cmd[c].status # "none"
  BY <1>1, <1>2 DEF Proved!Row, Proved!History, Proved!RowsRemember
<1> QED
  BY <1>1, <1>2, <1>3

LEMMA PlatformGoesOn ==
  ASSUME IInv, [Next]_vars
  PROVE  /\ now \in Nat /\ now' \in Nat /\ now' >= now
         /\ \A c \in Commands : RowGoesOn(c)
<1>1. /\ Proved!IInv /\ Proved!History /\ [Proved!Next]_(Proved!vars)
      /\ Proved!TypeOK /\ now \in Nat
  BY PlatformMoves, PlatformTypes
<1>2. now' \in Nat /\ now' >= now
  BY <1>1, Proved!ClockRuns, PlatformConstants
<1>3. cmd' \in [Commands -> Proved!Row]
  BY <1>1, Proved!TypeStep, PlatformConstants DEF Proved!TypeOK
<1>4. ASSUME NEW c \in Commands
      PROVE  /\ cmd'[c].attempt >= cmd[c].attempt
             /\ cmd[c].status # "none" =>
                  cmd'[c].status # "none" /\ cmd'[c].deadline = cmd[c].deadline
             /\ cmd[c].status \in Platform!Terminal => cmd'[c].status \in Platform!Terminal
  BY <1>1, Proved!RowsPersist, PlatformConstants, SameNames
<1>5. ASSUME NEW c \in Commands
      PROVE  cmd'[c].attempt \in Nat /\ cmd'[c].deadline \in Nat
  BY <1>3 DEF Proved!Row
<1> QED
  BY <1>1, <1>2, <1>4, <1>5, PlatformTypes DEF RowGoesOn

-----------------------------------------------------------------------------
(* What a step does to the agent and to the answer of its poll. *)

LEMMA AppendElements ==
  ASSUME NEW S, NEW s \in Seq(S), NEW e \in S
  PROVE  /\ Append(s, e) \in Seq(S)
         /\ \A i \in 1..Len(Append(s, e)) : Append(s, e)[i] = e \/ \E j \in 1..Len(s) : Append(s, e)[i] = s[j]
<1>1. Append(s, e) \in Seq(S) /\ Len(Append(s, e)) = Len(s) + 1
  OBVIOUS
<1>2. \A i \in 1..Len(s) : Append(s, e)[i] = s[i]
  OBVIOUS
<1>3. Append(s, e)[Len(s) + 1] = e
  OBVIOUS
<1> QED
  BY <1>1, <1>2, <1>3

LEMMA TailElements ==
  ASSUME NEW S, NEW s \in Seq(S), s # <<>>
  PROVE  /\ Tail(s) \in Seq(S) /\ Head(s) \in S
         /\ 1 \in 1..Len(s) /\ Head(s) = s[1]
         /\ \A i \in 1..Len(Tail(s)) : i + 1 \in 1..Len(s) /\ Tail(s)[i] = s[i + 1]
  OBVIOUS

\* The agent keeps what it has in hand and what it wrote down.
Rests ==
  /\ UNCHANGED <<pollStart, job, outbox, quarantine, invoked, effects, handed, sent>>
  /\ pc' = pc \/ (job = NoJob /\ pc' \in {"idle", "flushing"})

Sends ==
  /\ pc = "flushing" /\ outbox # <<>> /\ sent' = sent \union {Head(outbox)} /\ pc' = "sending"
  /\ UNCHANGED <<pollStart, job, outbox, quarantine, invoked, effects, handed>>

Forgets ==
  /\ pc = "sending" /\ outbox' = Tail(outbox) /\ pc' = "flushing"
  /\ UNCHANGED <<pollStart, job, invoked, effects, handed, sent>>

Polls ==
  /\ pc = "flushing" /\ pollStart' = now /\ pc' = "polling"
  /\ UNCHANGED <<job, outbox, quarantine, invoked, effects, handed, sent>>

Takes(given) ==
  /\ pc = "polling" /\ given \in handed /\ handed' = {} /\ job' = given /\ pc' = "polled"
  /\ UNCHANGED <<pollStart, outbox, quarantine, invoked, effects, sent>>

Drops ==
  /\ job' = NoJob /\ handed' = {} /\ pollStart' = 0 /\ pc' = "idle"
  /\ UNCHANGED <<outbox, quarantine, invoked, effects, sent>>

Writes(status) ==
  /\ pc \in {"polled", "executing", "performed"}
  /\ pc = "polled" => status = "failed"
  /\ pc = "executing" => status \in {"failed", "delivery_unknown"}
  /\ pc = "performed" => status \in {"done", "delivery_unknown"}
  /\ outbox' = Append(outbox, Agent!Entry(status))
  /\ job' = NoJob /\ pollStart' = 0 /\ pc' = "flushing"
  /\ UNCHANGED <<quarantine, invoked, effects, handed, sent>>

Invokes ==
  /\ pc = "polled" /\ Agent!HasExecutionGrant
  /\ invoked' = invoked \union {[cmd |-> job.cmd, at |-> now]} /\ pc' = "executing"
  /\ UNCHANGED <<pollStart, job, outbox, quarantine, effects, handed, sent>>

Performs ==
  /\ pc = "executing"
  /\ effects' = [effects EXCEPT ![job.cmd] = @ + 1] /\ pc' = "performed"
  /\ UNCHANGED <<pollStart, job, outbox, quarantine, invoked, handed, sent>>

IsGiven ==
  /\ poll = "serving"
  /\ handed' = {[cmd |-> c, lease |-> draft[c].lease, budget |-> budget[Post]] :
                  c \in Platform!Handout(Post)}
  /\ Proved!PollCommit(Post)
  /\ UNCHANGED <<now, pc, pollStart, job, outbox, quarantine, invoked, effects, sent>>

AgentDid ==
  \/ Rests \/ Sends \/ Forgets \/ Polls \/ Drops \/ Invokes \/ Performs \/ IsGiven
  \/ \E given \in handed : Takes(given)
  \/ \E status \in {"done", "failed", "delivery_unknown"} : Writes(status)

LEMMA AgentCases ==
  ASSUME TypeOK, [Next]_vars
  PROVE  AgentDid
<1>1. CASE PlatformStep \/ ServePoll \/ FailPoll \/ ServeResult \/ RestartPlatform \/ UNCHANGED vars
  BY <1>1 DEF PlatformStep, ServePoll, FailPoll, ServeResult, RestartPlatform, vars, agent, network,
              Rests, AgentDid
<1>2. CASE AgentStep
  <2>1. CASE \/ \E allowed \in BOOLEAN : Agent!HeartbeatAcked(allowed)
             \/ Agent!Wake \/ Agent!PollNotAllowed \/ Agent!ResultUnanswered
    BY <1>2, <2>1 DEF AgentStep, network, TypeOK, Agent!HeartbeatAcked, Agent!Wake, Agent!PollNotAllowed,
                      Agent!ResultUnanswered, Agent!durable, Agent!world, Agent!Goto, Rests, AgentDid
  <2>2. CASE Agent!Refuse
    <3>1. Writes("failed")
      BY <1>2, <2>2 DEF AgentStep, network, Agent!Refuse, Agent!Store, Agent!world, Agent!Goto, Writes
    <3> QED BY <3>1 DEF AgentDid
  <2>3. CASE Agent!Finish
    <3>1. \E status \in {"done", "failed", "delivery_unknown"} : Writes(status)
      BY <1>2, <2>3 DEF AgentStep, network, Agent!Finish, Agent!Store, Agent!world, Agent!Goto, Writes
    <3> QED BY <3>1 DEF AgentDid
  <2>4. CASE Agent!Invoke
    BY <1>2, <2>4 DEF AgentStep, network, Agent!Invoke, Agent!durable, Agent!Goto, Invokes, AgentDid
  <2>5. CASE Agent!Perform
    BY <1>2, <2>5 DEF AgentStep, network, Agent!Perform, Agent!durable, Agent!Goto, Performs, AgentDid
  <2> QED BY <1>2, <2>1, <2>2, <2>3, <2>4, <2>5 DEF AgentStep
<1>3. CASE SendPoll
  BY <1>3 DEF SendPoll, Agent!Poll, Agent!durable, Agent!world, Agent!Goto, Polls, AgentDid
<1>4. CASE AnswerPoll
  <2>1. Proved!PollCommit(Post) /\ now' = now
    BY <1>4, SamePollCommit DEF AnswerPoll, Proved!PollCommit
  <2> QED BY <1>4, <2>1 DEF AnswerPoll, agent, IsGiven, Rests, AgentDid
<1>5. CASE ReceivePoll
  <2>1. CASE \E given \in handed : Agent!PollAnswered(given)
    BY <1>5, <2>1 DEF ReceivePoll, Agent!PollAnswered, Agent!durable, Agent!world, Agent!Goto, Takes,
                      AgentDid
  <2>2. CASE Agent!PollEmpty
    BY <1>5, <2>2 DEF ReceivePoll, Agent!PollEmpty, Agent!durable, Agent!world, Agent!Goto, Drops,
                      AgentDid, TypeOK
  <2> QED BY <1>5, <2>1, <2>2 DEF ReceivePoll
<1>6. CASE GiveUpPoll
  BY <1>6 DEF GiveUpPoll, Abandon, Agent!PollEmpty, Agent!durable, Agent!world, Agent!Goto, Drops,
              AgentDid, TypeOK
<1>7. CASE SendResult
  BY <1>7 DEF SendResult, Agent!SendResult, Agent!durable, Agent!world, Agent!Goto, Sends, AgentDid
<1>8. CASE AnswerResult
  BY <1>8 DEF AnswerResult, network, agent, Agent!ResultAcked, Agent!ResultRejected, Agent!world,
              Agent!Goto, Forgets, Rests, AgentDid
<1>9. CASE CrashAgent
  BY <1>9 DEF CrashAgent, Abandon, Agent!Crash, Agent!durable, Agent!world, Agent!Goto, Drops, AgentDid
<1> QED
  BY <1>1, <1>2, <1>3, <1>4, <1>5, <1>6, <1>7, <1>8, <1>9 DEF Next

-----------------------------------------------------------------------------
(* Types and places. *)

LEMMA EntryType ==
  ASSUME TypeOK, AgentTypes, job # NoJob, NEW status \in {"done", "failed", "delivery_unknown"}
  PROVE  /\ Agent!Entry(status) \in Entries
         /\ Agent!Entry(status).cmd = job.cmd /\ Agent!Entry(status).lease = job.lease
         /\ Agent!Entry(status).reply.status = status
<1>1. job \in Jobs
  BY DEF AgentTypes
<1>2. Agent!Reply(status) \in Platform!AgentResult /\ Agent!Reply(status).status = status
  BY DEF Agent!Reply, Platform!AgentResult
<1>3. job.cmd \in Commands /\ job.lease \in Nat
  BY <1>1 DEF Jobs
<1> HIDE DEF Agent!Reply
<1> QED
  BY <1>2, <1>3 DEF Agent!Entry, Entries

LEMMA HandedTypes ==
  ASSUME IInv, handed' = {[cmd |-> c, lease |-> draft[c].lease, budget |-> budget[Post]] :
                            c \in Platform!Handout(Post)}
  PROVE  handed' \subseteq Jobs
<1>1. budget[Post] \in Nat /\ Proved!TypeOK
  BY PlatformTypes
<1>2. ASSUME NEW c \in Platform!Handout(Post)
      PROVE  c \in Commands /\ draft[c].lease \in Nat
  BY <1>1, <1>2 DEF Platform!Handout, Platform!AtPost, Platform!Locked, Proved!TypeOK, Proved!Row
<1> QED
  BY <1>1, <1>2 DEF Jobs

LEMMA AgentTypesStep ==
  ASSUME IInv, [Next]_vars
  PROVE  AgentTypes'
<1> USE DEF IInv, LinkInv
<1>0. AgentDid /\ now \in Nat
  BY AgentCases, PlatformTypes
<1>1. CASE Rests \/ Polls \/ Drops
  BY <1>0, <1>1 DEF Rests, Polls, Drops, AgentTypes, Jobs, Entries
<1>2. CASE Sends
  <2>1. Head(outbox) \in Entries
    BY <1>2, TailElements DEF Sends, AgentTypes
  <2> QED BY <1>2, <2>1 DEF Sends, AgentTypes, Jobs, Entries
<1>3. CASE Forgets
  <2>1. Tail(outbox) \in Seq(Entries)
    BY <1>3, TailElements DEF Forgets, AgentTypes, InPlace
  <2> QED BY <1>3, <2>1 DEF Forgets, AgentTypes, Jobs, Entries
<1>4. CASE Invokes
  <2>1. job \in Jobs
    BY <1>4 DEF Invokes, TypeOK, AgentTypes
  <2>2. [cmd |-> job.cmd, at |-> now] \in [cmd : Commands, at : Nat]
    BY <1>0, <2>1 DEF Jobs
  <2> QED BY <1>4, <2>2 DEF Invokes, AgentTypes, Jobs, Entries
<1>5. CASE Performs
  <2>1. job \in Jobs
    BY <1>5 DEF Performs, TypeOK, AgentTypes
  <2>2. job.cmd \in Commands
    BY <2>1 DEF Jobs
  <2>3. effects' \in [Commands -> Nat]
    BY <1>5, <2>2 DEF Performs, AgentTypes
  <2> QED BY <1>5, <2>3 DEF Performs, AgentTypes, Jobs, Entries
<1>6. CASE IsGiven
  <2>1. handed' \subseteq Jobs
    BY <1>6, HandedTypes DEF IsGiven
  <2> QED BY <1>6, <2>1 DEF IsGiven, AgentTypes, Jobs, Entries
<1>7. CASE \E given \in handed : Takes(given)
  BY <1>7 DEF Takes, AgentTypes, Jobs, Entries
<1>8. ASSUME NEW status \in {"done", "failed", "delivery_unknown"}, Writes(status)
      PROVE  AgentTypes'
  <2>1. Agent!Entry(status) \in Entries
    BY <1>8, EntryType DEF Writes, TypeOK
  <2>2. outbox' \in Seq(Entries)
    BY <1>8, <2>1, AppendElements DEF Writes, AgentTypes
  <2> QED BY <1>8, <2>2 DEF Writes, AgentTypes, Jobs, Entries
<1> QED
  BY <1>0, <1>1, <1>2, <1>3, <1>4, <1>5, <1>6, <1>7, <1>8 DEF AgentDid

\* The counters and places that AgentDid leaves out.
LEMMA PlacesStep ==
  ASSUME TypeOK, InPlace, [Next]_vars
  PROVE  /\ pollAllowed' \in BOOLEAN
         /\ pc' \in Agent!Places
         /\ poll' \in PollPlaces
         /\ late' \in 0..MaxLate
         /\ poll' # "none" => pc' = "polling"
         /\ handed' # {} => poll' = "answered"
         /\ pc' = "sending" => outbox' # <<>>
<1> USE DEF TypeOK, InPlace, Agent!Places, PollPlaces, Agent!Goto, Agent!durable, Agent!world
<1>1. CASE PlatformStep \/ ServeResult \/ UNCHANGED vars
  BY <1>1 DEF PlatformStep, ServeResult, vars, agent, network
<1>2. CASE RestartPlatform \/ FailPoll
  BY <1>2 DEF RestartPlatform, FailPoll, agent
<1>3. CASE AgentStep
  BY <1>3 DEF AgentStep, network, Agent!HeartbeatAcked, Agent!Wake, Agent!PollNotAllowed,
              Agent!ResultUnanswered, Agent!Refuse, Agent!Store, Agent!Finish, Agent!Invoke, Agent!Perform
<1>4. CASE SendPoll \/ SendResult
  BY <1>4 DEF SendPoll, Agent!Poll, SendResult, Agent!SendResult
<1>5. CASE ServePoll
  BY <1>5, LinkAssumption DEF ServePoll, agent
<1>6. CASE AnswerPoll
  BY <1>6 DEF AnswerPoll, agent
<1>7. CASE ReceivePoll
  BY <1>7 DEF ReceivePoll, Agent!PollAnswered, Agent!PollEmpty
<1>8. CASE GiveUpPoll \/ CrashAgent
  <2>1. late' \in 0..MaxLate /\ poll' = "none" /\ handed' = {}
    BY <1>8, LinkAssumption DEF GiveUpPoll, CrashAgent, Abandon
  <2>2. pc' = "idle" /\ pollAllowed' \in BOOLEAN
    BY <1>8 DEF GiveUpPoll, CrashAgent, Agent!PollEmpty, Agent!Crash
  <2> QED BY <2>1, <2>2
<1>9. CASE AnswerResult
  BY <1>9 DEF AnswerResult, network, agent, Agent!ResultAcked, Agent!ResultRejected
<1> QED
  BY <1>1, <1>2, <1>3, <1>4, <1>5, <1>6, <1>7, <1>8, <1>9 DEF Next

\* While the agent's poll is being served, the post is locked.
LEMMA ServingStep ==
  ASSUME InPlace, [Next]_vars, poll' = "serving"
  PROVE  Post \in polling'
<1>1. CASE PlatformStep \/ ServeResult \/ AnswerResult
  <2>1. polling' = polling /\ poll' = poll
    BY <1>1 DEF PlatformStep, ServeResult, AnswerResult, network, Platform!Tick, Platform!Dispatching,
                Platform!Create, Platform!Register, Platform!Activate, Platform!ActivateFails,
                Platform!TimingOut, Platform!TimeoutRead, Platform!TimeoutCommit, Platform!TimeoutAbort,
                Platform!TimeoutReject, Platform!Sweep, Platform!ResolveCommit, Platform!ResolveAbort,
                Platform!ConflictUnaudited, Platform!ResolveAnswer, Platform!ResolveRead,
                Platform!tables
  <2> QED BY <2>1 DEF InPlace
<1>2. CASE ServePoll
  BY <1>2 DEF ServePoll, Platform!PollBegin
<1>3. CASE AnswerPoll \/ FailPoll \/ RestartPlatform \/ ReceivePoll \/ GiveUpPoll \/ CrashAgent \/ SendPoll
  BY <1>3 DEF AnswerPoll, FailPoll, RestartPlatform, ReceivePoll, GiveUpPoll, CrashAgent, Abandon, SendPoll
<1>4. CASE AgentStep \/ SendResult \/ UNCHANGED vars
  BY <1>4 DEF AgentStep, SendResult, vars, platform, network, InPlace
<1> QED
  BY <1>1, <1>2, <1>3, <1>4 DEF Next

\* The agent handles a command in three places of its loop and nowhere else.
LEMMA JobStep ==
  ASSUME TypeOK, AgentTypes, [Next]_vars
  PROVE  (job' # NoJob) = (pc' \in {"polled", "executing", "performed"})
<1>1. AgentDid
  BY AgentCases
<1>2. CASE \/ Rests \/ Sends \/ Forgets \/ Polls \/ Drops \/ IsGiven \/ Invokes \/ Performs
           \/ \E status \in {"done", "failed", "delivery_unknown"} : Writes(status)
  BY <1>2 DEF Rests, Sends, Forgets, Polls, Drops, IsGiven, Invokes, Performs, Writes, TypeOK
<1>3. ASSUME NEW given \in handed, Takes(given)
      PROVE  job' # NoJob /\ pc' = "polled"
  BY <1>3, LinkAssumption DEF Takes, AgentTypes
<1> QED
  BY <1>1, <1>2, <1>3 DEF AgentDid

-----------------------------------------------------------------------------
(* What is written, sent and processed. *)

LEMMA HeadIsStored ==
  ASSUME AgentTypes, outbox # <<>>
  PROVE  Head(outbox) \in Stored /\ Head(outbox) \in Written /\ Head(outbox) \in Entries
  BY TailElements DEF AgentTypes, Stored, Written

\* A result is written when the agent is done with its command, and only then.
LEMMA WrittenGrows ==
  ASSUME IInv, [Next]_vars, NEW e \in Written'
  PROVE  \/ e \in Written
         \/ \E status \in {"done", "failed", "delivery_unknown"} :
              Writes(status) /\ e = Agent!Entry(status)
<1> USE DEF IInv, LinkInv
<1>0. AgentDid /\ outbox \in Seq(Entries)
  BY AgentCases DEF AgentTypes
<1>1. CASE Rests \/ Polls \/ Drops \/ Invokes \/ Performs \/ IsGiven \/ \E given \in handed : Takes(given)
  BY <1>1 DEF Rests, Polls, Drops, Invokes, Performs, IsGiven, Takes, Written, Stored
<1>2. CASE Sends
  <2>1. Head(outbox) \in Stored
    BY <1>2, HeadIsStored DEF Sends
  <2> QED BY <1>2, <2>1 DEF Sends, Written, Stored
<1>3. CASE Forgets
  <2>1. \A i \in 1..Len(Tail(outbox)) : i + 1 \in 1..Len(outbox) /\ Tail(outbox)[i] = outbox[i + 1]
    BY <1>0, <1>3, TailElements DEF Forgets, InPlace
  <2>2. Stored' \subseteq Stored
    BY <1>3, <2>1 DEF Forgets, Stored
  <2> QED BY <1>3, <2>2 DEF Forgets, Written
<1>4. ASSUME NEW status \in {"done", "failed", "delivery_unknown"}, Writes(status)
      PROVE  e \in Written \/ e = Agent!Entry(status)
  <2>1. Agent!Entry(status) \in Entries
    BY <1>4, EntryType DEF Writes, TypeOK
  <2>2. \A i \in 1..Len(outbox') : outbox'[i] = Agent!Entry(status) \/ \E j \in 1..Len(outbox) : outbox'[i] = outbox[j]
    BY <1>0, <1>4, <2>1, AppendElements DEF Writes
  <2> QED BY <1>4, <2>2 DEF Writes, Written, Stored
<1> QED
  BY <1>0, <1>1, <1>2, <1>3, <1>4 DEF AgentDid

LEMMA SentStays ==
  ASSUME TypeOK, [Next]_vars
  PROVE  sent \subseteq sent'
<1>1. AgentDid
  BY AgentCases
<1> QED
  BY <1>1 DEF AgentDid, Rests, Sends, Forgets, Polls, Drops, Takes, Writes, Invokes, Performs, IsGiven

\* The platform processes only results that were sent.
LEMMA OnlySentIsProcessed ==
  ASSUME IInv, [Next]_vars, NEW t \in resolving'
  PROVE  [cmd |-> t.cmd, lease |-> t.lease, reply |-> t.reply] \in sent
<1> USE DEF IInv, LinkInv
<1>1. CASE t \in resolving
  BY <1>1 DEF OnlyWhatWasGiven
<1>2. CASE ServeResult
  <2>1. PICK e \in sent : Platform!ResolveRead(e.cmd, e.lease, e.reply)
    BY <1>2 DEF ServeResult
  <2>2. t \in resolving \/ (t.cmd = e.cmd /\ t.lease = e.lease /\ t.reply = e.reply)
    BY <2>1 DEF Platform!ResolveRead
  <2>3. [cmd |-> e.cmd, lease |-> e.lease, reply |-> e.reply] = e
    BY DEF AgentTypes, Entries
  <2> QED BY <1>1, <2>2, <2>3
<1>3. CASE ~ServeResult
  <2>1. CASE PlatformStep \/ AnswerResult
    BY <1>1, <2>1 DEF PlatformStep, AnswerResult, Platform!Tick, Platform!Dispatching,
                Platform!Create, Platform!Register, Platform!Activate, Platform!ActivateFails,
                Platform!TimingOut, Platform!TimeoutRead, Platform!TimeoutCommit, Platform!TimeoutAbort,
                Platform!TimeoutReject, Platform!Sweep, Platform!ResolveCommit, Platform!ResolveAbort,
                Platform!ConflictUnaudited, Platform!ResolveAnswer, Platform!results
  <2>2. CASE ServePoll \/ AnswerPoll \/ FailPoll \/ RestartPlatform
    BY <1>1, <2>2 DEF ServePoll, AnswerPoll, FailPoll, RestartPlatform, Platform!PollBegin,
                Platform!PollCommit, Platform!PollAbort, Platform!Restart, Platform!results
  <2>3. CASE AgentStep \/ SendPoll \/ ReceivePoll \/ GiveUpPoll \/ SendResult \/ CrashAgent \/ UNCHANGED vars
    BY <1>1, <2>3 DEF AgentStep, SendPoll, ReceivePoll, GiveUpPoll, SendResult, CrashAgent, vars, platform
  <2> QED BY <1>3, <2>1, <2>2, <2>3 DEF Next
<1> QED
  BY <1>2, <1>3

LEMMA OnlySentIsAnswered ==
  ASSUME IInv, [Next]_vars, NEW a \in acks'
  PROVE  [cmd |-> a.cmd, lease |-> a.lease, reply |-> a.reply] \in sent
<1>1. CASE a \in acks
  BY <1>1 DEF IInv, LinkInv, OnlyWhatWasGiven
<1>2. CASE a \notin acks
  <2>1. PICK t \in resolving :
          a = [cmd |-> t.cmd, lease |-> t.lease, reply |-> t.reply, outcome |-> Proved!Outcome(t)]
    BY <1>2, PlatformMoves, Proved!AcksGrow, PlatformConstants
  <2>2. a.cmd = t.cmd /\ a.lease = t.lease /\ a.reply = t.reply
    BY <2>1
  <2> QED BY <2>2 DEF IInv, LinkInv, OnlyWhatWasGiven
<1> QED
  BY <1>1, <1>2

\* What the agent forgets or sets aside has been answered by the platform.
LEMMA QuarantineGrows ==
  ASSUME IInv, [Next]_vars, NEW e \in quarantine'
  PROVE  \/ e \in quarantine
         \/ \E a \in acks : /\ e = [cmd |-> a.cmd, lease |-> a.lease, reply |-> a.reply]
                            /\ a.outcome \notin Platform!Accepting
                            /\ cmd' = cmd
<1> USE DEF IInv, LinkInv
<1>1. CASE AnswerResult
  BY <1>1 DEF AnswerResult, Awaited, agent, Agent!ResultAcked, Agent!ResultRejected,
              Platform!ResolveAnswer, Platform!tables
<1>2. CASE ~AnswerResult
  <2>1. quarantine' = quarantine
    BY <1>2 DEF Next, PlatformStep, AgentStep, SendPoll, ServePoll, AnswerPoll, FailPoll, ReceivePoll,
                GiveUpPoll, SendResult, ServeResult, RestartPlatform, CrashAgent, vars, agent,
                Agent!HeartbeatAcked, Agent!Wake, Agent!PollNotAllowed, Agent!ResultUnanswered,
                Agent!Refuse, Agent!Invoke, Agent!Perform, Agent!Finish, Agent!Store, Agent!Poll,
                Agent!PollAnswered, Agent!PollEmpty, Agent!SendResult, Agent!Crash, Agent!durable
  <2> QED BY <2>1
<1> QED
  BY <1>1, <1>2

LEMMA TypeOKStep ==
  ASSUME IInv, [Next]_vars
  PROVE  TypeOK' /\ InPlace'
<1> USE DEF IInv, LinkInv
<1>1. Platform!TypeOK'
  BY PlatformKeeps DEF Platform!IInv
<1>2. quarantine' \subseteq sent'
  <2>1. \A e \in quarantine' : e \in sent
    BY QuarantineGrows DEF TypeOK, OnlyWhatWasGiven
  <2> QED BY <2>1, SentStays
<1>3. TypeOK'
  BY <1>1, <1>2, PlacesStep, JobStep DEF TypeOK
<1> QED
  BY <1>3, PlacesStep, ServingStep DEF InPlace

-----------------------------------------------------------------------------
(* The inductive invariant, part by part. *)

\* A poll's commit hands out a command under the attempt it makes the row's; a
\* print among them has never been handed out before.
LEMMA GivenFacts ==
  ASSUME IInv, IsGiven, NEW h \in handed'
  PROVE  /\ h.cmd \in Commands /\ h.budget = budget[Post]
         /\ h.lease = cmd'[h.cmd].attempt /\ h.lease = cmd[h.cmd].attempt + 1
         /\ Platform!Locked(h.cmd) /\ draft[h.cmd].status = "in_flight"
         /\ h.cmd \in Unsafe => cmd[h.cmd].attempt = 0
<1>1. PICK c \in Platform!Handout(Post) :
        h = [cmd |-> c, lease |-> draft[c].lease, budget |-> budget[Post]]
  BY DEF IsGiven
<1>2. h.cmd = c /\ h.lease = draft[c].lease /\ h.budget = budget[Post]
  BY <1>1
<1>3. c \in Commands /\ Platform!Locked(c) /\ draft[c].status = "in_flight" /\ draft[c] # NoRow
  BY DEF Platform!Handout, Platform!AtPost, Platform!Locked
<1>4. cmd'[c] = draft[c]
  BY <1>3 DEF IsGiven, Proved!PollCommit, Proved!Locked
<1>5. Proved!History
  BY PlatformTypes
<1>6. /\ draft[c].attempt = cmd[c].attempt + 1
      /\ draft[c].lease = draft[c].attempt
      /\ c \in Unsafe => cmd[c].status = "queued"
  BY <1>3, <1>5 DEF Proved!History, Proved!DraftsRemember, Proved!Locked
<1>7. c \in Unsafe => cmd[c].attempt = 0
  BY <1>5, <1>6 DEF Proved!History, Proved!RowsRemember
<1> QED
  BY <1>2, <1>3, <1>4, <1>6, <1>7

LEMMA OnlyWhatWasGivenStep ==
  ASSUME IInv, [Next]_vars
  PROVE  OnlyWhatWasGiven'
<1> USE DEF IInv, LinkInv
<1>0. AgentDid /\ AgentTypes'
  BY AgentCases, AgentTypesStep
<1>1. \A c \in Commands : /\ cmd[c].attempt \in Nat /\ cmd'[c].attempt \in Nat
                          /\ cmd'[c].attempt >= cmd[c].attempt
  BY PlatformGoesOn DEF RowGoesOn
<1>2. ASSUME NEW h \in handed'
      PROVE  h.lease \in 1..cmd'[h.cmd].attempt
  <2>1. CASE h \in handed
    <3>1. h.cmd \in Commands
      BY <2>1 DEF AgentTypes, Jobs
    <3> QED BY <1>1, <2>1, <3>1 DEF OnlyWhatWasGiven
  <2>2. CASE IsGiven
    BY <1>1, <2>2, GivenFacts
  <2>3. CASE ~IsGiven
    <3>1. h \in handed
      BY <1>0, <2>3 DEF AgentDid, Rests, Sends, Forgets, Polls, Drops, Takes, Writes, Invokes, Performs
    <3> QED BY <2>1, <3>1
  <2> QED BY <2>2, <2>3
<1>3. ASSUME job' # NoJob
      PROVE  job'.lease \in 1..cmd'[job'.cmd].attempt
  <2>1. job' = job \/ job' \in handed
    BY <1>0, <1>3 DEF AgentDid, Rests, Sends, Forgets, Polls, Drops, Takes, Writes, Invokes, Performs, IsGiven
  <2>2. job'.lease \in 1..cmd[job'.cmd].attempt
    BY <1>3, <2>1 DEF OnlyWhatWasGiven
  <2>3. job'.cmd \in Commands
    BY <1>0, <1>3 DEF AgentTypes, Jobs
  <2> QED BY <1>1, <2>2, <2>3
<1>4. ASSUME NEW e \in Written'
      PROVE  e.lease \in 1..cmd'[e.cmd].attempt
  <2>1. e.lease \in 1..cmd[e.cmd].attempt /\ e.cmd \in Commands
    <3>1. CASE e \in Written
      <4>1. e \in Entries
        BY <3>1 DEF Written, Stored, AgentTypes
      <4> QED BY <3>1, <4>1 DEF OnlyWhatWasGiven, Entries
    <3>2. ASSUME NEW status \in {"done", "failed", "delivery_unknown"},
                 Writes(status), e = Agent!Entry(status)
          PROVE  e.lease \in 1..cmd[e.cmd].attempt /\ e.cmd \in Commands
      <4>1. job # NoJob
        BY <3>2 DEF Writes, TypeOK
      <4>2. e.cmd = job.cmd /\ e.lease = job.lease /\ job.cmd \in Commands
        BY <3>2, <4>1, EntryType DEF AgentTypes, Jobs
      <4> QED BY <4>1, <4>2 DEF OnlyWhatWasGiven
    <3> QED BY <3>1, <3>2, WrittenGrows
  <2> QED BY <1>1, <2>1
<1>5. ASSUME NEW i \in invoked'
      PROVE  cmd'[i.cmd].attempt > 0
  <2>1. i.cmd \in Commands
    BY <1>0 DEF AgentTypes
  <2>2. cmd[i.cmd].attempt > 0
    <3>1. CASE i \in invoked
      BY <3>1 DEF OnlyWhatWasGiven
    <3>2. CASE i \notin invoked
      <4>1. Invokes
        BY <1>0, <3>2 DEF AgentDid, Rests, Sends, Forgets, Polls, Drops, Takes, Writes, Performs, IsGiven
      <4>2. i.cmd = job.cmd /\ job # NoJob
        BY <3>2, <4>1 DEF Invokes, TypeOK
      <4> QED BY <1>1, <2>1, <4>2 DEF OnlyWhatWasGiven
    <3> QED BY <3>1, <3>2
  <2> QED BY <1>1, <2>1, <2>2
<1>6. pc' \in {"executing", "performed"} => Run(job.cmd)'
  <2>1. CASE Invokes
    <3>1. [cmd |-> job.cmd, at |-> now] \in invoked' /\ job' = job
      BY <2>1 DEF Invokes
    <3>2. [cmd |-> job.cmd, at |-> now].cmd = job'.cmd
      BY <3>1
    <3> QED BY <3>1, <3>2 DEF Run
  <2>2. CASE ~Invokes
    BY <1>0, <2>2 DEF AgentDid, Rests, Sends, Forgets, Polls, Drops, Takes, Writes, Performs, IsGiven,
                      OnlyWhatWasGiven, Run
  <2> QED BY <2>1, <2>2
<1>7. ASSUME NEW c \in Commands, effects'[c] > 0
      PROVE  Run(c)'
  <2>1. CASE Performs
    <3>1. c = job.cmd \/ effects'[c] = effects[c]
      BY <2>1 DEF Performs, AgentTypes
    <3>2. Run(job.cmd)
      BY <2>1 DEF Performs, OnlyWhatWasGiven
    <3> QED BY <1>7, <2>1, <3>1, <3>2 DEF Performs, OnlyWhatWasGiven, Run
  <2>2. CASE ~Performs
    <3>1. effects' = effects /\ invoked \subseteq invoked'
      BY <1>0, <2>2 DEF AgentDid, Rests, Sends, Forgets, Polls, Drops, Takes, Writes, Invokes, IsGiven
    <3> QED BY <1>7, <3>1 DEF OnlyWhatWasGiven, Run
  <2> QED BY <2>1, <2>2
<1>8. \A t \in resolving' : [cmd |-> t.cmd, lease |-> t.lease, reply |-> t.reply] \in sent'
  BY OnlySentIsProcessed, SentStays
<1>9. \A a \in acks' : [cmd |-> a.cmd, lease |-> a.lease, reply |-> a.reply] \in sent'
  BY OnlySentIsAnswered, SentStays
<1> QED
  BY <1>2, <1>3, <1>4, <1>5, <1>6, <1>7, <1>8, <1>9 DEF OnlyWhatWasGiven

\* Before its first handout nothing of a command is known to the agent.
LEMMA NothingBeforeHandout ==
  ASSUME IInv, NEW c \in Commands, cmd[c].attempt = 0
  PROVE  ~Run(c) /\ \A e \in Written : e.cmd # c
<1> USE DEF IInv, LinkInv
<1>1. \A e \in Written : e.lease \in 1..cmd[e.cmd].attempt
  BY DEF OnlyWhatWasGiven
<1>2. \A i \in invoked : cmd[i.cmd].attempt > 0
  BY DEF OnlyWhatWasGiven
<1>3. \A e \in Written : e.cmd # c
  BY <1>1
<1> QED
  BY <1>2, <1>3 DEF Run

LEMMA CourseStep ==
  ASSUME IInv, [Next]_vars, NEW c \in Unsafe
  PROVE  Course(c)'
<1> USE DEF IInv, LinkInv
<1>0. AgentDid /\ Course(c) /\ c \in Commands /\ effects[c] \in Nat
  BY AgentCases, LinkAssumption DEF OneCourse, AgentTypes
<1>1. ASSUME NEW e \in Written', ~\E status \in {"done", "failed", "delivery_unknown"} : Writes(status)
      PROVE  e \in Written
  BY <1>1, WrittenGrows
<1>2. CASE Rests \/ Sends \/ Forgets \/ Polls \/ Drops
  <2>1. \A e \in Written' : e \in Written
    BY <1>1, <1>2 DEF Rests, Sends, Forgets, Polls, Drops, Writes
  <2>2. /\ handed' \subseteq handed /\ effects' = effects /\ invoked' = invoked
        /\ Held(c)' => Held(c) /\ pc' = pc
    BY <1>2 DEF Rests, Sends, Forgets, Polls, Drops, Held, TypeOK
  <2> QED BY <1>0, <2>1, <2>2 DEF Course, Run
<1>3. CASE IsGiven
  <2>1. \A e \in Written' : e \in Written
    BY <1>3 DEF IsGiven, Written, Stored
  <2>2. ASSUME NEW h \in handed', h.cmd = c
        PROVE  ~Run(c) /\ \A e \in Written : e.cmd # c
    BY <1>0, <1>3, <2>2, GivenFacts, NothingBeforeHandout
  <2> QED BY <1>0, <1>3, <2>1, <2>2 DEF IsGiven, Course, Run, Held
<1>4. ASSUME NEW given \in handed, Takes(given)
      PROVE  Course(c)'
  <2>1. \A e \in Written' : e \in Written
    BY <1>4 DEF Takes, Written, Stored
  <2>2. Held(c)' => ~Run(c) /\ \A e \in Written : e.cmd # c
    BY <1>0, <1>4 DEF Takes, Held, Course
  <2> QED BY <1>0, <1>4, <2>1, <2>2 DEF Takes, Course, Run, Held
<1>5. ASSUME NEW status \in {"done", "failed", "delivery_unknown"}, Writes(status)
      PROVE  Course(c)'
  <2>1. handed = {} /\ job # NoJob
    BY <1>5 DEF Writes, TypeOK, InPlace
  <2>2. /\ Agent!Entry(status).cmd = job.cmd
        /\ Agent!Entry(status).reply.status = status
    BY <2>1, EntryType
  <2>3. \A e \in Written' : e \in Written \/ e = Agent!Entry(status)
    <3>1. ASSUME NEW e \in Written', NEW other \in {"done", "failed", "delivery_unknown"},
                 Writes(other), e = Agent!Entry(other)
          PROVE  e \in Written \/ e = Agent!Entry(status)
      <4>1. Agent!Entry(status) \in Entries /\ Agent!Entry(other) \in Entries /\ outbox \in Seq(Entries)
        BY <2>1, EntryType DEF AgentTypes
      <4>2. /\ Append(outbox, Agent!Entry(status))[Len(outbox) + 1] = Agent!Entry(status)
            /\ Append(outbox, Agent!Entry(other))[Len(outbox) + 1] = Agent!Entry(other)
        BY <4>1
      <4>3. Append(outbox, Agent!Entry(status)) = Append(outbox, Agent!Entry(other))
        BY <1>5, <3>1 DEF Writes
      <4> QED BY <3>1, <4>2, <4>3
    <3> QED BY <3>1, WrittenGrows
  <2>4. ~Held(c)' /\ handed' = {} /\ effects' = effects
    BY <1>5, <2>1 DEF Writes, Held
  <2>5. CASE Held(c)
    <3>1. \A e \in Written : e.cmd # c
      BY <1>0, <2>5 DEF Course
    <3>2. \A e \in Written' : e.cmd = c => e = Agent!Entry(status)
      BY <2>3, <3>1
    <3>3. pc = "polled" => effects[c] = 0
      BY <1>0, <2>5 DEF Course, OnlyWhatWasGiven
    <3>4. /\ status = "done" => effects[c] = 1
          /\ status = "failed" => effects[c] = 0
      BY <1>0, <1>5, <2>5, <3>3 DEF Writes, Course
    <3>5. effects[c] <= 1
      BY <1>0 DEF Course
    <3>6. \A e \in Written' : e.cmd = c =>
            /\ e.reply.status = "done" => effects[c] = 1
            /\ e.reply.status = "failed" => effects[c] = 0
      BY <2>2, <3>2, <3>4
    <3> QED BY <2>4, <3>2, <3>5, <3>6 DEF Course
  <2>6. CASE ~Held(c)
    <3>1. \A e \in Written' : e.cmd = c => e \in Written
      BY <2>1, <2>2, <2>3, <2>6 DEF Held
    <3> QED BY <1>0, <2>4, <3>1 DEF Course
  <2> QED BY <2>5, <2>6
<1>6. CASE Invokes
  <2>1. handed' = {} /\ handed = {} /\ effects' = effects
    BY <1>6 DEF Invokes, TypeOK, InPlace
  <2>2. \A e \in Written' : e \in Written
    BY <1>6 DEF Invokes, Written, Stored
  <2>3. Held(c)' => Held(c) /\ pc' = "executing" /\ ~Run(c)
    BY <1>0, <1>6 DEF Invokes, Held, Course
  <2>4. ~Run(c) => effects[c] = 0
    BY <1>0 DEF OnlyWhatWasGiven
  <2> QED BY <1>0, <2>1, <2>2, <2>3, <2>4 DEF Course
<1>7. CASE Performs
  <2>1. handed' = {} /\ handed = {} /\ invoked' = invoked
    BY <1>7 DEF Performs, TypeOK, InPlace
  <2>2. \A e \in Written' : e \in Written
    BY <1>7 DEF Performs, Written, Stored
  <2>3. CASE Held(c)
    <3>1. effects'[c] = 1 /\ pc' = "performed"
      BY <1>0, <1>7, <2>3 DEF Performs, Held, Course, AgentTypes
    <3>2. \A e \in Written' : e.cmd # c
      BY <1>0, <2>2, <2>3 DEF Course
    <3> QED BY <2>1, <3>1, <3>2 DEF Course
  <2>4. CASE ~Held(c)
    <3>1. effects'[c] = effects[c] /\ ~Held(c)'
      BY <1>0, <1>7, <2>4 DEF Performs, Held, AgentTypes, TypeOK
    <3> QED BY <1>0, <2>1, <2>2, <3>1 DEF Course
  <2> QED BY <2>3, <2>4
<1> QED
  BY <1>0, <1>2, <1>3, <1>4, <1>5, <1>6, <1>7 DEF AgentDid

\* While a poll of the agent is being served, the draft and the budget of that
\* poll and the start of the request stay as they are.
LEMMA ServingFrame ==
  ASSUME TypeOK, InPlace, [Next]_vars, poll' = "serving"
  PROVE  \/ ServePoll /\ poll = "sent"
         \/ /\ poll = "serving" /\ draft' = draft /\ budget' = budget /\ pollStart' = pollStart
<1>1. CASE PlatformStep \/ ServeResult \/ AnswerResult
  <2>1. draft' = draft /\ budget' = budget /\ poll' = poll
    BY <1>1 DEF PlatformStep, ServeResult, AnswerResult, network, Platform!Tick, Platform!Dispatching,
                Platform!Create, Platform!Register, Platform!Activate, Platform!ActivateFails,
                Platform!TimingOut, Platform!TimeoutRead, Platform!TimeoutCommit, Platform!TimeoutAbort,
                Platform!TimeoutReject, Platform!Sweep, Platform!ResolveCommit, Platform!ResolveAbort,
                Platform!ConflictUnaudited, Platform!ResolveAnswer, Platform!ResolveRead,
                Platform!tables
  <2>2. pollStart' = pollStart
    BY <1>1 DEF PlatformStep, ServeResult, AnswerResult, network, agent, Agent!ResultAcked, Agent!ResultRejected
  <2> QED BY <2>1, <2>2
<1>2. CASE ServePoll
  BY <1>2 DEF ServePoll, Platform!PollBegin, InPlace
<1>3. CASE AnswerPoll \/ FailPoll \/ RestartPlatform \/ ReceivePoll \/ GiveUpPoll \/ CrashAgent \/ SendPoll
  BY <1>3 DEF AnswerPoll, FailPoll, RestartPlatform, ReceivePoll, GiveUpPoll, CrashAgent, Abandon, SendPoll
<1>4. CASE AgentStep
  BY <1>4 DEF AgentStep, platform, network, TypeOK, Agent!HeartbeatAcked, Agent!Wake,
              Agent!PollNotAllowed, Agent!ResultUnanswered, Agent!Refuse, Agent!Store, Agent!Finish,
              Agent!Invoke, Agent!Perform
<1>5. CASE SendResult \/ UNCHANGED vars
  BY <1>5 DEF SendResult, vars, platform, network, agent, Agent!SendResult
<1> QED
  BY <1>1, <1>2, <1>3, <1>4, <1>5 DEF Next

LEMMA BudgetInTimeStep ==
  ASSUME IInv, [Next]_vars
  PROVE  BudgetInTime'
<1> USE DEF IInv, LinkInv
<1>0. /\ AgentDid /\ AgentTypes' /\ Proved!TypeOK /\ Proved!History /\ Proved!IInv
      /\ now \in Nat /\ now' \in Nat /\ now' >= now
      /\ \A c \in Commands : RowGoesOn(c)
      /\ pollStart \in Nat /\ pollStart' \in Nat /\ budget[Post] \in Nat
  BY AgentCases, AgentTypesStep, PlatformTypes, PlatformGoesOn DEF AgentTypes
<1>1. pollStart' = pollStart \/ pollStart' = now \/ pollStart' = 0
  BY <1>0 DEF AgentDid, Rests, Sends, Forgets, Polls, Drops, Takes, Writes, Invokes, Performs, IsGiven
<1>2. pollStart' <= now'
  BY <1>0, <1>1 DEF BudgetInTime
<1>3. ASSUME NEW c \in Commands, Platform!Locked(c)
      PROVE  cmd'[c].deadline = cmd[c].deadline
  <2>1. cmd[c].status # "none"
    BY <1>0, <1>3 DEF Proved!IInv, Proved!DraftsAreLegal, Proved!Locked, Platform!Locked, Proved!Open
  <2> QED BY <1>0, <2>1 DEF RowGoesOn
<1>4. ASSUME NEW c \in Commands, poll' = "serving", Platform!Locked(c)', draft'[c].status = "in_flight"
      PROVE  pollStart' + budget'[Post] <= cmd'[c].deadline
  <2>1. CASE ServePoll /\ poll = "sent"
    <3>1. Proved!PollBegin(Post) /\ pollStart' = pollStart /\ cmd' = cmd
      BY <2>1, SamePollBegin DEF ServePoll, agent, Proved!PollBegin
    <3>2. draft'[c] # NoRow /\ Post \in {Post} /\ [d \in Commands |-> Post][c] = Post
      BY <1>4 DEF Platform!Locked
    <3>3. budget'[Post] = cmd[c].deadline - now
      BY <1>0, <1>4, <3>1, <3>2, Proved!PollBeginRemembers, PlatformConstants
    <3>4. cmd[c].deadline \in Nat
      BY PlatformTypes
    <3> QED BY <1>0, <3>1, <3>3, <3>4 DEF BudgetInTime
  <2>2. CASE poll = "serving" /\ draft' = draft /\ budget' = budget /\ pollStart' = pollStart
    <3>1. Platform!Locked(c) /\ draft[c].status = "in_flight"
      BY <1>4, <2>2 DEF Platform!Locked
    <3> QED BY <1>3, <2>2, <3>1 DEF BudgetInTime
  <2> QED BY <1>4, <2>1, <2>2, ServingFrame
<1>5. ASSUME NEW h \in handed'
      PROVE  pollStart' + h.budget <= cmd'[h.cmd].deadline
  <2>1. CASE IsGiven
    <3>1. /\ h.cmd \in Commands /\ h.budget = budget[Post]
          /\ Platform!Locked(h.cmd) /\ draft[h.cmd].status = "in_flight"
      BY <2>1, GivenFacts
    <3>2. poll = "serving" /\ pollStart' = pollStart
      BY <2>1 DEF IsGiven
    <3> QED BY <1>3, <3>1, <3>2 DEF BudgetInTime
  <2>2. CASE ~IsGiven
    <3>1. h \in handed
      BY <1>0, <2>2 DEF AgentDid, Rests, Sends, Forgets, Polls, Drops, Takes, Writes, Invokes, Performs
    <3>2. pollStart' = pollStart
      BY <1>0, <2>2, <3>1 DEF AgentDid, Rests, Sends, Forgets, Polls, Drops, Takes, Writes, Invokes,
                              Performs, InPlace, TypeOK
    <3>3. h.cmd \in Commands /\ cmd[h.cmd].attempt > 0
      <4>1. h.cmd \in Commands /\ h.lease \in 1..cmd[h.cmd].attempt
        BY <3>1 DEF AgentTypes, Jobs, OnlyWhatWasGiven
      <4> QED BY <1>0, <4>1 DEF RowGoesOn
    <3>4. cmd'[h.cmd].deadline = cmd[h.cmd].deadline
      BY <1>0, <3>3 DEF RowGoesOn
    <3> QED BY <3>1, <3>2, <3>4 DEF BudgetInTime
  <2> QED BY <2>1, <2>2
<1>6. ASSUME job' # NoJob
      PROVE  pollStart' + job'.budget <= cmd'[job'.cmd].deadline
  <2>1. /\ pollStart' = pollStart
        /\ job' = job \/ job' \in handed
    BY <1>0, <1>6 DEF AgentDid, Rests, Sends, Forgets, Polls, Drops, Takes, Writes, Invokes,
                      Performs, IsGiven, TypeOK
  <2>2. /\ job'.cmd \in Commands /\ job'.lease \in 1..cmd[job'.cmd].attempt
        /\ pollStart + job'.budget <= cmd[job'.cmd].deadline
    BY <1>6, <2>1 DEF AgentTypes, Jobs, OnlyWhatWasGiven, BudgetInTime
  <2>3. cmd'[job'.cmd].deadline = cmd[job'.cmd].deadline
    BY <1>0, <2>2 DEF RowGoesOn
  <2> QED BY <2>1, <2>2, <2>3
<1> QED
  BY <1>2, <1>4, <1>5, <1>6 DEF BudgetInTime

\* The device is touched only before the deadline.
LEMMA InvokedInTimeStep ==
  ASSUME IInv, [Next]_vars
  PROVE  InvokedInTime'
<1> USE DEF IInv, LinkInv
<1>0. /\ AgentDid /\ AgentTypes' /\ now \in Nat
      /\ \A c \in Commands : RowGoesOn(c)
  BY AgentCases, AgentTypesStep, PlatformGoesOn
<1> SUFFICES ASSUME NEW i \in invoked'
             PROVE  i.at < cmd'[i.cmd].deadline
  BY DEF InvokedInTime
<1>1. i.cmd \in Commands
  BY <1>0 DEF AgentTypes
<1>2. CASE i \in invoked
  <2>1. cmd[i.cmd].attempt > 0 /\ i.at < cmd[i.cmd].deadline
    BY <1>2 DEF OnlyWhatWasGiven, InvokedInTime
  <2> QED BY <1>0, <1>1, <2>1 DEF RowGoesOn
<1>3. CASE i \notin invoked
  <2>1. Invokes
    BY <1>0, <1>3 DEF AgentDid, Rests, Sends, Forgets, Polls, Drops, Takes, Writes, Performs, IsGiven
  <2>2. i.cmd = job.cmd /\ i.at = now /\ job # NoJob
    BY <1>3, <2>1 DEF Invokes, TypeOK
  <2>3. job.budget \in Nat /\ pollStart \in Nat /\ cmd[job.cmd].deadline \in Nat
    BY <1>0, <1>1, <2>2 DEF AgentTypes, Jobs, RowGoesOn
  <2>4. job.budget - (now - pollStart) > Margin
    BY <2>1 DEF Invokes, Agent!HasExecutionGrant
  <2>5. pollStart + job.budget <= cmd[job.cmd].deadline
    BY <2>2 DEF BudgetInTime
  <2>6. now < cmd[job.cmd].deadline
    BY <1>0, <2>3, <2>4, <2>5, LinkAssumption
  <2>7. job.lease \in 1..cmd[job.cmd].attempt
    BY <2>2 DEF OnlyWhatWasGiven
  <2> QED BY <1>0, <1>1, <2>2, <2>6, <2>7 DEF RowGoesOn
<1> QED
  BY <1>2, <1>3

\* A command that is over and was never run is never run.
LEMMA NeverRunStays ==
  ASSUME IInv, [Next]_vars, NEW c \in Commands, NeverRun(c)
  PROVE  NeverRun(c)'
<1>1. /\ RowGoesOn(c) /\ now \in Nat /\ now' \in Nat /\ now' >= now
      /\ AgentDid /\ InvokedInTime' /\ AgentTypes'
  BY PlatformGoesOn, AgentCases, InvokedInTimeStep, AgentTypesStep DEF IInv, LinkInv
<1>2. /\ cmd'[c].status # "none" /\ cmd'[c].deadline = cmd[c].deadline
      /\ cmd[c].deadline <= now /\ cmd[c].deadline \in Nat
  BY <1>1 DEF NeverRun, RowGoesOn
<1>3. ASSUME NEW i \in invoked', i.cmd = c
      PROVE  i \in invoked
  <2>1. i.at < cmd[c].deadline
    BY <1>1, <1>2, <1>3 DEF InvokedInTime
  <2>2. CASE Invokes /\ i = [cmd |-> job.cmd, at |-> now]
    <3>1. i.at = now
      BY <2>2
    <3> QED BY <1>1, <1>2, <2>1, <3>1
  <2>3. CASE ~(Invokes /\ i = [cmd |-> job.cmd, at |-> now])
    BY <1>1, <2>3 DEF AgentDid, Rests, Sends, Forgets, Polls, Drops, Takes, Writes, Invokes, Performs,
                      IsGiven
  <2> QED BY <2>2, <2>3
<1>4. ~Run(c)'
  BY <1>3 DEF NeverRun, Run
<1> QED
  BY <1>1, <1>2, <1>4 DEF NeverRun

\* A print whose row is queued or expired was never handed out.
LEMMA UnhandedNeverRan ==
  ASSUME IInv, NEW c \in Unsafe, cmd[c].status \in {"queued", "expired"}
  PROVE  ~Run(c)
<1>1. c \in Commands /\ Proved!History
  BY LinkAssumption, PlatformTypes
<1>2. cmd[c].attempt = 0
  BY <1>1 DEF Proved!History, Proved!RowsRemember
<1> QED
  BY <1>1, <1>2, NothingBeforeHandout

LEMMA ExpiredIsOverStep ==
  ASSUME IInv, [Next]_vars
  PROVE  ExpiredIsOver'
<1> SUFFICES ASSUME NEW c \in Unsafe
             PROVE  /\ firing'[c] # NoRow /\ firing'[c].status = "queued" => NeverRun(c)'
                    /\ verdict'[c] = "expired" => NeverRun(c)'
                    /\ caller'[c] = "expired" => NeverRun(c)'
  BY DEF ExpiredIsOver, NeverRun, Run
<1>0. /\ c \in Commands /\ Proved!IInv /\ Proved!History /\ Proved!TypeOK
      /\ [Proved!Next]_(Proved!vars)
  BY LinkAssumption, PlatformTypes, PlatformMoves
<1>1. Proved!Timed(c)
  BY <1>0, Proved!StepsAreTimed, PlatformConstants
<1>2. /\ firing[c] # NoRow /\ firing[c].status = "queued" => NeverRun(c)
      /\ verdict[c] = "expired" => NeverRun(c)
      /\ caller[c] = "expired" => NeverRun(c)
  BY DEF IInv, LinkInv, ExpiredIsOver
<1>3. ASSUME firing[c] # NoRow, firing[c].status = "queued" \/ cmd[c].status = "expired"
      PROVE  NeverRun(c)
  <2>1. cmd[c].status # "none" /\ cmd[c].deadline <= now
    BY <1>0, <1>3 DEF Proved!History, Proved!WaitersInStep
  <2> QED BY <1>2, <1>3, <2>1, UnhandedNeverRan DEF NeverRun
<1>4. ASSUME firing'[c] # NoRow, firing'[c].status = "queued"
      PROVE  NeverRun(c)
  <2>1. CASE firing'[c] = firing[c]
    BY <1>2, <1>4, <2>1
  <2>2. CASE Proved!TimeoutRead(c)
    <3>1. firing'[c] = cmd[c] /\ cmd[c].deadline <= now
      BY <1>0, <2>2 DEF Proved!TimeoutRead, Proved!TypeOK
    <3> QED BY <1>4, <3>1, UnhandedNeverRan DEF NeverRun
  <2> QED BY <1>1, <1>4, <2>1, <2>2 DEF Proved!Timed
<1>5. ASSUME verdict'[c] = "expired"
      PROVE  NeverRun(c)
  <2>1. CASE Proved!TimeoutCommit(c) \/ Proved!TimeoutAbort(c)
    <3>1. \/ verdict[c] = "expired"
          \/ firing[c] # NoRow /\ (firing[c].status = "queued" \/ cmd[c].status = "expired")
      BY <1>0, <1>5, <2>1, Proved!ExpiredVerdict, PlatformConstants
    <3> QED BY <1>2, <1>3, <3>1
  <2>2. CASE verdict[c] = "expired"
    BY <1>2, <2>2
  <2> QED BY <1>1, <1>5, <2>1, <2>2 DEF Proved!Timed
<1>6. caller'[c] = "expired" => NeverRun(c)
  BY <1>1, <1>2 DEF Proved!Timed
<1> QED
  BY <1>0, <1>4, <1>5, <1>6, NeverRunStays

\* A print the agent can still start is in flight: nobody settles it before its
\* deadline, and no result of it exists.
LEMMA InHandIsInFlightStep ==
  ASSUME IInv, [Next]_vars
  PROVE  InHandIsInFlight'
<1> USE DEF IInv, LinkInv
<1>0. /\ AgentDid /\ Proved!IInv /\ Proved!History /\ [Proved!Next]_(Proved!vars)
      /\ now \in Nat /\ now' \in Nat /\ now' >= now /\ \A c \in Commands : RowGoesOn(c)
  BY AgentCases, PlatformTypes, PlatformMoves, PlatformGoesOn
<1> SUFFICES ASSUME NEW c \in Unsafe,
                    (\E h \in handed' : h.cmd = c) \/ (Held(c)' /\ pc' = "polled"),
                    now' < cmd'[c].deadline
             PROVE  cmd'[c].status = "in_flight"
  BY DEF InHandIsInFlight
<1>1. c \in Commands /\ Course(c) /\ RowGoesOn(c)
  BY <1>0, LinkAssumption DEF OneCourse
<1>2. CASE IsGiven /\ \E h \in handed' : h.cmd = c
  <2>1. draft[c].status = "in_flight" /\ Platform!Locked(c)
    BY <1>2, GivenFacts
  <2>2. cmd'[c] = draft[c]
    BY <1>1, <1>2, <2>1 DEF IsGiven, Proved!PollCommit, Proved!Locked, Platform!Locked
  <2> QED BY <2>1, <2>2
<1>3. CASE ~(IsGiven /\ \E h \in handed' : h.cmd = c)
  <2>1. (\E h \in handed : h.cmd = c) \/ (Held(c) /\ pc = "polled")
    BY <1>0, <1>3 DEF AgentDid, Rests, Sends, Forgets, Polls, Drops, Takes, Writes, Invokes, Performs,
                      IsGiven, Held
  <2>2. cmd[c].attempt > 0
    BY <1>1, <2>1 DEF OnlyWhatWasGiven, Held, RowGoesOn
  <2>3. cmd'[c].deadline = cmd[c].deadline /\ cmd[c].deadline \in Nat
    BY <1>1, <2>2 DEF RowGoesOn
  <2>4. cmd[c].status = "in_flight" /\ ~(cmd[c].deadline <= now)
    BY <1>0, <2>1, <2>3 DEF InHandIsInFlight
  <2>5. \A e \in Written : e.cmd # c
    BY <1>1, <2>1 DEF Course
  <2>6. ASSUME NEW t \in resolving, t.cmd = c
        PROVE  FALSE
    <3> DEFINE e == [cmd |-> t.cmd, lease |-> t.lease, reply |-> t.reply]
    <3>1. e \in Written /\ e.cmd = c
      BY <2>6 DEF OnlyWhatWasGiven, Written
    <3> QED BY <2>5, <3>1
  <2> QED BY <1>0, <2>4, <2>6, Proved!InFlightEnds, PlatformConstants
<1> QED
  BY <1>2, <1>3

LEMMA RowsRepeatResultsStep ==
  ASSUME IInv, [Next]_vars
  PROVE  RowsRepeatResults'
<1> USE DEF IInv, LinkInv
<1>0. /\ Proved!IInv /\ Proved!History /\ [Proved!Next]_(Proved!vars)
      /\ \A c \in Commands : RowGoesOn(c)
      /\ sent \subseteq sent'
  BY PlatformTypes, PlatformMoves, PlatformGoesOn, SentStays
<1>1. ASSUME NEW c \in Commands, cmd'[c].status \in {"done", "failed"}
      PROVE  \E e \in sent' : e.cmd = c /\ e.reply.status = cmd'[c].status
  <2>1. CASE cmd[c].status = cmd'[c].status
    BY <1>0, <1>1, <2>1 DEF RowsRepeatResults
  <2>2. ASSUME NEW t \in resolving, t.cmd = c, t.reply.status = cmd'[c].status
        PROVE  \E e \in sent : e.cmd = c /\ e.reply.status = cmd'[c].status
    <3> DEFINE e == [cmd |-> t.cmd, lease |-> t.lease, reply |-> t.reply]
    <3>1. e \in sent
      BY DEF OnlyWhatWasGiven
    <3>2. e.cmd = c /\ e.reply.status = cmd'[c].status
      BY <2>2
    <3> QED BY <3>1, <3>2
  <2> QED BY <1>0, <1>1, <2>1, <2>2, Proved!DefiniteIsReported, PlatformConstants
<1>2. ASSUME NEW e \in quarantine', e.cmd \in Unsafe
      PROVE  cmd'[e.cmd].status \in Platform!Terminal
  <2>1. CASE e \in quarantine
    BY <1>0, <1>2, <2>1, LinkAssumption DEF RowsRepeatResults, RowGoesOn
  <2>2. ASSUME NEW a \in acks, e = [cmd |-> a.cmd, lease |-> a.lease, reply |-> a.reply],
               a.outcome \notin Platform!Accepting, cmd' = cmd
        PROVE  cmd'[e.cmd].status \in Platform!Terminal
    <3>1. e.cmd = a.cmd
      BY <2>2
    <3> QED BY <1>0, <1>2, <2>2, <3>1, SameNames DEF Proved!History, Proved!ResultsInStep
  <2> QED BY <2>1, <2>2, QuarantineGrows
<1> QED
  BY <1>1, <1>2 DEF RowsRepeatResults, Platform!Terminal

-----------------------------------------------------------------------------
(* The inductive invariant and what follows from it. *)

LEMMA IInvInit == Init => IInv
<1> SUFFICES ASSUME Init
             PROVE  IInv
  OBVIOUS
<1>1. Proved!IInv /\ Proved!History /\ Proved!TypeOK
  BY PlatformStarts, Proved!IInvInit, Proved!HistoryInit, PlatformConstants DEF Proved!IInv
<1>2. Platform!IInv /\ Platform!History
  BY <1>1, SamePlatformInv
<1>3. Agent!Init /\ poll = "none" /\ handed = {} /\ late = 0 /\ sent = {}
  BY DEF Init
<1>4. now = 0 /\ resolving = {} /\ acks = {}
  BY PlatformStarts DEF Proved!Init
<1>5. \A c \in Commands : /\ cmd[c].status = "none" /\ firing[c] = NoRow
                          /\ verdict[c] = "none" /\ caller[c] = "none"
  <2>1. /\ cmd = [c \in Commands |-> Proved!Blank] /\ firing = [c \in Commands |-> NoRow]
        /\ verdict = [c \in Commands |-> "none"] /\ caller = [c \in Commands |-> "none"]
    BY PlatformStarts DEF Proved!Init
  <2>2. Proved!Blank.status = "none"
    BY DEF Proved!Blank
  <2> QED BY <2>1, <2>2
<1>6. /\ pollAllowed = FALSE /\ pc = "idle" /\ pollStart = 0 /\ job = NoJob /\ outbox = <<>>
      /\ quarantine = {} /\ invoked = {} /\ effects = [c \in Commands |-> 0]
  BY <1>3 DEF Agent!Init
<1>7. Written = {}
  BY <1>3, <1>6 DEF Written, Stored
<1>8. TypeOK
  <2>1. Platform!TypeOK
    BY <1>2 DEF Platform!IInv
  <2>2. (job # NoJob) = (pc \in {"polled", "executing", "performed"})
    BY <1>6
  <2>3. late \in 0..MaxLate /\ poll \in PollPlaces /\ pc \in Agent!Places
    BY <1>3, <1>6, LinkAssumption DEF PollPlaces, Agent!Places
  <2> QED BY <1>3, <1>6, <2>1, <2>2, <2>3 DEF TypeOK
<1>9. AgentTypes /\ InPlace /\ InvokedInTime
  BY <1>3, <1>6 DEF AgentTypes, InPlace, InvokedInTime
<1>10. OnlyWhatWasGiven
  BY <1>3, <1>4, <1>6, <1>7 DEF OnlyWhatWasGiven
<1>11. OneCourse
  <2>1. \A c \in Unsafe : effects[c] = 0
    BY <1>6, LinkAssumption
  <2>2. handed = {} /\ Written = {} /\ \A c \in Unsafe : ~Held(c)
    BY <1>3, <1>6, <1>7 DEF Held
  <2>3. 0 <= 1
    OBVIOUS
  <2>4. ASSUME NEW c \in Unsafe
        PROVE  Course(c)
    BY <2>1, <2>2, <2>3 DEF Course
  <2> QED BY <2>4 DEF OneCourse
<1>12. BudgetInTime
  BY <1>3, <1>4, <1>6 DEF BudgetInTime
<1>13. ExpiredIsOver /\ RowsRepeatResults
  BY <1>3, <1>5, <1>6, LinkAssumption DEF ExpiredIsOver, RowsRepeatResults
<1>14. InHandIsInFlight
  BY <1>3, <1>6 DEF InHandIsInFlight, Held
<1> QED
  BY <1>2, <1>8, <1>9, <1>10, <1>11, <1>12, <1>13, <1>14 DEF IInv, LinkInv

LEMMA IInvStep == IInv /\ [Next]_vars => IInv'
<1> SUFFICES ASSUME IInv, [Next]_vars
             PROVE  IInv'
  OBVIOUS
<1>1. Platform!IInv' /\ Platform!History'
  BY PlatformKeeps
<1>2. TypeOK' /\ InPlace' /\ AgentTypes' /\ InvokedInTime'
  BY TypeOKStep, AgentTypesStep, InvokedInTimeStep
<1>3. OneCourse'
  <2>1. \A c \in Unsafe : Course(c)'
    BY CourseStep
  <2> QED BY <2>1 DEF OneCourse, Course, Held, Run, Written, Stored
<1> QED
  BY <1>1, <1>2, <1>3, OnlyWhatWasGivenStep, BudgetInTimeStep, ExpiredIsOverStep,
     InHandIsInFlightStep, RowsRepeatResultsStep
     DEF IInv, LinkInv

\* The whole inductive invariant of the platform and one post holds.
THEOREM Invariance == Spec => []IInv
  BY IInvInit, IInvStep, PTL DEF Spec

\* Every variable of the platform, the agent and the wire has its type, the
\* agent has a command in hand exactly while it handles one, and sets aside
\* only results that it sent.
THEOREM TypeCorrect == Spec => []TypeOK
<1>1. IInv => TypeOK
  BY DEF IInv, LinkInv
<1> QED
  BY <1>1, Invariance, PTL

\* Whatever is lost, late, repeated or restarted on either side, a print
\* command causes at most one label.
THEOREM AtMostOneLabel == Spec => []PrintAtMostOnce
<1>1. IInv => PrintAtMostOnce
  BY DEF IInv, LinkInv, OneCourse, Course, PrintAtMostOnce
<1> QED
  BY <1>1, Invariance, PTL

\* The device is never touched for a command whose deadline has passed.
THEOREM DeviceInTime == Spec => []InvokedInTime
<1>1. IInv => InvokedInTime
  BY DEF IInv, LinkInv
<1> QED
  BY <1>1, Invariance, PTL

\* A business request that was told "expired" may order the print again: the
\* first command was not executed and never will be.
THEOREM ExpiredIsSafeToRepeat == Spec => []ExpiredNeverExecuted
<1>1. IInv => ExpiredNeverExecuted
  BY DEF IInv, LinkInv, ExpiredIsOver, NeverRun, Run, ExpiredNeverExecuted
<1> QED
  BY <1>1, Invariance, PTL

\* A print whose row is failed or expired left no label; one whose row is done
\* left exactly one.
THEOREM SettledRowsAreTrue == Spec => []RowTellsTheTruth
<1>1. IInv => RowTellsTheTruth
  <2> SUFFICES ASSUME IInv, NEW c \in Unsafe
               PROVE  /\ cmd[c].status \in {"failed", "expired"} => effects[c] = 0
                      /\ cmd[c].status = "done" => effects[c] = 1
    BY DEF RowTellsTheTruth
  <2> USE DEF IInv, LinkInv
  <2>1. c \in Commands /\ effects[c] \in Nat /\ Course(c)
    BY LinkAssumption DEF AgentTypes, OneCourse
  <2>2. cmd[c].status = "expired" => effects[c] = 0
    BY <2>1, UnhandedNeverRan DEF OnlyWhatWasGiven
  <2>3. ASSUME cmd[c].status \in {"done", "failed"}
        PROVE  /\ cmd[c].status = "done" => effects[c] = 1
               /\ cmd[c].status = "failed" => effects[c] = 0
    <3>1. PICK e \in sent : e.cmd = c /\ e.reply.status = cmd[c].status
      BY <2>1, <2>3 DEF RowsRepeatResults
    <3> QED BY <2>1, <3>1 DEF Course, Written
  <2> QED BY <2>2, <2>3
<1> QED
  BY <1>1, Invariance, PTL

\* A definite result of a print that the platform turned down for good leaves
\* its row undecided for the administrator, or a copy of it became the row.
THEOREM RejectionLosesNothing == Spec => []RejectedLeavesUnknown
<1>1. IInv => RejectedLeavesUnknown
  <2> SUFFICES ASSUME IInv, NEW e \in quarantine, e.cmd \in Unsafe
               PROVE  cmd[e.cmd].status \in {"delivery_unknown", e.reply.status}
    BY DEF RejectedLeavesUnknown
  <2> USE DEF IInv, LinkInv
  <2>1. e.cmd \in Commands /\ e \in sent /\ cmd[e.cmd].status \in Platform!Terminal /\ Course(e.cmd)
    BY LinkAssumption DEF TypeOK, RowsRepeatResults, OneCourse
  <2>2. cmd[e.cmd].attempt > 0
    <3>1. e.lease \in 1..cmd[e.cmd].attempt
      BY <2>1 DEF OnlyWhatWasGiven, Written
    <3> QED BY <2>1, <3>1, PlatformTypes
  <2>3. cmd[e.cmd].status # "expired"
    BY <2>1, <2>2, PlatformTypes DEF Proved!History, Proved!RowsRemember
  <2>4. ASSUME cmd[e.cmd].status \in {"done", "failed"}
        PROVE  cmd[e.cmd].status = e.reply.status
    <3>1. PICK f \in sent : f.cmd = e.cmd /\ f.reply.status = cmd[e.cmd].status
      BY <2>1, <2>4 DEF RowsRepeatResults
    <3> QED BY <2>1, <3>1 DEF Course, Written
  <2> QED BY <2>1, <2>3, <2>4 DEF Platform!Terminal
<1> QED
  BY <1>1, Invariance, PTL

-----------------------------------------------------------------------------
(* The platform of the link is the platform of GatewayCommands. *)

LEMMA ProvedIsPlatform ==
  ASSUME [Proved!Next]_(Proved!vars)
  PROVE  [Platform!Next]_(Platform!vars)
<1>1. CASE Proved!Tick \/ Proved!Sweep \/ Proved!Restart
  BY <1>1, SameTick, SameSweep, SameRestart DEF Platform!Next
<1>2. ASSUME NEW c \in Commands, Proved!Dispatching(c) \/ Proved!TimingOut(c)
      PROVE  Platform!Next
  BY <1>2, SameDispatching, SameTimingOut DEF Platform!Next
<1>3. ASSUME NEW c \in Commands, Proved!Reporting(c)
      PROVE  Platform!Next
  <2>1. Platform!Reporting(c)
    BY <1>3, SameResolveRead, SameNames DEF Proved!Reporting, Platform!Reporting
  <2> QED BY <2>1 DEF Platform!Next
<1>4. CASE \E p \in {Post} : Proved!Polling(p)
  <2>1. \E p \in {Post} : Platform!Polling(p)
    BY <1>4, SamePollBegin, SamePollCommit, SamePollAbort DEF Proved!Polling, Platform!Polling
  <2> QED BY <2>1 DEF Platform!Next
<1>5. CASE Proved!Resolving
  <2>1. Platform!Resolving
    BY <1>5, SameResolveCommit, SameResolveAbort, SameResolveAnswer, SameConflictUnaudited
       DEF Proved!Resolving, Platform!Resolving
  <2> QED BY <2>1 DEF Platform!Next
<1>6. CASE UNCHANGED Proved!vars
  BY <1>6, Samevars DEF Platform!vars, Proved!vars, Platform!tables, Proved!tables, Platform!results,
                        Proved!results, Platform!memory, Proved!memory
<1> QED
  BY <1>1, <1>2, <1>3, <1>4, <1>5, <1>6 DEF Proved!Next

\* With a real agent at the other end of the wire the platform behaves as
\* GatewayCommands says under its arbitrary one: what is proved there (one
\* command in flight, durable answers, truthful acknowledgements) holds here.
THEOREM LinkImplementsPlatform == Spec => Platform!Spec
<1>1. Init => Platform!Init
  BY DEF Init
<1>2. IInv /\ [Next]_vars => [Platform!Next]_(Platform!vars)
  BY PlatformMoves, ProvedIsPlatform
<1> QED
  BY <1>1, <1>2, Invariance, PTL DEF Spec, Platform!Spec

\* In particular the rows of the link make only the moves CommandContract allows.
THEOREM LinkKeepsContract == Spec => Proved!ImplementsContract
<1>1. IInv /\ [Next]_vars => [Proved!Next]_(Proved!vars)
  BY PlatformMoves
<1>2. Proved!Spec => Proved!ImplementsContract
  BY Proved!Refinement, PlatformConstants
<1> QED
  BY <1>1, <1>2, PlatformStarts, Invariance, PTL DEF Spec, Proved!Spec

-----------------------------------------------------------------------------
(* Platform and agent keep the promise of LabelCommand. *)

\* A request being served and an answer being delivered do not move an agent
\* that has a command in hand.
LEMMA AgentMovesAlone ==
  ASSUME [Next]_vars, pc \in {"polled", "executing", "performed"}, pc' # pc
  PROVE  UNCHANGED platform
<1>1. CASE PlatformStep \/ ServePoll \/ AnswerPoll \/ FailPoll \/ ServeResult \/ RestartPlatform \/ UNCHANGED vars
  BY <1>1 DEF PlatformStep, ServePoll, AnswerPoll, FailPoll, ServeResult, RestartPlatform, vars, agent
<1>2. CASE AgentStep \/ SendPoll \/ ReceivePoll \/ GiveUpPoll \/ SendResult \/ CrashAgent
  BY <1>2 DEF AgentStep, SendPoll, ReceivePoll, GiveUpPoll, SendResult, CrashAgent
<1>3. CASE AnswerResult
  BY <1>3 DEF AnswerResult, agent, Agent!ResultAcked, Agent!ResultRejected
<1> QED
  BY <1>1, <1>2, <1>3 DEF Next

\* A result leaves the outbox when the platform has answered it.
LEMMA WrittenStays ==
  ASSUME IInv, [Next]_vars, NEW e \in Written
  PROVE  e \in Written'
<1> USE DEF IInv, LinkInv
<1>0. AgentDid /\ outbox \in Seq(Entries) /\ sent \subseteq sent'
  BY AgentCases, SentStays DEF AgentTypes
<1>1. CASE e \in sent
  BY <1>0, <1>1 DEF Written
<1>2. CASE e \in Stored /\ outbox' = outbox
  BY <1>2 DEF Written, Stored
<1>3. ASSUME e \in Stored, NEW status \in {"done", "failed", "delivery_unknown"}, Writes(status)
      PROVE  e \in Written'
  <2>1. Agent!Entry(status) \in Entries
    BY <1>3, EntryType DEF Writes, TypeOK
  <2>2. /\ outbox' = Append(outbox, Agent!Entry(status))
        /\ \A i \in 1..Len(outbox) : i \in 1..Len(outbox') /\ outbox'[i] = outbox[i]
    BY <1>0, <1>3, <2>1 DEF Writes
  <2> QED BY <1>3, <2>2 DEF Written, Stored
<1>4. CASE e \in Stored /\ Forgets /\ outbox' # outbox
  <2>1. AnswerResult /\ ~UNCHANGED agent
    BY <1>4 DEF Forgets, Next, PlatformStep, AgentStep, SendPoll, ServePoll, AnswerPoll, FailPoll,
                ReceivePoll, GiveUpPoll, SendResult, ServeResult, RestartPlatform, CrashAgent, vars, agent,
                Agent!HeartbeatAcked, Agent!Wake, Agent!PollNotAllowed, Agent!ResultUnanswered,
                Agent!Refuse, Agent!Invoke, Agent!Perform, Agent!Finish, Agent!Store, Agent!Poll,
                Agent!PollAnswered, Agent!PollEmpty, Agent!SendResult, Agent!Crash, Agent!durable
  <2>2. PICK a \in acks : Awaited(a)
    BY <2>1 DEF AnswerResult
  <2>3. Head(outbox) \in sent
    BY <2>2 DEF Awaited, OnlyWhatWasGiven
  <2>4. outbox # <<>> /\ outbox' = Tail(outbox)
    BY <1>4 DEF Forgets, InPlace
  <2>5. \A i \in 1..Len(outbox) :
          i = 1 \/ (i - 1 \in 1..Len(Tail(outbox)) /\ Tail(outbox)[i - 1] = outbox[i])
    BY <1>0, <2>4
  <2>6. e = Head(outbox) \/ e \in Stored'
    <3>1. PICK i \in 1..Len(outbox) : e = outbox[i]
      BY <1>4 DEF Stored
    <3>2. outbox[1] = Head(outbox)
      BY <1>0, <2>4, TailElements
    <3>3. CASE i - 1 \in 1..Len(Tail(outbox)) /\ Tail(outbox)[i - 1] = outbox[i]
      BY <2>4, <3>1, <3>3 DEF Stored
    <3> QED BY <2>5, <3>1, <3>2, <3>3
  <2> QED BY <1>0, <2>3, <2>6 DEF Written
<1>5. \/ outbox' = outbox \/ Forgets
      \/ \E status \in {"done", "failed", "delivery_unknown"} : Writes(status)
  BY <1>0 DEF AgentDid, Rests, Sends, Polls, Drops, Takes, Invokes, Performs, IsGiven
<1> QED
  BY <1>1, <1>2, <1>3, <1>4, <1>5 DEF Written

\* What an agent without the result of a print knows of it.
LEMMA WorksOn ==
  ASSUME IInv, NEW c \in Unsafe, Held(c), pc = "polled"
  PROVE  /\ AtPrinter(c) = "idle"
         /\ cmd[c].status \in {"in_flight", "delivery_unknown"}
<1> USE DEF IInv, LinkInv
<1>0. c \in Commands /\ Course(c) /\ Proved!History /\ Proved!TypeOK /\ effects[c] \in Nat
  BY LinkAssumption, PlatformTypes DEF OneCourse, AgentTypes
<1>1. ~Run(c) /\ ~(effects[c] > 0) /\ \A e \in Written : e.cmd # c
  BY <1>0 DEF Course, OnlyWhatWasGiven
<1>2. AtPrinter(c) = "idle"
  BY <1>1 DEF AtPrinter
<1>3. cmd[c].attempt > 0
  BY <1>0, PlatformTypes DEF OnlyWhatWasGiven, Held
<1>4. cmd[c].status \notin {"none", "queued", "expired"}
  BY <1>0, <1>3 DEF Proved!History, Proved!RowsRemember
<1>5. cmd[c].status \notin {"done", "failed"}
  BY <1>0, <1>1 DEF RowsRepeatResults, Written
<1>6. cmd[c].status \in Proved!Status
  BY <1>0 DEF Proved!TypeOK, Proved!Row
<1> QED
  BY <1>2, <1>4, <1>5, <1>6 DEF Proved!Status, Proved!Open, Proved!Terminal

\* The printer of a print stays as it is, or the agent alone moves it, as it may.
LEMMA AtPrinterMoves ==
  ASSUME IInv, [Next]_vars, NEW c \in Unsafe
  PROVE  \/ AtPrinter(c)' = AtPrinter(c)
         \/ UNCHANGED platform /\ Label(c)!Works(cmd[c].status, AtPrinter(c), AtPrinter(c)')
<1> USE DEF IInv, LinkInv
<1>0. /\ AgentDid /\ c \in Commands /\ Course(c) /\ effects[c] \in Nat /\ effects \in [Commands -> Nat]
      /\ \A e \in Written : e \in Written'
  BY AgentCases, WrittenStays, LinkAssumption DEF OneCourse, AgentTypes
<1>1. ASSUME NEW e \in Written', ~\E status \in {"done", "failed", "delivery_unknown"} : Writes(status)
      PROVE  e \in Written
  BY <1>1, WrittenGrows
<1> DEFINE Same == /\ effects'[c] = effects[c]
                   /\ (Held(c) /\ pc = "executing")' = (Held(c) /\ pc = "executing")
                   /\ Run(c)' = Run(c)
                   /\ (\E e \in Written : e.cmd = c)' = (\E e \in Written : e.cmd = c)
<1>2. ASSUME Same
      PROVE  AtPrinter(c)' = AtPrinter(c)
  BY <1>2 DEF AtPrinter
<1>3. CASE Rests \/ Sends \/ Forgets \/ Polls \/ IsGiven \/ \E given \in handed : Takes(given)
  <2>1. (\E e \in Written : e.cmd = c)' = (\E e \in Written : e.cmd = c)
    BY <1>0, <1>1, <1>3 DEF Rests, Sends, Forgets, Polls, IsGiven, Takes, Writes
  <2>2. effects' = effects /\ Run(c)' = Run(c)
    BY <1>3 DEF Rests, Sends, Forgets, Polls, IsGiven, Takes, Run
  <2>3. (Held(c) /\ pc = "executing")' = (Held(c) /\ pc = "executing")
    BY <1>3 DEF Rests, Sends, Forgets, Polls, IsGiven, Takes, Held, TypeOK
  <2> QED BY <1>2, <2>1, <2>2, <2>3
<1>4. CASE Drops
  <2>1. effects' = effects /\ Run(c)' = Run(c) /\ ~(Held(c) /\ pc = "executing")'
    BY <1>4 DEF Drops, Run
  <2>2. (\E e \in Written : e.cmd = c)' = (\E e \in Written : e.cmd = c)
    BY <1>0, <1>1, <1>4 DEF Drops, Writes
  <2>3. CASE Held(c) /\ pc = "executing"
    <3>1. Run(c) /\ effects[c] = 0
      BY <1>0, <2>3 DEF OnlyWhatWasGiven, Held, Course
    <3>2. AtPrinter(c) = "busy" /\ AtPrinter(c)' = "clean"
      BY <2>1, <2>3, <3>1 DEF AtPrinter
    <3>3. UNCHANGED platform
      BY <1>4, <2>3, AgentMovesAlone DEF Drops
    <3> QED BY <3>2, <3>3 DEF Label!Works
  <2> QED BY <1>2, <2>1, <2>2, <2>3
<1>5. CASE Invokes
  <2>1. effects' = effects /\ invoked' = invoked \union {[cmd |-> job.cmd, at |-> now]} /\ job' = job
    BY <1>5 DEF Invokes
  <2>2. (\E e \in Written : e.cmd = c)' = (\E e \in Written : e.cmd = c)
    BY <1>0, <1>1, <1>5 DEF Invokes, Writes
  <2>3. UNCHANGED platform
    BY <1>5, AgentMovesAlone DEF Invokes
  <2>4. CASE Held(c)
    <3>1. AtPrinter(c) = "idle"
      BY <1>5, <2>4, WorksOn DEF Invokes
    <3>2. effects[c] = 0
      BY <1>0, <3>1 DEF AtPrinter
    <3>3. AtPrinter(c)' = "busy"
      BY <1>5, <2>1, <2>4, <3>2 DEF AtPrinter, Held, Invokes
    <3>4. now < cmd[c].deadline
      <4>1. [cmd |-> c, at |-> now] \in invoked'
        BY <2>1, <2>4 DEF Held
      <4>2. now < cmd'[c].deadline
        BY <4>1, InvokedInTimeStep DEF InvokedInTime
      <4> QED BY <2>3, <4>2 DEF platform
    <3>5. cmd[c].status = "in_flight"
      BY <1>5, <2>4, <3>4 DEF InHandIsInFlight, Invokes
    <3> QED BY <2>3, <3>1, <3>3, <3>5 DEF Label!Works
  <2>5. CASE ~Held(c)
    <3>1. job # NoJob
      BY <1>5 DEF Invokes, TypeOK
    <3>2. Run(c)' = Run(c)
      BY <2>1, <2>5, <3>1 DEF Run, Held
    <3>3. ~Held(c)'
      BY <2>1, <2>5 DEF Held
    <3> QED BY <1>2, <2>1, <2>2, <2>5, <3>2, <3>3
  <2> QED BY <2>4, <2>5
<1>6. CASE Performs
  <2>1. /\ effects' = [effects EXCEPT ![job.cmd] = @ + 1] /\ invoked' = invoked /\ job' = job
        /\ pc = "executing" /\ job # NoJob
    BY <1>6 DEF Performs, TypeOK
  <2>2. (\E e \in Written : e.cmd = c)' = (\E e \in Written : e.cmd = c)
    BY <1>0, <1>1, <1>6 DEF Performs, Writes
  <2>3. CASE Held(c)
    <3>1. effects[c] = 0 /\ effects'[c] = 1
      BY <1>0, <2>1, <2>3 DEF Course, Held
    <3>2. AtPrinter(c) = "busy" /\ AtPrinter(c)' = "printed"
      BY <2>1, <2>3, <3>1 DEF AtPrinter
    <3>3. UNCHANGED platform
      BY <1>6, AgentMovesAlone DEF Performs
    <3> QED BY <3>2, <3>3 DEF Label!Works
  <2>4. CASE ~Held(c)
    <3>1. effects'[c] = effects[c] /\ ~Held(c)' /\ Run(c)' = Run(c)
      BY <1>0, <2>1, <2>4 DEF Held, Run
    <3> QED BY <1>2, <2>2, <2>4, <3>1
  <2> QED BY <2>3, <2>4
<1>7. ASSUME NEW status \in {"done", "failed", "delivery_unknown"}, Writes(status)
      PROVE  \/ AtPrinter(c)' = AtPrinter(c)
             \/ UNCHANGED platform /\ Label(c)!Works(cmd[c].status, AtPrinter(c), AtPrinter(c)')
  <2>1. /\ effects' = effects /\ Run(c)' = Run(c) /\ ~Held(c)' /\ job # NoJob
        /\ pc \in {"polled", "executing", "performed"}
    BY <1>7 DEF Writes, TypeOK, Run, Held
  <2>2. UNCHANGED platform
    BY <1>7, AgentMovesAlone DEF Writes
  <2>3. CASE Held(c)
    <3>1. pc # "polled" => Run(c)
      BY <2>1, <2>3 DEF OnlyWhatWasGiven, Held
    <3>2. \E e \in Written' : e.cmd = c
      <4>1. Agent!Entry(status) \in Entries /\ Agent!Entry(status).cmd = c /\ outbox \in Seq(Entries)
        BY <2>1, <2>3, EntryType DEF Held, AgentTypes
      <4>2. /\ outbox' = Append(outbox, Agent!Entry(status))
            /\ Len(outbox) + 1 \in 1..Len(outbox')
            /\ outbox'[Len(outbox) + 1] = Agent!Entry(status)
        BY <1>7, <4>1 DEF Writes
      <4> QED BY <4>1, <4>2 DEF Written, Stored
    <3>3. CASE pc = "performed"
      <4>1. effects[c] > 0
        BY <1>0, <2>3, <3>3 DEF Course
      <4> QED BY <2>1, <4>1 DEF AtPrinter
    <3>4. CASE pc = "executing"
      <4>1. effects[c] = 0
        BY <1>0, <2>3, <3>4 DEF Course
      <4>2. AtPrinter(c) = "busy" /\ AtPrinter(c)' = "clean"
        BY <2>1, <2>3, <3>2, <3>4, <4>1 DEF AtPrinter
      <4> QED BY <2>2, <4>2 DEF Label!Works
    <3>5. CASE pc = "polled"
      <4>1. AtPrinter(c) = "idle" /\ cmd[c].status \in {"in_flight", "delivery_unknown"}
        BY <2>3, <3>5, WorksOn
      <4>2. effects[c] = 0
        BY <1>0, <4>1 DEF AtPrinter
      <4>3. AtPrinter(c)' = "clean"
        BY <2>1, <3>2, <4>2 DEF AtPrinter
      <4> QED BY <2>2, <4>1, <4>3 DEF Label!Works
    <3> QED BY <2>1, <3>3, <3>4, <3>5
  <2>4. CASE ~Held(c)
    <3>1. ASSUME NEW e \in Written', e.cmd = c
          PROVE  e \in Written
      <4>1. ASSUME NEW other \in {"done", "failed", "delivery_unknown"}, e = Agent!Entry(other)
            PROVE  FALSE
        BY <2>1, <2>4, <3>1, <4>1, EntryType DEF Held
      <4> QED BY <4>1, WrittenGrows
    <3>2. (\E e \in Written : e.cmd = c)' = (\E e \in Written : e.cmd = c)
      BY <1>0, <3>1
    <3> QED BY <1>2, <2>1, <2>4, <3>2
  <2> QED BY <2>3, <2>4
<1> QED
  BY <1>0, <1>3, <1>4, <1>5, <1>6, <1>7 DEF AgentDid

\* A request that was told "expired" waits for a printer that never started.
LEMMA ExpiredPaper ==
  ASSUME IInv, NEW c \in Unsafe, NeverRun(c)
  PROVE  AtPrinter(c) \in {"idle", "clean"}
<1>1. effects[c] \in Nat /\ ~(effects[c] > 0) /\ ~(Held(c) /\ pc = "executing")
  BY LinkAssumption DEF IInv, LinkInv, AgentTypes, OnlyWhatWasGiven, NeverRun, Held
<1> QED
  BY <1>1 DEF AtPrinter

\* A definite row says what became of the label, also when it is new.
LEMMA DefinitePaper ==
  ASSUME IInv, [Next]_vars, NEW c \in Unsafe, cmd'[c].status \in {"done", "failed"}
  PROVE  AtPrinter(c)' = IF cmd'[c].status = "done" THEN "printed" ELSE "clean"
<1>1. IInv'
  BY IInvStep
<1>2. c \in Commands /\ Course(c)' /\ effects'[c] \in Nat
  BY <1>1, LinkAssumption DEF IInv, LinkInv, OneCourse, AgentTypes
<1>3. PICK e \in sent' : e.cmd = c /\ e.reply.status = cmd'[c].status
  BY <1>1, <1>2 DEF IInv, LinkInv, RowsRepeatResults
<1>4. e \in Written'
  BY DEF Written
<1>5. /\ cmd'[c].status = "done" => effects'[c] = 1
      /\ cmd'[c].status = "failed" => effects'[c] = 0
      /\ ~Held(c)'
  BY <1>2, <1>3, <1>4 DEF Course
<1> QED
  BY <1>2, <1>3, <1>4, <1>5 DEF AtPrinter

\* The row of a print moves as LabelCommand allows.
LEMMA LabelRowMoves ==
  ASSUME IInv, [Next]_vars, NEW c \in Unsafe, AtPrinter(c)' = AtPrinter(c)
  PROVE  cmd'[c].status = cmd[c].status \/ Label(c)!Moves(cmd[c].status, cmd'[c].status, AtPrinter(c))
<1>1. c \in Commands /\ Proved!IInv /\ [Proved!Next]_(Proved!vars) /\ IInv'
  BY LinkAssumption, PlatformTypes, PlatformMoves, IInvStep
<1>2. cmd'[c] = cmd[c] \/ Proved!Moved(c)
  BY <1>1, Proved!RowsMove, PlatformConstants DEF Proved!IInv
<1>3. cmd'[c].status = cmd[c].status \/ Proved!Contract!Legal(c, cmd[c].status, cmd'[c].status)
  BY <1>2 DEF Proved!Moved
<1>4. cmd'[c].status \in {"done", "failed"} =>
        AtPrinter(c)' = IF cmd'[c].status = "done" THEN "printed" ELSE "clean"
  BY DefinitePaper
<1> QED
  BY <1>3, <1>4 DEF Proved!Contract!Legal, Label!Moves

\* What the request of a print is told is what LabelCommand allows.
LEMMA LabelTells ==
  ASSUME IInv, [Next]_vars, NEW c \in Unsafe, Proved!Hears(c), AtPrinter(c)' = AtPrinter(c)
  PROVE  /\ cmd'[c].status = cmd[c].status
         /\ Told(c) = "nothing" /\ Told(c)' \in Label(c)!Tellings
         /\ Label(c)!Tells(Told(c)', cmd[c].status, Paper(c), Paper(c)')
<1>1. /\ c \in Commands /\ Proved!TypeOK /\ Proved!History
      /\ caller[c] \in {"creating", "activating", "waiting"} /\ cmd'[c] = cmd[c]
  BY LinkAssumption, PlatformTypes DEF Proved!Hears, Proved!Pending
<1>2. cmd[c].status # "none" /\ Told(c) = "nothing" /\ Paper(c) = AtPrinter(c)
  BY <1>1 DEF Proved!History, Proved!WaitersInStep, Told, Rejections, Paper
<1>3. CASE caller'[c] = "answered" /\ cmd[c].status \in Proved!Terminal /\ answer'[c].status = cmd[c].status
  <2>1. Told(c)' = cmd[c].status /\ Paper(c)' = AtPrinter(c)'
    BY <1>3 DEF Told, Paper
  <2>2. cmd[c].status \in Label(c)!Answers
    BY <1>3 DEF Proved!Terminal, Label!Answers
  <2> QED BY <1>1, <1>2, <2>1, <2>2 DEF Label!Tellings, Label!Tells, Label!Answers
<1>4. CASE caller'[c] \in {"error", "delivery_unknown"}
  <2>1. Told(c)' \in {"error", "outcome_unknown"} /\ Paper(c)' = AtPrinter(c)'
    BY <1>4 DEF Told, Paper, Rejections
  <2> QED BY <1>1, <1>2, <2>1 DEF Label!Tellings, Label!Tells, Label!Answers
<1>5. CASE caller'[c] = "expired" /\ verdict[c] = "expired"
  <2>1. NeverRun(c)
    BY <1>5 DEF IInv, LinkInv, ExpiredIsOver
  <2>2. AtPrinter(c) \in {"idle", "clean"}
    BY <2>1, ExpiredPaper
  <2>3. Told(c)' = "not_dispatched" /\ Paper(c)' = "clean"
    BY <1>5, <2>2 DEF Told, Rejections, Paper
  <2> QED BY <1>1, <1>2, <2>2, <2>3 DEF Label!Tellings, Label!Tells, Label!Answers
<1>6. verdict[c] \in {"none", "expired", "delivery_unknown"}
  BY <1>1 DEF Proved!TypeOK
<1> QED
  BY <1>3, <1>4, <1>5, <1>6 DEF Proved!Hears

LEMMA LabelStep ==
  ASSUME IInv, [Next]_vars, NEW c \in Unsafe
  PROVE  UNCHANGED <<cmd[c].status, Paper(c), Told(c)>> \/ Label(c)!Step
<1>1. c \in Commands /\ Proved!IInv /\ Proved!History /\ [Proved!Next]_(Proved!vars)
  BY LinkAssumption, PlatformTypes, PlatformMoves
<1>2. CASE UNCHANGED platform
  <2>1. cmd'[c].status = cmd[c].status /\ Told(c)' = Told(c) /\ caller'[c] = caller[c]
    BY <1>2 DEF platform, Told
  <2>2. CASE caller[c] = "expired"
    <3>1. NeverRun(c) /\ NeverRun(c)'
      BY <1>1, <2>2, NeverRunStays DEF IInv, LinkInv, ExpiredIsOver
    <3>2. AtPrinter(c) \in {"idle", "clean"} /\ IInv'
      BY <3>1, ExpiredPaper, IInvStep
    <3>3. AtPrinter(c)' \in {"idle", "clean"}
      <4>1. effects'[c] \in Nat /\ ~(effects'[c] > 0) /\ ~(Held(c) /\ pc = "executing")'
        BY <1>1, <3>1, <3>2 DEF IInv, LinkInv, AgentTypes, OnlyWhatWasGiven, NeverRun, Held
      <4> QED BY <4>1 DEF AtPrinter
    <3>4. Paper(c) = "clean" /\ Paper(c)' = "clean"
      BY <2>1, <2>2, <3>2, <3>3 DEF Paper
    <3> QED BY <2>1, <3>4
  <2>3. CASE caller[c] # "expired"
    <3>1. Paper(c) = AtPrinter(c) /\ Paper(c)' = AtPrinter(c)'
      BY <2>1, <2>3 DEF Paper
    <3> QED BY <2>1, <3>1, AtPrinterMoves DEF Label!Step
  <2> QED BY <2>2, <2>3
<1>3. CASE AtPrinter(c)' = AtPrinter(c)
  <2>1. Proved!Listens(c)
    BY <1>1, Proved!CallersMove, PlatformConstants
  <2>2. CASE Proved!Hears(c)
    BY <1>3, <2>2, LabelTells DEF Label!Step
  <2>3. CASE ~Proved!Hears(c)
    <3>1. \/ caller'[c] = caller[c] /\ answer'[c] = answer[c]
          \/ caller[c] \in Proved!Waits /\ caller'[c] \in Proved!Waits
      BY <2>1, <2>3 DEF Proved!Listens
    <3>2. Told(c)' = Told(c) /\ Paper(c)' = Paper(c)
      BY <1>3, <3>1 DEF Told, Paper, Rejections, Proved!Waits, Proved!Pending
    <3>3. Label(c)!Moves(cmd[c].status, cmd'[c].status, AtPrinter(c)) =>
            Label(c)!Moves(cmd[c].status, cmd'[c].status, Paper(c))
      <4>1. Paper(c) # AtPrinter(c) => AtPrinter(c) = "idle"
        BY DEF Paper
      <4> QED BY <4>1 DEF Label!Moves
    <3> QED BY <1>3, <3>2, <3>3, LabelRowMoves DEF Label!Step
  <2> QED BY <2>2, <2>3
<1> QED
  BY <1>2, <1>3, AtPrinterMoves

\* Platform and agent keep the promise the print services are modelled with: a
\* printer starts once and only for a command in flight, a row ends truthfully,
\* and a request is told the row, or "not dispatched" only if no label can come.
THEOREM PrintsKeepPromise == Spec => ImplementsLabelCommand
<1>1. Init => \A c \in Unsafe : Label(c)!Init
  <2> SUFFICES ASSUME Init, NEW c \in Unsafe
               PROVE  Label(c)!Init
    OBVIOUS
  <2>1. c \in Commands /\ Agent!Init /\ sent = {}
    BY LinkAssumption DEF Init
  <2>2. cmd[c].status = "none" /\ caller[c] = "none"
    <3>1. /\ cmd = [d \in Commands |-> Proved!Blank] /\ caller = [d \in Commands |-> "none"]
      BY PlatformStarts DEF Proved!Init
    <3> QED BY <2>1, <3>1 DEF Proved!Blank
  <2>3. effects[c] = 0 /\ ~Held(c) /\ ~Run(c) /\ Written = {}
    BY <2>1 DEF Agent!Init, Held, Run, Written, Stored
  <2>4. AtPrinter(c) = "idle"
    BY <2>3 DEF AtPrinter
  <2>5. Paper(c) = "idle" /\ Told(c) = "nothing"
    BY <2>2, <2>4 DEF Paper, Told, Rejections
  <2> QED BY <2>2, <2>5 DEF Label!Init
<1>2. IInv /\ [Next]_vars =>
        [\A c \in Unsafe : UNCHANGED <<cmd[c].status, Paper(c), Told(c)>> \/ Label(c)!Step]_vars
  BY LabelStep
<1> QED
  BY <1>1, <1>2, Invariance, PTL DEF Spec, ImplementsLabelCommand
================================================================================
