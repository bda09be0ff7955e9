------------------------------ MODULE GatewayLink ------------------------------
(***************************************************************************)
(* One post and the platform: GatewayCommands and GatewayAgent over HTTP.  *)
(* All requests go from the post to the platform.  The agent gives up on a *)
(* request at any time (five seconds, a broken connection); the platform   *)
(* may serve an abandoned request later and its answer is lost.  A result  *)
(* that was sent once may therefore reach the platform several times and   *)
(* late.  Both sides may crash and restart.                                *)
(***************************************************************************)
EXTENDS Integers, Sequences

CONSTANTS Commands, Unsafe, Post, Timeout, MaxTime, MaxResolving, Margin, NoRow, NoJob,
          MaxLate  \* bound: abandoned poll requests still under way

VARIABLES
  now, cmd, draft, polling, budget, resolving, acks, caller, answer, firing, verdict,
  pollAllowed, pc, pollStart, job, outbox, quarantine, invoked, effects,
  poll,   \* where the poll request of the agent is
  handed, \* what the platform answered to it
  late,   \* poll requests the agent gave up on that may still be served
  sent    \* results that were put on the wire

network == <<poll, handed, late, sent>>

Reason == "reported"

Platform == INSTANCE GatewayCommands
              WITH Posts <- {Post}, PostOf <- [c \in Commands |-> Post], Replies <- {Reason}
Agent    == INSTANCE GatewayAgent

platform == <<now, cmd, draft, polling, budget, resolving, acks, caller, answer, firing, verdict>>
agent    == <<pollAllowed, pc, pollStart, job, outbox, quarantine, invoked, effects>>

vars == <<platform, agent, network>>

PollPlaces == {"none", "sent", "serving", "answered", "lost"}

-----------------------------------------------------------------------------
\* The platform on its own.
PlatformStep ==
  /\ \/ Platform!Tick
     \/ \E c \in Commands : Platform!Dispatching(c) \/ Platform!TimingOut(c)
     \/ Platform!Sweep
     \/ \E t \in resolving : Platform!ResolveCommit(t) \/ Platform!ResolveAbort(t)
     \/ \E a \in acks : Platform!ConflictUnaudited(a)
  /\ UNCHANGED <<agent, network>>

\* The agent on its own.
AgentStep ==
  /\ \/ \E allowed \in BOOLEAN : Agent!HeartbeatAcked(allowed)
     \/ Agent!Wake \/ Agent!PollNotAllowed \/ Agent!ResultUnanswered
     \/ Agent!Refuse \/ Agent!Invoke \/ Agent!Perform \/ Agent!Finish
  /\ UNCHANGED <<platform, network>>

-----------------------------------------------------------------------------
\* GET /gateway/commands.
SendPoll ==
  /\ Agent!Poll
  /\ poll' = "sent"
  /\ UNCHANGED <<platform, handed, late, sent>>

ServePoll ==
  /\ Platform!PollBegin(Post)
  /\ \/ poll = "sent" /\ poll' = "serving" /\ UNCHANGED late
     \/ late > 0 /\ late' = late - 1 /\ UNCHANGED poll
  /\ UNCHANGED <<agent, handed, sent>>

\* The answer reaches the agent only if it still waits for this request.
AnswerPoll ==
  /\ Platform!PollCommit(Post)
  /\ IF poll = "serving"
     THEN /\ poll' = "answered"
          /\ handed' = {[cmd |-> c, lease |-> draft[c].lease, budget |-> budget[Post]] :
                          c \in Platform!Handout(Post)}
     ELSE UNCHANGED <<poll, handed>>
  /\ UNCHANGED <<agent, late, sent>>

FailPoll ==
  /\ Platform!PollAbort(Post)
  /\ poll' = IF poll = "serving" THEN "lost" ELSE poll
  /\ UNCHANGED <<agent, handed, late, sent>>

ReceivePoll ==
  /\ poll = "answered"
  /\ \/ \E given \in handed : Agent!PollAnswered(given)
     \/ handed = {} /\ Agent!PollEmpty
  /\ poll' = "none" /\ handed' = {}
  /\ UNCHANGED <<platform, late, sent>>

\* A request that the agent abandons may still be on its way.
Abandon ==
  /\ poll' = "none" /\ handed' = {}
  /\ \/ poll = "sent" /\ late < MaxLate /\ late' = late + 1
     \/ UNCHANGED late

GiveUpPoll ==
  /\ Agent!PollEmpty
  /\ Abandon
  /\ UNCHANGED <<platform, sent>>

-----------------------------------------------------------------------------
\* POST /gateway/commands/:id/result.
SendResult ==
  /\ Agent!SendResult
  /\ sent' = sent \union {Head(outbox)}
  /\ UNCHANGED <<platform, poll, handed, late>>

ServeResult ==
  /\ \E e \in sent : Platform!ResolveRead(e.cmd, e.lease, e.reply)
  /\ UNCHANGED <<agent, network>>

Awaited(a) ==
  pc = "sending" /\ Head(outbox) = [cmd |-> a.cmd, lease |-> a.lease, reply |-> a.reply]

AnswerResult ==
  /\ \E a \in acks :
       /\ Platform!ResolveAnswer(a)
       /\ \/ /\ Awaited(a)
             /\ IF a.outcome \in Platform!Accepting THEN Agent!ResultAcked ELSE Agent!ResultRejected
          \/ UNCHANGED agent
  /\ UNCHANGED network

-----------------------------------------------------------------------------
RestartPlatform ==
  /\ Platform!Restart
  /\ poll' = IF poll = "serving" THEN "lost" ELSE poll
  /\ UNCHANGED <<agent, handed, late, sent>>

CrashAgent ==
  /\ Agent!Crash
  /\ Abandon
  /\ UNCHANGED <<platform, sent>>

Init ==
  /\ Platform!Init
  /\ Agent!Init
  /\ poll = "none" /\ handed = {} /\ late = 0 /\ sent = {}

Next ==
  \/ PlatformStep \/ AgentStep
  \/ SendPoll \/ ServePoll \/ AnswerPoll \/ FailPoll \/ ReceivePoll \/ GiveUpPoll
  \/ SendResult \/ ServeResult \/ AnswerResult
  \/ RestartPlatform \/ CrashAgent

Spec == Init /\ [][Next]_vars

-----------------------------------------------------------------------------
\* Variables the composition adds, and those of the agent, have their types.
TypeOK ==
  /\ Platform!TypeOK
  /\ pollAllowed \in BOOLEAN
  /\ pc \in Agent!Places
  /\ poll \in PollPlaces
  /\ late \in 0..MaxLate
  /\ (job # NoJob) = (pc \in {"polled", "executing", "performed"})
  /\ poll # "none" => pc = "polling"
  /\ quarantine \subseteq sent

\* A label is printed at most once for one print command, whatever is lost,
\* late, repeated or restarted.
PrintAtMostOnce == \A c \in Unsafe : effects[c] <= 1

\* The device is never touched for a command whose deadline has passed.
InvokedInTime == \A i \in invoked : i.at < cmd[i.cmd].deadline

\* A request that was told "expired" (nothing was dispatched) may order the
\* print again: its command was not executed and never will be, even when a
\* poll claimed the row while the timeout was deciding.
ExpiredNeverExecuted ==
  \A c \in Unsafe : caller[c] = "expired" => ~\E i \in invoked : i.cmd = c

\* A settled row tells the physical truth about a print.
RowTellsTheTruth ==
  \A c \in Unsafe :
    /\ cmd[c].status \in {"failed", "expired"} => effects[c] = 0
    /\ cmd[c].status = "done" => effects[c] = 1

\* A definite result of a print that the platform turned down leaves the row
\* undecided for the administrator, or a copy of it that came later is the row.
RejectedLeavesUnknown ==
  \A e \in quarantine :
    e.cmd \in Unsafe /\ e.reply.status # "delivery_unknown" =>
      cmd[e.cmd].status \in {"delivery_unknown", e.reply.status}

-----------------------------------------------------------------------------
\* What a print looks like to the request that ordered it.

Stored  == {outbox[i] : i \in 1..Len(outbox)}
Written == sent \union Stored  \* every result the agent ever stored
Run(c)  == \E i \in invoked : i.cmd = c
Held(c) == job # NoJob /\ job.cmd = c

\* What became of a print at the printer; with a result and without a label it
\* is over.
AtPrinter(c) ==
  IF effects[c] > 0 THEN "printed"
  ELSE IF Held(c) /\ pc = "executing" THEN "busy"
  ELSE IF Run(c) \/ \E e \in Written : e.cmd = c THEN "clean"
  ELSE "idle"

\* It is over, too, for a request that was told that nothing was dispatched.
Paper(c) == IF AtPrinter(c) = "idle" /\ caller[c] = "expired" THEN "clean" ELSE AtPrinter(c)

Rejections == [expired |-> "not_dispatched", delivery_unknown |-> "outcome_unknown", error |-> "error"]

Told(c) ==
  IF caller[c] = "answered" THEN answer[c].status
  ELSE IF caller[c] \in DOMAIN Rejections THEN Rejections[caller[c]]
  ELSE "nothing"

Label(c) == INSTANCE LabelCommand WITH row <- cmd[c].status, device <- Paper(c), told <- Told(c)

\* Platform and agent keep the promise a print request relies on: the printer
\* starts once and only for a command in flight, the row ends truthfully, and
\* the request is told the row, or "not dispatched" only if no label can come.
ImplementsLabelCommand ==
  /\ \A c \in Unsafe : Label(c)!Init
  /\ [][\A c \in Unsafe : UNCHANGED <<cmd[c].status, Paper(c), Told(c)>> \/ Label(c)!Step]_vars

-----------------------------------------------------------------------------
\* Why the invariants hold: the parts of the inductive invariant.

Entries == [cmd : Commands, lease : Nat, reply : Platform!AgentResult]
Jobs    == [cmd : Commands, lease : Nat, budget : Nat]

\* With these a row or a job is never mistaken for its absence.
ASSUME LinkAssumption ==
  /\ Unsafe \subseteq Commands
  /\ Timeout \in Nat \ {0}
  /\ MaxTime \in Nat /\ MaxResolving \in Nat /\ MaxLate \in Nat
  /\ Margin \in Nat
  /\ NoRow \notin Platform!Row
  /\ NoJob \notin Jobs

AgentTypes ==
  /\ pollStart \in Nat
  /\ job \in Jobs \union {NoJob}
  /\ outbox \in Seq(Entries)
  /\ invoked \subseteq [cmd : Commands, at : Nat]
  /\ effects \in [Commands -> Nat]
  /\ handed \subseteq Jobs
  /\ sent \subseteq Entries

\* Where the poll request and the agent are, and what they have in hand there.
InPlace ==
  /\ poll = "serving" => Post \in polling
  /\ handed # {} => poll = "answered"
  /\ pc = "sending" => outbox # <<>>

\* The agent knows only commands that were handed to it, under a lease it was
\* given, and the platform only results that were sent.
OnlyWhatWasGiven ==
  /\ \A h \in handed : h.lease \in 1..cmd[h.cmd].attempt
  /\ job # NoJob => job.lease \in 1..cmd[job.cmd].attempt
  /\ \A e \in Written : e.lease \in 1..cmd[e.cmd].attempt
  /\ \A i \in invoked : cmd[i.cmd].attempt > 0
  /\ pc \in {"executing", "performed"} => Run(job.cmd)
  /\ \A c \in Commands : effects[c] > 0 => Run(c)
  /\ \A t \in resolving : [cmd |-> t.cmd, lease |-> t.lease, reply |-> t.reply] \in sent
  /\ \A a \in acks : [cmd |-> a.cmd, lease |-> a.lease, reply |-> a.reply] \in sent

\* One print is in one place: on its way to the agent, in its hands, or
\* written down once and for all with what really happened to it.
Course(c) ==
  /\ \A h \in handed : h.cmd = c => ~Run(c) /\ \A e \in Written : e.cmd # c
  /\ Held(c) => \A e \in Written : e.cmd # c
  /\ Held(c) /\ pc = "polled" => ~Run(c)
  /\ Held(c) /\ pc = "executing" => effects[c] = 0
  /\ Held(c) /\ pc = "performed" => effects[c] = 1
  /\ effects[c] <= 1
  /\ \A e, f \in Written : e.cmd = c /\ f.cmd = c => e = f
  /\ \A e \in Written : e.cmd = c =>
       /\ e.reply.status = "done" => effects[c] = 1
       /\ e.reply.status = "failed" => effects[c] = 0

OneCourse == \A c \in Unsafe : Course(c)

\* The budget the agent is given never reaches beyond the deadline of the row,
\* counted from the moment it sent the poll.
BudgetInTime ==
  /\ pollStart <= now
  /\ \A c \in Commands :
       poll = "serving" /\ Platform!Locked(c) /\ draft[c].status = "in_flight" =>
         pollStart + budget[Post] <= cmd[c].deadline
  /\ \A h \in handed : pollStart + h.budget <= cmd[h.cmd].deadline
  /\ job # NoJob => pollStart + job.budget <= cmd[job.cmd].deadline

\* A command whose time is over and which the device was never touched for.
NeverRun(c) == cmd[c].status # "none" /\ cmd[c].deadline <= now /\ ~Run(c)

\* An "expired" verdict on a print is only reached, and its timer only reads it
\* as queued, when it can no longer be executed.
ExpiredIsOver ==
  \A c \in Unsafe :
    /\ firing[c] # NoRow /\ firing[c].status = "queued" => NeverRun(c)
    /\ verdict[c] = "expired" => NeverRun(c)
    /\ caller[c] = "expired" => NeverRun(c)

\* The print the agent is given, or has not decided about, is in flight until its
\* deadline.
InHandIsInFlight ==
  \A c \in Unsafe :
    /\ (\E h \in handed : h.cmd = c) \/ (Held(c) /\ pc = "polled")
    /\ now < cmd[c].deadline
    => cmd[c].status = "in_flight"

\* A definite row repeats a result that was sent; a result of a print is turned
\* down for good only when its row is settled.
RowsRepeatResults ==
  /\ \A c \in Commands : cmd[c].status \in {"done", "failed"} =>
       \E e \in sent : e.cmd = c /\ e.reply.status = cmd[c].status
  /\ \A e \in quarantine : e.cmd \in Unsafe => cmd[e.cmd].status \in Platform!Terminal

LinkInv ==
  /\ TypeOK /\ AgentTypes /\ InPlace /\ InvokedInTime
  /\ OnlyWhatWasGiven /\ OneCourse /\ BudgetInTime /\ ExpiredIsOver /\ InHandIsInFlight
  /\ RowsRepeatResults

IInv == Platform!IInv /\ Platform!History /\ LinkInv
================================================================================
