----------------------------- MODULE GatewayAgent -----------------------------
(***************************************************************************)
(* The agent of one post: GatewayAgent.pollOnce with its durable result    *)
(* outbox.  One pass delivers every stored result, asks for a command only *)
(* when none is left and the platform allows polling, executes what it is  *)
(* given if its time budget still holds, stores the result and delivers it.*)
(* Every request may fail; the process may die between any two steps and   *)
(* keeps only its files.                                                   *)
(*                                                                         *)
(* The device is external: an invocation may take any time, its physical   *)
(* effect happens at most once per invocation, it is reported failed only  *)
(* if it did not happen, done only if it did.                              *)
(***************************************************************************)
EXTENDS Integers, Sequences

CONSTANTS
  Commands,
  Margin,  \* EXECUTION_SAFETY_MARGIN_MS in clock ticks
  Reason,  \* reasonCode of the results of this agent
  NoJob    \* no command is being handled

VARIABLES
  now,         \* monotonic clock; it runs at the rate of the platform's clock
  pollAllowed, \* the last heartbeat answer allows polling
  pc,          \* where pollOnce is
  pollStart,   \* when the current poll request was sent
  job,         \* the polled command: its id, lease and execution budget
  outbox,      \* stored results not delivered yet (file)
  quarantine,  \* results the platform rejected for good (file)
  invoked,     \* invocations of the device so far, as [cmd, at]
  effects      \* how often the physical effect of a command happened

durable == <<outbox, quarantine>>
world   == <<invoked, effects>>
agent   == <<pollAllowed, pc, pollStart, job, durable, world>>

Places == {"idle", "flushing", "sending", "polling", "polled", "executing", "performed"}

Reply(status) == [status |-> status, reason |-> Reason]
Entry(status) == [cmd |-> job.cmd, lease |-> job.lease, reply |-> Reply(status)]

Init ==
  /\ pollAllowed = FALSE  \* production: no hardware before an explicit grant
  /\ pc = "idle"
  /\ pollStart = 0
  /\ job = NoJob
  /\ outbox = <<>>
  /\ quarantine = {}
  /\ invoked = {}
  /\ effects = [c \in Commands |-> 0]

Goto(place) == pc' = place

-----------------------------------------------------------------------------
\* heartbeatOnce learns whether the platform takes this protocol version.
HeartbeatAcked(allowed) ==
  /\ pollAllowed # allowed
  /\ pollAllowed' = allowed
  /\ UNCHANGED <<pc, pollStart, job, durable, world>>

\* The poll timer; a pass that is still running is not entered again.
Wake ==
  /\ pc = "idle"
  /\ Goto("flushing")
  /\ UNCHANGED <<pollAllowed, pollStart, job, durable, world>>

-----------------------------------------------------------------------------
\* flushResults, before the poll and again after an execution: the oldest
\* stored result is sent until none is left or a request fails.
SendResult ==
  /\ pc = "flushing" /\ outbox # <<>>
  /\ Goto("sending")
  /\ UNCHANGED <<pollAllowed, pollStart, job, durable, world>>

ResultAcked ==
  /\ pc = "sending"
  /\ outbox' = Tail(outbox)
  /\ Goto("flushing")
  /\ UNCHANGED <<pollAllowed, pollStart, job, quarantine, world>>

\* 400, 404, 409, 410 and 422 are final.
ResultRejected ==
  /\ pc = "sending"
  /\ quarantine' = quarantine \union {Head(outbox)}
  /\ outbox' = Tail(outbox)
  /\ Goto("flushing")
  /\ UNCHANGED <<pollAllowed, pollStart, job, world>>

\* No answer, or any other status: everything stays stored, the pass ends.
ResultUnanswered ==
  /\ pc = "sending"
  /\ Goto("idle")
  /\ UNCHANGED <<pollAllowed, pollStart, job, durable, world>>

-----------------------------------------------------------------------------
Poll ==
  /\ pc = "flushing" /\ outbox = <<>> /\ pollAllowed
  /\ pollStart' = now
  /\ Goto("polling")
  /\ UNCHANGED <<pollAllowed, job, durable, world>>

PollNotAllowed ==
  /\ pc = "flushing" /\ outbox = <<>> /\ ~pollAllowed
  /\ Goto("idle")
  /\ UNCHANGED <<pollAllowed, pollStart, job, durable, world>>

PollAnswered(handed) ==
  /\ pc = "polling"
  /\ job' = handed
  /\ Goto("polled")
  /\ UNCHANGED <<pollAllowed, pollStart, durable, world>>

\* An empty answer, an error or no answer in time.
PollEmpty ==
  /\ pc = "polling"
  /\ pollStart' = 0
  /\ Goto("idle")
  /\ UNCHANGED <<pollAllowed, job, durable, world>>

-----------------------------------------------------------------------------
\* Mutant: the time since the poll request is not charged to the budget.
HasExecutionGrantStale == job.budget > Margin

HasExecutionGrant == job.budget - (now - pollStart) > Margin

Store(status) ==
  /\ outbox' = Append(outbox, Entry(status))
  /\ job' = NoJob
  /\ pollStart' = 0
  /\ Goto("flushing")
  /\ UNCHANGED <<pollAllowed, quarantine, world>>

Refuse ==
  /\ pc = "polled" /\ ~HasExecutionGrant
  /\ Store("failed")

Invoke ==
  /\ pc = "polled" /\ HasExecutionGrant
  /\ invoked' = invoked \union {[cmd |-> job.cmd, at |-> now]}
  /\ Goto("executing")
  /\ UNCHANGED <<pollAllowed, pollStart, job, durable, effects>>

Perform ==
  /\ pc = "executing"
  /\ effects' = [effects EXCEPT ![job.cmd] = @ + 1]
  /\ Goto("performed")
  /\ UNCHANGED <<pollAllowed, pollStart, job, durable, invoked>>

\* Mutant: a printer error after the label left is reported as failed.
FinishHasty ==
  \/ pc = "executing" /\ Store("delivery_unknown")
  \/ pc = "performed" /\ \E status \in {"done", "failed"} : Store(status)

Finish ==
  \/ pc = "executing" /\ \E status \in {"failed", "delivery_unknown"} : Store(status)
  \/ pc = "performed" /\ \E status \in {"done", "delivery_unknown"} : Store(status)

-----------------------------------------------------------------------------
\* Mutants: a restarted agent resumes the command it was given, or remembers it
\* without resuming.
CrashResumes ==
  /\ pc # "idle" \/ pollAllowed
  /\ pollAllowed' = FALSE
  /\ Goto(IF job = NoJob THEN "idle" ELSE "polled")
  /\ UNCHANGED <<pollStart, job, durable, world>>

CrashRemembers ==
  /\ pc # "idle" \/ pollAllowed
  /\ pollAllowed' = FALSE
  /\ Goto("idle")
  /\ pollStart' = 0
  /\ UNCHANGED <<job, durable, world>>

\* The process dies and starts again: files and physical facts remain.
Crash ==
  /\ pc # "idle" \/ pollAllowed
  /\ pollAllowed' = FALSE
  /\ Goto("idle")
  /\ pollStart' = 0
  /\ job' = NoJob
  /\ UNCHANGED <<durable, world>>
==============================================================================
