---------------------------- MODULE MailDelivery ----------------------------
(***************************************************************************)
(* Mail sent outside the request that causes it, across the life of the    *)
(* API process: the verdict on an account request (Notifier) and the code  *)
(* of a forgotten password (ForgotPassword).                               *)
(*                                                                         *)
(* Both hand a job to a bounded queue in memory and answer the caller at   *)
(* once.  The queue dies with the process; the alumni_requests row is what *)
(* survives, and a walk at start re-queues what the row says was never     *)
(* attempted.  The consumer, the walk and the request handlers run side by *)
(* side, the process may be stopped or killed at every step, and every     *)
(* write, every send and its answer may fail.                              *)
(***************************************************************************)
EXTENDS Naturals, Sequences, FiniteSets

CONSTANTS
  Tickets,        \* account requests
  Requests,       \* forgot-password requests
  NoJob,          \* an idle worker
  QueueSize,      \* capacity of each queue
  ReconcileBatch, \* rows the walk lists at a time
  MaxConcurrent,  \* SMTP conversations at a time
  Starts          \* initial situations: the rows, and what may go wrong

ASSUME DeliveryAssumption ==
  /\ {QueueSize, ReconcileBatch, MaxConcurrent} \subseteq Nat \ {0}
  /\ NoJob \notin Tickets \cup Requests

VARIABLES
  proc,     \* "up", "cancelled" (workers told to stop), "draining" (listener closed), "down";
            \* "absent": no process is run at all
  ticket,   \* alumni_requests: [status, attempts, notified]
  handler,  \* review handlers that have committed and not yet queued their mail
  jobs,     \* the notifier's queue
  mailer,   \* the notifier's consumer: [st, job]
  walk,     \* the start-up walk: [st, seen, rows]
  asked,    \* forgot-password requests: "idle", "queued", or how the job ended
  resets,   \* the forgot-password queue
  resetter, \* the forgot-password consumer: [st, job]
  smtp,     \* who holds an SMTP slot
  left,     \* stops, failures and resends still to come; whether requests mail codes
  mails,    \* ghost: verdict mails the relay accepted, per ticket
  tried,    \* ghost: tickets whose send was started or refused in the open
  excuse    \* ghost: tickets that two jobs were made for, or whose attempt went uncounted

deliveryVars == <<ticket, handler, jobs, mailer, walk, mails, tried>>
resetVars == <<asked, resets, resetter>>
vars == <<proc, left, smtp, deliveryVars, resetVars, excuse>>

Range(s) == {s[i] : i \in DOMAIN s}

IdleWorker == [st |-> "idle", job |-> NoJob]
StoppedWorker == [st |-> "stopped", job |-> NoJob]
NewWalk == [st |-> "list", seen |-> {}, rows |-> <<>>]

Running == proc \notin {"down", "absent"}
Listening == proc \in {"up", "cancelled"}   \* workers are cancelled before the listener closes
Cancelled == proc # "up"

Fault == left.faults > 0 /\ left' = [left EXCEPT !.faults = @ - 1]

\* How many jobs for t exist or are about to: queued, in the consumer's hands, listed
\* by the walk, or in a handler between its commit and its enqueue.
Claims(t) ==
  Cardinality({i \in DOMAIN jobs : jobs[i] = t}) + Cardinality({i \in DOMAIN walk.rows : walk.rows[i] = t})
    + (IF mailer.job = t THEN 1 ELSE 0) + (IF t \in handler THEN 1 ELSE 0)

----------------------------------------------------------------------------
(* Reviews.  A silent rejection is marked as notified by the transaction that rejects. *)

Verdict(t, silent) ==
  ticket' = [ticket EXCEPT ![t] = [@ EXCEPT !.status = IF silent THEN "silent" ELSE "decided",
                                             !.notified = silent]]

Review(t) ==
  /\ Listening /\ ticket[t].status = "pending"
  /\ \E silent \in BOOLEAN :
       /\ Verdict(t, silent)
       /\ handler' = IF silent THEN handler ELSE handler \cup {t}
  /\ UNCHANGED <<proc, left, smtp, resetVars, jobs, mailer, walk, mails, tried>>

\* A queue that is full refuses at once; the reviewer is told.
EnqueueAlumniNotification(t) ==
  IF Len(jobs) < QueueSize
  THEN jobs' = Append(jobs, t) /\ UNCHANGED tried
  ELSE tried' = tried \cup {t} /\ UNCHANGED jobs

EnqueueNotification(t) ==
  /\ Running /\ t \in handler
  /\ handler' = handler \ {t}
  /\ EnqueueAlumniNotification(t)
  /\ UNCHANGED <<proc, left, smtp, resetVars, ticket, mailer, walk, mails>>

ResendNotification(t) ==
  /\ Listening /\ t \in left.resends
  /\ ticket[t].status = "decided"
  /\ left' = [left EXCEPT !.resends = @ \ {t}]
  /\ EnqueueAlumniNotification(t)
  /\ UNCHANGED <<proc, smtp, resetVars, ticket, handler, mailer, walk, mails>>

----------------------------------------------------------------------------
(* The SMTP slots both workers and the synchronous code mails share *)

Acquire(who) == Cardinality(smtp) < MaxConcurrent /\ smtp' = smtp \cup {who}
Release(who) == smtp' = smtp \ {who}

\* A request that mails a code itself holds a slot for a while.
CodeMail ==
  /\ Listening /\ left.codes
  /\ "handler" \notin smtp /\ Acquire("handler")
  /\ UNCHANGED <<proc, left, deliveryVars, resetVars>>

CodeMailed ==
  /\ Running
  /\ "handler" \in smtp /\ Release("handler")
  /\ UNCHANGED <<proc, left, deliveryVars, resetVars>>

----------------------------------------------------------------------------
(* Notifier *)

\* Once cancelled, a job the consumer still picks up is dropped.
TakeJob ==
  /\ Running /\ mailer.st = "idle"
  /\ \/ /\ ~Cancelled /\ jobs # <<>>
        /\ mailer' = [st |-> "mark", job |-> Head(jobs)]
        /\ jobs' = Tail(jobs)
     \/ /\ Cancelled
        /\ mailer' = StoppedWorker
        /\ jobs' \in {jobs, IF jobs = <<>> THEN jobs ELSE Tail(jobs)}
  /\ UNCHANGED <<proc, left, smtp, resetVars, ticket, handler, walk, mails, tried>>

\* The attempt is counted before the send; failing to count it does not stop the send.
MarkAttempt ==
  /\ Running /\ mailer.st = "mark"
  /\ \/ ticket' = [ticket EXCEPT ![mailer.job].attempts = 1] /\ UNCHANGED left
     \/ Fault /\ UNCHANGED ticket
  /\ mailer' = [mailer EXCEPT !.st = "wait"]
  /\ UNCHANGED <<proc, smtp, resetVars, handler, jobs, walk, mails, tried>>

StartSend ==
  /\ Running /\ mailer.st = "wait"
  /\ Acquire("notifier")
  /\ mailer' = [mailer EXCEPT !.st = "send"]
  /\ tried' = tried \cup {mailer.job}
  /\ UNCHANGED <<proc, left, resetVars, ticket, handler, jobs, walk, mails>>

\* The relay accepts the mail, or not; its answer may be lost after it accepted.
FinishSend ==
  /\ Running /\ mailer.st = "send"
  /\ Release("notifier")
  /\ \/ /\ mails' = [mails EXCEPT ![mailer.job] = @ + 1]
        /\ mailer' = [mailer EXCEPT !.st = "confirm"]
        /\ UNCHANGED left
     \/ /\ Fault
        /\ mails' \in {mails, [mails EXCEPT ![mailer.job] = @ + 1]}
        /\ mailer' = IdleWorker
  /\ UNCHANGED <<proc, resetVars, ticket, handler, jobs, walk, tried>>

MarkNotified ==
  /\ Running /\ mailer.st = "confirm"
  /\ \/ ticket' = [ticket EXCEPT ![mailer.job].notified = TRUE] /\ UNCHANGED left
     \/ Fault /\ UNCHANGED ticket
  /\ mailer' = IdleWorker
  /\ UNCHANGED <<proc, smtp, resetVars, handler, jobs, walk, mails, tried>>

\* Mutant: whatever is not confirmed is listed again.
ListUnconfirmed(t) == ticket[t].status # "pending" /\ ~ticket[t].notified

ListUnnotifiedReviewed(t) ==
  ticket[t].status # "pending" /\ ~ticket[t].notified /\ ticket[t].attempts = 0

\* Lists the next batch past what this walk has queued; an error restarts it later.
WalkList ==
  /\ Running /\ ~Cancelled /\ walk.st = "list"
  /\ LET due == {t \in Tickets \ walk.seen : ListUnnotifiedReviewed(t)} IN
     \/ /\ due = {}
        /\ walk' = [NewWalk EXCEPT !.st = "done"]
        /\ UNCHANGED left
     \/ /\ \E n \in 1 .. ReconcileBatch : \E rows \in [1 .. n -> due] :
             /\ Cardinality(Range(rows)) = n
             /\ n = ReconcileBatch \/ n = Cardinality(due)
             /\ walk' = [st |-> "queue", seen |-> walk.seen \cup Range(rows), rows |-> rows]
        /\ UNCHANGED left
     \/ /\ Fault
        /\ walk' = [NewWalk EXCEPT !.st = "sleep"]
  /\ UNCHANGED <<proc, smtp, resetVars, ticket, handler, jobs, mailer, mails, tried>>

\* A full queue parks the walk until the consumer frees a slot.
WalkQueue ==
  /\ Running /\ ~Cancelled /\ walk.st = "queue"
  /\ Len(jobs) < QueueSize
  /\ jobs' = Append(jobs, Head(walk.rows))
  /\ walk' = [walk EXCEPT !.rows = Tail(@), !.st = IF Tail(walk.rows) = <<>> THEN "list" ELSE "queue"]
  /\ UNCHANGED <<proc, left, smtp, resetVars, ticket, handler, mailer, mails, tried>>

\* Mutant: a walk that failed is not tried again.
WalkGivesUp ==
  /\ Running /\ walk.st = "sleep"
  /\ walk' = [NewWalk EXCEPT !.st = "done"]
  /\ UNCHANGED <<proc, left, smtp, resetVars, ticket, handler, jobs, mailer, mails, tried>>

WalkRetry ==
  /\ Running /\ ~Cancelled /\ walk.st = "sleep"
  /\ walk' = NewWalk
  /\ UNCHANGED <<proc, left, smtp, resetVars, ticket, handler, jobs, mailer, mails, tried>>

----------------------------------------------------------------------------
(* ForgotPassword *)

EnqueueForgotPassword(r) ==
  IF Len(resets) < QueueSize
  THEN resets' = Append(resets, r) /\ asked' = [asked EXCEPT ![r] = "queued"]
  ELSE asked' = [asked EXCEPT ![r] = "refused"] /\ UNCHANGED resets

ForgotPasswordSendCode(r) ==
  /\ Listening /\ asked[r] = "idle"
  /\ EnqueueForgotPassword(r)
  /\ UNCHANGED <<proc, left, smtp, resetter, deliveryVars>>

TakeReset ==
  /\ Running /\ resetter.st = "idle"
  /\ \/ /\ resets # <<>>                     \* the choice between stop and job is open
        /\ resetter' = [st |-> "lookup", job |-> Head(resets)]
        /\ resets' = Tail(resets)
     \/ Cancelled /\ resetter' = StoppedWorker /\ UNCHANGED resets
  /\ UNCHANGED <<proc, left, smtp, asked, deliveryVars>>

ResetOver(outcome) ==
  /\ resetter' = IdleWorker
  /\ asked' = [asked EXCEPT ![resetter.job] = outcome]

\* A step that fails leaves an audit row, unless the process is stopping or that write fails too.
ResetFails ==
  \/ ~Cancelled /\ Fault /\ ResetOver("failed")
  \/ ~Cancelled /\ left.faults > 1 /\ left' = [left EXCEPT !.faults = @ - 2] /\ ResetOver("lost")
  \/ Cancelled /\ ResetOver("lost") /\ UNCHANGED left

ResetLookup ==
  /\ Running /\ resetter.st = "lookup"
  /\ \/ ~Cancelled /\ resetter' = [resetter EXCEPT !.st = "save"] /\ UNCHANGED <<asked, left>>
     \/ ~Cancelled /\ ResetOver("gone") /\ UNCHANGED left
     \/ ResetFails
  /\ UNCHANGED <<proc, smtp, resets, deliveryVars>>

ResetSave ==
  /\ Running /\ resetter.st = "save"
  /\ \/ ~Cancelled /\ resetter' = [resetter EXCEPT !.st = "wait"] /\ UNCHANGED <<asked, left>>
     \/ ResetFails
  /\ UNCHANGED <<proc, smtp, resets, deliveryVars>>

\* Waiting for a slot ends when the process stops.
ResetWait ==
  /\ Running /\ resetter.st = "wait"
  /\ \/ Acquire("resetter") /\ resetter' = [resetter EXCEPT !.st = "send"] /\ UNCHANGED <<asked, left>>
     \/ Cancelled /\ ResetOver("lost") /\ UNCHANGED <<left, smtp>>
  /\ UNCHANGED <<proc, resets, deliveryVars>>

ResetSend ==
  /\ Running /\ resetter.st = "send"
  /\ \/ ~Cancelled /\ ResetOver("mailed") /\ UNCHANGED left
     \/ ResetFails
  /\ Release("resetter")
  /\ UNCHANGED <<proc, resets, deliveryVars>>

----------------------------------------------------------------------------
(* serve *)

\* A signal, a listener error or a worker's error or panic: the workers are cancelled first.
Stop ==
  /\ proc = "up" /\ left.stops > 0
  /\ proc' = "cancelled"
  /\ left' = [left EXCEPT !.stops = @ - 1]
  /\ UNCHANGED <<smtp, deliveryVars, resetVars>>

CloseListener ==
  /\ proc = "cancelled"
  /\ proc' = "draining"
  /\ UNCHANGED <<left, smtp, deliveryVars, resetVars>>

\* Everything the process holds in memory is gone.
Gone ==
  /\ proc' = "down"
  /\ handler' = {} /\ jobs' = <<>> /\ mailer' = IdleWorker /\ walk' = NewWalk /\ smtp' = {}
  /\ resets' = <<>> /\ resetter' = IdleWorker
  /\ asked' = [r \in Requests |-> IF asked[r] = "queued" THEN "lost" ELSE asked[r]]
  /\ UNCHANGED <<ticket, mails, tried>>

\* Handlers and workers have finished, or the grace period is over: what the notifier
\* still has in its hands is then cut off wherever it is.
Exit ==
  /\ proc = "draining"
  /\ Gone
  /\ UNCHANGED left

Crash ==
  /\ Running /\ left.stops > 0
  /\ left' = [left EXCEPT !.stops = @ - 1]
  /\ Gone

Restart ==
  /\ proc = "down"
  /\ proc' = "up"
  /\ UNCHANGED <<left, smtp, deliveryVars, resetVars>>

Init ==
  \E s \in Starts :
    /\ proc = s.proc
    /\ ticket = s.ticket
    /\ handler = {} /\ jobs = <<>> /\ mailer = IdleWorker /\ walk = NewWalk
    /\ asked = [r \in Requests |-> IF r \in s.asking THEN "idle" ELSE "never"]
    /\ resets = <<>> /\ resetter = IdleWorker
    /\ smtp = {}
    /\ left = [stops |-> s.stops, faults |-> s.faults, resends |-> s.resends, codes |-> s.codes]
    /\ mails = [t \in Tickets |-> 0]
    /\ tried = {} /\ excuse = {}

Notifying == TakeJob \/ MarkAttempt \/ StartSend \/ FinishSend \/ MarkNotified
Walking == WalkList \/ WalkQueue \/ WalkRetry
Resetting == TakeReset \/ ResetLookup \/ ResetSave \/ ResetWait \/ ResetSend
Handling == \E t \in Tickets : EnqueueNotification(t)
Asking ==
  \/ \E t \in Tickets : Review(t) \/ ResendNotification(t)
  \/ \E r \in Requests : ForgotPasswordSendCode(r)
  \/ CodeMail
Serving == Stop \/ CloseListener \/ Exit \/ Crash \/ Restart

\* What excuses a second mail: a resend, an attempt that went uncounted, or two jobs for
\* one ticket at the same time (a review committed while the walk is listing).
NoteExcuse ==
  excuse' = excuse \cup (left.resends \ left'.resends)
                   \cup {t \in Tickets : \/ Claims(t)' > 1
                                         \/ mailer.st = "mark" /\ mailer.job = t /\ ticket'[t].attempts = 0}

Next ==
  /\ Notifying \/ Walking \/ Resetting \/ Handling \/ Asking \/ CodeMailed \/ Serving
  /\ NoteExcuse

\* Every goroutine that can run is run; a goroutine waiting for an SMTP slot is queued in
\* order, so that a slot freed again and again comes to it.  The process is restarted.
Fairness ==
  /\ WF_vars(Notifying /\ NoteExcuse) /\ SF_vars(StartSend /\ NoteExcuse)
  /\ WF_vars(Walking /\ NoteExcuse)
  /\ WF_vars(Resetting /\ NoteExcuse) /\ SF_vars(ResetWait /\ NoteExcuse)
  /\ WF_vars(Handling /\ NoteExcuse) /\ WF_vars(CodeMailed /\ NoteExcuse)
  /\ WF_vars((CloseListener \/ Exit \/ Restart) /\ NoteExcuse)

Spec == Init /\ [][Next]_vars /\ Fairness

----------------------------------------------------------------------------
Workers == [st : {"idle", "stopped", "mark", "wait", "send", "confirm", "lookup", "save"},
            job : Tickets \cup Requests \cup {NoJob}]

\* Every variable has its type; no queue and no pool of SMTP slots exceeds its bound.
TypeOK ==
  /\ proc \in {"up", "cancelled", "draining", "down", "absent"}
  /\ ticket \in [Tickets -> [status : {"pending", "decided", "silent"}, attempts : {0, 1},
                             notified : BOOLEAN]]
  /\ handler \subseteq Tickets
  /\ Range(jobs) \subseteq Tickets /\ Len(jobs) <= QueueSize
  /\ Range(resets) \subseteq Requests /\ Len(resets) <= QueueSize
  /\ mailer \in Workers /\ resetter \in Workers
  /\ walk.seen \subseteq Tickets /\ Range(walk.rows) \subseteq walk.seen
  /\ Cardinality(smtp) <= MaxConcurrent

\* No ticket's verdict is mailed twice because the process died between a send and its
\* confirmation: a second mail takes a resend, an attempt that could not be counted, or
\* two jobs made for the ticket at the same time.
DeathIsNoDuplicate == \A t \in Tickets : mails[t] > 1 => t \in excuse

\* A silent rejection is never mailed: not by the reviewer's request, not by the walk of a
\* later process, not by a resend.
SilentIsNeverMailed == \A t \in Tickets : ticket[t].status = "silent" => mails[t] = 0

\* A verdict that is not silent is taken up in the end: an attempt is counted or started,
\* or the reviewer is told it was not queued, whatever is lost in stops, crashes, full
\* queues and failed listings on the way.
VerdictIsTakenUp ==
  []<>(\A t \in Tickets : ticket[t].status = "decided" => ticket[t].attempts > 0 \/ t \in tried)

\* A forgot-password job that was accepted comes to an end: mailed, failed with its audit
\* row, dropped with the account, or lost with the process.  No failure stalls the queue.
AcceptedResetEnds == []<>(\A r \in Requests : asked[r] # "queued")

\* What holds of the two mail queues at every moment: bounds, no second mail through a
\* death, and silence where it was asked for.
MailSound == TypeOK /\ DeathIsNoDuplicate /\ SilentIsNeverMailed

\* What was accepted comes to an end, verdicts and resets alike.
MailEnds == VerdictIsTakenUp /\ AcceptedResetEnds
============================================================================
