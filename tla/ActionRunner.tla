---------------------------- MODULE ActionRunner ----------------------------
(***************************************************************************)
(* Remote actions (pkg/actions): @@ messages heard on the air and from     *)
(* APRS-IS, the window that recognises copies of a message, and the runner *)
(* with one queue and one worker per action.  One action; another action's *)
(* queue shares nothing with it.                                           *)
(***************************************************************************)
EXTENDS Naturals, Sequences, FiniteSets

CONSTANTS
    Receivers,  \* goroutines that classify: the RF fan-out and the iGate's reader
    Messages,   \* what tells messages apart: sender, message id and text
    Rows,       \* what the operator may save for the action
    MaxCopies,  \* bound: copies heard
    MaxLapses,  \* bound: times a message's dedup window passes
    MaxEdits    \* bound: saves of the action

ASSUME ActionAssumption ==
    /\ Rows \subseteq [status : {"enabled", "disabled", "deleted"}, depth : Nat, limit : BOOLEAN]
    /\ {MaxCopies, MaxLapses, MaxEdits} \subseteq Nat
    /\ IsFiniteSet(Receivers)

VARIABLES
    row,         \* the action in the configuration store
    remembered,  \* messages within their dedup window
    rx,          \* of each receiver: where it is, with which message and row
    closed,      \* Runner.closed
    stop,        \* where Stop is
    q,           \* the action's queue, with its worker; lastFire lies within the window or in the past
    worker,      \* what the worker does, and with which message
    inline,      \* invocations of a message that run outside the queue
    copies, lapses, edits,  \* counts, against the bounds
    taken, runs, answers, dropped,  \* history: per message, copies let past the window, executions,
                                    \* replies with their audit row, copies ignored by a closed runner
    inWindow     \* history: invocations accepted since the rate window began

vars == <<row, remembered, rx, closed, stop, q, worker, inline, copies, lapses, edits,
          taken, runs, answers, dropped, inWindow>>
window == <<remembered, copies, lapses, taken>>
queue == <<q, worker, inWindow>>
stopping == <<closed, stop>>
saved == <<row, edits>>

Zero == [m \in Messages |-> 0]
Free == [pc |-> "idle"]
Init ==
    /\ row \in Rows /\ remembered = {} /\ rx = [r \in Receivers |-> Free]
    /\ closed = FALSE /\ stop = "no"
    /\ q = [there |-> FALSE, cap |-> 0, items |-> <<>>, closed |-> FALSE, last |-> "past"]
    /\ worker = [pc |-> "none"] /\ inline = Zero
    /\ copies = 0 /\ lapses = Zero /\ edits = 0
    /\ taken = Zero /\ runs = Zero /\ answers = Zero /\ dropped = Zero /\ inWindow = 0

At(r, pc) == rx[r].pc = pc
Goto(r, pc) == rx' = [rx EXCEPT ![r].pc = pc]
Return(r) == rx' = [rx EXCEPT ![r] = Free]
Count(f, m) == [f EXCEPT ![m] = @ + 1]

-----------------------------------------------------------------------------
(* Classify, Submit and queueFor: the receiver's goroutine.                 *)

Key_PerRoute(r, m) == <<r, m>>
Key(r, m) == m
\* Classify up to the window: every copy is acked, the first one goes on.
Hear(r, m) ==
    /\ At(r, "idle") /\ copies < MaxCopies /\ copies' = copies + 1
    /\ remembered' = remembered \cup {Key(r, m)}
    /\ IF Key(r, m) \in remembered
       THEN UNCHANGED <<rx, taken>>
       ELSE rx' = [rx EXCEPT ![r] = [pc |-> "lookup", msg |-> m]] /\ taken' = Count(taken, m)
    /\ UNCHANGED <<lapses, queue, stopping, saved, inline, runs, answers, dropped>>

replyAndAudit(m) == answers' = Count(answers, m)

\* The row as it is now goes with the message; an unknown action, a sender that is not
\* allowed or arguments that do not fit are answered here.
Lookup(r) ==
    /\ At(r, "lookup")
    /\ \/ Return(r) /\ replyAndAudit(rx[r].msg)
       \/ /\ row.status # "deleted"
          /\ rx' = [rx EXCEPT ![r] = [pc |-> "submit", msg |-> @.msg, row |-> row]]
          /\ UNCHANGED answers
    /\ UNCHANGED <<window, queue, stopping, saved, inline, runs, dropped>>

Ignore(r) == Return(r) /\ dropped' = Count(dropped, rx[r].msg) /\ UNCHANGED answers
Submit(r) ==
    /\ At(r, "submit")
    /\ IF closed THEN Ignore(r)
       ELSE /\ UNCHANGED dropped
            /\ IF rx[r].row.status = "disabled" THEN Return(r) /\ replyAndAudit(rx[r].msg)
                                                ELSE Goto(r, "queue") /\ UNCHANGED answers
    /\ UNCHANGED <<window, queue, stopping, saved, inline, runs>>

\* A depth of zero runs the invocation at once, in a goroutine of its own.
RunInline(r) ==
    /\ At(r, "queue") /\ rx[r].row.depth = 0
    /\ inline' = Count(inline, rx[r].msg) /\ runs' = Count(runs, rx[r].msg) /\ Return(r)
    /\ UNCHANGED <<window, queue, stopping, saved, answers, dropped>>
InlineEnds(m) ==
    /\ inline[m] > 0 /\ inline' = [inline EXCEPT ![m] = @ - 1] /\ replyAndAudit(m)
    /\ UNCHANGED <<rx, window, queue, stopping, saved, runs, dropped>>

NoQueue == closed
\* The queue keeps the depth it was made with.
queueFor(r) ==
    /\ At(r, "queue") /\ rx[r].row.depth > 0
    /\ IF NoQueue THEN Ignore(r) /\ UNCHANGED <<q, worker>>
       ELSE /\ Goto(r, "offer") /\ UNCHANGED <<answers, dropped>>
            /\ IF q.there THEN UNCHANGED <<q, worker>>
               ELSE /\ q' = [q EXCEPT !.there = TRUE, !.cap = rx[r].row.depth]
                    /\ worker' = [pc |-> "idle"]
    /\ UNCHANGED <<window, inWindow, stopping, saved, inline, runs>>

-----------------------------------------------------------------------------
(* The rest of Submit, under the queue's lock.                              *)

Limited(r) == rx[r].row.limit /\ q.last = "recent"
Full == Len(q.items) = q.cap
Mark(r) == IF rx[r].row.limit THEN "recent" ELSE q.last

OfferClosed(r) ==
    /\ At(r, "offer") /\ q.closed /\ Ignore(r)
    /\ UNCHANGED <<window, queue, stopping, saved, inline, runs>>
Turn(r, last) == q' = [q EXCEPT !.last = last] /\ replyAndAudit(rx[r].msg) /\ Return(r)
OfferLimited(r) ==
    /\ At(r, "offer") /\ ~q.closed /\ Limited(r) /\ Turn(r, q.last)
    /\ UNCHANGED <<window, worker, inWindow, stopping, saved, inline, runs, dropped>>
OfferBusy_KeepsMark(r) ==
    /\ At(r, "offer") /\ ~q.closed /\ ~Limited(r) /\ Full /\ Turn(r, Mark(r))
    /\ UNCHANGED <<window, worker, inWindow, stopping, saved, inline, runs, dropped>>
\* The window is given back.
OfferBusy(r) ==
    /\ At(r, "offer") /\ ~q.closed /\ ~Limited(r) /\ Full /\ Turn(r, q.last)
    /\ UNCHANGED <<window, worker, inWindow, stopping, saved, inline, runs, dropped>>
OfferAccepted(r) ==
    /\ At(r, "offer") /\ ~q.closed /\ ~Limited(r) /\ ~Full
    /\ q' = [q EXCEPT !.items = Append(@, rx[r].msg), !.last = Mark(r)]
    /\ inWindow' = IF rx[r].row.limit THEN inWindow + 1 ELSE inWindow
    /\ Return(r)
    /\ UNCHANGED <<window, worker, stopping, saved, inline, runs, answers, dropped>>

-----------------------------------------------------------------------------
(* The worker, Stop, and what time and the operator do.                     *)

WorkerTakes ==
    /\ worker.pc = "idle" /\ q.items # <<>>
    /\ worker' = [pc |-> "busy", msg |-> Head(q.items)] /\ q' = [q EXCEPT !.items = Tail(@)]
    /\ runs' = Count(runs, Head(q.items))
    /\ UNCHANGED <<rx, window, inWindow, stopping, saved, inline, answers, dropped>>
\* An executor ends, is killed at its timeout or panics: each is a result.
WorkerAnswers ==
    /\ worker.pc = "busy" /\ worker' = [pc |-> "idle"] /\ replyAndAudit(worker.msg)
    /\ UNCHANGED <<rx, window, q, inWindow, stopping, saved, inline, runs, dropped>>
WorkerEnds_Early ==
    /\ worker.pc = "idle" /\ q.closed /\ worker' = [pc |-> "gone"]
    /\ UNCHANGED <<rx, window, q, inWindow, stopping, saved, inline, runs, answers, dropped>>
\* range over a closed channel goes on until it is empty.
WorkerEnds ==
    /\ worker.pc = "idle" /\ q.closed /\ q.items = <<>> /\ worker' = [pc |-> "gone"]
    /\ UNCHANGED <<rx, window, q, inWindow, stopping, saved, inline, runs, answers, dropped>>

\* Stop lists the queues in the critical section in which it closes the runner.
Stop ==
    /\ stop = "no" /\ closed' = TRUE /\ stop' = IF q.there THEN "closing" ELSE "done"
    /\ UNCHANGED <<rx, window, queue, saved, inline, runs, answers, dropped>>
StopCloses ==
    /\ stop = "closing" /\ stop' = "done" /\ q' = [q EXCEPT !.closed = TRUE]
    /\ UNCHANGED <<rx, window, worker, inWindow, closed, saved, inline, runs, answers, dropped>>

Edit ==
    /\ edits < MaxEdits /\ edits' = edits + 1 /\ row' \in Rows \ {row}
    /\ UNCHANGED <<rx, window, queue, stopping, inline, runs, answers, dropped>>
RateWindowPasses ==
    /\ q.last = "recent" /\ q' = [q EXCEPT !.last = "past"] /\ inWindow' = 0
    /\ UNCHANGED <<rx, window, worker, stopping, saved, inline, runs, answers, dropped>>
DedupWindowPasses(m) ==
    /\ \E r \in Receivers : Key(r, m) \in remembered
    /\ remembered' = remembered \ {Key(r, m) : r \in Receivers}
    /\ lapses[m] < MaxLapses /\ lapses' = Count(lapses, m)
    /\ UNCHANGED <<rx, copies, taken, queue, stopping, saved, inline, runs, answers, dropped>>

Receive(r) == \/ Lookup(r) \/ Submit(r) \/ RunInline(r) \/ queueFor(r)
              \/ OfferClosed(r) \/ OfferLimited(r) \/ OfferBusy(r) \/ OfferAccepted(r)
Worker == WorkerTakes \/ WorkerAnswers \/ WorkerEnds
Next == \/ \E r \in Receivers : Receive(r) \/ \E m \in Messages : Hear(r, m)
        \/ Worker \/ Stop \/ StopCloses \/ Edit \/ RateWindowPasses
        \/ \E m \in Messages : InlineEnds(m) \/ DedupWindowPasses(m)

Spec == Init /\ [][Next]_vars
\* The goroutines go on, and executors end (their timeout sees to it).
FairSpec ==
    /\ Spec /\ WF_vars(Worker) /\ WF_vars(StopCloses)
    /\ \A r \in Receivers : WF_vars(Receive(r))
    /\ \A m \in Messages : WF_vars(InlineEnds(m))

-----------------------------------------------------------------------------
\* However many copies of a message come in, by whatever route and at the same time, the
\* action runs once, unless the window has passed in between (classifier.go:102-111,
\* preflight.go:151-172).
RunsOnce == \A m \in Messages : runs[m] <= 1 + lapses[m]

\* The rate window is taken by an invocation that was accepted, and by one at a time: a
\* busy answer gives it back (runner.go:130-160).
RateHonest == inWindow = IF q.last = "recent" THEN 1 ELSE 0

\* Every copy that gets past the window is answered, and once; only a stopped runner
\* ignores it.  What was accepted before Stop is still run (runner.go:93-160, 183-187).
AnsweredOnce == <>[](\A m \in Messages : answers[m] + dropped[m] = taken[m])
=============================================================================
