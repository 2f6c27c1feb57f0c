---------------------------- MODULE MessageRetry ----------------------------
(***************************************************************************)
(* One outbound message row of the messages service (pkg/messages): the    *)
(* goroutine that sends it first, the retry loop, a Resend and a delete    *)
(* from the REST API, the router that correlates acks and the governor's   *)
(* hook that stamps sent_at, all reading and writing the same row.  A      *)
(* writer holds the copy it read; some writes touch single columns, others *)
(* save the whole copy.  Which refusal a send meets, what the peer answers *)
(* and when the process dies is the environment's choice.                  *)
(***************************************************************************)
EXTENDS Naturals, FiniteSets

CONSTANTS
    Kinds,        \* what the row is: "dm", "tactical", or "no_ack", a direct message of
                  \* a conversation with WaitForAck off
    Paths,        \* send policies: of {"rf_only", "is_only", "both", "is_fallback"}
    RfOutcomes,   \* of {"accepted", "full", "stopped", "error", "down", "broken"}
    IsOutcomes,   \* of {"accepted", "failed"}
    Verdicts,     \* what the peer answers: of {"acked", "rejected"}
    MaxAttempts,  \* RetryMaxAttempts
    MaxRequests,  \* bound: Resend and delete requests
    MaxRestarts   \* bound: deaths of the process

ASSUME MessageAssumption ==
    /\ Kinds \subseteq {"dm", "tactical", "no_ack"}
    /\ Paths \subseteq {"rf_only", "is_only", "both", "is_fallback"}
    /\ RfOutcomes \subseteq {"accepted", "full", "stopped", "error", "down", "broken"}
    /\ IsOutcomes \subseteq {"accepted", "failed"} /\ Verdicts \subseteq {"acked", "rejected"}
    /\ MaxAttempts \in Nat \ {0} /\ MaxRequests \in Nat /\ MaxRestarts \in Nat

VARIABLES
    kind, path, \* of the row, fixed: what it is and its send policy
    row,        \* the row in the database
    pc,         \* where each goroutine is
    copy,       \* the row as each goroutine read and changed it
    result,     \* what its send has met so far: [err, retryable]
    inFlight,   \* whether the row is in the retry manager's inFlight map
    pending,    \* frames of the row the governor holds, each with a pending entry
    heard,      \* whether the message was on the air or on APRS-IS
    tries,      \* history: finished attempts that count, since the operator's last order
    saved,      \* history: a send saved its copy, refused or gone over APRS-IS
    resends,    \* Resend requests so far
    restarts,   \* restarts so far
    overtaken,  \* history: a Resend began before the first send had ended
    cancelled   \* history: a delete was begun

vars == <<kind, path, row, pc, copy, result, inFlight, pending, heard,
          tries, saved, resends, restarts, overtaken, cancelled>>
fixed == <<kind, path>>
air == <<pending, heard>>
past == <<tries, saved>>
radio == <<air, past>>
bounds == <<resends, restarts, overtaken, cancelled>>

Senders == {"compose", "loop", "resend"}
Routines == Senders \cup {"delete", "router"}
AckStates == {"none", "acked", "rejected", "broadcast"}
Row == [ack : AckStates, attempts : 0 .. MaxAttempts, scheduled : BOOLEAN,
        sent : BOOLEAN, deleted : BOOLEAN]
Fresh == [ack |-> "none", attempts |-> 0, scheduled |-> FALSE, sent |-> FALSE,
          deleted |-> FALSE]
Unsent == [err |-> "none", retryable |-> FALSE]

\* SendMessage has stored the row and starts the goroutine of its first send.
FirstStep(pth) == IF pth = "is_only" THEN "is" ELSE "rf"
Init ==
    /\ kind \in Kinds /\ path \in Paths
    /\ row = Fresh /\ copy = [g \in Routines |-> Fresh]
    /\ pc = [g \in Routines |-> IF g = "compose" THEN FirstStep(path) ELSE "idle"]
    /\ result = [g \in Senders |-> Unsent]
    /\ inFlight = FALSE /\ pending = 0 /\ heard = FALSE
    /\ tries = 0 /\ saved = FALSE /\ resends = 0 /\ restarts = 0 /\ overtaken = FALSE
    /\ cancelled = FALSE

-----------------------------------------------------------------------------
(* The store.                                                              *)

\* gorm's Save writes every column of the copy, deleted_at with the rest.
Save(c) == row' = c
\* A field-selective UPDATE misses a row that is soft-deleted.
UpdateRetrySchedule_KeepsAttempts(attempts) ==
    row' = IF row.deleted THEN row ELSE [row EXCEPT !.scheduled = TRUE]
UpdateRetrySchedule(attempts) ==
    row' = IF row.deleted THEN row
           ELSE [row EXCEPT !.attempts = attempts, !.scheduled = TRUE]
UpdateSentAtAndAckState ==
    row' = IF row.deleted THEN row
           ELSE [row EXCEPT !.sent = TRUE,
                            !.ack = IF kind = "tactical" THEN "broadcast" ELSE @]

MaxTries == MaxAttempts + MaxRequests + 1    \* no more are counted than Budget tells apart
\* An attempt counts when RF or APRS-IS took it or failed it, but not when the
\* governor's queue was full or the governor had stopped: except the first one,
\* which SendMessage enrolls as attempt 1 whatever it met.
Counts(g) ==
    tries' = IF (g = "compose" \/ result[g].err \in {"none", "other"}) /\ tries < MaxTries
             THEN tries + 1 ELSE tries

\* A bound on what the operator asks, besides sending the message.
MayAsk == resends + (IF cancelled THEN 1 ELSE 0) < MaxRequests

\* A goroutine moves on, with its copy, or ends, forgetting it.
Goto(g, where) == pc' = [pc EXCEPT ![g] = where]
Hold(g, c) == copy' = [copy EXCEPT ![g] = c]
Ends(g) ==
    /\ pc' = [pc EXCEPT ![g] = "idle"]
    /\ copy' = [copy EXCEPT ![g] = Fresh]
    /\ IF g \in Senders THEN result' = [result EXCEPT ![g] = Unsent] ELSE UNCHANGED result
    /\ IF g \in {"loop", "resend"} THEN inFlight' = FALSE ELSE UNCHANGED inFlight

-----------------------------------------------------------------------------
(* Sender.SendWithPolicy, one leg a step.                                  *)

Returns(g, err, retryable) ==
    result' = [result EXCEPT ![g] = [err |-> err, retryable |-> retryable]]
AfterRf == IF path = "both" THEN "is" ELSE "sent"

RfAccepted_Saves(g) ==
    /\ pc[g] = "rf" /\ "accepted" \in RfOutcomes
    /\ Returns(g, "none", kind = "dm") /\ Save(copy[g])
    /\ Goto(g, AfterRf)
    /\ pending' = pending + 1
    /\ UNCHANGED <<fixed, copy, inFlight, heard, tries, saved, bounds>>
\* The governor takes the frame: nothing but the failure reason is written.
RfAccepted(g) ==
    /\ pc[g] = "rf" /\ "accepted" \in RfOutcomes
    /\ Returns(g, "none", kind = "dm")
    /\ Goto(g, AfterRf)
    /\ pending' = pending + 1
    /\ UNCHANGED <<fixed, row, copy, inFlight, heard, tries, saved, bounds>>

\* RF refuses: the whole copy is saved with the reason.  With the fallback policy
\* only a full queue stays on RF, and a radio that is down is not even asked.
RfRefused(g) ==
    /\ pc[g] = "rf"
    /\ \E o \in RfOutcomes \ {"accepted"} :
        /\ Returns(g, IF o \in {"full", "stopped"} THEN o ELSE "other",
                      \/ o = "full"
                      \/ o = "error" /\ kind = "dm")
        /\ IF path = "is_fallback" /\ o = "down" THEN UNCHANGED <<row, saved>>
           ELSE Save(copy[g]) /\ saved' = TRUE
        /\ Goto(g, IF path = "is_fallback" /\ o # "full" THEN "is" ELSE AfterRf)
    /\ UNCHANGED <<fixed, copy, inFlight, air, tries, bounds>>

\* sendIS stamps sent_at, closes a tactical row, and saves the copy.
Stamped(c) == [c EXCEPT !.sent = TRUE, !.ack = IF kind = "tactical" THEN "broadcast" ELSE @]
IsAccepted(g) ==
    /\ pc[g] = "is" /\ "accepted" \in IsOutcomes
    /\ Save(Stamped(copy[g]))
    /\ Hold(g, Stamped(copy[g]))
    /\ Goto(g, IF path = "both" THEN "merge" ELSE "sent")
    /\ IF path = "both"
         THEN Returns(g, "none", result[g].err = "none" /\ result[g].retryable)
         ELSE Returns(g, "none", FALSE)
    /\ heard' = TRUE /\ saved' = TRUE
    /\ UNCHANGED <<fixed, inFlight, pending, tries, bounds>>

IsRefused(g) ==
    /\ pc[g] = "is" /\ "failed" \in IsOutcomes
    /\ Save(copy[g]) /\ saved' = TRUE
    /\ Goto(g, "sent")
    /\ IF path = "both" THEN UNCHANGED result ELSE Returns(g, "other", FALSE)
    /\ UNCHANGED <<fixed, copy, inFlight, air, tries, bounds>>

\* sendBoth saves the merged row once more.
MergeBoth(g) ==
    /\ pc[g] = "merge" /\ Save(copy[g]) /\ Goto(g, "sent")
    /\ UNCHANGED <<fixed, copy, result, inFlight, radio, bounds>>

Send(g) == RfAccepted(g) \/ RfRefused(g) \/ IsAccepted(g) \/ IsRefused(g) \/ MergeBoth(g)

-----------------------------------------------------------------------------
(* The goroutine SendMessage starts.                                       *)

\* A direct message that may still be heard is enrolled; a reread row counts one attempt.
Compose ==
    \/ Send("compose")
    \/ /\ pc["compose"] = "sent"
       /\ IF kind = "dm" /\ result["compose"].retryable
            THEN UpdateRetrySchedule(1) ELSE UNCHANGED row
       /\ Counts("compose") /\ Ends("compose")
       /\ UNCHANGED <<fixed, air, saved, bounds>>

-----------------------------------------------------------------------------
(* The retry loop: processDue and retryOne.                                *)

Due == row.scheduled /\ row.ack = "none" /\ kind = "dm" /\ ~row.deleted
ListRetryDue ==
    /\ pc["loop"] = "idle" /\ Due
    /\ Goto("loop", "listed")
    /\ UNCHANGED <<fixed, row, copy, result, inFlight, radio, bounds>>

PassOver == /\ Goto("loop", "idle") /\ UNCHANGED <<copy, inFlight>>
Take(c, where) == inFlight' = TRUE /\ Hold("loop", c) /\ Goto("loop", where)
retryOne_NoGuard ==
    /\ pc["loop"] = "listed"
    /\ IF row.deleted \/ row.ack # "none" THEN PassOver
       ELSE IF row.attempts >= MaxAttempts THEN Take(row, "fail")
       ELSE Take([row EXCEPT !.attempts = @ + 1], FirstStep(path))
    /\ UNCHANGED <<fixed, row, result, radio, bounds>>
retryOne ==
    /\ pc["loop"] = "listed"
    /\ IF inFlight \/ row.deleted THEN PassOver
       ELSE IF row.ack # "none"
         THEN IF row.scheduled THEN Take([row EXCEPT !.scheduled = FALSE], "save") ELSE PassOver
       ELSE IF row.attempts >= MaxAttempts THEN Take(row, "fail")
       ELSE Take([row EXCEPT !.attempts = @ + 1], FirstStep(path))
    /\ UNCHANGED <<fixed, row, result, radio, bounds>>

\* fail: rejected, out of the schedule.
Failed(c) == [c EXCEPT !.ack = "rejected", !.scheduled = FALSE]
Fail ==
    /\ pc["loop"] = "fail" /\ Save(Failed(copy["loop"])) /\ Ends("loop")
    /\ UNCHANGED <<fixed, radio, bounds>>

Tidy ==
    /\ pc["loop"] = "save" /\ Save(copy["loop"]) /\ Ends("loop")
    /\ UNCHANGED <<fixed, radio, bounds>>

\* A refusal for want of room or of a governor gives the attempt back.
Rollback_Never(c) == c
Rollback(c) == [c EXCEPT !.attempts = @ - 1]
ShortRetry_Parks(c) == [Rollback(c) EXCEPT !.scheduled = FALSE]
ShortRetry(c) == [Rollback(c) EXCEPT !.scheduled = TRUE]
LoopSettles ==
    /\ pc["loop"] = "sent"
    /\ LET c == copy["loop"]
           err == result["loop"].err IN
        \/ err = "none" /\ UpdateRetrySchedule(c.attempts)
        \/ err = "full" /\ Save(ShortRetry(c))
        \/ err = "stopped" /\ Save(Rollback(c))
        \/ err = "other" /\ c.attempts >= MaxAttempts /\ Save(Failed(c))
        \/ err = "other" /\ c.attempts < MaxAttempts /\ UpdateRetrySchedule(c.attempts)
    /\ Counts("loop") /\ Ends("loop")
    /\ UNCHANGED <<fixed, air, saved, bounds>>

Loop == ListRetryDue \/ retryOne \/ Fail \/ Tidy \/ Send("loop") \/ LoopSettles

-----------------------------------------------------------------------------
(* The REST API: Resend, SoftDelete and SoftDeleteThread.                  *)

ResendStarts ==
    /\ pc["resend"] = "idle" /\ MayAsk
    /\ ~inFlight /\ ~row.deleted
    /\ inFlight' = TRUE /\ resends' = resends + 1
    /\ Hold("resend", [row EXCEPT !.attempts = 0, !.scheduled = FALSE])
    /\ Goto("resend", "save")
    /\ overtaken' = (overtaken \/ pc["compose"] # "idle")
    /\ UNCHANGED <<fixed, row, result, radio, restarts, cancelled>>
ResendSaves ==
    /\ pc["resend"] = "save" /\ Save(copy["resend"]) /\ tries' = 0
    /\ Goto("resend", FirstStep(path))
    /\ UNCHANGED <<fixed, copy, result, inFlight, air, saved, bounds>>
ResendSettles ==
    /\ pc["resend"] = "sent"
    /\ IF kind = "dm" /\ result["resend"].err = "none" /\ result["resend"].retryable
         THEN UpdateRetrySchedule(copy["resend"].attempts) ELSE UNCHANGED row
    /\ Counts("resend") /\ Ends("resend")
    /\ UNCHANGED <<fixed, air, saved, bounds>>
Resend == ResendStarts \/ ResendSaves \/ Send("resend") \/ ResendSettles

\* CancelRetry forgets that a send is in flight, clears the schedule with a Save of
\* the row it read, and only then is the row soft-deleted.
DeleteStarts ==
    /\ MayAsk /\ ~cancelled /\ cancelled' = TRUE
    /\ inFlight' = FALSE
    /\ IF row.scheduled
         THEN Hold("delete", [row EXCEPT !.scheduled = FALSE]) /\ Goto("delete", "save")
         ELSE Goto("delete", "delete") /\ UNCHANGED copy
    /\ UNCHANGED <<fixed, row, result, radio, resends, restarts, overtaken>>
CancelSaves ==
    /\ pc["delete"] = "save" /\ Save(copy["delete"]) /\ Goto("delete", "delete")
    /\ UNCHANGED <<fixed, copy, result, inFlight, radio, bounds>>
SoftDelete ==
    /\ pc["delete"] = "delete" /\ row' = [row EXCEPT !.deleted = TRUE]
    /\ Ends("delete")
    /\ UNCHANGED <<fixed, radio, bounds>>
\* A thread is deleted first and its retries are cancelled after: CancelRetry finds no row.
SoftDeleteThread ==
    /\ MayAsk /\ ~cancelled /\ cancelled' = TRUE
    /\ row' = [row EXCEPT !.deleted = TRUE]
    /\ Goto("delete", "forget")
    /\ UNCHANGED <<fixed, copy, result, inFlight, radio, resends, restarts, overtaken>>
ForgetInFlight ==
    /\ pc["delete"] = "forget" /\ inFlight' = FALSE /\ Goto("delete", "idle")
    /\ UNCHANGED <<fixed, row, copy, result, radio, bounds>>
Delete == DeleteStarts \/ CancelSaves \/ SoftDelete \/ SoftDeleteThread \/ ForgetInFlight

-----------------------------------------------------------------------------
(* The governor and its hook, the router, and the end of the process.      *)

\* A frame goes out and the hook runs (onTxComplete finds its pending entry), or the
\* governor's sender fails and the hook never runs.
Transmit ==
    /\ pending > 0 /\ pending' = pending - 1
    /\ \/ UpdateSentAtAndAckState /\ heard' = TRUE
       \/ UNCHANGED <<row, heard>>
    /\ UNCHANGED <<fixed, pc, copy, result, inFlight, past, bounds>>

\* correlateAck: the row is found by its msgid whether it is open, closed or deleted.
AckHeard ==
    /\ heard /\ kind # "tactical" /\ pc["router"] = "idle"
    /\ \E verdict \in Verdicts :
        /\ row.ack # verdict
        /\ Hold("router", [row EXCEPT !.ack = verdict])
    /\ Goto("router", "save")
    /\ UNCHANGED <<fixed, row, result, inFlight, radio, bounds>>
AckSaved ==
    /\ pc["router"] = "save" /\ Save(copy["router"]) /\ Ends("router")
    /\ UNCHANGED <<fixed, radio, bounds>>

\* The process dies: only the database is left, and bootstrap kicks the loop.
Restart ==
    /\ restarts < MaxRestarts /\ restarts' = restarts + 1
    /\ pc' = [g \in Routines |-> "idle"] /\ copy' = [g \in Routines |-> Fresh]
    /\ result' = [g \in Senders |-> Unsent]
    /\ inFlight' = FALSE /\ pending' = 0
    /\ UNCHANGED <<fixed, row, heard, past, resends, overtaken, cancelled>>

Next == \/ Compose \/ Loop \/ Resend \/ Delete
        \/ Transmit
        \/ AckHeard \/ AckSaved
        \/ Restart

Spec == Init /\ [][Next]_vars

\* Every goroutine that has work goes on; the timer wakes the loop within a minute;
\* a send that is tried again and again is taken in the end.
FairSpec ==
    /\ Spec
    /\ WF_vars(Compose) /\ WF_vars(Loop)
    /\ WF_vars(ResendSaves \/ Send("resend") \/ ResendSettles)
    /\ WF_vars(CancelSaves \/ SoftDelete \/ ForgetInFlight)
    /\ WF_vars(AckSaved)
    /\ SF_vars(RfAccepted("loop"))

-----------------------------------------------------------------------------
(* Properties.                                                             *)

Points == {"idle", "listed", "rf", "is", "merge", "sent", "save", "fail", "delete", "forget"}
TypeOK ==
    /\ kind \in Kinds /\ path \in Paths
    /\ row \in Row /\ copy \in [Routines -> Row] /\ pc \in [Routines -> Points]
    /\ result \in [Senders -> [err : {"none", "full", "stopped", "other"}, retryable : BOOLEAN]]
    /\ inFlight \in BOOLEAN /\ heard \in BOOLEAN /\ cancelled \in BOOLEAN
    /\ saved \in BOOLEAN /\ overtaken \in BOOLEAN
    /\ pending \in Nat /\ tries \in 0 .. MaxTries
    /\ resends \in 0 .. MaxRequests /\ restarts \in 0 .. MaxRestarts

\* Whoever is inside a send of the row.
Sending(g) == pc[g] \in {"rf", "is", "merge", "sent"}

\* "a second submit is a no-op until the first returns" (retry.go): unless a delete
\* has thrown the mark away, the retry loop and a Resend are never both at the row.
OneSender == ~cancelled => ~(Sending("loop") /\ pc["resend"] # "idle")

\* "4 attempts = 1 initial send + 3 retries" (retry.go): however the sends and the
\* writes interleave, an order costs no more attempts than the ladder has.  A Resend
\* starts at none and so gets one more.  Not bounded are a Resend that overtakes the
\* first send, and a delete, whose Save brings back the attempts it read.
Budget ==
    ~overtaken /\ ~cancelled => tries <= MaxAttempts + (IF resends > 0 THEN 1 ELSE 0)

\* "retransmitting until acknowledged or the retry budget runs out" (handbook): the
\* ladder gives a message up only after MaxAttempts attempts that count.
GivesUpLate ==
    [][pc["loop"] \in {"fail", "sent"} /\ pc'["loop"] = "idle"
       /\ row.ack = "none" /\ row'.ack = "rejected" /\ ~cancelled
       => tries' + restarts >= MaxAttempts]_vars

\* As long as RF takes every send, what the router has closed stays closed and is not
\* sent again, but for a Resend or a delete caught between its read and its Save: no
\* write of the hook, of the schedule or of an accepted send undoes the ack.
Reopened == row.ack # "none" /\ row'.ack = "none"
ClosedStays ==
    [][Reopened => saved' \/ pc["resend"] = "save" \/ pc["delete"] = "save"]_vars

\* A direct message on the ladder comes to an end: acknowledged, rejected or given
\* up, unless the operator deletes it or takes it over with a Resend.  A restart
\* picks it up where the database left it.
Enrolled == Due /\ resends = 0 /\ ~cancelled
EnrolledSettles == Enrolled ~> (row.ack # "none" \/ resends > 0 \/ cancelled)

=============================================================================
