------------------------- MODULE MessageRetryProofs -------------------------
(***************************************************************************)
(* The retry loop and a Resend are never both at a row, the attempts of a  *)
(* row stay within the ladder, an order costs no more than the ladder has, *)
(* a message is not given up before its attempts are spent, and an ack the *)
(* router wrote stands while RF takes every send: proved for any number of *)
(* attempts, requests and restarts.                                        *)
(***************************************************************************)
EXTENDS MessageRetry, TLAPS

PcOK == pc \in [Routines -> Points]
RowsOK == row \in Row /\ copy \in [Routines -> Row]
ResultOK ==
    result \in [Senders -> [err : {"none", "full", "stopped", "other"}, retryable : BOOLEAN]]
FlagsOK == /\ kind \in Kinds /\ path \in Paths /\ inFlight \in BOOLEAN /\ heard \in BOOLEAN
           /\ cancelled \in BOOLEAN /\ saved \in BOOLEAN /\ overtaken \in BOOLEAN
CountsOK == /\ pending \in Nat /\ tries \in 0 .. MaxTries
            /\ resends \in 0 .. MaxRequests /\ restarts \in 0 .. MaxRestarts

\* The loop counts the attempt in its copy before it sends, so that a refusal can
\* take one off.
CountsFirst == Sending("loop") => copy["loop"].attempts >= 1

LEMMA PcStep == ASSUME PcOK, [Next]_vars PROVE PcOK'
<1>1. CASE UNCHANGED vars BY <1>1 DEF PcOK, vars
<1>2. CASE Restart BY <1>2 DEF PcOK, Restart, Points
<1>3. ASSUME NEW g \in Routines, NEW w \in Points, Goto(g, w) PROVE PcOK'
  BY <1>3 DEF PcOK, Goto
<1>4. ASSUME NEW g \in Routines, Ends(g) PROVE PcOK'
  BY <1>4 DEF PcOK, Ends, Points
<1>5. ASSUME NEW g \in Senders, Send(g) PROVE PcOK'
  BY <1>3, <1>5 DEF Send, RfAccepted, RfRefused, IsAccepted, IsRefused, MergeBoth, AfterRf,
     Points, Routines
<1>6. CASE Compose BY <1>4, <1>5, <1>6 DEF Compose, Senders, Routines
<1>7. FirstStep(path) \in Points BY DEF FirstStep, Points
<1>8. CASE Loop
  <2>1. CASE ListRetryDue BY <2>1, <1>3 DEF ListRetryDue, Points, Senders, Routines
  <2>2. CASE retryOne BY <2>2, <1>3, <1>7 DEF retryOne, PassOver, Take, Points, Senders, Routines
  <2>3. CASE Fail \/ Tidy \/ LoopSettles
    BY <2>3, <1>4 DEF Fail, Tidy, LoopSettles, Senders, Routines
  <2> QED BY <1>5, <1>8, <2>1, <2>2, <2>3 DEF Loop, Senders
<1>9. CASE Resend
  <2>1. CASE ResendStarts \/ ResendSaves
    BY <2>1, <1>3, <1>7 DEF ResendStarts, ResendSaves, Points, Senders, Routines
  <2>2. CASE ResendSettles BY <2>2, <1>4 DEF ResendSettles, Senders, Routines
  <2> QED BY <1>5, <1>9, <2>1, <2>2 DEF Resend, Senders
<1>10. CASE Delete
  BY <1>3, <1>4, <1>10 DEF Delete, DeleteStarts, CancelSaves, SoftDelete, SoftDeleteThread,
     ForgetInFlight, Points, Routines
<1>11. CASE Transmit BY <1>11 DEF Transmit, PcOK
<1>12. CASE AckHeard \/ AckSaved
  BY <1>3, <1>4, <1>12 DEF AckHeard, AckSaved, Points, Routines
<1> QED BY <1>1, <1>2, <1>6, <1>8, <1>9, <1>10, <1>11, <1>12 DEF Next

-----------------------------------------------------------------------------
(* One sender.                                                             *)

LoopHolds == pc["loop"] \notin {"idle", "listed"}

\* Unless a delete has thrown it away, whoever holds the row has marked it.
MarkHeld ==
    \/ cancelled = TRUE
    \/ /\ pc["delete"] = "idle"
       /\ LoopHolds => inFlight = TRUE
       /\ pc["resend"] # "idle" => inFlight = TRUE
       /\ ~(LoopHolds /\ pc["resend"] # "idle")

LEMMA SendMark == ASSUME PcOK, MarkHeld, NEW g \in Senders, Send(g) PROVE MarkHeld'
<1>1. UNCHANGED <<cancelled, inFlight>>
  BY DEF Send, RfAccepted, RfRefused, IsAccepted, IsRefused, MergeBoth, bounds
<1>2. pc[g] \in {"rf", "is", "merge"} /\ \E w \in {"is", "merge", "sent"} : Goto(g, w)
  BY DEF Send, RfAccepted, RfRefused, IsAccepted, IsRefused, MergeBoth, AfterRf
<1>3. pc' \in [Routines -> Points] /\ \A r \in Routines \ {g} : pc'[r] = pc[r]
  BY <1>2, PcStep DEF PcOK, Goto, Points
<1> QED BY <1>1, <1>2, <1>3 DEF MarkHeld, LoopHolds, Senders, Routines, PcOK, Goto

LEMMA MarkStep == ASSUME PcOK, MarkHeld, [Next]_vars PROVE MarkHeld'
<1> USE DEF PcOK, MarkHeld, LoopHolds, Routines, Senders, Goto, Ends
<1>1. CASE UNCHANGED vars BY <1>1 DEF vars
<1>2. CASE Restart BY <1>2 DEF Restart
<1>3. CASE Compose
  <2>1. CASE Send("compose") BY <2>1, SendMark
  <2> QED BY <1>3, <2>1 DEF Compose, bounds
<1>4. CASE Loop
  <2>1. CASE Send("loop") BY <2>1, SendMark
  <2>2. CASE ListRetryDue BY <2>2 DEF ListRetryDue, bounds
  <2>3. CASE retryOne
    <3>1. pc["loop"] = "listed" /\ UNCHANGED cancelled BY <2>3 DEF retryOne, bounds
    <3>2. FirstStep(path) \in {"rf", "is"} BY DEF FirstStep
    <3>3. \/ Goto("loop", "idle") /\ UNCHANGED inFlight
          \/ inFlight # TRUE /\ inFlight' = TRUE
             /\ \E w \in {"fail", "save", "rf", "is"} : Goto("loop", w)
      BY <2>3, <3>2, Zenon DEF retryOne, PassOver, Take
    <3> QED BY <3>1, <3>3
  <2>4. CASE Fail \/ Tidy \/ LoopSettles BY <2>4 DEF Fail, Tidy, LoopSettles, bounds
  <2> QED BY <1>4, <2>1, <2>2, <2>3, <2>4 DEF Loop
<1>5. CASE Resend
  <2>1. CASE Send("resend") BY <2>1, SendMark
  <2>2. CASE ResendStarts BY <2>2 DEF ResendStarts
  <2>3. CASE ResendSaves BY <2>3 DEF ResendSaves, FirstStep, bounds
  <2>4. CASE ResendSettles BY <2>4 DEF ResendSettles, bounds
  <2> QED BY <1>5, <2>1, <2>2, <2>3, <2>4 DEF Resend
<1>6. CASE Delete
  BY <1>6 DEF Delete, DeleteStarts, CancelSaves, SoftDelete, SoftDeleteThread, ForgetInFlight,
     bounds
<1>7. CASE Transmit BY <1>7 DEF Transmit, bounds
<1>8. CASE AckHeard \/ AckSaved BY <1>8 DEF AckHeard, AckSaved, bounds
<1> QED BY <1>1, <1>2, <1>3, <1>4, <1>5, <1>6, <1>7, <1>8 DEF Next

LEMMA Marked == Spec => [](PcOK /\ MarkHeld)
<1>1. Init => PcOK /\ MarkHeld
  BY DEF Init, PcOK, MarkHeld, LoopHolds, Routines, Senders, Points, FirstStep
<1>2. PcOK /\ MarkHeld /\ [Next]_vars => PcOK' /\ MarkHeld' BY PcStep, MarkStep
<1> QED BY <1>1, <1>2, PTL DEF Spec

\* "a second submit is a no-op until the first returns" (retry.go): unless a delete has
\* thrown the mark away, the retry loop and a Resend are never both at the row.
THEOREM NeverTwoSenders == Spec => []OneSender
<1>1. MarkHeld => OneSender BY DEF MarkHeld, OneSender, Sending, LoopHolds
<1> QED BY <1>1, Marked, PTL

-----------------------------------------------------------------------------
(* Types: attempts are counted up before a send and taken back after one,  *)
(* and stay between none and MaxAttempts.                                  *)

LEMMA RowChanges ==
    ASSUME NEW r \in Row
    PROVE  /\ Fresh \in Row
           /\ \A a \in AckStates : [r EXCEPT !.ack = a] \in Row
           /\ \A n \in 0 .. MaxAttempts : [r EXCEPT !.attempts = n] \in Row
           /\ \A b \in BOOLEAN : /\ [r EXCEPT !.scheduled = b] \in Row
                                /\ [r EXCEPT !.sent = b] \in Row
                                /\ [r EXCEPT !.deleted = b] \in Row
BY MessageAssumption DEF Row, Fresh, AckStates

\* What the senders write.
LEMMA Writes ==
    ASSUME NEW c \in Row, NEW n \in 0 .. MaxAttempts, RowsOK
    PROVE  /\ Stamped(c) \in Row /\ Stamped(c).attempts = c.attempts
           /\ Failed(c) \in Row
           /\ c.attempts >= 1 => Rollback(c) \in Row /\ ShortRetry(c) \in Row
           /\ UpdateRetrySchedule(n) => row' \in Row
           /\ UpdateSentAtAndAckState => row' \in Row
<1>1. Stamped(c) \in Row /\ Stamped(c).attempts = c.attempts
  BY DEF Row, AckStates, Stamped
<1>2. Failed(c) \in Row BY DEF Row, AckStates, Failed
<1>3. ASSUME c.attempts >= 1 PROVE Rollback(c) \in Row /\ ShortRetry(c) \in Row
  <2>1. c.attempts - 1 \in 0 .. MaxAttempts BY <1>3, MessageAssumption DEF Row
  <2> QED BY <2>1, RowChanges DEF Row, AckStates, Rollback, ShortRetry
<1>4. ASSUME UpdateRetrySchedule(n) PROVE row' \in Row
  BY <1>4 DEF UpdateRetrySchedule, RowsOK, Row
<1>5. ASSUME UpdateSentAtAndAckState PROVE row' \in Row
  BY <1>5 DEF UpdateSentAtAndAckState, RowsOK, Row, AckStates
<1> QED BY <1>1, <1>2, <1>3, <1>4, <1>5

LEMMA EndsKeeps ==
    ASSUME NEW g \in Routines, PcOK, RowsOK, CountsFirst, Ends(g)
    PROVE  copy' \in [Routines -> Row] /\ CountsFirst'
BY MessageAssumption
   DEF Ends, RowsOK, CountsFirst, Sending, PcOK, Fresh, Row, AckStates, Routines, Senders

LEMMA SendRows ==
    ASSUME PcOK, RowsOK, CountsFirst, NEW g \in Senders, Send(g)
    PROVE  RowsOK' /\ CountsFirst'
<1>1. copy[g] \in Row BY DEF RowsOK, Routines
<1>2. \/ copy' = copy /\ row' \in {row, copy[g]}
      \/ copy' = [copy EXCEPT ![g] = Stamped(copy[g])] /\ row' = Stamped(copy[g])
  BY DEF Send, RfAccepted, RfRefused, IsAccepted, IsRefused, MergeBoth, Save, Hold
<1>3. RowsOK' BY <1>1, <1>2, Writes, MessageAssumption DEF RowsOK, Routines
<1>4. pc[g] \in {"rf", "is", "merge"} /\ \E w \in {"is", "merge", "sent"} : Goto(g, w)
  BY DEF Send, RfAccepted, RfRefused, IsAccepted, IsRefused, MergeBoth, AfterRf
<1>5. Sending("loop")' => Sending("loop")
  BY <1>4 DEF Sending, Goto, PcOK, Routines, Senders
<1>6. copy'["loop"].attempts = copy["loop"].attempts
  BY <1>1, <1>2, Writes, MessageAssumption DEF RowsOK, Routines, Senders
<1> QED BY <1>3, <1>5, <1>6 DEF CountsFirst

LEMMA RowStep ==
    ASSUME PcOK, RowsOK, CountsFirst, [Next]_vars
    PROVE  RowsOK' /\ CountsFirst'
<1> USE DEF Save, Hold, Goto
<1>1. CASE UNCHANGED vars BY <1>1 DEF vars, RowsOK, CountsFirst, Sending
<1>2. CASE Restart
  BY <1>2, RowChanges DEF Restart, RowsOK, CountsFirst, Sending, Routines, Senders
<1>3. CASE Compose
  <2>1. CASE Send("compose") BY <2>1, SendRows DEF Senders
  <2>2. CASE ~Send("compose")
    <3>1. Ends("compose") /\ (UpdateRetrySchedule(1) \/ UNCHANGED row)
      BY <1>3, <2>2 DEF Compose
    <3>2. 1 \in 0 .. MaxAttempts BY MessageAssumption
    <3> QED BY <3>1, <3>2, EndsKeeps, Writes DEF RowsOK, Routines, Senders
  <2> QED BY <2>1, <2>2
<1>4. CASE Loop
  <2> DEFINE c == copy["loop"]
  <2>1. c \in Row /\ c.attempts \in 0 .. MaxAttempts BY DEF RowsOK, Routines, Senders, Row
  <2>2. CASE Send("loop") BY <2>2, SendRows DEF Senders
  <2>3. CASE ListRetryDue
    BY <2>3 DEF ListRetryDue, RowsOK, CountsFirst, Sending, PcOK, Routines, Senders
  <2>4. CASE retryOne
    <3>1. row' = row /\ pc["loop"] = "listed" BY <2>4 DEF retryOne
    <3>2. CASE copy' = copy /\ pc' = [pc EXCEPT !["loop"] = "idle"]
      BY <3>1, <3>2 DEF RowsOK, CountsFirst, Sending, PcOK, Routines, Senders
    <3>3. CASE \E w \in {"fail", "save"}, r \in {row, [row EXCEPT !.scheduled = FALSE]} :
                 copy' = [copy EXCEPT !["loop"] = r] /\ pc' = [pc EXCEPT !["loop"] = w]
      <4>1. row \in Row /\ [row EXCEPT !.scheduled = FALSE] \in Row BY DEF RowsOK, Row
      <4>2. copy' \in [Routines -> Row] BY <3>3, <4>1 DEF RowsOK, Routines, Senders
      <4>3. pc'["loop"] \in {"fail", "save"} BY <3>3 DEF PcOK, Routines, Senders
      <4> QED BY <3>1, <4>1, <4>2, <4>3 DEF RowsOK, CountsFirst, Sending
    <3>4. CASE /\ ~(row.attempts >= MaxAttempts)
               /\ copy' = [copy EXCEPT !["loop"] = [row EXCEPT !.attempts = @ + 1]]
      <4> DEFINE d == [row EXCEPT !.attempts = @ + 1]
      <4>1. row.attempts + 1 \in 1 .. MaxAttempts
        BY <3>4, MessageAssumption DEF RowsOK, Row
      <4>2. d \in Row /\ d.attempts >= 1 BY <4>1, MessageAssumption DEF RowsOK, Row
      <4>3. copy' \in [Routines -> Row] /\ copy'["loop"] = d
        BY <3>4, <4>2 DEF RowsOK, Routines, Senders
      <4> QED BY <3>1, <4>2, <4>3 DEF RowsOK, CountsFirst
    <3> QED BY <2>4, <3>2, <3>3, <3>4, Zenon DEF retryOne, PassOver, Take
  <2>5. CASE Fail \/ Tidy
    <3>1. row' \in {c, Failed(c)} /\ Ends("loop") BY <2>5 DEF Fail, Tidy
    <3> QED BY <2>1, <3>1, Writes, EndsKeeps, MessageAssumption DEF RowsOK, Routines, Senders
  <2>6. CASE LoopSettles
    <3>1. c.attempts >= 1 BY <2>6 DEF LoopSettles, CountsFirst, Sending
    <3>2. Ends("loop") /\ (\/ UpdateRetrySchedule(c.attempts)
                           \/ row' \in {ShortRetry(c), Rollback(c), Failed(c)})
      BY <2>6 DEF LoopSettles
    <3> QED BY <2>1, <3>1, <3>2, Writes, EndsKeeps DEF RowsOK, Routines, Senders
  <2> QED BY <1>4, <2>2, <2>3, <2>4, <2>5, <2>6 DEF Loop
<1>5. CASE Resend
  <2> DEFINE c == copy["resend"]
  <2>1. c \in Row /\ c.attempts \in 0 .. MaxAttempts BY DEF RowsOK, Routines, Senders, Row
  <2>2. CASE Send("resend") BY <2>2, SendRows DEF Senders
  <2>3. CASE ResendStarts
    <3> DEFINE d == [row EXCEPT !.attempts = 0, !.scheduled = FALSE]
    <3>1. d \in Row
      <4>1. 0 \in 0 .. MaxAttempts BY MessageAssumption
      <4> QED BY <4>1 DEF RowsOK, Row
    <3>2. row' = row /\ copy' = [copy EXCEPT !["resend"] = d]
          /\ pc' = [pc EXCEPT !["resend"] = "save"]
      BY <2>3 DEF ResendStarts
    <3> QED BY <3>1, <3>2 DEF RowsOK, CountsFirst, Sending, PcOK, Routines, Senders
  <2>4. CASE ResendSaves
    BY <2>1, <2>4 DEF ResendSaves, RowsOK, CountsFirst, Sending, PcOK, Routines, Senders
  <2>5. CASE ResendSettles
    <3>1. Ends("resend") /\ (UpdateRetrySchedule(c.attempts) \/ UNCHANGED row)
      BY <2>5 DEF ResendSettles
    <3> QED BY <2>1, <3>1, Writes, EndsKeeps DEF RowsOK, Routines, Senders
  <2> QED BY <1>5, <2>2, <2>3, <2>4, <2>5 DEF Resend
<1>6. CASE Delete
  <2>1. pc'["loop"] = pc["loop"] /\ copy'["loop"] = copy["loop"]
    BY <1>6 DEF Delete, DeleteStarts, CancelSaves, SoftDelete, SoftDeleteThread, ForgetInFlight,
       Ends, PcOK, RowsOK, Routines, Senders
  <2>2. RowsOK'
    BY <1>6, RowChanges DEF Delete, DeleteStarts, CancelSaves, SoftDelete, SoftDeleteThread,
       ForgetInFlight, Ends, RowsOK, Routines, Senders
  <2> QED BY <2>1, <2>2 DEF CountsFirst, Sending
<1>7. CASE Transmit
  <2>1. row' \in Row
    BY <1>7, Writes, MessageAssumption DEF Transmit, RowsOK
  <2> QED BY <1>7, <2>1 DEF Transmit, RowsOK, CountsFirst, Sending
<1>8. CASE AckHeard \/ AckSaved
  <2>1. pc'["loop"] = pc["loop"] /\ copy'["loop"] = copy["loop"]
    BY <1>8 DEF AckHeard, AckSaved, Ends, PcOK, RowsOK, Routines, Senders
  <2>2. CASE AckHeard
    <3>1. PICK a \in AckStates : copy' = [copy EXCEPT !["router"] = [row EXCEPT !.ack = a]]
      BY <2>2, MessageAssumption DEF AckHeard, AckStates
    <3>2. [row EXCEPT !.ack = a] \in Row BY DEF RowsOK, Row
    <3>3. RowsOK' BY <2>2, <3>1, <3>2 DEF AckHeard, RowsOK, Routines
    <3> QED BY <2>1, <3>3 DEF CountsFirst, Sending
  <2>3. CASE AckSaved
    <3>1. RowsOK' BY <2>3, RowChanges DEF AckSaved, Ends, RowsOK, Routines, Senders
    <3> QED BY <2>1, <3>1 DEF CountsFirst, Sending
  <2> QED BY <1>8, <2>2, <2>3
<1> QED BY <1>1, <1>2, <1>3, <1>4, <1>5, <1>6, <1>7, <1>8 DEF Next

\* Attempts are counted in the copy before a send and taken back when the queue was
\* full or the governor had stopped (retryOne, rollback): however stale the copies that
\* are saved, a row and every copy of it have between none and MaxAttempts.
THEOREM AttemptsStayInLadder ==
    Spec => [](row \in Row /\ copy \in [Routines -> Row])
<1>1. Init => PcOK /\ RowsOK /\ CountsFirst
  BY RowChanges, MessageAssumption
  DEF Init, PcOK, RowsOK, CountsFirst, Sending, Routines, Senders, Points, FirstStep, Fresh, Row, AckStates
<1>2. PcOK /\ RowsOK /\ CountsFirst /\ [Next]_vars => PcOK' /\ RowsOK' /\ CountsFirst'
  BY PcStep, RowStep
<1> QED BY <1>1, <1>2, PTL DEF Spec, RowsOK

-----------------------------------------------------------------------------
(* What a step of a send changes, and what a goroutine that ends forgets.  *)

Alike(c, d) ==
    c.attempts = d.attempts /\ c.scheduled = d.scheduled /\ c.deleted = d.deleted

LEMMA SendView ==
    ASSUME PcOK, RowsOK, NEW g \in Senders, Send(g)
    PROVE  /\ pc[g] \in {"rf", "is", "merge"} /\ pc'[g] \in {"is", "merge", "sent"}
           /\ \A r \in Routines \ {g} : pc'[r] = pc[r] /\ copy'[r] = copy[r]
           /\ row' = row \/ Alike(row', copy[g])
           /\ Alike(copy'[g], copy[g]) /\ copy'[g].ack \in {copy[g].ack, "broadcast"}
           /\ UNCHANGED <<tries, resends, restarts, overtaken, cancelled>>
<1>1. copy[g] \in Row BY DEF RowsOK, Routines
<1>2. \/ copy' = copy /\ row' \in {row, copy[g]}
      \/ copy' = [copy EXCEPT ![g] = Stamped(copy[g])] /\ row' = Stamped(copy[g])
  BY DEF Send, RfAccepted, RfRefused, IsAccepted, IsRefused, MergeBoth, Save, Hold
<1>3. Alike(copy[g], copy[g]) /\ Alike(Stamped(copy[g]), copy[g])
  BY <1>1 DEF Alike, Stamped, Row
<1>9. Stamped(copy[g]).ack \in {copy[g].ack, "broadcast"} BY <1>1 DEF Stamped, Row
<1>4. \A r \in Routines \ {g} : copy'[r] = copy[r] BY <1>2 DEF RowsOK
<1>5. /\ row' = row \/ Alike(row', copy[g])
      /\ Alike(copy'[g], copy[g]) /\ copy'[g].ack \in {copy[g].ack, "broadcast"}
  BY <1>2, <1>3, <1>9 DEF RowsOK, Routines
<1>6. pc[g] \in {"rf", "is", "merge"} /\ \E w \in {"is", "merge", "sent"} : Goto(g, w)
  BY DEF Send, RfAccepted, RfRefused, IsAccepted, IsRefused, MergeBoth, AfterRf
<1>7. pc'[g] \in {"is", "merge", "sent"} /\ \A r \in Routines \ {g} : pc'[r] = pc[r]
  BY <1>6 DEF Goto, PcOK, Routines
<1>8. UNCHANGED <<tries, resends, restarts, overtaken, cancelled>>
  BY DEF Send, RfAccepted, RfRefused, IsAccepted, IsRefused, MergeBoth, bounds, radio, past
<1> QED BY <1>4, <1>5, <1>6, <1>7, <1>8

LEMMA EndsView ==
    ASSUME PcOK, RowsOK, NEW g \in Routines, Ends(g)
    PROVE  /\ pc'[g] = "idle" /\ copy'[g] = Fresh
           /\ \A r \in Routines \ {g} : pc'[r] = pc[r] /\ copy'[r] = copy[r]
BY DEF Ends, PcOK, RowsOK

LEMMA GotoView ==
    ASSUME PcOK, NEW g \in Routines, NEW w, Goto(g, w)
    PROVE  pc'[g] = w /\ \A r \in Routines \ {g} : pc'[r] = pc[r]
BY DEF Goto, PcOK

LEMMA HoldView ==
    ASSUME RowsOK, NEW g \in Routines, NEW c, Hold(g, c)
    PROVE  copy'[g] = c /\ \A r \in Routines \ {g} : copy'[r] = copy[r]
BY DEF Hold, RowsOK

LEMMA Tries ==
    ASSUME CountsOK, NEW g, Counts(g)
    PROVE  /\ tries' \in 0 .. MaxTries
           /\ tries' = tries \/ tries' = tries + 1
           /\ (g = "compose" \/ result[g].err \in {"none", "other"})
              => tries' = tries + 1 \/ tries' >= MaxAttempts
           /\ (g # "compose" /\ result[g].err \in {"full", "stopped"}) => tries' = tries
<1>1. MaxTries \in Nat /\ MaxTries >= MaxAttempts /\ MaxAttempts \in Nat
  BY MessageAssumption DEF MaxTries
<1>2. tries \in Nat BY DEF CountsOK
<1> QED BY <1>1, <1>2 DEF Counts, CountsOK

LEMMA CountsKept == ASSUME CountsOK, [Next]_vars PROVE CountsOK'
<1>1. /\ pending \in Nat /\ tries \in 0 .. MaxTries /\ 0 \in 0 .. MaxTries
      /\ resends \in 0 .. MaxRequests /\ restarts \in 0 .. MaxRestarts
  BY MessageAssumption DEF CountsOK, MaxTries
<1>2. pending' \in Nat
  <2>1. CASE Transmit
    <3>1. pending > 0 /\ pending' = pending - 1 BY <2>1 DEF Transmit
    <3> QED BY <1>1, <3>1
  <2>2. ASSUME NEW g \in Senders, Send(g) PROVE pending' \in {pending, pending + 1}
    BY <2>2 DEF Send, RfAccepted, RfRefused, IsAccepted, IsRefused, MergeBoth, air, radio
  <2>3. CASE ~Transmit /\ \A g \in Senders : ~Send(g)
    <3>1. pending' \in {pending, 0}
      BY <2>3 DEF Next, vars, Compose, Loop, Resend, Delete, AckHeard, AckSaved, Restart,
         ListRetryDue, retryOne, Fail, Tidy, LoopSettles, ResendStarts, ResendSaves,
         ResendSettles, DeleteStarts, CancelSaves, SoftDelete, SoftDeleteThread,
         ForgetInFlight, air, radio, Senders
    <3> QED BY <1>1, <3>1
  <2> QED BY <1>1, <2>1, <2>2, <2>3
<1>3. tries' \in 0 .. MaxTries
  BY <1>1, Tries DEF Next, vars, Compose, Loop, Resend, Delete, Transmit, AckHeard, AckSaved, Restart, Send,
     RfAccepted, RfRefused, IsAccepted, IsRefused, MergeBoth, ListRetryDue, retryOne, Fail, Tidy,
     LoopSettles, ResendStarts, ResendSaves, ResendSettles, DeleteStarts, CancelSaves, SoftDelete,
     SoftDeleteThread, ForgetInFlight, past, radio
<1>4. resends' \in 0 .. MaxRequests
  <2>1. CASE ResendStarts
    <3>1. resends < MaxRequests /\ resends' = resends + 1
      BY <1>1, <2>1, MessageAssumption DEF ResendStarts, MayAsk
    <3> QED BY <1>1, <3>1, MessageAssumption
  <2>2. CASE ~ResendStarts
    <3>1. resends' = resends
      BY <2>2 DEF Next, vars, Compose, Loop, Resend, Delete, Transmit, AckHeard, AckSaved, Restart,
         Send, RfAccepted, RfRefused, IsAccepted, IsRefused, MergeBoth, ListRetryDue, retryOne,
         Fail, Tidy, LoopSettles, ResendSaves, ResendSettles, DeleteStarts, CancelSaves,
         SoftDelete, SoftDeleteThread, ForgetInFlight, bounds
    <3> QED BY <1>1, <3>1
  <2> QED BY <2>1, <2>2
<1>5. restarts' \in 0 .. MaxRestarts
  <2>1. restarts' = restarts \/ (restarts < MaxRestarts /\ restarts' = restarts + 1)
    BY DEF Next, vars, Compose, Loop, Resend, Delete, Transmit, AckHeard, AckSaved, Restart,
       Send, RfAccepted, RfRefused, IsAccepted, IsRefused, MergeBoth, ListRetryDue, retryOne,
       Fail, Tidy, LoopSettles, ResendStarts, ResendSaves, ResendSettles, DeleteStarts,
       CancelSaves, SoftDelete, SoftDeleteThread, ForgetInFlight, bounds
  <2> QED BY <1>1, <2>1, MessageAssumption
<1> QED BY <1>2, <1>3, <1>4, <1>5 DEF CountsOK

-----------------------------------------------------------------------------
(* What the router has closed.                                             *)

\* A whole row is saved by a send that has been refused or gone over APRS-IS, or closed.
SaveHonest ==
    /\ pc["loop"] = "save" => copy["loop"].ack # "none"
    /\ pc["router"] = "save" => copy["router"].ack # "none"
    /\ \A g \in Senders : pc[g] = "merge" \/ result[g].err \in {"full", "stopped"} => saved = TRUE
Excused == saved' = TRUE \/ pc["resend"] = "save" \/ pc["delete"] = "save"

LEMMA SendHonest ==
    ASSUME PcOK, RowsOK, ResultOK, SaveHonest, NEW g \in Senders, Send(g)
    PROVE  SaveHonest' /\ (row' # row => saved' = TRUE)
<1>1. /\ pc'[g] \in {"is", "merge", "sent"}
      /\ \A r \in Routines \ {g} : pc'[r] = pc[r] /\ copy'[r] = copy[r]
  BY SendView
<1>2. saved' = saved \/ saved' = TRUE
  BY DEF Send, RfAccepted, RfRefused, IsAccepted, IsRefused, MergeBoth, radio, past
<1>3. \A r \in Senders \ {g} : result'[r] = result[r]
  BY DEF Send, RfAccepted, RfRefused, IsAccepted, IsRefused, MergeBoth, Returns, ResultOK
<1>4. row' # row => saved' = TRUE
  BY DEF Send, RfAccepted, RfRefused, IsAccepted, IsRefused, MergeBoth, SaveHonest, radio, past
<1>5. pc'[g] = "merge" => saved' = TRUE
  BY DEF Send, RfAccepted, RfRefused, IsAccepted, IsRefused, MergeBoth, Goto, PcOK, AfterRf,
     Routines
<1>6. result'[g].err \in {"full", "stopped"} => saved' = TRUE
  <2>1. CASE RfAccepted(g) BY <2>1 DEF RfAccepted, Returns, ResultOK
  <2>2. CASE RfRefused(g)
    <3>1. PICK o \in RfOutcomes \ {"accepted"} :
             /\ Returns(g, IF o \in {"full", "stopped"} THEN o ELSE "other",
                           \/ o = "full"
                           \/ o = "error" /\ kind = "dm")
             /\ IF path = "is_fallback" /\ o = "down" THEN UNCHANGED <<row, saved>>
                ELSE Save(copy[g]) /\ saved' = TRUE
      BY <2>2 DEF RfRefused
    <3>2. result'[g].err = IF o \in {"full", "stopped"} THEN o ELSE "other"
      BY <3>1 DEF Returns, ResultOK
    <3> QED BY <3>1, <3>2
  <2>3. CASE IsAccepted(g) BY <2>3 DEF IsAccepted
  <2>4. CASE IsRefused(g) BY <2>4 DEF IsRefused
  <2>5. CASE MergeBoth(g) BY <2>5 DEF MergeBoth, SaveHonest, radio, past
  <2> QED BY <2>1, <2>2, <2>3, <2>4, <2>5 DEF Send
<1>7. (pc'["loop"] = "save" => copy'["loop"].ack # "none")
      /\ (pc'["router"] = "save" => copy'["router"].ack # "none")
  BY <1>1 DEF SaveHonest, Routines, Senders
<1>8. \A r \in Senders \ {g} :
         pc'[r] = "merge" \/ result'[r].err \in {"full", "stopped"} => saved' = TRUE
  BY <1>1, <1>2, <1>3 DEF SaveHonest, Routines
<1> QED BY <1>4, <1>5, <1>6, <1>7, <1>8 DEF SaveHonest

LEMMA EndHonest ==
    ASSUME PcOK, RowsOK, ResultOK, SaveHonest, NEW g \in Routines, Ends(g), UNCHANGED saved
    PROVE  SaveHonest'
<1>1. /\ pc'[g] = "idle" /\ copy'[g] = Fresh
      /\ \A r \in Routines \ {g} : pc'[r] = pc[r] /\ copy'[r] = copy[r]
  BY EndsView
<1>2. \A r \in Senders : result'[r].err = result[r].err \/ result'[r].err = "none"
  BY DEF Ends, ResultOK, Unsent
<1>3. \A r \in Senders : pc'[r] = "merge" \/ result'[r].err \in {"full", "stopped"} => saved' = TRUE
  BY <1>1, <1>2 DEF SaveHonest, Routines
<1> QED BY <1>1, <1>3 DEF SaveHonest, Routines, Senders

LEMMA GoHonest ==
    ASSUME PcOK, RowsOK, SaveHonest, NEW g \in Routines, NEW w, Goto(g, w),
           UNCHANGED <<result, saved>>, w # "merge",
           copy' = copy \/ (\E c : Hold(g, c)),
           w = "save" /\ g \in {"loop", "router"} => copy'[g].ack # "none"
    PROVE  SaveHonest'
<1>1. pc'[g] = w /\ \A r \in Routines \ {g} : pc'[r] = pc[r] BY GotoView
<1>2. \A r \in Routines \ {g} : copy'[r] = copy[r] BY HoldView
<1> QED BY <1>1, <1>2 DEF SaveHonest, Routines, Senders

LEMMA HonestStep ==
    ASSUME PcOK, RowsOK, ResultOK, SaveHonest, [Next]_vars
    PROVE  SaveHonest' /\ (Reopened => Excused)
<1>1. CASE UNCHANGED vars BY <1>1 DEF vars, SaveHonest, Reopened
<1>2. CASE Restart
  <2>1. SaveHonest' BY <1>2 DEF Restart, SaveHonest, past, Routines, Senders, Unsent
  <2> QED BY <1>2, <2>1 DEF Restart, Reopened
<1>3. ASSUME NEW g \in Senders, Send(g) PROVE SaveHonest' /\ (Reopened => Excused)
  BY <1>3, SendHonest DEF Reopened, Excused
<1>4. ASSUME NEW n, UpdateRetrySchedule(n) \/ UNCHANGED row PROVE ~Reopened
  BY <1>4 DEF UpdateRetrySchedule, Reopened, RowsOK, Row
<1>5. CASE Compose
  <2>1. CASE ~Send("compose")
    <3>1. Ends("compose") /\ UNCHANGED saved /\ (UpdateRetrySchedule(1) \/ UNCHANGED row)
      BY <1>5, <2>1 DEF Compose
    <3> QED BY <3>1, <1>4, EndHonest DEF Routines, Senders
  <2> QED BY <1>3, <2>1 DEF Senders
<1>6. CASE Loop
  <2>1. CASE ListRetryDue
    BY <2>1, GoHonest DEF ListRetryDue, Reopened, radio, past, Routines, Senders
  <2>2. CASE retryOne
    <3>1. row' = row /\ UNCHANGED <<result, saved>> BY <2>2 DEF retryOne, radio, past
    <3>2. \/ Goto("loop", "idle") /\ copy' = copy
          \/ \E w \in {"fail", "rf", "is"} : \E c : Hold("loop", c) /\ Goto("loop", w)
          \/ /\ Hold("loop", [row EXCEPT !.scheduled = FALSE]) /\ Goto("loop", "save")
             /\ row.ack # "none"
      <4>1. FirstStep(path) \in {"rf", "is"} BY DEF FirstStep
      <4> QED BY <2>2, <4>1, Zenon DEF retryOne, PassOver, Take
    <3>3. CASE Goto("loop", "idle") /\ copy' = copy
      BY <3>1, <3>3, GoHonest DEF Reopened, Routines, Senders
    <3>4. CASE \E w \in {"fail", "rf", "is"} : \E c : Hold("loop", c) /\ Goto("loop", w)
      BY <3>1, <3>4, GoHonest DEF Reopened, Routines, Senders
    <3>5. CASE /\ Hold("loop", [row EXCEPT !.scheduled = FALSE]) /\ Goto("loop", "save")
               /\ row.ack # "none"
      <4>1. copy'["loop"].ack # "none"
        BY <3>5 DEF Hold, RowsOK, Row, Routines, Senders
      <4> QED BY <3>1, <3>5, <4>1, GoHonest DEF Reopened, Routines, Senders
    <3> QED BY <3>2, <3>3, <3>4, <3>5
  <2>3. CASE Fail
    <3>1. row'.ack = "rejected"
      BY <2>3 DEF Fail, Save, Failed, RowsOK, Row, Routines, Senders
    <3> QED BY <2>3, <3>1, EndHonest DEF Fail, Reopened, radio, past, Routines, Senders
  <2>4. CASE Tidy
    <3>1. row'.ack # "none" BY <2>4 DEF Tidy, Save, SaveHonest
    <3> QED BY <2>4, <3>1, EndHonest DEF Tidy, Reopened, radio, past, Routines, Senders
  <2>5. CASE LoopSettles
    <3> DEFINE c == copy["loop"]
    <3>1. Ends("loop") /\ UNCHANGED saved BY <2>5 DEF LoopSettles
    <3>2. \/ UpdateRetrySchedule(c.attempts)
          \/ result["loop"].err \in {"full", "stopped"}
          \/ row' = Failed(c)
      BY <2>5 DEF LoopSettles, Save
    <3>3. row' = Failed(c) => row'.ack = "rejected"
      BY DEF Failed, RowsOK, Row, Routines, Senders
    <3>4. Reopened => Excused
      BY <1>4, <3>1, <3>2, <3>3 DEF SaveHonest, Reopened, Excused, Senders
    <3> QED BY <3>1, <3>4, EndHonest DEF Routines, Senders
  <2> QED BY <1>3, <1>6, <2>1, <2>2, <2>3, <2>4, <2>5 DEF Loop, Senders
<1>7. CASE Resend
  <2>1. CASE ResendStarts
    BY <2>1, GoHonest DEF ResendStarts, Reopened, radio, past, Routines, Senders
  <2>2. CASE ResendSaves
    BY <2>2, GoHonest DEF ResendSaves, Excused, FirstStep, Routines, Senders
  <2>3. CASE ResendSettles
    <3>1. Ends("resend") /\ UNCHANGED saved
          /\ (UpdateRetrySchedule(copy["resend"].attempts) \/ UNCHANGED row)
      BY <2>3 DEF ResendSettles
    <3> QED BY <3>1, <1>4, EndHonest DEF Routines, Senders
  <2> QED BY <1>3, <1>7, <2>1, <2>2, <2>3 DEF Resend, Senders
<1>8. CASE Delete
  <2>1. UNCHANGED saved
    BY <1>8 DEF Delete, DeleteStarts, CancelSaves, SoftDelete, SoftDeleteThread, ForgetInFlight,
       radio, past
  <2>2. \A g \in Senders : pc'[g] = pc[g] /\ copy'[g] = copy[g] /\ result'[g] = result[g]
    BY <1>8 DEF Delete, DeleteStarts, CancelSaves, SoftDelete, SoftDeleteThread, ForgetInFlight,
       Goto, Hold, Ends, PcOK, RowsOK, Senders, Routines
  <2>3. pc'["router"] = pc["router"] /\ copy'["router"] = copy["router"]
    BY <1>8 DEF Delete, DeleteStarts, CancelSaves, SoftDelete, SoftDeleteThread, ForgetInFlight,
       Goto, Hold, Ends, PcOK, RowsOK, Senders, Routines
  <2>4. SaveHonest' BY <2>1, <2>2, <2>3 DEF SaveHonest, Senders
  <2>5. Reopened => pc["delete"] = "save"
    BY <1>8 DEF Delete, DeleteStarts, CancelSaves, SoftDelete, SoftDeleteThread, ForgetInFlight,
       Reopened, RowsOK, Row
  <2> QED BY <2>4, <2>5 DEF Excused
<1>9. CASE Transmit
  <2>1. ~Reopened
    BY <1>9 DEF Transmit, UpdateSentAtAndAckState, Reopened, RowsOK, Row, AckStates
  <2>2. UNCHANGED <<pc, copy, result, saved>> BY <1>9 DEF Transmit, past
  <2> QED BY <2>1, <2>2 DEF SaveHonest
<1>10. CASE AckHeard
  <2>1. PICK v \in Verdicts : Hold("router", [row EXCEPT !.ack = v])
    BY <1>10 DEF AckHeard
  <2>2. copy'["router"].ack # "none"
    BY <2>1, MessageAssumption DEF Hold, RowsOK, Row, Routines
  <2> QED BY <1>10, <2>1, <2>2, GoHonest DEF AckHeard, Reopened, radio, past, Routines
<1>11. CASE AckSaved
  <2>1. row'.ack # "none" BY <1>11 DEF AckSaved, Save, SaveHonest
  <2> QED BY <1>11, <2>1, EndHonest DEF AckSaved, Reopened, radio, past, Routines
<1> QED
  BY <1>1, <1>2, <1>5, <1>6, <1>7, <1>8, <1>9, <1>10, <1>11 DEF Next

LEMMA ResultStep == ASSUME ResultOK, [Next]_vars PROVE ResultOK'
<1>1. ASSUME NEW g \in Senders, NEW e \in {"none", "full", "stopped", "other"}, NEW b \in BOOLEAN,
             Returns(g, e, b)
      PROVE  ResultOK'
  BY <1>1 DEF Returns, ResultOK
<1>2. ASSUME UNCHANGED result PROVE ResultOK' BY <1>2 DEF ResultOK
<1>3. ASSUME NEW g \in Routines, Ends(g) PROVE ResultOK'
  <2>1. UNCHANGED result \/ (g \in Senders /\ Returns(g, "none", FALSE))
    BY <1>3, Zenon DEF Ends, Returns, Unsent
  <2>2. FALSE \in BOOLEAN OBVIOUS
  <2> QED BY <1>1, <1>2, <2>1, <2>2
<1>4. ASSUME NEW g \in Senders, Send(g) PROVE ResultOK'
  <2>1. CASE RfAccepted(g)
    <3>1. (kind = "dm") \in BOOLEAN OBVIOUS
    <3> QED BY <1>1, <2>1, <3>1 DEF RfAccepted
  <2>2. CASE RfRefused(g)
    <3>1. PICK o \in RfOutcomes \ {"accepted"} :
             Returns(g, IF o \in {"full", "stopped"} THEN o ELSE "other",
                        \/ o = "full"
                        \/ o = "error" /\ kind = "dm")
      BY <2>2 DEF RfRefused
    <3>2. (IF o \in {"full", "stopped"} THEN o ELSE "other") \in {"none", "full", "stopped", "other"}
      OBVIOUS
    <3>3. (\/ o = "full"
           \/ o = "error" /\ kind = "dm") \in BOOLEAN
      OBVIOUS
    <3> QED BY <1>1, <3>1, <3>2, <3>3
  <2>3. CASE IsAccepted(g)
    <3>1. (result[g].err = "none" /\ result[g].retryable) \in BOOLEAN OBVIOUS
    <3>2. \E b \in BOOLEAN : Returns(g, "none", b) BY <2>3, <3>1 DEF IsAccepted
    <3> QED BY <1>1, <3>2
  <2>4. CASE IsRefused(g)
    <3>1. UNCHANGED result \/ Returns(g, "other", FALSE) BY <2>4 DEF IsRefused
    <3> QED BY <1>1, <1>2, <3>1
  <2>5. CASE MergeBoth(g) BY <1>2, <2>5 DEF MergeBoth
  <2> QED BY <1>4, <2>1, <2>2, <2>3, <2>4, <2>5 DEF Send
<1>5. CASE Restart BY <1>5 DEF Restart, ResultOK, Unsent
<1>6. CASE Compose BY <1>3, <1>4, <1>6 DEF Compose, Routines, Senders
<1>7. CASE Loop
  BY <1>2, <1>3, <1>4, <1>7 DEF Loop, ListRetryDue, retryOne, Fail, Tidy, LoopSettles, Routines,
     Senders
<1>8. CASE Resend
  BY <1>2, <1>3, <1>4, <1>8 DEF Resend, ResendStarts, ResendSaves, ResendSettles, Routines, Senders
<1>9. CASE Delete
  BY <1>2, <1>3, <1>9 DEF Delete, DeleteStarts, CancelSaves, SoftDelete, SoftDeleteThread,
     ForgetInFlight, Routines
<1>10. CASE Transmit \/ AckHeard \/ AckSaved \/ UNCHANGED vars
  BY <1>2, <1>3, <1>10 DEF Transmit, AckHeard, AckSaved, vars, Routines
<1> QED BY <1>5, <1>6, <1>7, <1>8, <1>9, <1>10 DEF Next

LEMMA Typed == Spec => [](PcOK /\ RowsOK /\ ResultOK /\ CountsOK)
<1>1. Init => PcOK /\ RowsOK /\ CountsFirst
  BY RowChanges, MessageAssumption
  DEF Init, PcOK, RowsOK, CountsFirst, Sending, Routines, Senders, Points, FirstStep, Fresh, Row,
      AckStates
<1>2. Init => ResultOK /\ CountsOK
  BY MessageAssumption DEF Init, ResultOK, CountsOK, Unsent, MaxTries
<1>3. PcOK /\ RowsOK /\ CountsFirst /\ [Next]_vars => PcOK' /\ RowsOK' /\ CountsFirst'
  BY PcStep, RowStep
<1>4. ResultOK /\ CountsOK /\ [Next]_vars => ResultOK' /\ CountsOK' BY ResultStep, CountsKept
<1> QED BY <1>1, <1>2, <1>3, <1>4, PTL DEF Spec

Types == PcOK /\ RowsOK /\ ResultOK /\ CountsOK

LEMMA Honest == Spec => [](Types /\ SaveHonest)
<1>1. Init => SaveHonest BY DEF Init, SaveHonest, Unsent, FirstStep, Routines, Senders
<1>2. Types /\ SaveHonest /\ [Next]_vars => SaveHonest' BY HonestStep DEF Types
<1>3. PcOK /\ RowsOK /\ ResultOK /\ CountsOK => Types BY DEF Types
<1> QED BY <1>1, <1>2, <1>3, Typed, PTL DEF Spec

\* As long as RF takes every send, no write of the hook, of the schedule or of an accepted
\* send reopens what the router has closed: a whole row is saved only by a send that was
\* refused or went over APRS-IS, by a Resend or a delete, or with an ack of its own.
THEOREM AckStands == Spec => ClosedStays
<1>1. Types /\ SaveHonest /\ [Next]_vars
      => [Reopened => saved' \/ pc["resend"] = "save" \/ pc["delete"] = "save"]_vars
  BY HonestStep DEF Types, Excused
<1> QED BY <1>1, Honest, PTL DEF Spec, ClosedStays

-----------------------------------------------------------------------------
(* A message is given up late: an attempt in the row has been counted, or  *)
(* is being made, or was lost with the process.                            *)

Paid == tries + restarts
RowPaid ==
    row.ack = "none" => /\ row.attempts <= Paid + 1
                        /\ ~Sending("loop") => row.attempts <= Paid
FromNone == copy["compose"].attempts = 0 /\ copy["resend"].attempts = 0
LoopPaid ==
    /\ Sending("loop") => copy["loop"].attempts <= Paid + 1 /\ copy["loop"].ack # "rejected"
    /\ pc["loop"] = "fail" => MaxAttempts <= copy["loop"].attempts /\ copy["loop"].attempts <= Paid
Low == RowPaid /\ FromNone /\ LoopPaid
GivenUp == /\ pc["loop"] \in {"fail", "sent"} /\ pc'["loop"] = "idle"
           /\ row.ack = "none" /\ row'.ack = "rejected"
Late == GivenUp => tries' + restarts >= MaxAttempts

\* What the schedule and the hook write keeps the ack open only where it was.
LEMMA Scheduled ==
    ASSUME RowsOK, NEW n \in 0 .. MaxAttempts, UpdateRetrySchedule(n)
    PROVE  /\ row'.ack = row.ack /\ row'.deleted = row.deleted
           /\ row'.attempts = n \/ (row' = row /\ row.deleted = TRUE)
BY DEF RowsOK, Row, UpdateRetrySchedule

LEMMA Stamps ==
    ASSUME RowsOK, UpdateSentAtAndAckState \/ UNCHANGED row
    PROVE  Alike(row', row) /\ (row'.ack = "none" => row.ack = "none")
BY DEF RowsOK, Row, AckStates, UpdateSentAtAndAckState, Alike

LEMMA FreshRow == Fresh.attempts = 0 /\ Fresh.scheduled = FALSE /\ Fresh.deleted = FALSE
BY DEF Fresh

\* The facts of arithmetic the steps need.
LEMMA Numbers ==
    ASSUME RowsOK, CountsOK
    PROVE  /\ tries \in Nat /\ restarts \in Nat /\ resends \in Nat /\ Paid \in Nat
           /\ MaxAttempts \in Nat /\ MaxAttempts >= 1
           /\ row.attempts \in 0 .. MaxAttempts
           /\ \A g \in Routines : copy[g].attempts \in 0 .. MaxAttempts
BY MessageAssumption DEF RowsOK, CountsOK, Row, Paid, MaxTries

LEMMA LowSend ==
    ASSUME PcOK, RowsOK, CountsOK, Low, NEW g \in Senders, Send(g)
    PROVE  Low' /\ ~GivenUp
<1>1. /\ pc[g] \in {"rf", "is", "merge"} /\ pc'[g] \in {"is", "merge", "sent"}
      /\ \A r \in Routines \ {g} : pc'[r] = pc[r] /\ copy'[r] = copy[r]
      /\ row' = row \/ row'.attempts = copy[g].attempts
      /\ copy'[g].attempts = copy[g].attempts /\ copy'[g].ack \in {copy[g].ack, "broadcast"}
      /\ Paid' = Paid
  BY SendView DEF Alike, Paid
<1>2. Sending("loop")' <=> Sending("loop") BY <1>1 DEF Sending, Routines, Senders
<1>3. FromNone' BY <1>1 DEF Low, FromNone, Routines, Senders
<1>4. LoopPaid' BY <1>1, <1>2 DEF Low, LoopPaid, Sending, Routines, Senders
<1>5. RowPaid'
  <2>1. CASE row' = row BY <1>1, <1>2, <2>1 DEF Low, RowPaid
  <2>2. CASE row'.attempts = copy[g].attempts
    <3>1. CASE g = "loop"
      <4>1. Sending("loop") /\ Sending("loop")' BY <1>1, <1>2, <3>1 DEF Sending
      <4> QED BY <1>1, <2>2, <3>1, <4>1 DEF Low, RowPaid, LoopPaid
    <3>2. CASE g # "loop"
      <4>1. row'.attempts = 0 BY <2>2, <3>2 DEF Low, FromNone, Senders
      <4> QED BY <1>1, <4>1, Numbers DEF RowPaid
    <3> QED BY <3>1, <3>2
  <2> QED BY <1>1, <2>1, <2>2
<1>6. ~GivenUp BY <1>1 DEF GivenUp, Routines, Senders
<1> QED BY <1>3, <1>4, <1>5, <1>6 DEF Low

\* A step that leaves the loop, its copy and the attempts made alone, or counts one.
LEMMA LowElsewhere ==
    ASSUME PcOK, RowsOK, CountsOK, Low,
           pc'["loop"] = pc["loop"], copy'["loop"] = copy["loop"],
           copy'["compose"].attempts = 0, copy'["resend"].attempts = 0,
           tries' \in Nat, tries' >= tries, UNCHANGED restarts, row'.attempts \in Nat,
           \/ row'.ack # "none"
           \/ row'.attempts = 0
           \/ row'.attempts <= tries'
           \/ row.ack = "none" /\ row'.attempts = row.attempts
    PROVE  Low' /\ ~GivenUp
<1>1. Paid' \in Nat /\ Paid' >= Paid BY Numbers DEF Paid
<1>2. Paid' >= tries' BY Numbers DEF Paid
<1>3. Sending("loop")' <=> Sending("loop") BY DEF Sending
<1>4. LoopPaid' BY <1>1, <1>3, Numbers DEF Low, LoopPaid, Routines, Senders
<1>5. RowPaid'
  <2>1. CASE row.ack = "none" /\ row'.attempts = row.attempts
    BY <1>1, <1>3, <2>1, Numbers DEF Low, RowPaid
  <2>2. CASE row'.attempts = 0 \/ row'.attempts <= tries'
    <3>1. row'.attempts <= Paid' /\ (row'.attempts = 0 \/ row'.attempts <= Paid')
      <4>1. CASE row'.attempts = 0 BY <1>1, <4>1
      <4>2. CASE row'.attempts <= tries' BY <1>1, <1>2, <4>2
      <4> QED BY <2>2, <4>1, <4>2
    <3> QED BY <1>1, <3>1 DEF RowPaid
  <2> QED BY <2>1, <2>2 DEF RowPaid
<1>6. ~GivenUp BY DEF GivenUp
<1> QED BY <1>4, <1>5, <1>6 DEF Low, FromNone

LEMMA AtLeast ==
    ASSUME NEW a \in Nat, NEW r \in Nat, NEW m \in Nat, a >= m
    PROVE  a + r \in Nat /\ a + r >= m
OBVIOUS

LEMMA LowLoop ==
    ASSUME PcOK, RowsOK, ResultOK, CountsOK, SaveHonest, Low, Loop
    PROVE  Low' /\ Late
<1> DEFINE c == copy["loop"]
<1>1. /\ tries \in Nat /\ restarts \in Nat /\ MaxAttempts \in Nat /\ MaxAttempts >= 1
      /\ row.attempts \in 0 .. MaxAttempts /\ c.attempts \in 0 .. MaxAttempts
      /\ row.attempts \in Nat /\ row.attempts <= MaxAttempts
      /\ c.attempts \in Nat /\ c.attempts <= MaxAttempts
  BY Numbers DEF Routines, Senders
<1>2. c \in Row /\ row \in Row BY DEF RowsOK, Routines, Senders
<1> HIDE DEF c
<1>3. CASE Send("loop") BY <1>3, LowSend DEF Late, Senders
<1>4. CASE ListRetryDue
  <2>1. Goto("loop", "listed") /\ pc["loop"] = "idle" BY <1>4 DEF ListRetryDue
  <2>2. pc'["loop"] = "listed" BY <2>1, GotoView DEF Routines, Senders
  <2>3. UNCHANGED <<row, copy, tries, restarts>>
    BY <1>4 DEF ListRetryDue, radio, past, bounds
  <2> QED BY <2>1, <2>2, <2>3 DEF Low, RowPaid, FromNone, LoopPaid, Sending, Late, GivenUp, Paid
<1>5. CASE retryOne
  <2>1. pc["loop"] = "listed" /\ UNCHANGED <<row, tries, restarts>>
    BY <1>5 DEF retryOne, radio, past, bounds
  <2>2. RowPaid' /\ Late
    <3>1. row.ack = "none" => row.attempts <= Paid BY <2>1 DEF Low, RowPaid, Sending
    <3>2. Paid' = Paid /\ Paid \in Nat BY <2>1, <1>1 DEF Paid
    <3>3. RowPaid' BY <2>1, <3>1, <3>2, <1>1 DEF RowPaid
    <3> QED BY <2>1, <3>3 DEF Late, GivenUp
  <2>3. \/ Goto("loop", "idle") /\ copy' = copy
        \/ Hold("loop", [row EXCEPT !.scheduled = FALSE]) /\ Goto("loop", "save")
        \/ /\ Hold("loop", row) /\ Goto("loop", "fail")
           /\ row.ack = "none" /\ row.attempts >= MaxAttempts
        \/ /\ Hold("loop", [row EXCEPT !.attempts = @ + 1]) /\ Goto("loop", FirstStep(path))
           /\ row.ack = "none"
    BY <1>5, Zenon DEF retryOne, PassOver, Take
  <2>4. FirstStep(path) \in {"rf", "is"} BY DEF FirstStep
  <2>5. FromNone' BY <2>3, HoldView DEF Low, FromNone, Routines, Senders
  <2>6. LoopPaid'
    <3>1. row.ack = "none" => row.attempts <= Paid BY <2>1 DEF Low, RowPaid, Sending
    <3>2. Paid' = Paid /\ Paid \in Nat BY <2>1, <1>1 DEF Paid
    <3>3. CASE Goto("loop", "idle")
      <4>1. pc'["loop"] = "idle" BY <3>3, GotoView DEF Routines, Senders
      <4> QED BY <4>1 DEF LoopPaid, Sending
    <3>4. CASE Goto("loop", "save")
      <4>1. pc'["loop"] = "save" BY <3>4, GotoView DEF Routines, Senders
      <4> QED BY <4>1 DEF LoopPaid, Sending
    <3>5. CASE /\ Hold("loop", row) /\ Goto("loop", "fail")
               /\ row.ack = "none" /\ row.attempts >= MaxAttempts
      <4>1. pc'["loop"] = "fail" /\ copy'["loop"] = row
        BY <3>5, GotoView, HoldView DEF Routines, Senders
      <4> QED BY <3>1, <3>2, <3>5, <4>1, <1>1 DEF LoopPaid, Sending
    <3>6. CASE /\ Hold("loop", [row EXCEPT !.attempts = @ + 1]) /\ Goto("loop", FirstStep(path))
               /\ row.ack = "none"
      <4>1. pc'["loop"] # "fail" /\ copy'["loop"] = [row EXCEPT !.attempts = @ + 1]
        BY <2>4, <3>6, GotoView, HoldView DEF Routines, Senders
      <4>2. copy'["loop"].attempts = row.attempts + 1 BY <4>1, <1>2 DEF Row
      <4> QED BY <3>1, <3>2, <3>6, <4>1, <4>2, <1>1 DEF LoopPaid
    <3> QED BY <2>3, <3>3, <3>4, <3>5, <3>6
  <2> QED BY <2>2, <2>5, <2>6 DEF Low
<1>6. ASSUME Ends("loop") PROVE pc'["loop"] = "idle" /\ FromNone' /\ LoopPaid'
  <2>1. pc'["loop"] = "idle" /\ \A r \in Routines \ {"loop"} : copy'[r] = copy[r]
    BY <1>6, EndsView DEF Routines, Senders
  <2> QED BY <2>1 DEF Low, FromNone, LoopPaid, Sending, Routines, Senders
<1>7. CASE Fail
  <2>1. Ends("loop") /\ UNCHANGED <<tries, restarts>> BY <1>7 DEF Fail, radio, past, bounds
  <2>2. row'.ack = "rejected" BY <1>7, <1>2 DEF Fail, Save, Failed, Row, c
  <2>3. MaxAttempts <= c.attempts /\ c.attempts <= Paid BY <1>7 DEF Fail, Low, LoopPaid, c
  <2>4. Late BY <2>1, <2>3, <1>1 DEF Late, Paid
  <2> QED BY <1>6, <2>1, <2>2, <2>4 DEF Low, RowPaid
<1>8. CASE Tidy
  <2>1. Ends("loop") /\ row'.ack # "none" BY <1>8 DEF Tidy, Save, SaveHonest
  <2>2. Late BY <1>8 DEF Tidy, Late, GivenUp
  <2> QED BY <1>6, <2>1, <2>2 DEF Low, RowPaid
<1>9. CASE LoopSettles
  <2>1. pc["loop"] = "sent" /\ Ends("loop") /\ Counts("loop") /\ UNCHANGED restarts
    BY <1>9 DEF LoopSettles, bounds
  <2>2. c.attempts <= Paid + 1 /\ (row.ack = "none" => row.attempts <= Paid + 1)
    BY <2>1 DEF Low, LoopPaid, RowPaid, Sending, c
  <2>3. tries' \in Nat /\ tries' >= tries BY <2>1, <1>1, Tries DEF MaxTries
  <2>4. CASE result["loop"].err \in {"none", "other"}
    <3>1. tries' = tries + 1 \/ tries' >= MaxAttempts BY <2>1, <2>4, Tries
    <3>2. c.attempts <= Paid' /\ (row.ack = "none" => row.attempts <= Paid') /\ Paid' \in Nat
      <4>1. Paid' = tries' + restarts /\ Paid = tries + restarts BY <2>1 DEF Paid
      <4>2. CASE tries' = tries + 1 BY <2>2, <4>1, <4>2, <1>1
      <4>3. CASE tries' >= MaxAttempts
        <5>1. tries' \in Nat /\ restarts \in Nat BY <2>3, <1>1
        <5>2. tries' + restarts \in Nat /\ tries' + restarts >= MaxAttempts
          BY <4>3, <5>1, <1>1, AtLeast
        <5> QED BY <5>2, <4>1, <1>1
      <4> QED BY <3>1, <4>2, <4>3
    <3>3. UpdateRetrySchedule(c.attempts) \/ (c.attempts >= MaxAttempts /\ Save(Failed(c)))
      BY <1>9, <2>4 DEF LoopSettles, c
    <3>4. CASE UpdateRetrySchedule(c.attempts)
      <4>1. row'.ack = row.ack /\ (row'.attempts = c.attempts \/ row' = row)
        BY <3>4, <1>1, Scheduled
      <4>2. RowPaid' BY <3>2, <4>1, <1>1 DEF RowPaid
      <4>3. Late BY <4>1 DEF Late, GivenUp
      <4> QED BY <1>6, <2>1, <4>2, <4>3 DEF Low
    <3>5. CASE c.attempts >= MaxAttempts /\ Save(Failed(c))
      <4>1. row'.ack = "rejected" BY <3>5, <1>2 DEF Save, Failed, Row
      <4>2. Paid' = tries' + restarts BY <2>1 DEF Paid
      <4>3. tries' + restarts >= MaxAttempts
        <5>1. Paid' >= MaxAttempts BY <3>2, <3>5, <1>1
        <5> QED BY <4>2, <5>1
      <4>4. Late BY <4>3 DEF Late
      <4> QED BY <1>6, <2>1, <4>1, <4>4 DEF Low, RowPaid
    <3> QED BY <3>3, <3>4, <3>5
  <2>5. CASE result["loop"].err \in {"full", "stopped"}
    <3>1. row' = ShortRetry(c) \/ row' = Rollback(c) BY <1>9, <2>5 DEF LoopSettles, Save, c
    <3>2. row'.attempts = c.attempts - 1 /\ row'.ack = c.ack
      BY <3>1, <1>2 DEF ShortRetry, Rollback, Row
    <3>3. pc'["loop"] = "idle" BY <1>6, <2>1
    <3>4. RowPaid' BY <2>1, <2>2, <2>3, <3>2, <3>3, <1>1 DEF RowPaid, Sending, Paid
    <3>5. Late BY <2>1, <3>2 DEF Low, LoopPaid, Sending, Late, GivenUp, c
    <3> QED BY <1>6, <2>1, <3>4, <3>5 DEF Low
  <2> QED BY <1>9, <2>4, <2>5 DEF LoopSettles
<1> QED BY <1>3, <1>4, <1>5, <1>7, <1>8, <1>9 DEF Loop, Late

LowInv == cancelled # TRUE => Low

LEMMA LowStep ==
    ASSUME Types, Types', SaveHonest, MarkHeld, Low, cancelled # TRUE, [Next]_vars
    PROVE  Late /\ LowInv'
<1>1. PcOK /\ RowsOK /\ ResultOK /\ CountsOK /\ RowsOK' /\ CountsOK' BY DEF Types
<1>2. /\ tries \in Nat /\ restarts \in Nat /\ MaxAttempts \in Nat /\ MaxAttempts >= 1
      /\ row.attempts \in Nat /\ row.attempts <= MaxAttempts
      /\ tries' \in Nat /\ row'.attempts \in Nat
  <2>1. /\ tries' \in Nat /\ row'.attempts \in Nat
    BY <1>1, MessageAssumption DEF CountsOK, RowsOK, Row, MaxTries
  <2> QED BY <1>1, <2>1, Numbers
<1>3. ~GivenUp => Late BY DEF Late
<1>14. ASSUME tries' = tries, restarts' = restarts,
              pc'["loop"] = pc["loop"], copy'["loop"] = copy["loop"],
              copy'["compose"].attempts = 0, copy'["resend"].attempts = 0,
              row'.ack # "none" \/ (row.ack = "none" /\ row'.attempts = row.attempts)
       PROVE  Late /\ LowInv'
  <2>1. tries' \in Nat /\ tries' >= tries BY <1>2, <1>14
  <2>2. Low' /\ ~GivenUp BY <1>1, <1>2, <1>14, <2>1, LowElsewhere
  <2> QED BY <1>3, <2>2 DEF LowInv
<1>4. CASE UNCHANGED vars
  <2>1. UNCHANGED <<row, pc, copy, tries, restarts>> BY <1>4 DEF vars
  <2> QED
    BY <2>1 DEF Low, LowInv, RowPaid, FromNone, LoopPaid, Paid, Sending, Late, GivenUp
<1>5. CASE Restart
  <2>1. row' = row /\ restarts' = restarts + 1 /\ tries' = tries /\ pc'["loop"] = "idle"
        /\ copy'["compose"] = Fresh /\ copy'["resend"] = Fresh
    BY <1>5 DEF Restart, past, Routines, Senders
  <2>2. Paid' = Paid + 1 /\ Paid \in Nat BY <2>1, <1>2 DEF Paid
  <2>3. RowPaid' BY <2>1, <2>2, <1>2 DEF Low, RowPaid
  <2>4. FromNone' /\ LoopPaid' BY <2>1, FreshRow DEF FromNone, LoopPaid, Sending
  <2>5. ~GivenUp BY <2>1 DEF GivenUp
  <2> QED BY <2>3, <2>4, <2>5, <1>3 DEF Low, LowInv
<1>6. ASSUME NEW g \in Senders, Send(g) PROVE Late /\ LowInv'
  BY <1>1, <1>3, <1>6, LowSend DEF LowInv
<1>7. CASE Loop BY <1>1, <1>7, LowLoop DEF LowInv
<1>8. ASSUME NEW g \in {"compose", "resend"}, NEW n \in 0 .. 1, Ends(g), Counts(g),
             UNCHANGED restarts, UpdateRetrySchedule(n) \/ UNCHANGED row,
             n = 0 \/ g = "compose"
      PROVE  Late /\ LowInv'
  <2>1. /\ pc'["loop"] = pc["loop"] /\ copy'["loop"] = copy["loop"]
        /\ copy'["compose"].attempts = 0 /\ copy'["resend"].attempts = 0
    <3>1. copy'[g] = Fresh /\ \A r \in Routines \ {g} : pc'[r] = pc[r] /\ copy'[r] = copy[r]
      BY <1>1, <1>8, EndsView DEF Routines, Senders
    <3> QED BY <3>1, FreshRow DEF Low, FromNone, Routines, Senders
  <2>2. tries' >= tries BY <1>1, <1>2, <1>8, Tries
  <2>3. n = 0 \/ n <= tries'
    <3>1. CASE g = "compose"
      <4>1. tries' = tries + 1 \/ tries' >= MaxAttempts BY <1>1, <1>8, <3>1, Tries
      <4>2. n <= 1 BY <1>8
      <4>3. tries' >= 1 BY <4>1, <1>2
      <4> QED BY <4>2, <4>3, <1>2, <1>8
    <3> QED BY <1>8, <3>1
  <2>4. \/ row'.ack # "none"
        \/ row'.attempts = 0
        \/ row'.attempts <= tries'
        \/ row.ack = "none" /\ row'.attempts = row.attempts
    <3>1. CASE UNCHANGED row BY <3>1
    <3>2. CASE UpdateRetrySchedule(n)
      <4>1. n \in 0 .. MaxAttempts BY <1>2, <1>8
      <4>2. row'.ack = row.ack /\ (row'.attempts = n \/ row' = row)
        BY <1>1, <3>2, <4>1, Scheduled
      <4>3. CASE row'.attempts = n BY <2>3, <4>3
      <4>4. CASE row' = row BY <4>4
      <4> QED BY <4>2, <4>3, <4>4
    <3> QED BY <1>8, <3>1, <3>2
  <2> QED BY <1>1, <1>2, <1>3, <1>8, <2>1, <2>2, <2>4, LowElsewhere DEF LowInv
<1>9. CASE Compose
  <2>1. CASE ~Send("compose")
    BY <1>8, <1>9, <2>1 DEF Compose, bounds
  <2> QED BY <1>6, <2>1 DEF Senders
<1>10. CASE Resend
  <2>1. CASE ResendStarts
    <3> DEFINE d == [row EXCEPT !.attempts = 0, !.scheduled = FALSE]
    <3>1. Hold("resend", d) /\ Goto("resend", "save") /\ UNCHANGED <<row, tries, restarts>>
      BY <2>1 DEF ResendStarts, radio, past
    <3>2. d.attempts = 0 BY <1>1 DEF RowsOK, Row
    <3> HIDE DEF d
    <3>3. /\ copy'["resend"] = d /\ \A r \in Routines \ {"resend"} : copy'[r] = copy[r]
          /\ \A r \in Routines \ {"resend"} : pc'[r] = pc[r]
      BY <1>1, <3>1, HoldView, GotoView DEF Routines, Senders
    <3>4. pc'["loop"] = pc["loop"] /\ copy'["loop"] = copy["loop"]
          /\ copy'["compose"].attempts = 0 /\ copy'["resend"].attempts = 0
      BY <3>2, <3>3 DEF Low, FromNone, Routines, Senders
    <3>5. row'.ack # "none" \/ (row.ack = "none" /\ row'.attempts = row.attempts) BY <3>1
    <3> QED BY <1>14, <3>1, <3>4, <3>5
  <2>2. CASE ResendSaves
    <3>1. pc["loop"] \in {"idle", "listed"}
      BY <2>2 DEF ResendSaves, MarkHeld, LoopHolds
    <3>2. /\ row' = copy["resend"] /\ UNCHANGED <<copy, restarts>> /\ tries' = 0
          /\ Goto("resend", FirstStep(path))
      BY <2>2 DEF ResendSaves, Save, bounds
    <3>3. pc'["loop"] = pc["loop"] BY <1>1, <3>2, GotoView DEF Routines, Senders
    <3>4. row'.attempts = 0 /\ Paid' \in Nat BY <3>2, <1>2 DEF Low, FromNone, Paid
    <3>5. RowPaid'
      <4>1. \A n \in Nat : 0 <= n /\ 0 <= n + 1 OBVIOUS
      <4> QED BY <3>4, <4>1 DEF RowPaid
    <3>6. LoopPaid' /\ ~GivenUp BY <3>1, <3>3 DEF LoopPaid, Sending, GivenUp
    <3> QED BY <1>3, <3>2, <3>5, <3>6 DEF Low, LowInv, FromNone
  <2>3. CASE ResendSettles
    <3>1. copy["resend"].attempts = 0 BY DEF Low, FromNone
    <3>2. /\ Ends("resend") /\ Counts("resend") /\ UNCHANGED restarts
          /\ UpdateRetrySchedule(0) \/ UNCHANGED row
      BY <2>3, <3>1 DEF ResendSettles, bounds
    <3>3. 0 \in 0 .. 1 OBVIOUS
    <3> QED BY <1>8, <3>2, <3>3
  <2> QED BY <1>6, <1>10, <2>1, <2>2, <2>3 DEF Resend, Senders
<1>11. CASE Delete
  <2>1. cancelled' = TRUE
    BY <1>11 DEF Delete, DeleteStarts, CancelSaves, SoftDelete, SoftDeleteThread, ForgetInFlight,
       MarkHeld
  <2>2. pc'["loop"] = pc["loop"]
    BY <1>1, <1>11 DEF Delete, DeleteStarts, CancelSaves, SoftDelete, SoftDeleteThread,
       ForgetInFlight, Goto, Ends, PcOK, Routines, Senders
  <2>3. ~GivenUp BY <2>2 DEF GivenUp
  <2> QED BY <1>3, <2>1, <2>3 DEF LowInv
<1>12. CASE Transmit
  <2>1. UNCHANGED <<pc, copy, tries, restarts>>
        /\ (UpdateSentAtAndAckState \/ UNCHANGED row)
    BY <1>12 DEF Transmit, past, bounds
  <2>2. row'.attempts = row.attempts /\ (row'.ack = "none" => row.ack = "none")
    BY <1>1, <2>1, Stamps DEF Alike
  <2>3. copy["compose"].attempts = 0 /\ copy["resend"].attempts = 0 BY DEF Low, FromNone
  <2>4. row'.ack # "none" \/ (row.ack = "none" /\ row'.attempts = row.attempts) BY <2>2
  <2>5. copy' = copy /\ pc' = pc /\ tries' = tries /\ restarts' = restarts BY <2>1
  <2> QED BY <1>14, <2>3, <2>4, <2>5
<1>13. CASE AckHeard \/ AckSaved
  <2>1. UNCHANGED <<tries, restarts>> BY <1>13 DEF AckHeard, AckSaved, radio, past, bounds
  <2>2. /\ \A r \in Routines \ {"router"} : pc'[r] = pc[r] /\ copy'[r] = copy[r]
    BY <1>1, <1>13 DEF AckHeard, AckSaved, Goto, Hold, Ends, PcOK, RowsOK
  <2>3. row' = row \/ row'.ack # "none"
    BY <1>13 DEF AckHeard, AckSaved, Save, SaveHonest
  <2>4. /\ pc'["loop"] = pc["loop"] /\ copy'["loop"] = copy["loop"]
        /\ copy'["compose"].attempts = 0 /\ copy'["resend"].attempts = 0
    BY <2>2 DEF Low, FromNone, Routines, Senders
  <2>5. row'.ack # "none" \/ (row.ack = "none" /\ row'.attempts = row.attempts) BY <2>3
  <2> QED BY <1>14, <2>1, <2>4, <2>5
<1> QED BY <1>4, <1>5, <1>7, <1>9, <1>10, <1>11, <1>12, <1>13 DEF Next

\* "retransmitting until acknowledged or the retry budget runs out" (handbook): an attempt
\* in a row that is open has been counted, is under way, or went down with the process, and
\* one that was refused for want of room is taken back.
THEOREM NotGivenUpEarly == Spec => GivesUpLate
<1>1. Init => LowInv
  <2>1. SUFFICES ASSUME Init PROVE Low BY DEF LowInv
  <2>2. /\ row.attempts = 0 /\ copy["compose"].attempts = 0 /\ copy["resend"].attempts = 0
        /\ pc["loop"] = "idle" /\ Paid = 0
    BY <2>1, FreshRow DEF Init, Paid, Routines, Senders
  <2> QED BY <2>2 DEF Low, RowPaid, FromNone, LoopPaid, Sending
<1>2. Types /\ Types' /\ SaveHonest /\ MarkHeld /\ LowInv /\ [Next]_vars => LowInv'
  <2>1. cancelled' # TRUE /\ [Next]_vars => cancelled # TRUE
    BY DEF Next, vars, Compose, Loop, Resend, Delete, Transmit, AckHeard, AckSaved, Restart, Send,
       RfAccepted, RfRefused, IsAccepted, IsRefused, MergeBoth, ListRetryDue, retryOne, Fail, Tidy,
       LoopSettles, ResendStarts, ResendSaves, ResendSettles, DeleteStarts, CancelSaves, SoftDelete,
       SoftDeleteThread, ForgetInFlight, bounds
  <2> QED BY <2>1, LowStep DEF LowInv
<1>3. Types /\ Types' /\ SaveHonest /\ MarkHeld /\ LowInv /\ [Next]_vars
      => [pc["loop"] \in {"fail", "sent"} /\ pc'["loop"] = "idle"
          /\ row.ack = "none" /\ row'.ack = "rejected" /\ ~cancelled
          => tries' + restarts >= MaxAttempts]_vars
  BY LowStep DEF LowInv, Late, GivenUp
<1> QED BY <1>1, <1>2, <1>3, Honest, Marked, PTL DEF Spec, GivesUpLate

-----------------------------------------------------------------------------
(* What an order costs: an attempt that counts is written to the row, or   *)
(* is the one being made.                                                  *)

Extra == IF resends > 0 THEN 1 ELSE 0
Kept == row.deleted = FALSE /\ \A g \in Senders \cup {"router"} : copy[g].deleted = FALSE
Bare == FromNone /\ copy["compose"].scheduled = FALSE /\ copy["resend"].scheduled = FALSE
\* The first send has the row to itself, the hook and the router apart.
FirstSend ==
    pc["compose"] # "idle" => /\ tries = 0 /\ row.scheduled = FALSE
                              /\ copy["router"].scheduled = FALSE
                              /\ pc["loop"] = "idle" /\ pc["resend"] = "idle"
\* A Resend starts at none and is not counted before it sends.
Again == /\ pc["resend"] # "idle" => resends > 0
         /\ Sending("resend") => tries = 0
OnLadder ==
    row.ack = "none" /\ (row.scheduled = TRUE \/ pc["loop"] = "listed")
    => tries <= row.attempts + Extra
AtLoop == Sending("loop") => tries + 1 <= copy["loop"].attempts + Extra
Spent == tries <= MaxAttempts + Extra
Ladder == Kept /\ Bare /\ FirstSend /\ Again /\ OnLadder /\ AtLoop /\ Spent
LadderInv == cancelled # TRUE /\ overtaken # TRUE => Ladder

LEMMA Extras ==
    ASSUME CountsOK
    PROVE  /\ Extra \in Nat /\ Extra <= 1
           /\ resends > 0 => Extra = 1
           /\ resends' = resends => Extra' = Extra
BY MessageAssumption DEF CountsOK, Extra

LEMMA LadderSend ==
    ASSUME Types, Types', MarkHeld, cancelled # TRUE, Ladder, NEW g \in Senders, Send(g)
    PROVE  Ladder'
<1>1. /\ pc[g] \in {"rf", "is", "merge"} /\ pc'[g] \in {"is", "merge", "sent"}
      /\ \A r \in Routines \ {g} : pc'[r] = pc[r] /\ copy'[r] = copy[r]
      /\ row' = row \/ Alike(row', copy[g])
      /\ Alike(copy'[g], copy[g])
      /\ tries' = tries /\ resends' = resends
  BY SendView DEF Types
<1>2. /\ tries \in Nat /\ copy["loop"].attempts \in Nat /\ Extra \in Nat /\ Extra' = Extra
      /\ row'.attempts \in Nat
  <2>1. tries \in Nat /\ copy["loop"].attempts \in 0 .. MaxAttempts /\ MaxAttempts \in Nat
    BY Numbers DEF Types, Routines, Senders
  <2>2. row'.attempts \in Nat BY MessageAssumption DEF Types, RowsOK, Row
  <2>3. Extra \in Nat /\ Extra' = Extra BY <1>1, Extras DEF Types
  <2> QED BY <2>1, <2>2, <2>3
<1>3. \A r \in Routines : /\ copy'[r].attempts = copy[r].attempts
                          /\ copy'[r].scheduled = copy[r].scheduled
                          /\ copy'[r].deleted = copy[r].deleted
                          /\ pc'[r] # "idle" <=> pc[r] # "idle"
                          /\ pc'[r] \in {"rf", "is", "merge", "sent"}
                             <=> pc[r] \in {"rf", "is", "merge", "sent"}
                          /\ pc'[r] = "listed" <=> pc[r] = "listed"
  BY <1>1 DEF Alike
<1>4. row' = row \/ (/\ row'.attempts = copy[g].attempts
                     /\ row'.scheduled = copy[g].scheduled
                     /\ row'.deleted = copy[g].deleted)
  BY <1>1 DEF Alike
<1>5. Kept' BY <1>3, <1>4 DEF Ladder, Kept, Routines, Senders
<1>6. Bare' BY <1>3 DEF Ladder, Bare, FromNone, Routines, Senders
<1>7. FirstSend'
  <2>1. pc["compose"] # "idle" => g = "compose" BY <1>1 DEF Ladder, FirstSend, Senders
  <2>2. pc["compose"] # "idle" => row'.scheduled = FALSE
    BY <1>4, <2>1 DEF Ladder, FirstSend, Bare
  <2> QED BY <1>1, <1>3, <2>2 DEF Ladder, FirstSend, Routines, Senders
<1>8. Again' BY <1>1, <1>3 DEF Ladder, Again, Sending, Routines, Senders
<1>9. AtLoop' BY <1>1, <1>2, <1>3 DEF Ladder, AtLoop, Sending, Routines, Senders
<1>10. OnLadder'
  <2>1. CASE row' = row BY <1>1, <1>2, <1>3, <2>1 DEF Ladder, OnLadder, Routines, Senders
  <2>2. CASE g = "compose" /\ row' # row
    <3>1. row'.scheduled = FALSE /\ pc["loop"] = "idle"
      BY <1>1, <1>4, <2>2 DEF Ladder, Bare, FirstSend
    <3> QED BY <1>1, <2>2, <3>1 DEF OnLadder, Routines, Senders
  <2>3. CASE g = "resend"
    <3>1. tries' = 0 BY <1>1, <2>3 DEF Ladder, Again, Sending
    <3>2. 0 <= row'.attempts + Extra' BY <1>2
    <3> QED BY <3>1, <3>2 DEF OnLadder
  <2>4. CASE g = "loop" /\ row' # row
    <3>1. tries + 1 <= copy["loop"].attempts + Extra BY <1>1, <2>4 DEF Ladder, AtLoop, Sending
    <3>2. tries <= copy["loop"].attempts + Extra BY <3>1, <1>2
    <3>3. row'.attempts = copy["loop"].attempts BY <1>4, <2>4
    <3> QED BY <1>1, <1>2, <3>2, <3>3 DEF OnLadder
  <2> QED BY <2>1, <2>2, <2>3, <2>4 DEF Senders
<1>11. Spent' BY <1>1, <1>2 DEF Ladder, Spent
<1> QED BY <1>5, <1>6, <1>7, <1>8, <1>9, <1>10, <1>11 DEF Ladder

\* The loop and what it writes when it settles.
LEMMA LadderLoop ==
    ASSUME Types, Types', SaveHonest, MarkHeld, cancelled # TRUE, Ladder, Loop
    PROVE  Ladder'
<1> DEFINE c == copy["loop"]
<1>1. /\ PcOK /\ RowsOK /\ CountsOK /\ c \in Row /\ row \in Row
      /\ tries \in Nat /\ Extra \in Nat /\ MaxAttempts \in Nat
      /\ c.attempts \in 0 .. MaxAttempts /\ row.attempts \in Nat
      /\ c.attempts \in Nat /\ c.attempts <= MaxAttempts
  <2>1. PcOK /\ RowsOK /\ CountsOK BY DEF Types
  <2>2. c \in Row /\ row \in Row BY <2>1 DEF RowsOK, Routines, Senders
  <2> QED BY <2>1, <2>2, Numbers, Extras DEF Routines, Senders
<1> HIDE DEF c
<1>2. CASE Send("loop") BY <1>2, LadderSend DEF Senders
<1>3. ~Send("loop") => UNCHANGED resends /\ Extra' = Extra
  <2>1. ~Send("loop") => resends' = resends
    BY DEF Loop, ListRetryDue, retryOne, Fail, Tidy, LoopSettles, bounds
  <2> QED BY <2>1, <1>1, Extras
<1>4. CASE ListRetryDue
  <2>1. /\ pc["loop"] = "idle" /\ Goto("loop", "listed") /\ Due
        /\ row' = row /\ copy' = copy /\ tries' = tries /\ resends' = resends
    BY <1>4 DEF ListRetryDue, radio, past, bounds
  <2>2. pc'["loop"] = "listed" /\ \A r \in Routines \ {"loop"} : pc'[r] = pc[r]
    BY <2>1, <1>1, GotoView DEF Routines, Senders
  <2>3. Extra' = Extra BY <2>1, <1>1, Extras
  <2>4. row.scheduled = TRUE BY <2>1, <1>1 DEF Due, Row
  <2>5. pc["compose"] = "idle" BY <2>4 DEF Ladder, FirstSend
  <2>6. Kept' /\ Bare' BY <2>1 DEF Ladder, Kept, Bare, FromNone
  <2>7. FirstSend' BY <2>2, <2>5 DEF FirstSend, Routines, Senders
  <2>8. Again' BY <2>1, <2>2 DEF Ladder, Again, Sending, Routines, Senders
  <2>9. OnLadder' BY <2>1, <2>3, <2>4 DEF Ladder, OnLadder
  <2>10. AtLoop' BY <2>2 DEF AtLoop, Sending
  <2>11. Spent' BY <2>1, <2>3 DEF Ladder, Spent
  <2> QED BY <2>6, <2>7, <2>8, <2>9, <2>10, <2>11 DEF Ladder
<1>5. CASE retryOne
  <2>1. pc["loop"] = "listed" /\ row' = row /\ tries' = tries /\ resends' = resends
    BY <1>5 DEF retryOne, radio, past, bounds
  <2>2. \/ Goto("loop", "idle") /\ copy' = copy
        \/ Hold("loop", [row EXCEPT !.scheduled = FALSE]) /\ Goto("loop", "save")
        \/ Hold("loop", row) /\ Goto("loop", "fail")
        \/ /\ Hold("loop", [row EXCEPT !.attempts = @ + 1]) /\ Goto("loop", FirstStep(path))
           /\ row.ack = "none"
    BY <1>5, Zenon DEF retryOne, PassOver, Take
  <2>3. FirstStep(path) \in {"rf", "is"} BY DEF FirstStep
  <2>4. Extra' = Extra BY <2>1, <1>1, Extras
  <2>5. /\ pc'["loop"] # "listed"
        /\ \A r \in Routines \ {"loop"} : pc'[r] = pc[r] /\ copy'[r] = copy[r]
    BY <2>2, <2>3, <1>1, GotoView, HoldView DEF Routines, Senders
  <2>6. copy'["loop"].deleted = FALSE
    <3>1. row.deleted = FALSE /\ copy["loop"].deleted = FALSE BY DEF Ladder, Kept, Senders
    <3> QED BY <2>2, <3>1, <1>1, HoldView DEF Row, Routines, Senders
  <2>7. AtLoop'
    <3>1. CASE Goto("loop", "idle") \/ Goto("loop", "save") \/ Goto("loop", "fail")
      <4>1. pc'["loop"] \in {"idle", "save", "fail"}
        BY <3>1, <1>1, GotoView DEF Routines, Senders
      <4> QED BY <4>1 DEF AtLoop, Sending
    <3>2. CASE Hold("loop", [row EXCEPT !.attempts = @ + 1]) /\ row.ack = "none"
      <4>1. copy'["loop"].attempts = row.attempts + 1
        BY <3>2, <1>1, HoldView DEF Row, Routines, Senders
      <4>2. tries <= row.attempts + Extra BY <2>1, <3>2 DEF Ladder, OnLadder
      <4> QED BY <2>1, <2>4, <4>1, <4>2, <1>1 DEF AtLoop
    <3> QED BY <2>2, <3>1, <3>2
  <2>8. Kept' BY <2>1, <2>5, <2>6 DEF Ladder, Kept, Routines, Senders
  <2>9. Bare' BY <2>5 DEF Ladder, Bare, FromNone, Routines, Senders
  <2>10. FirstSend' BY <2>1, <2>5 DEF Ladder, FirstSend, Routines, Senders
  <2>11. Again' BY <2>1, <2>5 DEF Ladder, Again, Sending, Routines, Senders
  <2>12. OnLadder' BY <2>1, <2>4, <2>5 DEF Ladder, OnLadder
  <2>13. Spent' BY <2>1, <2>4 DEF Ladder, Spent
  <2> QED BY <2>7, <2>8, <2>9, <2>10, <2>11, <2>12, <2>13 DEF Ladder
\* The loop ends its turn, and a row that is open is paid for.
<1>6. ASSUME Ends("loop"), pc["loop"] # "idle", row'.deleted = FALSE,
             tries' <= MaxAttempts + Extra', UNCHANGED resends,
             row'.ack = "none" => tries' <= row'.attempts + Extra',
             tries' = tries \/ pc["resend"] = "idle"
      PROVE  Ladder'
  <2>1. /\ pc'["loop"] = "idle" /\ copy'["loop"] = Fresh
        /\ \A r \in Routines \ {"loop"} : pc'[r] = pc[r] /\ copy'[r] = copy[r]
    BY <1>1, <1>6, EndsView DEF Routines, Senders
  <2>2. pc'["compose"] = "idle" BY <1>6, <2>1 DEF Ladder, FirstSend, Routines, Senders
  <2>3. Kept' BY <1>6, <2>1, FreshRow DEF Ladder, Kept, Routines, Senders
  <2>4. Bare' BY <2>1 DEF Ladder, Bare, FromNone, Routines, Senders
  <2>5. FirstSend' BY <2>2 DEF FirstSend
  <2>6. pc'["resend"] = pc["resend"] BY <2>1 DEF Routines, Senders
  <2>7. Again' BY <1>6, <2>6 DEF Ladder, Again, Sending
  <2>8. OnLadder' BY <1>6 DEF OnLadder
  <2>9. AtLoop' BY <2>1 DEF AtLoop, Sending
  <2>10. Spent' BY <1>6 DEF Spent
  <2> QED BY <2>3, <2>4, <2>5, <2>7, <2>8, <2>9, <2>10 DEF Ladder
<1>7. CASE Fail \/ Tidy
  <2>1. Ends("loop") /\ pc["loop"] # "idle" /\ tries' = tries /\ resends' = resends
    BY <1>7 DEF Fail, Tidy, radio, past, bounds
  <2>2. row'.ack # "none"
    BY <1>7, <1>1 DEF Fail, Tidy, Save, SaveHonest, Failed, Row, c
  <2>3. row'.deleted = FALSE
    <3>1. c.deleted = FALSE BY DEF Ladder, Kept, Senders, c
    <3> QED BY <1>7, <3>1, <1>1 DEF Fail, Tidy, Save, Failed, Row, c
  <2>4. Extra' = Extra BY <2>1, <1>1, Extras
  <2>5. tries' <= MaxAttempts + Extra' BY <2>1, <2>4 DEF Ladder, Spent
  <2> QED BY <1>6, <2>1, <2>2, <2>3, <2>5
<1>8. CASE LoopSettles
  <2>1. /\ Ends("loop") /\ pc["loop"] = "sent" /\ Counts("loop") /\ resends' = resends
    BY <1>8 DEF LoopSettles, bounds
  <2>2. Extra' = Extra BY <2>1, <1>1, Extras
  <2>3. pc["resend"] = "idle" BY <2>1 DEF MarkHeld, LoopHolds
  <2>4. tries + 1 <= c.attempts + Extra BY <2>1 DEF Ladder, AtLoop, Sending, c
  <2>5. tries' \in Nat /\ tries' <= tries + 1 BY <2>1, <1>1, Tries DEF CountsOK
  <2>6. tries' <= c.attempts + Extra BY <2>4, <2>5, <1>1
  <2>7. tries' <= MaxAttempts + Extra' BY <2>2, <2>5, <2>6, <1>1
  <2>8. c.deleted = FALSE /\ row.deleted = FALSE BY DEF Ladder, Kept, Senders, c
  <2>9. CASE UpdateRetrySchedule(c.attempts)
    <3>1. row'.attempts = c.attempts /\ row'.deleted = FALSE
      BY <2>8, <2>9, <1>1, Scheduled
    <3>2. tries' <= row'.attempts + Extra' BY <2>2, <2>6, <3>1
    <3> QED BY <1>6, <2>1, <2>3, <2>7, <3>1, <3>2
  <2>10. CASE result["loop"].err \in {"full", "stopped"}
    <3>1. row' = ShortRetry(c) \/ row' = Rollback(c) BY <1>8, <2>10 DEF LoopSettles, Save, c
    <3>2. row'.attempts = c.attempts - 1 /\ row'.deleted = FALSE
      BY <3>1, <2>8, <1>1 DEF ShortRetry, Rollback, Row
    <3>3. tries' = tries BY <2>1, <2>10, <1>1, Tries
    <3>4. tries <= c.attempts - 1 + Extra BY <2>4, <1>1
    <3>5. tries' <= row'.attempts + Extra' BY <2>2, <3>2, <3>3, <3>4
    <3> QED BY <1>6, <2>1, <2>3, <2>7, <3>2, <3>5
  <2>11. CASE row' = Failed(c)
    <3>1. row'.ack = "rejected" /\ row'.deleted = FALSE
      BY <2>8, <2>11, <1>1 DEF Failed, Row
    <3> QED BY <1>6, <2>1, <2>3, <2>7, <3>1
  <2> QED BY <1>8, <2>9, <2>10, <2>11 DEF LoopSettles, Save, c
<1> QED BY <1>2, <1>4, <1>5, <1>7, <1>8 DEF Loop

LEMMA LadderResend ==
    ASSUME Types, Types', MarkHeld, cancelled # TRUE, overtaken' # TRUE, Ladder, Resend
    PROVE  Ladder'
<1>1. /\ PcOK /\ RowsOK /\ CountsOK /\ CountsOK' /\ row \in Row /\ copy["resend"] \in Row
      /\ tries \in Nat /\ tries' \in Nat /\ row.attempts \in Nat /\ row'.attempts \in Nat
      /\ copy["loop"].attempts \in Nat
      /\ Extra \in Nat /\ Extra <= 1 /\ Extra' \in Nat /\ MaxAttempts \in Nat /\ MaxAttempts >= 1
  <2>1. PcOK /\ RowsOK /\ CountsOK /\ CountsOK' /\ RowsOK' BY DEF Types
  <2>2. row \in Row /\ copy["resend"] \in Row BY <2>1 DEF RowsOK, Routines, Senders
  <2>3. Extra \in Nat /\ Extra <= 1 /\ Extra' \in Nat BY <2>1, Extras DEF CountsOK, Extra
  <2>4. tries' \in Nat /\ row'.attempts \in Nat
    BY <2>1, MessageAssumption DEF CountsOK, RowsOK, Row, MaxTries
  <2>5. copy["loop"].attempts \in 0 .. MaxAttempts BY <2>1, Numbers DEF Routines, Senders
  <2> QED BY <2>1, <2>2, <2>3, <2>4, <2>5, Numbers
<1>2. CASE Send("resend") BY <1>2, LadderSend DEF Senders
<1>3. CASE ResendStarts
  <2> DEFINE d == [row EXCEPT !.attempts = 0, !.scheduled = FALSE]
  <2>1. /\ Hold("resend", d) /\ Goto("resend", "save") /\ row' = row /\ tries' = tries
        /\ resends' = resends + 1 /\ pc["resend"] = "idle"
    BY <1>3 DEF ResendStarts, radio, past
  <2>2. d.attempts = 0 /\ d.scheduled = FALSE /\ d.deleted = FALSE
    BY <1>1 DEF Row, Ladder, Kept
  <2> HIDE DEF d
  <2>3. /\ copy'["resend"] = d /\ \A r \in Routines \ {"resend"} : copy'[r] = copy[r]
        /\ pc'["resend"] = "save" /\ \A r \in Routines \ {"resend"} : pc'[r] = pc[r]
    BY <1>1, <2>1, HoldView, GotoView DEF Routines, Senders
  <2>4. pc["compose"] = "idle" BY <1>3 DEF ResendStarts
  <2>5. resends' > 0 /\ Extra' = 1 /\ Extra <= Extra'
    <3>1. resends \in Nat BY <1>1, Numbers
    <3>2. resends' > 0 BY <2>1, <3>1
    <3> QED BY <3>2, <1>1 DEF Extra
  <2>6. Kept' BY <2>1, <2>2, <2>3 DEF Ladder, Kept, Routines, Senders
  <2>7. Bare' BY <2>2, <2>3 DEF Ladder, Bare, FromNone, Routines, Senders
  <2>8. FirstSend' BY <2>3, <2>4 DEF FirstSend, Routines, Senders
  <2>9. Again' BY <2>3, <2>5 DEF Again, Sending
  <2>10. OnLadder'
    <3>1. tries <= row.attempts + Extra => tries <= row.attempts + Extra' BY <2>5, <1>1
    <3> QED BY <2>1, <2>3, <3>1 DEF Ladder, OnLadder, Routines, Senders
  <2>11. AtLoop'
    <3>1. tries + 1 <= copy["loop"].attempts + Extra => tries + 1 <= copy["loop"].attempts + Extra'
      BY <2>5, <1>1
    <3> QED BY <2>1, <2>3, <3>1 DEF Ladder, AtLoop, Sending, Routines, Senders
  <2>12. Spent'
    <3>1. tries <= MaxAttempts + Extra => tries <= MaxAttempts + Extra' BY <2>5, <1>1
    <3> QED BY <2>1, <3>1 DEF Ladder, Spent
  <2> QED BY <2>6, <2>7, <2>8, <2>9, <2>10, <2>11, <2>12 DEF Ladder
<1>4. CASE ResendSaves \/ ResendSettles
  <2>1. pc["resend"] # "idle" /\ resends' = resends
    BY <1>4 DEF ResendSaves, ResendSettles, bounds
  <2>2. pc["compose"] = "idle" /\ resends > 0 BY <2>1 DEF Ladder, FirstSend, Again
  <2>3. Extra = 1 /\ Extra' = 1 BY <1>1, <2>1, <2>2, Extras
  <2>4. pc["loop"] \in {"idle", "listed"} BY <2>1 DEF MarkHeld, LoopHolds
  <2>5. copy["resend"].attempts = 0 /\ copy["resend"].deleted = FALSE /\ row.deleted = FALSE
    BY DEF Ladder, Bare, FromNone, Kept, Senders
  <2>6. /\ tries' <= 1 /\ row'.deleted = FALSE
        /\ \A r \in Routines \ {"resend"} : pc'[r] = pc[r] /\ copy'[r] = copy[r]
        /\ copy'["resend"] \in {copy["resend"], Fresh}
        /\ pc'["resend"] = "idle" \/ tries' = 0
    <3>1. CASE ResendSaves
      <4>1. row' = copy["resend"] /\ copy' = copy /\ tries' = 0 /\ Goto("resend", FirstStep(path))
        BY <3>1 DEF ResendSaves, Save
      <4>2. 0 <= 1 OBVIOUS
      <4> QED BY <4>1, <4>2, <2>5, <1>1, GotoView DEF Routines, Senders
    <3>2. CASE ResendSettles
      <4>1. /\ Ends("resend") /\ Counts("resend") /\ pc["resend"] = "sent"
            /\ UpdateRetrySchedule(0) \/ UNCHANGED row
        BY <3>2, <2>5 DEF ResendSettles
      <4>2. tries = 0 BY <4>1 DEF Ladder, Again, Sending
      <4>3. tries' = 0 \/ tries' = 1 BY <4>1, <4>2, <1>1, Tries
      <4>4. tries' <= 1 BY <4>3
      <4>5. 0 \in 0 .. MaxAttempts BY <1>1
      <4>6. row'.deleted = FALSE BY <4>1, <4>5, <2>5, <1>1, Scheduled
      <4> QED BY <4>1, <4>4, <4>6, <1>1, EndsView DEF Routines, Senders
    <3> QED BY <1>4, <3>1, <3>2
  <2>7. Kept' BY <2>6, FreshRow, <2>5 DEF Ladder, Kept, Routines, Senders
  <2>8. Bare' BY <2>6, FreshRow DEF Ladder, Bare, FromNone, Routines, Senders
  <2>9. FirstSend' BY <2>2, <2>6 DEF FirstSend, Routines, Senders
  <2>10. Again' BY <2>1, <2>2, <2>6 DEF Again, Sending
  <2>11. OnLadder'
    <3>1. tries' <= row'.attempts + Extra' BY <2>3, <2>6, <1>1
    <3> QED BY <3>1 DEF OnLadder
  <2>12. AtLoop'
    <3>1. pc'["loop"] = pc["loop"] BY <2>6 DEF Routines, Senders
    <3> QED BY <2>4, <3>1 DEF AtLoop, Sending
  <2>13. Spent'
    <3>1. tries' <= MaxAttempts + Extra' BY <2>3, <2>6, <1>1
    <3> QED BY <3>1 DEF Spent
  <2> QED BY <2>7, <2>8, <2>9, <2>10, <2>11, <2>12, <2>13 DEF Ladder
<1> QED BY <1>2, <1>3, <1>4 DEF Resend

LEMMA LadderStep ==
    ASSUME Types, Types', SaveHonest, MarkHeld, Ladder, cancelled # TRUE, overtaken' # TRUE,
           [Next]_vars
    PROVE  LadderInv'
<1>1. /\ PcOK /\ RowsOK /\ CountsOK /\ tries \in Nat /\ Extra \in Nat /\ Extra <= 1
      /\ MaxAttempts \in Nat /\ MaxAttempts >= 1
  BY Numbers, Extras DEF Types
<1>2. CASE UNCHANGED vars
  <2>1. UNCHANGED <<row, pc, copy, tries, resends>> BY <1>2 DEF vars
  <2> QED
    BY <2>1 DEF LadderInv, Ladder, Kept, Bare, FromNone, FirstSend, Again, OnLadder, AtLoop, Spent,
       Extra, Sending
<1>3. CASE Restart
  <2>1. /\ row' = row /\ tries' = tries /\ resends' = resends
        /\ \A r \in Routines : pc'[r] = "idle" /\ copy'[r] = Fresh
    BY <1>3 DEF Restart, past
  <2>2. Extra' = Extra BY <1>1, <2>1, Extras
  <2>3. Kept' BY <2>1, FreshRow DEF Ladder, Kept, Routines, Senders
  <2>4. Bare' BY <2>1, FreshRow DEF Bare, FromNone, Routines, Senders
  <2>5. FirstSend' /\ Again' /\ AtLoop'
    BY <2>1 DEF FirstSend, Again, AtLoop, Sending, Routines, Senders
  <2>6. OnLadder' BY <2>1, <2>2 DEF Ladder, OnLadder, Routines, Senders
  <2>7. Spent' BY <2>1, <2>2 DEF Ladder, Spent
  <2> QED BY <2>3, <2>4, <2>5, <2>6, <2>7 DEF LadderInv, Ladder
<1>4. CASE Compose
  <2>1. CASE Send("compose") BY <2>1, LadderSend DEF LadderInv, Senders
  <2>2. CASE ~Send("compose")
    <3>1. /\ Ends("compose") /\ Counts("compose") /\ pc["compose"] = "sent" /\ resends' = resends
          /\ UpdateRetrySchedule(1) \/ UNCHANGED row
      BY <1>4, <2>2 DEF Compose, bounds
    <3>2. /\ tries = 0 /\ row.scheduled = FALSE /\ pc["loop"] = "idle" /\ pc["resend"] = "idle"
      BY <3>1 DEF Ladder, FirstSend
    <3>3. tries' <= 1
      <4>1. tries' = 0 \/ tries' = 1 BY <3>1, <3>2, <1>1, Tries
      <4> QED BY <4>1
    <3>4. /\ pc'["compose"] = "idle" /\ copy'["compose"] = Fresh
          /\ \A r \in Routines \ {"compose"} : pc'[r] = pc[r] /\ copy'[r] = copy[r]
      BY <3>1, <1>1, EndsView DEF Routines, Senders
    <3>5. Extra' = Extra BY <1>1, <3>1, Extras
    <3>6. tries' \in Nat BY MessageAssumption DEF Types, CountsOK, MaxTries
    <3>7. /\ row'.deleted = FALSE
          /\ row'.scheduled = FALSE \/ row'.attempts = 1
      <4>1. row.deleted = FALSE BY DEF Ladder, Kept
      <4>2. 1 \in 0 .. MaxAttempts BY <1>1
      <4> QED BY <3>1, <3>2, <4>1, <4>2, <1>1, Scheduled
    <3>8. Kept' BY <3>4, <3>7, FreshRow DEF Ladder, Kept, Routines, Senders
    <3>9. Bare' BY <3>4, FreshRow DEF Ladder, Bare, FromNone, Routines, Senders
    <3>10. FirstSend' /\ Again' /\ AtLoop'
      BY <3>2, <3>4 DEF FirstSend, Again, AtLoop, Sending, Routines, Senders
    <3>11. OnLadder'
      <4>1. row'.attempts = 1 => tries' <= row'.attempts + Extra' BY <3>3, <3>5, <3>6, <1>1
      <4>2. pc'["loop"] = "idle" BY <3>2, <3>4 DEF Routines, Senders
      <4> QED BY <3>7, <4>1, <4>2 DEF OnLadder
    <3>12. Spent'
      <4>1. tries' <= MaxAttempts + Extra' BY <3>3, <3>5, <3>6, <1>1
      <4> QED BY <4>1 DEF Spent
    <3> QED BY <3>8, <3>9, <3>10, <3>11, <3>12 DEF LadderInv, Ladder
  <2> QED BY <2>1, <2>2
<1>5. CASE Loop BY <1>5, LadderLoop DEF LadderInv
<1>6. CASE Resend BY <1>6, LadderResend DEF LadderInv
<1>7. CASE Delete
  <2>1. cancelled' = TRUE \/ pc["delete"] # "idle"
    BY <1>7 DEF Delete, DeleteStarts, CancelSaves, SoftDelete, SoftDeleteThread, ForgetInFlight,
       bounds
  <2>2. pc["delete"] = "idle" BY DEF MarkHeld
  <2> QED BY <2>1, <2>2 DEF LadderInv
<1>8. CASE Transmit
  <2>1. UNCHANGED <<pc, copy, tries, resends>> /\ (UpdateSentAtAndAckState \/ UNCHANGED row)
    BY <1>8 DEF Transmit, past, bounds
  <2>2. Alike(row', row) /\ (row'.ack = "none" => row.ack = "none") BY <1>1, <2>1, Stamps
  <2>3. Extra' = Extra BY <1>1, <2>1, Extras
  <2>4. Kept' /\ Bare' /\ FirstSend' /\ Again'
    BY <2>1, <2>2 DEF Ladder, Kept, Bare, FromNone, FirstSend, Again, Sending, Alike
  <2>5. OnLadder' /\ AtLoop' /\ Spent'
    BY <2>1, <2>2, <2>3 DEF Ladder, OnLadder, AtLoop, Spent, Sending, Alike
  <2> QED BY <2>4, <2>5 DEF LadderInv, Ladder
<1>9. CASE AckHeard \/ AckSaved
  <2>1. tries' = tries /\ resends' = resends
    BY <1>9 DEF AckHeard, AckSaved, radio, past, bounds
  <2>2. Extra' = Extra BY <1>1, <2>1, Extras
  <2>3. \A r \in Senders : pc'[r] = pc[r] /\ copy'[r] = copy[r]
    BY <1>1, <1>9 DEF AckHeard, AckSaved, Goto, Hold, Ends, PcOK, RowsOK, Routines, Senders
  <2>4. row' = row \/ (/\ row' = copy["router"] /\ copy["router"].ack # "none")
    BY <1>9 DEF AckHeard, AckSaved, Save, SaveHonest
  <2>5. \/ copy'["router"] = Fresh
        \/ /\ copy'["router"].deleted = row.deleted
           /\ copy'["router"].scheduled = row.scheduled
    <3>1. CASE AckHeard
      <4>1. PICK v \in Verdicts : Hold("router", [row EXCEPT !.ack = v])
        BY <3>1 DEF AckHeard
      <4> QED BY <4>1, <1>1, HoldView DEF RowsOK, Row, Routines
    <3>2. CASE AckSaved BY <3>2, <1>1, EndsView DEF AckSaved, Routines
    <3> QED BY <1>9, <3>1, <3>2
  <2>6. Kept' BY <2>3, <2>4, <2>5, FreshRow DEF Ladder, Kept, Senders
  <2>7. Bare' BY <2>3 DEF Ladder, Bare, FromNone, Senders
  <2>8. FirstSend' BY <2>1, <2>3, <2>4, <2>5, FreshRow DEF Ladder, FirstSend, Senders
  <2>9. Again' BY <2>1, <2>3 DEF Ladder, Again, Sending, Senders
  <2>10. OnLadder' BY <2>1, <2>2, <2>3, <2>4 DEF Ladder, OnLadder, Senders
  <2>11. AtLoop' BY <2>1, <2>2, <2>3 DEF Ladder, AtLoop, Sending, Senders
  <2>12. Spent' BY <2>1, <2>2 DEF Ladder, Spent
  <2> QED BY <2>6, <2>7, <2>8, <2>9, <2>10, <2>11, <2>12 DEF LadderInv, Ladder
<1> QED BY <1>2, <1>3, <1>4, <1>5, <1>6, <1>7, <1>8, <1>9 DEF Next

\* "4 attempts = 1 initial send + 3 retries" (retry.go), for any ladder: unless a Resend
\* overtakes the first send or a delete's Save brings back the attempts it read, an order
\* costs MaxAttempts, and one more after a Resend, which starts at none.
THEOREM OrderWithinLadder == Spec => []Budget
<1>1. Init => LadderInv
  <2>1. SUFFICES ASSUME Init PROVE Ladder BY DEF LadderInv
  <2>2. /\ row = Fresh /\ \A g \in Routines : copy[g] = Fresh
        /\ pc["loop"] = "idle" /\ pc["resend"] = "idle" /\ tries = 0 /\ resends = 0
    BY <2>1 DEF Init, Routines, Senders
  <2>3. Extra = 0 /\ MaxAttempts \in Nat BY <2>2, MessageAssumption DEF Extra
  <2>4. Kept /\ Bare /\ FirstSend
    BY <2>2, FreshRow DEF Kept, Bare, FromNone, FirstSend, Routines, Senders
  <2>5. Again /\ AtLoop BY <2>2 DEF Again, AtLoop, Sending
  <2>6. OnLadder BY <2>2, FreshRow DEF OnLadder
  <2>7. Spent BY <2>2, <2>3 DEF Spent
  <2> QED BY <2>4, <2>5, <2>6, <2>7 DEF Ladder
<1>2. Types /\ Types' /\ SaveHonest /\ MarkHeld /\ LadderInv /\ [Next]_vars => LadderInv'
  <2>1. cancelled' # TRUE /\ overtaken' # TRUE /\ [Next]_vars
        => cancelled # TRUE /\ overtaken # TRUE
    BY DEF Next, vars, Compose, Loop, Resend, Delete, Transmit, AckHeard, AckSaved, Restart, Send,
       RfAccepted, RfRefused, IsAccepted, IsRefused, MergeBoth, ListRetryDue, retryOne, Fail, Tidy,
       LoopSettles, ResendStarts, ResendSaves, ResendSettles, DeleteStarts, CancelSaves, SoftDelete,
       SoftDeleteThread, ForgetInFlight, bounds
  <2> QED BY <2>1, LadderStep DEF LadderInv
<1>3. Types /\ LadderInv => Budget
  <2>1. SUFFICES ASSUME Types, LadderInv, cancelled # TRUE, overtaken # TRUE
                 PROVE  tries <= MaxAttempts + Extra
    BY DEF Budget, Extra
  <2> QED BY <2>1 DEF LadderInv, Ladder, Spent
<1> QED BY <1>1, <1>2, <1>3, Honest, Marked, PTL DEF Spec
=============================================================================
