---------------------------- MODULE RequestsProofs ---------------------------
(***************************************************************************)
(* Proofs about the components of MCRequests, for every value of the       *)
(* constants: whatever clients, bounds, limits and faults there are.       *)
(***************************************************************************)
EXTENDS MCRequests, FiniteSetTheorems, TLAPS

-----------------------------------------------------------------------------
(* Sending: the inductive invariant *)

Tries == Pair \X (1..MaxTries)
StoredOperations ==
  [status : {"ready", "sending", "completed"}, stamp : Nat,
   reserved : {Send!Nobody} \cup Tries]
SendEvents == {"send_requested", "send_rejected", "enqueue_failed"}

SendTypes ==
  /\ Send!TypeOK
  /\ sendOp \in StoredOperations
  /\ audits \subseteq SendEvents \X Tries
  /\ reports \subseteq [mode : Send!Modes, limit : Limits] \X BOOLEAN

\* A request that runs is a try, and is not answered yet.
RunningIsTry ==
  \A c \in Pair : sendPc[c] # "idle" => tries[c] >= 1 /\ answer[c] = "none"

\* What is stored stems from tries that were made.
StoredIsTried ==
  /\ \A c \in Pair : \A n \in Nat : sendOp.reserved = <<c, n>> => n <= tries[c]
  /\ \A e \in audits : \A c \in Pair : \A n \in Nat : e[2] = <<c, n>> => n <= tries[c]

\* Before begin_send_attempt a try has left nothing behind, after it the
\* reservation is its own.
OwnReservation ==
  \A c \in Pair :
    /\ sendPc[c] \in {"read", "capability", "message", "reserve"} =>
         sendOp.reserved # Send!Try(c) /\ \A e \in audits : e[2] # Send!Try(c)
    /\ sendPc[c] \in {"enqueue", "failed", "reread"} => sendOp.reserved = Send!Try(c)

\* The audit names the reservation and no other.
AuditNamesReservation ==
  \A e \in audits :
    /\ e[1] = "send_requested" => e[2] = sendOp.reserved
    /\ e[1] = "send_rejected" => e[2] # sendOp.reserved

Roomy == \E rep \in reports : rep[1].mode # "disabled" /\ Sendable <= rep[1].limit
Fitting == \E rep \in reports : rep[1].mode # "disabled" /\ rep[2]

\* A request has passed the guards it is behind.
GuardsArePassed ==
  /\ <<capability, text>> \in reports
  /\ \A c \in Pair :
       /\ sendPc[c] \in {"message", "reserve"} => Roomy
       /\ sendPc[c] = "reserve" => Fitting

SendInv ==
  /\ SendTypes /\ RunningIsTry /\ StoredIsTried /\ OwnReservation
  /\ AuditNamesReservation /\ GuardsArePassed
  /\ Send!AcceptedIsReserved /\ Send!RefusedReservedNothing /\ Send!ReservedIsPermitted

\* A try differs from every other, and from nobody.
LEMMA TryIsOwn ==
  ASSUME SendTypes, RunningIsTry, NEW c \in Pair
  PROVE  /\ Send!Try(c) = <<c, tries[c]>>
         /\ sendPc[c] # "idle" => Send!Try(c) \in Tries /\ Send!Try(c) # Send!Nobody
         /\ \A d \in Pair : d # c => Send!Try(d) # Send!Try(c)
         /\ tries[c] \in Nat
         /\ Send!Nobody \notin Tries
BY SendAssumption DEF SendTypes, RunningIsTry, Send!TypeOK, Send!Try, Send!Nobody, Tries,
  Send!BoundAssumption

\* What a step stores, answers and records is well-formed.
LEMMA SendTypesStep ==
  ASSUME SendInv, Send!Next
  PROVE  SendTypes'
<1> USE TryIsOwn DEF SendInv, SendTypes, Send!TypeOK, RunningIsTry, StoredOperations,
  SendEvents, Send!Try, Send!stored, Send!line, Send!requests, Send!Goes, Send!Answers,
  Send!Audits
<1>1. Sendable \in Nat /\ Limits \subseteq Nat /\ MaxTries \in Nat /\ Sendable < Send!NoLimit
  BY SendAssumption DEF Send!CountAssumption, Send!BoundAssumption, Send!NoLimit
<1>2. ASSUME NEW c \in Pair, Send!AlreadyAccepted(c) \/ Send!CheckCapability(c) \/
  Send!CheckMessage(c) \/ Send!Reread(c) \/ Send!StorageFails(c) \/ Send!EnqueueFails(c)
  PROVE SendTypes'
  BY <1>1, <1>2 DEF Send!AlreadyAccepted, Send!CheckCapability, Send!CheckMessage,
    Send!Reread, Send!StorageFails, Send!EnqueueFails
<1>3. ASSUME NEW c \in Pair, Send!RejectStatus(c) \/ Send!ReserveRefused(c) \/
  Send!RecordFailure(c) PROVE SendTypes'
  BY <1>1, <1>3 DEF Send!RejectStatus, Send!ReserveRefused, Send!RecordFailure,
    Send!MayReserve
<1>4. ASSUME NEW c \in Pair, Send!Start(c) PROVE SendTypes'
  BY <1>1, <1>4 DEF Send!Start
<1>5. ASSUME NEW c \in Pair, Send!Validate(c) PROVE SendTypes'
  BY <1>1, <1>5 DEF Send!Validate
<1>6. ASSUME NEW c \in Pair, Send!Reserve(c) PROVE SendTypes'
  <2>1. Send!Try(c) \in Tries /\ audits' = audits \cup {<<"send_requested", Send!Try(c)>>}
    BY <1>6 DEF Send!Reserve
  <2>2. audits' \subseteq SendEvents \X Tries
    <3> HIDE DEF Send!Try, Tries
    <3> QED BY <2>1
  <2>3. sendOp' \in StoredOperations
    <3> HIDE DEF Send!Try, Tries
    <3>1. /\ sendOp \in StoredOperations
          /\ sendOp' = [status |-> sendOp.status, stamp |-> sendOp.stamp + 1,
                        reserved |-> Send!Try(c)]
      BY <1>6 DEF Send!Reserve
    <3> QED BY ONLY <2>1, <3>1 DEF StoredOperations
  <2>4. Send!TypeOK'
    BY <2>3, <1>1, <1>6 DEF Send!Reserve, Tries
  <2> QED
    BY <2>2, <2>3, <2>4, <1>6 DEF Send!Reserve
<1>7. ASSUME NEW c \in Pair, Send!Enqueue(c) \/ Send!HandlerRaises(c) PROVE SendTypes'
  BY <1>1, <1>7 DEF Send!Enqueue, Send!HandlerRaises
<1>8. ASSUME Send!LineTurns PROVE SendTypes'
  BY <1>1, <1>8 DEF Send!LineTurns
<1>9. ASSUME Send!Edit \/ Send!RunnerTakes \/ Send!RunnerCompletes PROVE SendTypes'
  BY <1>1, <1>9 DEF Send!Edit, Send!RunnerTakes, Send!RunnerCompletes
<1>10. ASSUME Send!Crash PROVE SendTypes'
  BY <1>1, <1>10 DEF Send!Crash
<1> QED
  BY <1>2, <1>3, <1>4, <1>5, <1>6, <1>7, <1>8, <1>9, <1>10 DEF Send!Next, Send!Step,
    Send!Fails

\* Only Start puts a request under way, and counts it.
LEMMA RunningIsTryStep ==
  ASSUME SendInv, Send!Next
  PROVE  RunningIsTry'
<1> USE TryIsOwn DEF SendInv, SendTypes, Send!TypeOK, RunningIsTry, StoredOperations,
  Send!stored, Send!line, Send!requests, Send!Goes, Send!Answers, Send!Audits
<1>1. Sendable \in Nat /\ Limits \subseteq Nat /\ MaxTries \in Nat /\ Sendable < Send!NoLimit
  BY SendAssumption DEF Send!CountAssumption, Send!BoundAssumption, Send!NoLimit
<1>2. ASSUME NEW c \in Pair, Send!AlreadyAccepted(c) \/ Send!CheckCapability(c) \/
  Send!CheckMessage(c) \/ Send!Reread(c) \/ Send!StorageFails(c) \/ Send!EnqueueFails(c)
  PROVE RunningIsTry'
  BY <1>1, <1>2 DEF Send!AlreadyAccepted, Send!CheckCapability, Send!CheckMessage,
    Send!Reread, Send!StorageFails, Send!EnqueueFails
<1>3. ASSUME NEW c \in Pair, Send!RejectStatus(c) \/ Send!ReserveRefused(c) \/
  Send!RecordFailure(c) PROVE RunningIsTry'
  BY <1>1, <1>3 DEF Send!RejectStatus, Send!ReserveRefused, Send!RecordFailure,
    Send!MayReserve
<1>4. ASSUME NEW c \in Pair, Send!Start(c) PROVE RunningIsTry'
  BY <1>1, <1>4 DEF Send!Start
<1>5. ASSUME NEW c \in Pair, Send!Validate(c) PROVE RunningIsTry'
  BY <1>1, <1>5 DEF Send!Validate
<1>6. ASSUME NEW c \in Pair, Send!Reserve(c) PROVE RunningIsTry'
  BY <1>1, <1>6 DEF Send!Reserve, Send!MayReserve
<1>7. ASSUME NEW c \in Pair, Send!Enqueue(c) \/ Send!HandlerRaises(c) PROVE RunningIsTry'
  BY <1>1, <1>7 DEF Send!Enqueue, Send!HandlerRaises
<1>8. ASSUME Send!LineTurns PROVE RunningIsTry'
  BY <1>1, <1>8 DEF Send!LineTurns
<1>9. ASSUME Send!Edit \/ Send!RunnerTakes \/ Send!RunnerCompletes PROVE RunningIsTry'
  BY <1>1, <1>9 DEF Send!Edit, Send!RunnerTakes, Send!RunnerCompletes
<1>10. ASSUME Send!Crash PROVE RunningIsTry'
  BY <1>1, <1>10 DEF Send!Crash
<1> QED
  BY <1>2, <1>3, <1>4, <1>5, <1>6, <1>7, <1>8, <1>9, <1>10 DEF Send!Next, Send!Step,
    Send!Fails

\* Only a try that was made is reserved for or recorded.
LEMMA StoredIsTriedStep ==
  ASSUME SendInv, Send!Next
  PROVE  StoredIsTried'
<1> USE TryIsOwn DEF SendInv, SendTypes, Send!TypeOK, RunningIsTry, StoredOperations,
  StoredIsTried, Tries, Send!Try, Send!Nobody, Send!stored, Send!line, Send!requests,
  Send!Goes, Send!Answers, Send!Audits
<1>1. Sendable \in Nat /\ Limits \subseteq Nat /\ MaxTries \in Nat /\ Sendable < Send!NoLimit
  BY SendAssumption DEF Send!CountAssumption, Send!BoundAssumption, Send!NoLimit
<1>2. ASSUME NEW c \in Pair, Send!AlreadyAccepted(c) \/ Send!CheckCapability(c) \/
  Send!CheckMessage(c) \/ Send!Reread(c) \/ Send!StorageFails(c) \/ Send!EnqueueFails(c)
  PROVE StoredIsTried'
  BY <1>1, <1>2 DEF Send!AlreadyAccepted, Send!CheckCapability, Send!CheckMessage,
    Send!Reread, Send!StorageFails, Send!EnqueueFails
<1>3. ASSUME NEW c \in Pair, Send!RejectStatus(c) \/ Send!ReserveRefused(c) \/
  Send!RecordFailure(c) PROVE StoredIsTried'
  BY <1>1, <1>3 DEF Send!RejectStatus, Send!ReserveRefused, Send!RecordFailure,
    Send!MayReserve
<1>4. ASSUME NEW c \in Pair, Send!Start(c) PROVE StoredIsTried'
  BY <1>1, <1>4 DEF Send!Start
<1>5. ASSUME NEW c \in Pair, Send!Validate(c) PROVE StoredIsTried'
  BY <1>1, <1>5 DEF Send!Validate
<1>6. ASSUME NEW c \in Pair, Send!Reserve(c) PROVE StoredIsTried'
  BY <1>1, <1>6 DEF Send!Reserve, Send!MayReserve
<1>7. ASSUME NEW c \in Pair, Send!Enqueue(c) \/ Send!HandlerRaises(c) PROVE StoredIsTried'
  BY <1>1, <1>7 DEF Send!Enqueue, Send!HandlerRaises
<1>8. ASSUME Send!LineTurns PROVE StoredIsTried'
  BY <1>1, <1>8 DEF Send!LineTurns
<1>9. ASSUME Send!Edit \/ Send!RunnerTakes \/ Send!RunnerCompletes PROVE StoredIsTried'
  BY <1>1, <1>9 DEF Send!Edit, Send!RunnerTakes, Send!RunnerCompletes
<1>10. ASSUME Send!Crash PROVE StoredIsTried'
  BY <1>1, <1>10 DEF Send!Crash
<1> QED
  BY <1>2, <1>3, <1>4, <1>5, <1>6, <1>7, <1>8, <1>9, <1>10 DEF Send!Next, Send!Step,
    Send!Fails

\* A running try reserves once, and only for itself.
LEMMA OwnReservationStep ==
  ASSUME SendInv, Send!Next
  PROVE  OwnReservation'
<1> USE TryIsOwn DEF SendInv, SendTypes, Send!TypeOK, RunningIsTry, StoredOperations,
  StoredIsTried, OwnReservation, Send!Try, Send!stored, Send!line, Send!requests, Send!Goes,
  Send!Answers, Send!Audits
<1>1. Sendable \in Nat /\ Limits \subseteq Nat /\ MaxTries \in Nat /\ Sendable < Send!NoLimit
  BY SendAssumption DEF Send!CountAssumption, Send!BoundAssumption, Send!NoLimit
<1>2. ASSUME NEW c \in Pair, Send!AlreadyAccepted(c) \/ Send!CheckCapability(c) \/
  Send!CheckMessage(c) \/ Send!Reread(c) \/ Send!StorageFails(c) \/ Send!EnqueueFails(c)
  PROVE OwnReservation'
  BY <1>1, <1>2 DEF Send!AlreadyAccepted, Send!CheckCapability, Send!CheckMessage,
    Send!Reread, Send!StorageFails, Send!EnqueueFails
<1>3. ASSUME NEW c \in Pair, Send!RejectStatus(c) \/ Send!ReserveRefused(c) \/
  Send!RecordFailure(c) PROVE OwnReservation'
  BY <1>1, <1>3 DEF Send!RejectStatus, Send!ReserveRefused, Send!RecordFailure,
    Send!MayReserve
<1>4. ASSUME NEW c \in Pair, Send!Start(c) PROVE OwnReservation'
  BY <1>1, <1>4 DEF Send!Start
<1>5. ASSUME NEW c \in Pair, Send!Validate(c) PROVE OwnReservation'
  BY <1>1, <1>5 DEF Send!Validate
<1>6. ASSUME NEW c \in Pair, Send!Reserve(c) PROVE OwnReservation'
  BY <1>1, <1>6 DEF Send!Reserve, Send!MayReserve
<1>7. ASSUME NEW c \in Pair, Send!Enqueue(c) \/ Send!HandlerRaises(c) PROVE OwnReservation'
  BY <1>1, <1>7 DEF Send!Enqueue, Send!HandlerRaises
<1>8. ASSUME Send!LineTurns PROVE OwnReservation'
  BY <1>1, <1>8 DEF Send!LineTurns
<1>9. ASSUME Send!Edit \/ Send!RunnerTakes \/ Send!RunnerCompletes PROVE OwnReservation'
  BY <1>1, <1>9 DEF Send!Edit, Send!RunnerTakes, Send!RunnerCompletes
<1>10. ASSUME Send!Crash PROVE OwnReservation'
  BY <1>1, <1>10 DEF Send!Crash
<1> QED
  BY <1>2, <1>3, <1>4, <1>5, <1>6, <1>7, <1>8, <1>9, <1>10 DEF Send!Next, Send!Step,
    Send!Fails

\* Events name the try that is at work, which decides what it may be called.
LEMMA AuditNamesReservationStep ==
  ASSUME SendInv, Send!Next
  PROVE  AuditNamesReservation'
<1> USE TryIsOwn DEF SendInv, SendTypes, Send!TypeOK, RunningIsTry, StoredOperations,
  OwnReservation, AuditNamesReservation, Send!Try, Send!stored, Send!line, Send!requests,
  Send!Goes, Send!Answers, Send!Audits
<1>1. Sendable \in Nat /\ Limits \subseteq Nat /\ MaxTries \in Nat /\ Sendable < Send!NoLimit
  BY SendAssumption DEF Send!CountAssumption, Send!BoundAssumption, Send!NoLimit
<1>2. ASSUME NEW c \in Pair, Send!AlreadyAccepted(c) \/ Send!CheckCapability(c) \/
  Send!CheckMessage(c) \/ Send!Reread(c) \/ Send!StorageFails(c) \/ Send!EnqueueFails(c)
  PROVE AuditNamesReservation'
  BY <1>1, <1>2 DEF Send!AlreadyAccepted, Send!CheckCapability, Send!CheckMessage,
    Send!Reread, Send!StorageFails, Send!EnqueueFails
<1>3. ASSUME NEW c \in Pair, Send!RejectStatus(c) \/ Send!ReserveRefused(c) \/
  Send!RecordFailure(c) PROVE AuditNamesReservation'
  BY <1>1, <1>3 DEF Send!RejectStatus, Send!ReserveRefused, Send!RecordFailure,
    Send!MayReserve
<1>4. ASSUME NEW c \in Pair, Send!Start(c) PROVE AuditNamesReservation'
  BY <1>1, <1>4 DEF Send!Start
<1>5. ASSUME NEW c \in Pair, Send!Validate(c) PROVE AuditNamesReservation'
  BY <1>1, <1>5 DEF Send!Validate
<1>6. ASSUME NEW c \in Pair, Send!Reserve(c) PROVE AuditNamesReservation'
  <2> HIDE DEF Send!Try
  <2>1. /\ audits' = audits \cup {<<"send_requested", Send!Try(c)>>}
        /\ sendOp.reserved = Send!Nobody /\ sendOp'.reserved = Send!Try(c)
    BY <1>6 DEF Send!Reserve, Send!MayReserve
  <2>2. ASSUME NEW e \in audits PROVE e[1] # "send_requested" /\ e[2] # Send!Try(c)
    <3>1. e[2] \in Tries
      OBVIOUS
    <3> QED BY <3>1, <2>1, <1>6 DEF Send!Reserve
  <2> QED BY <2>1, <2>2
<1>7. ASSUME NEW c \in Pair, Send!Enqueue(c) \/ Send!HandlerRaises(c) PROVE
  AuditNamesReservation'
  BY <1>1, <1>7 DEF Send!Enqueue, Send!HandlerRaises
<1>8. ASSUME Send!LineTurns PROVE AuditNamesReservation'
  BY <1>1, <1>8 DEF Send!LineTurns
<1>9. ASSUME Send!Edit \/ Send!RunnerTakes \/ Send!RunnerCompletes PROVE
  AuditNamesReservation'
  BY <1>1, <1>9 DEF Send!Edit, Send!RunnerTakes, Send!RunnerCompletes
<1>10. ASSUME Send!Crash PROVE AuditNamesReservation'
  BY <1>1, <1>10 DEF Send!Crash
<1> QED
  BY <1>2, <1>3, <1>4, <1>5, <1>6, <1>7, <1>8, <1>9, <1>10 DEF Send!Next, Send!Step,
    Send!Fails

\* The guards read a report, and reports are not forgotten.
LEMMA GuardsArePassedStep ==
  ASSUME SendInv, Send!Next
  PROVE  GuardsArePassed'
<1> USE TryIsOwn DEF SendInv, SendTypes, Send!TypeOK, RunningIsTry, StoredOperations,
  GuardsArePassed, Roomy, Fitting, Send!Capable, Send!NoLimit, Send!stored, Send!line,
  Send!requests, Send!Goes, Send!Answers, Send!Audits
<1>1. Sendable \in Nat /\ Limits \subseteq Nat /\ MaxTries \in Nat /\ Sendable < Send!NoLimit
  BY SendAssumption DEF Send!CountAssumption, Send!BoundAssumption, Send!NoLimit
<1>2. ASSUME NEW c \in Pair, Send!AlreadyAccepted(c) \/ Send!CheckCapability(c) \/
  Send!CheckMessage(c) \/ Send!Reread(c) \/ Send!StorageFails(c) \/ Send!EnqueueFails(c)
  PROVE GuardsArePassed'
  BY <1>1, <1>2 DEF Send!AlreadyAccepted, Send!CheckCapability, Send!CheckMessage,
    Send!Reread, Send!StorageFails, Send!EnqueueFails
<1>3. ASSUME NEW c \in Pair, Send!RejectStatus(c) \/ Send!ReserveRefused(c) \/
  Send!RecordFailure(c) PROVE GuardsArePassed'
  <2>1. UNCHANGED <<capability, text, reports>>
    BY <1>3 DEF Send!RejectStatus, Send!ReserveRefused, Send!RecordFailure
  <2>2. ASSUME NEW k \in Pair PROVE sendPc'[k] \in {sendPc[k], "idle"}
    BY <1>3 DEF Send!RejectStatus, Send!ReserveRefused, Send!RecordFailure
  <2>3. GuardsArePassed
    OBVIOUS
  <2> HIDE DEF SendInv, SendTypes
  <2> QED BY <2>1, <2>2, <2>3
<1>4. ASSUME NEW c \in Pair, Send!Start(c) PROVE GuardsArePassed'
  BY <1>1, <1>4 DEF Send!Start
<1>5. ASSUME NEW c \in Pair, Send!Validate(c) PROVE GuardsArePassed'
  BY <1>1, <1>5 DEF Send!Validate
<1>6. ASSUME NEW c \in Pair, Send!Reserve(c) PROVE GuardsArePassed'
  BY <1>1, <1>6 DEF Send!Reserve, Send!MayReserve
<1>7. ASSUME NEW c \in Pair, Send!Enqueue(c) \/ Send!HandlerRaises(c) PROVE GuardsArePassed'
  <2>1. UNCHANGED <<capability, text, reports>>
    BY <1>7 DEF Send!Enqueue, Send!HandlerRaises
  <2>2. ASSUME NEW k \in Pair PROVE sendPc'[k] \in {sendPc[k], "idle", "reread"}
    BY <1>7 DEF Send!Enqueue, Send!HandlerRaises
  <2>3. GuardsArePassed
    OBVIOUS
  <2> HIDE DEF SendInv, SendTypes
  <2> QED BY <2>1, <2>2, <2>3
<1>8. ASSUME Send!LineTurns PROVE GuardsArePassed'
  BY <1>1, <1>8 DEF Send!LineTurns
<1>9. ASSUME Send!Edit \/ Send!RunnerTakes \/ Send!RunnerCompletes PROVE GuardsArePassed'
  BY <1>1, <1>9 DEF Send!Edit, Send!RunnerTakes, Send!RunnerCompletes
<1>10. ASSUME Send!Crash PROVE GuardsArePassed'
  BY <1>1, <1>10 DEF Send!Crash
<1> QED
  BY <1>2, <1>3, <1>4, <1>5, <1>6, <1>7, <1>8, <1>9, <1>10 DEF Send!Next, Send!Step,
    Send!Fails

\* Who answers that it is accepted has seen the reservation, or made it.
LEMMA AcceptedStep ==
  ASSUME SendInv, Send!Next
  PROVE  Send!AcceptedIsReserved'
<1> USE TryIsOwn DEF SendInv, SendTypes, Send!TypeOK, RunningIsTry, StoredOperations,
  OwnReservation, Send!AcceptedIsReserved, Send!stored, Send!line, Send!requests, Send!Goes,
  Send!Answers, Send!Audits
<1>1. Sendable \in Nat /\ Limits \subseteq Nat /\ MaxTries \in Nat /\ Sendable < Send!NoLimit
  BY SendAssumption DEF Send!CountAssumption, Send!BoundAssumption, Send!NoLimit
<1>2. ASSUME NEW c \in Pair, Send!AlreadyAccepted(c) \/ Send!CheckCapability(c) \/
  Send!CheckMessage(c) \/ Send!Reread(c) \/ Send!StorageFails(c) \/ Send!EnqueueFails(c)
  PROVE Send!AcceptedIsReserved'
  BY <1>1, <1>2 DEF Send!AlreadyAccepted, Send!CheckCapability, Send!CheckMessage,
    Send!Reread, Send!StorageFails, Send!EnqueueFails
<1>3. ASSUME NEW c \in Pair, Send!RejectStatus(c) \/ Send!ReserveRefused(c) \/
  Send!RecordFailure(c) PROVE Send!AcceptedIsReserved'
  BY <1>1, <1>3 DEF Send!RejectStatus, Send!ReserveRefused, Send!RecordFailure,
    Send!MayReserve
<1>4. ASSUME NEW c \in Pair, Send!Start(c) PROVE Send!AcceptedIsReserved'
  BY <1>1, <1>4 DEF Send!Start
<1>5. ASSUME NEW c \in Pair, Send!Validate(c) PROVE Send!AcceptedIsReserved'
  BY <1>1, <1>5 DEF Send!Validate
<1>6. ASSUME NEW c \in Pair, Send!Reserve(c) PROVE Send!AcceptedIsReserved'
  BY <1>1, <1>6 DEF Send!Reserve, Send!MayReserve
<1>7. ASSUME NEW c \in Pair, Send!Enqueue(c) \/ Send!HandlerRaises(c) PROVE
  Send!AcceptedIsReserved'
  BY <1>1, <1>7 DEF Send!Enqueue, Send!HandlerRaises
<1>8. ASSUME Send!LineTurns PROVE Send!AcceptedIsReserved'
  BY <1>1, <1>8 DEF Send!LineTurns
<1>9. ASSUME Send!Edit \/ Send!RunnerTakes \/ Send!RunnerCompletes PROVE
  Send!AcceptedIsReserved'
  BY <1>1, <1>9 DEF Send!Edit, Send!RunnerTakes, Send!RunnerCompletes
<1>10. ASSUME Send!Crash PROVE Send!AcceptedIsReserved'
  BY <1>1, <1>10 DEF Send!Crash
<1> QED
  BY <1>2, <1>3, <1>4, <1>5, <1>6, <1>7, <1>8, <1>9, <1>10 DEF Send!Next, Send!Step,
    Send!Fails

\* A try that is refused is refused before begin_send_attempt.
LEMMA RefusedStep ==
  ASSUME SendInv, Send!Next
  PROVE  Send!RefusedReservedNothing'
<1> USE TryIsOwn DEF SendInv, SendTypes, Send!TypeOK, RunningIsTry, StoredOperations,
  OwnReservation, StoredIsTried, Send!RefusedReservedNothing, Send!Try, Send!stored,
  Send!line, Send!requests, Send!Goes, Send!Answers, Send!Audits
<1>1. Sendable \in Nat /\ Limits \subseteq Nat /\ MaxTries \in Nat /\ Sendable < Send!NoLimit
  BY SendAssumption DEF Send!CountAssumption, Send!BoundAssumption, Send!NoLimit
<1>2. ASSUME NEW c \in Pair, Send!AlreadyAccepted(c) \/ Send!CheckCapability(c) \/
  Send!CheckMessage(c) \/ Send!Reread(c) \/ Send!StorageFails(c) \/ Send!EnqueueFails(c)
  PROVE Send!RefusedReservedNothing'
  BY <1>1, <1>2 DEF Send!AlreadyAccepted, Send!CheckCapability, Send!CheckMessage,
    Send!Reread, Send!StorageFails, Send!EnqueueFails
<1>3. ASSUME NEW c \in Pair, Send!RejectStatus(c) \/ Send!ReserveRefused(c) \/
  Send!RecordFailure(c) PROVE Send!RefusedReservedNothing'
  BY <1>1, <1>3 DEF Send!RejectStatus, Send!ReserveRefused, Send!RecordFailure,
    Send!MayReserve
<1>4. ASSUME NEW c \in Pair, Send!Start(c) PROVE Send!RefusedReservedNothing'
  BY <1>1, <1>4 DEF Send!Start
<1>5. ASSUME NEW c \in Pair, Send!Validate(c) PROVE Send!RefusedReservedNothing'
  BY <1>1, <1>5 DEF Send!Validate
<1>6. ASSUME NEW c \in Pair, Send!Reserve(c) PROVE Send!RefusedReservedNothing'
  BY <1>1, <1>6 DEF Send!Reserve, Send!MayReserve
<1>7. ASSUME NEW c \in Pair, Send!Enqueue(c) \/ Send!HandlerRaises(c) PROVE
  Send!RefusedReservedNothing'
  BY <1>1, <1>7 DEF Send!Enqueue, Send!HandlerRaises
<1>8. ASSUME Send!LineTurns PROVE Send!RefusedReservedNothing'
  BY <1>1, <1>8 DEF Send!LineTurns
<1>9. ASSUME Send!Edit \/ Send!RunnerTakes \/ Send!RunnerCompletes PROVE
  Send!RefusedReservedNothing'
  BY <1>1, <1>9 DEF Send!Edit, Send!RunnerTakes, Send!RunnerCompletes
<1>10. ASSUME Send!Crash PROVE Send!RefusedReservedNothing'
  BY <1>1, <1>10 DEF Send!Crash
<1> QED
  BY <1>2, <1>3, <1>4, <1>5, <1>6, <1>7, <1>8, <1>9, <1>10 DEF Send!Next, Send!Step,
    Send!Fails

\* begin_send_attempt is behind both guards.
LEMMA PermittedStep ==
  ASSUME SendInv, Send!Next
  PROVE  Send!ReservedIsPermitted'
<1> USE TryIsOwn DEF SendInv, SendTypes, Send!TypeOK, RunningIsTry, StoredOperations,
  GuardsArePassed, Roomy, Fitting, Send!ReservedIsPermitted, Send!stored, Send!line,
  Send!requests, Send!Goes, Send!Answers, Send!Audits
<1>1. Sendable \in Nat /\ Limits \subseteq Nat /\ MaxTries \in Nat /\ Sendable < Send!NoLimit
  BY SendAssumption DEF Send!CountAssumption, Send!BoundAssumption, Send!NoLimit
<1>2. ASSUME NEW c \in Pair, Send!AlreadyAccepted(c) \/ Send!CheckCapability(c) \/
  Send!CheckMessage(c) \/ Send!Reread(c) \/ Send!StorageFails(c) \/ Send!EnqueueFails(c)
  PROVE Send!ReservedIsPermitted'
  BY <1>1, <1>2 DEF Send!AlreadyAccepted, Send!CheckCapability, Send!CheckMessage,
    Send!Reread, Send!StorageFails, Send!EnqueueFails
<1>3. ASSUME NEW c \in Pair, Send!RejectStatus(c) \/ Send!ReserveRefused(c) \/
  Send!RecordFailure(c) PROVE Send!ReservedIsPermitted'
  BY <1>1, <1>3 DEF Send!RejectStatus, Send!ReserveRefused, Send!RecordFailure,
    Send!MayReserve
<1>4. ASSUME NEW c \in Pair, Send!Start(c) PROVE Send!ReservedIsPermitted'
  BY <1>1, <1>4 DEF Send!Start
<1>5. ASSUME NEW c \in Pair, Send!Validate(c) PROVE Send!ReservedIsPermitted'
  BY <1>1, <1>5 DEF Send!Validate
<1>6. ASSUME NEW c \in Pair, Send!Reserve(c) PROVE Send!ReservedIsPermitted'
  BY <1>1, <1>6 DEF Send!Reserve, Send!MayReserve
<1>7. ASSUME NEW c \in Pair, Send!Enqueue(c) \/ Send!HandlerRaises(c) PROVE
  Send!ReservedIsPermitted'
  BY <1>1, <1>7 DEF Send!Enqueue, Send!HandlerRaises
<1>8. ASSUME Send!LineTurns PROVE Send!ReservedIsPermitted'
  BY <1>1, <1>8 DEF Send!LineTurns
<1>9. ASSUME Send!Edit \/ Send!RunnerTakes \/ Send!RunnerCompletes PROVE
  Send!ReservedIsPermitted'
  BY <1>1, <1>9 DEF Send!Edit, Send!RunnerTakes, Send!RunnerCompletes
<1>10. ASSUME Send!Crash PROVE Send!ReservedIsPermitted'
  BY <1>1, <1>10 DEF Send!Crash
<1> QED
  BY <1>2, <1>3, <1>4, <1>5, <1>6, <1>7, <1>8, <1>9, <1>10 DEF Send!Next, Send!Step,
    Send!Fails

\* Only begin_send_attempt writes the reservation, where there is none.
LEMMA StaysReservedStep ==
  ASSUME SendInv, Send!Next
  PROVE  Send!StaysReserved
<1> USE TryIsOwn DEF SendInv, SendTypes, Send!TypeOK, RunningIsTry, StoredOperations,
  Send!StaysReserved, Send!stored, Send!line, Send!requests, Send!Goes, Send!Answers,
  Send!Audits
<1>1. Sendable \in Nat /\ Limits \subseteq Nat /\ MaxTries \in Nat /\ Sendable < Send!NoLimit
  BY SendAssumption DEF Send!CountAssumption, Send!BoundAssumption, Send!NoLimit
<1>2. ASSUME NEW c \in Pair, Send!AlreadyAccepted(c) \/ Send!CheckCapability(c) \/
  Send!CheckMessage(c) \/ Send!Reread(c) \/ Send!StorageFails(c) \/ Send!EnqueueFails(c)
  PROVE Send!StaysReserved
  BY <1>1, <1>2 DEF Send!AlreadyAccepted, Send!CheckCapability, Send!CheckMessage,
    Send!Reread, Send!StorageFails, Send!EnqueueFails
<1>3. ASSUME NEW c \in Pair, Send!RejectStatus(c) \/ Send!ReserveRefused(c) \/
  Send!RecordFailure(c) PROVE Send!StaysReserved
  BY <1>1, <1>3 DEF Send!RejectStatus, Send!ReserveRefused, Send!RecordFailure,
    Send!MayReserve
<1>4. ASSUME NEW c \in Pair, Send!Start(c) PROVE Send!StaysReserved
  BY <1>1, <1>4 DEF Send!Start
<1>5. ASSUME NEW c \in Pair, Send!Validate(c) PROVE Send!StaysReserved
  BY <1>1, <1>5 DEF Send!Validate
<1>6. ASSUME NEW c \in Pair, Send!Reserve(c) PROVE Send!StaysReserved
  BY <1>1, <1>6 DEF Send!Reserve, Send!MayReserve
<1>7. ASSUME NEW c \in Pair, Send!Enqueue(c) \/ Send!HandlerRaises(c) PROVE
  Send!StaysReserved
  BY <1>1, <1>7 DEF Send!Enqueue, Send!HandlerRaises
<1>8. ASSUME Send!LineTurns PROVE Send!StaysReserved
  BY <1>1, <1>8 DEF Send!LineTurns
<1>9. ASSUME Send!Edit \/ Send!RunnerTakes \/ Send!RunnerCompletes PROVE Send!StaysReserved
  BY <1>1, <1>9 DEF Send!Edit, Send!RunnerTakes, Send!RunnerCompletes
<1>10. ASSUME Send!Crash PROVE Send!StaysReserved
  BY <1>1, <1>10 DEF Send!Crash
<1> QED
  BY <1>2, <1>3, <1>4, <1>5, <1>6, <1>7, <1>8, <1>9, <1>10 DEF Send!Next, Send!Step,
    Send!Fails

-----------------------------------------------------------------------------
\* Nobody has tried yet, and LINE has made its first report.
LEMMA SendInit == Send!Init => SendInv
<1> SUFFICES ASSUME Send!Init PROVE SendInv
  OBVIOUS
<1> USE SendAssumption DEF Send!Init, Send!CountAssumption, Send!BoundAssumption
<1>1. sendOp \in StoredOperations /\ Send!TypeOK
  BY DEF StoredOperations, Send!TypeOK, Send!Modes, Tries
<1>2. SendTypes
  BY <1>1 DEF SendTypes
<1>3. /\ RunningIsTry /\ StoredIsTried /\ OwnReservation /\ AuditNamesReservation
      /\ GuardsArePassed
  BY DEF RunningIsTry, StoredIsTried, OwnReservation, AuditNamesReservation,
    GuardsArePassed, Send!Nobody
<1>4. Send!AcceptedIsReserved /\ Send!RefusedReservedNothing /\ Send!ReservedIsPermitted
  BY DEF Send!AcceptedIsReserved, Send!RefusedReservedNothing, Send!ReservedIsPermitted
<1> QED
  BY <1>2, <1>3, <1>4 DEF SendInv

LEMMA SendStep ==
  ASSUME SendInv, [Send!Next]_sendVars
  PROVE  SendInv'
<1>1. CASE Send!Next
  BY <1>1, SendTypesStep, RunningIsTryStep, StoredIsTriedStep, OwnReservationStep,
    AuditNamesReservationStep, GuardsArePassedStep, AcceptedStep, RefusedStep,
    PermittedStep DEF SendInv
<1>2. CASE UNCHANGED sendVars
  BY <1>2 DEF sendVars, SendInv, SendTypes, Send!TypeOK, RunningIsTry, StoredIsTried,
    OwnReservation, AuditNamesReservation, GuardsArePassed, Roomy, Fitting, Send!Try,
    Send!AcceptedIsReserved, Send!RefusedReservedNothing, Send!ReservedIsPermitted
<1> QED
  BY <1>1, <1>2

\* What the events say follows from whose they are.
LEMMA AuditFollows == SendInv => Send!AuditIsConsistent
<1> SUFFICES ASSUME SendInv, NEW e \in audits, NEW f \in audits, e[1] = "send_requested"
             PROVE  /\ f[1] = "send_requested" => e = f
                    /\ f[1] = "send_rejected" => e[2] # f[2]
  BY DEF Send!AuditIsConsistent
<1>1. e \in SendEvents \X Tries /\ f \in SendEvents \X Tries
  BY DEF SendInv, SendTypes
<1>2. e[2] = sendOp.reserved
  BY DEF SendInv, AuditNamesReservation
<1> QED
  BY <1>1, <1>2 DEF SendInv, AuditNamesReservation

-----------------------------------------------------------------------------
(* The page of deliveries *)

NoPending == \A m \in Pair : "pending" \notin rows[m]

\* A skip of a member whom neither record selected.
Hidden(m) ==
  /\ rows[m] = {"excluded"}
  /\ m \in DOMAIN flags /\ ~flags[m]
  /\ m \in DOMAIN snapshot /\ ~snapshot[m]

\* Results that were read: who has none in them has none, or is hidden, and if
\* none is open, they are the results for good.
Recorded(R) ==
  /\ \A m \in Pair : R[m] = {} => rows[m] = {} \/ Hidden(m)
  /\ "pending" \notin View!AllResults(R) => NoPending /\ R = View!selected_deliveries

\* A final status is what the results amount to, and they are final.
ShownIsTrue(shown) ==
  /\ shown.status \in View!Final =>
       NoPending /\ shown.status = View!Aggregate(View!selected_deliveries)
  /\ shown.results # View!NoResults => Recorded(shown.results)

StatusAgrees == status \in {View!Aggregate(rows), View!Aggregate(View!selected_deliveries)}

Asked == {"answered", "deliveries", "reply"}

FlightIsTrue(f) ==
  /\ flight[f].stage \in Asked =>
       ShownIsTrue(flight[f].shown) /\ flight[f].shown.status \in View!Statuses
  /\ flight[f].stage = "projection" =>
       /\ flight[f].shown.status \in View!Statuses /\ flight[f].shown.results = View!NoResults
       /\ flight[f].shown.status \in View!Final =>
            /\ NoPending
            /\ flight[f].shown.status \in
                 {View!Aggregate(rows), View!Aggregate(View!selected_deliveries)}

\* The page waits for one pair of requests at a time.
OneIsLive ==
  /\ \A f \in Flights : flight[f].live =>
       \/ flight[f].for = "refresh" /\ place = "mounted" /\ inFlight
       \/ flight[f].for = "open" /\ place = "opening"
  /\ \A f, g \in Flights : flight[f].live /\ flight[g].live => f = g

\* The timer of a page that waits for nothing is set if it needs a refresh.
PageIsDriven ==
  /\ place \in {"closed", "opening"} => page = View!Blank
  /\ place \in {"mounted", "busy"} => page.status \in View!Statuses
  /\ place = "mounted" /\ ~inFlight => timer = View!needsDeliveryRefresh(page)

ViewInv ==
  /\ View!TypeOK /\ StatusAgrees /\ ShownIsTrue(page)
  /\ \A f \in Flights : FlightIsTrue(f)
  /\ OneIsLive /\ PageIsDriven

\* What has been shown stays so.
ResultsAreKept(shown) ==
  \A m \in Pair : shown.results[m] \ {"pending"} \subseteq View!selected_deliveries[m]

FlightGoesOn(f) ==
  flight[f].live /\ flight[f].for = "refresh" =>
    /\ flight[f].stage # "operation" =>
         (page.status \in View!Final => flight[f].shown.status \in View!Final)
    /\ flight[f].stage = "reply" =>
         \A m \in Pair : page.results[m] \ {"pending"} \subseteq flight[f].shown.results[m]

LoopInv ==
  /\ View!Coherent /\ ResultsAreKept(page)
  /\ \A f \in Flights : ResultsAreKept(flight[f].shown) /\ FlightGoesOn(f)

\* The projection leaves out hidden members only.
LEMMA SelectedParts ==
  ASSUME View!TypeOK
  PROVE  /\ View!selected_deliveries \in [Pair -> View!RowSets]
         /\ \A m \in Pair : \/ View!selected_deliveries[m] = rows[m]
                            \/ View!selected_deliveries[m] = {} /\ Hidden(m)
<1>1. rows \in [Pair -> View!RowSets] /\ {} \in View!RowSets
  BY DEF View!TypeOK, View!RowSets
<1>2. CASE ~View!Coherent
  BY <1>1, <1>2 DEF View!selected_deliveries
<1>3. CASE View!Coherent
  <2>1. View!selected_deliveries = [m \in Pair |-> IF m \in View!Wanted THEN rows[m] ELSE {}]
    BY <1>3 DEF View!selected_deliveries
  <2>2. ASSUME NEW m \in Pair, m \notin View!Wanted, rows[m] # {}
        PROVE  Hidden(m)
    <3>1. m \in DOMAIN snapshot /\ View!RowFits(m) /\ snapshot = flags
      BY <1>3, <2>2 DEF View!Coherent, View!WithRows
    <3>2. ~snapshot[m]
      BY <2>2, <3>1 DEF View!Wanted
    <3> QED BY <3>1, <3>2 DEF Hidden, View!RowFits
  <2>3. View!selected_deliveries \in [Pair -> View!RowSets]
    BY <1>1, <2>1
  <2> QED BY <1>1, <2>1, <2>2, <2>3
<1> QED BY <1>2, <1>3

\* An aggregate is final when nothing is pending.
LEMMA AggregateParts ==
  ASSUME NEW R
  PROVE  /\ View!Aggregate(R) \in View!Statuses
         /\ View!Aggregate(R) \in View!Final <=> "pending" \notin View!AllResults(R)
BY DEF View!Aggregate, View!Statuses, View!Final

LEMMA PendingParts ==
  ASSUME View!TypeOK
  PROVE  /\ "pending" \notin View!AllResults(rows) <=> NoPending
         /\ "pending" \notin View!AllResults(View!selected_deliveries) <=> NoPending
<1>1. \A R : "pending" \notin View!AllResults(R) <=> \A m \in Pair : "pending" \notin R[m]
  BY DEF View!AllResults
<1>2. ASSUME NEW m \in Pair
      PROVE  "pending" \in View!selected_deliveries[m] <=> "pending" \in rows[m]
  <2>1. CASE View!selected_deliveries[m] = rows[m]
    BY <2>1
  <2>2. CASE View!selected_deliveries[m] = {} /\ rows[m] = {"excluded"}
    BY <2>2
  <2> QED BY <2>1, <2>2, SelectedParts DEF Hidden
<1> QED BY <1>1, <1>2 DEF NoPending

\* What is read is recorded.
LEMMA ReadIsRecorded ==
  ASSUME View!TypeOK
  PROVE  Recorded(View!selected_deliveries)
BY SelectedParts, PendingParts DEF Recorded

LEMMA StatusParts ==
  ASSUME View!TypeOK, StatusAgrees
  PROVE  status \in View!Statuses /\ (status \in View!Final <=> NoPending)
BY AggregateParts, PendingParts DEF StatusAgrees

-----------------------------------------------------------------------------
(* Steps of the page *)

FlightType ==
  [stage : View!Stages, for : {"open", "refresh", View!None}, live : BOOLEAN,
   shown : View!Shown]

LEMMA BlankParts ==
  /\ View!Blank \in View!Shown /\ View!Idle \in FlightType
  /\ View!Blank.status = View!None /\ View!Blank.results = View!NoResults
  /\ View!None \notin View!Statuses /\ View!None \notin View!Final
  /\ \A m \in Pair : View!Blank.results[m] = {}
  /\ View!Idle.stage = "idle" /\ ~View!Idle.live /\ View!Idle.shown = View!Blank
BY DEF View!Blank, View!Idle, View!Shown, FlightType, View!NoResults, View!RowSets,
  View!Stages, View!None, View!Statuses, View!Final

\* While nothing is stored, what was true of it stays true.
LEMMA StoredStays ==
  ASSUME UNCHANGED View!stored
  PROVE  /\ (NoPending' <=> NoPending) /\ View!selected_deliveries' = View!selected_deliveries
         /\ \A m \in Pair : Hidden(m)' <=> Hidden(m)
         /\ rows' = rows /\ status' = status /\ (View!Coherent' <=> View!Coherent)
<1>1. UNCHANGED <<snapshot, flags, rows, status>>
  BY DEF View!stored
<1>2. /\ (NoPending' <=> NoPending) /\ \A m \in Pair : Hidden(m)' <=> Hidden(m)
      /\ (View!Coherent' <=> View!Coherent)
  BY <1>1 DEF NoPending, Hidden, View!Coherent, View!Wanted, View!WithRows, View!RowFits
<1>3. View!selected_deliveries' = View!selected_deliveries
  BY <1>1, <1>2 DEF View!selected_deliveries, View!Wanted
<1> QED BY <1>1, <1>2, <1>3

LEMMA FlightStays ==
  ASSUME UNCHANGED View!stored, NEW f \in Flights, FlightIsTrue(f), flight'[f] = flight[f]
  PROVE  FlightIsTrue(f)'
BY StoredStays DEF FlightIsTrue, ShownIsTrue, Recorded

\* A request of a pair is answered.
LEMMA FlightMoves ==
  ASSUME ViewInv, NEW f \in Flights, flight[f].live, NEW s \in View!Stages,
         NEW shown \in View!Shown,
         View!To(f, s, shown), UNCHANGED <<View!stored, place, page, View!loop, calm>>,
         flight'[f] = [flight[f] EXCEPT !.stage = s, !.shown = shown] => FlightIsTrue(f)'
  PROVE  ViewInv'
<1>1. flight \in [Flights -> FlightType]
  BY DEF ViewInv, View!TypeOK, FlightType
<1>2. flight' = [flight EXCEPT ![f] = [flight[f] EXCEPT !.stage = s, !.shown = shown]]
  BY <1>1 DEF View!To
<1>3. [flight[f] EXCEPT !.stage = s, !.shown = shown] \in FlightType
  BY <1>1 DEF FlightType
<1>4. /\ flight' \in [Flights -> FlightType]
      /\ flight'[f] = [flight[f] EXCEPT !.stage = s, !.shown = shown]
      /\ \A g \in Flights : g # f => flight'[g] = flight[g]
      /\ \A g \in Flights : flight'[g].live = flight[g].live /\ flight'[g].for = flight[g].for
  BY <1>1, <1>2, <1>3 DEF FlightType
<1>5. View!TypeOK'
  BY <1>4 DEF ViewInv, View!TypeOK, FlightType, View!stored, View!loop
<1>6. StatusAgrees' /\ ShownIsTrue(page)'
  BY StoredStays DEF ViewInv, StatusAgrees, ShownIsTrue, Recorded
<1>7. \A g \in Flights : FlightIsTrue(g)'
  BY <1>4, FlightStays DEF ViewInv
<1>8. OneIsLive' /\ PageIsDriven'
  BY <1>4 DEF ViewInv, OneIsLive, PageIsDriven, View!loop
<1> QED BY <1>5, <1>6, <1>7, <1>8 DEF ViewInv

\* A pair is over.
LEMMA FlightEnds ==
  ASSUME ViewInv, NEW f \in Flights, View!Free(f), UNCHANGED View!stored,
         flight[f].live \/ UNCHANGED <<place, inFlight>>,
         page' \in View!Shown, timer' \in BOOLEAN, inFlight' \in BOOLEAN, calm' \in BOOLEAN,
         place' \in {"closed", "opening", "mounted", "busy"},
         ShownIsTrue(page)', PageIsDriven'
  PROVE  ViewInv'
<1>1. flight \in [Flights -> FlightType]
  BY DEF ViewInv, View!TypeOK, FlightType
<1>2. /\ flight' \in [Flights -> FlightType] /\ flight'[f] = View!Idle
      /\ \A g \in Flights : g # f => flight'[g] = flight[g]
  BY <1>1, BlankParts DEF View!Free
<1>3. View!TypeOK'
  BY <1>2 DEF ViewInv, View!TypeOK, FlightType, View!stored
<1>4. StatusAgrees'
  BY StoredStays DEF ViewInv, StatusAgrees
<1>5. \A g \in Flights : FlightIsTrue(g)'
  BY <1>2, FlightStays, BlankParts DEF ViewInv, FlightIsTrue, Asked
<1>6. OneIsLive'
  BY <1>2, BlankParts DEF ViewInv, OneIsLive
<1> QED BY <1>3, <1>4, <1>5, <1>6 DEF ViewInv

\* A pair is sent.
LEMMA FlightStarts ==
  ASSUME ViewInv, NEW f \in Flights, NEW for \in {"open", "refresh"}, View!Start(f, for),
         UNCHANGED <<View!stored, page, calm>>, \A g \in Flights : ~flight[g].live,
         timer' \in BOOLEAN, inFlight' \in BOOLEAN,
         IF for = "refresh" THEN place = "mounted" /\ place' = "mounted" /\ inFlight'
         ELSE place = "closed" /\ place' = "opening"
  PROVE  ViewInv'
<1>1. flight \in [Flights -> FlightType]
  BY DEF ViewInv, View!TypeOK, FlightType
<1>2. [stage |-> "operation", for |-> for, live |-> TRUE, shown |-> View!Blank] \in FlightType
  BY BlankParts DEF FlightType, View!Stages
<1>3. /\ flight' \in [Flights -> FlightType]
      /\ flight'[f] = [stage |-> "operation", for |-> for, live |-> TRUE, shown |-> View!Blank]
      /\ \A g \in Flights : g # f => flight'[g] = flight[g]
  BY <1>1, <1>2 DEF View!Start
<1>4. View!TypeOK'
  BY <1>3 DEF ViewInv, View!TypeOK, FlightType, View!stored
<1>5. StatusAgrees' /\ ShownIsTrue(page)'
  BY StoredStays DEF ViewInv, StatusAgrees, ShownIsTrue, Recorded
<1>6. \A g \in Flights : FlightIsTrue(g)'
  BY <1>3, FlightStays DEF ViewInv, FlightIsTrue, Asked
<1>7. OneIsLive'
  BY <1>3 DEF ViewInv, OneIsLive
<1>8. PageIsDriven'
  BY DEF ViewInv, PageIsDriven
<1> QED BY <1>4, <1>5, <1>6, <1>7, <1>8 DEF ViewInv

\* Results that are read, and the status before them, are true when read.
LEMMA RequestReads ==
  ASSUME ViewInv, NEW f \in Flights,
         View!ReadOperation(f) \/ View!ReadProjection(f) \/ View!ReadDeliveries(f)
           \/ View!AskDeliveries(f)
  PROVE  ViewInv'
<1> View!TypeOK /\ flight[f] \in FlightType /\ FlightIsTrue(f)
  BY DEF ViewInv, View!TypeOK, FlightType
<1> flight[f].shown \in View!Shown /\ View!selected_deliveries \in [Pair -> View!RowSets]
  BY SelectedParts DEF FlightType
<1>0. status \in View!Statuses /\ (status \in View!Final <=> NoPending) /\ StatusAgrees
  BY StatusParts DEF ViewInv
<1>1. CASE View!ReadOperation(f)
  <2> DEFINE shown == [View!Blank EXCEPT !.status = status]
  <2>1. shown \in View!Shown /\ shown.status = status /\ shown.results = View!NoResults
    BY <1>0, BlankParts DEF View!Shown, View!Blank
  <2>2. /\ flight[f].live /\ View!To(f, "projection", shown) /\ "projection" \in View!Stages
        /\ UNCHANGED <<View!stored, place, page, View!loop, calm>>
    BY <1>1 DEF View!ReadOperation, View!At, View!Stages
  <2>3. ASSUME flight'[f] = [flight[f] EXCEPT !.stage = "projection", !.shown = shown]
        PROVE  FlightIsTrue(f)'
    <3>1. flight'[f].stage = "projection" /\ flight'[f].shown = shown
      BY <2>3 DEF FlightType
    <3> QED BY <1>0, <2>1, <2>2, <3>1, StoredStays DEF FlightIsTrue, StatusAgrees, Asked
  <2> HIDE DEF shown
  <2> QED BY <2>1, <2>2, <2>3, FlightMoves
<1>2. CASE View!ReadProjection(f)
  <2> DEFINE now == View!projected_operation(flight[f].shown.status)
             shown == [View!Blank EXCEPT !.status = now]
  <2>1. /\ flight[f].live /\ View!To(f, "answered", shown) /\ "answered" \in View!Stages
        /\ UNCHANGED <<View!stored, place, page, View!loop, calm>>
        /\ flight[f].stage = "projection"
    BY <1>2 DEF View!ReadProjection, View!At, View!Stages
  <2>2. now \in View!Statuses /\ 
        (now \in View!Final => NoPending /\ now = View!Aggregate(View!selected_deliveries))
    <3>1. CASE View!selected_deliveries # rows
      BY <3>1, AggregateParts, PendingParts DEF View!projected_operation
    <3>2. CASE View!selected_deliveries = rows
      BY <2>1, <3>2 DEF View!projected_operation, FlightIsTrue
    <3> QED BY <3>1, <3>2
  <2>3. shown \in View!Shown /\ shown.status = now /\ shown.results = View!NoResults
    BY <2>2, BlankParts DEF View!Shown, View!Blank
  <2>4. ASSUME flight'[f] = [flight[f] EXCEPT !.stage = "answered", !.shown = shown]
        PROVE  FlightIsTrue(f)'
    <3>1. flight'[f].stage = "answered" /\ flight'[f].shown = shown
      BY <2>4 DEF FlightType
    <3> QED BY <2>1, <2>2, <2>3, <3>1, StoredStays DEF FlightIsTrue, ShownIsTrue, Asked
  <2> HIDE DEF shown
  <2> QED BY <2>1, <2>3, <2>4, FlightMoves
<1>3. CASE View!ReadDeliveries(f)
  <2> DEFINE shown == [flight[f].shown EXCEPT !.results = View!selected_deliveries]
  <2>1. /\ flight[f].live /\ View!To(f, "reply", shown) /\ "reply" \in View!Stages
        /\ UNCHANGED <<View!stored, place, page, View!loop, calm>>
        /\ flight[f].stage = "deliveries"
    BY <1>3 DEF View!ReadDeliveries, View!At, View!Stages
  <2>2. shown \in View!Shown /\ shown.status = flight[f].shown.status
        /\ shown.results = View!selected_deliveries
    BY DEF View!Shown
  <2>3. flight[f].shown.status \in View!Statuses /\ ShownIsTrue(flight[f].shown)
    BY <2>1 DEF FlightIsTrue, Asked
  <2>4. ASSUME flight'[f] = [flight[f] EXCEPT !.stage = "reply", !.shown = shown]
        PROVE  FlightIsTrue(f)'
    <3>1. flight'[f].stage = "reply" /\ flight'[f].shown = shown
      BY <2>4 DEF FlightType
    <3>2. Recorded(View!selected_deliveries)
      BY ReadIsRecorded
    <3> QED BY <2>1, <2>2, <2>3, <3>1, <3>2, StoredStays DEF FlightIsTrue, ShownIsTrue,
      Recorded, Asked
  <2> HIDE DEF shown
  <2> QED BY <2>1, <2>2, <2>4, FlightMoves
<1>4. CASE View!AskDeliveries(f)
  <2>1. /\ flight[f].live /\ View!To(f, "deliveries", flight[f].shown)
        /\ "deliveries" \in View!Stages
        /\ UNCHANGED <<View!stored, place, page, View!loop, calm>> /\ flight[f].stage = "answered"
    BY <1>4 DEF View!AskDeliveries, View!At, View!Stages
  <2>2. ASSUME flight'[f] = [flight[f] EXCEPT !.stage = "deliveries", !.shown = flight[f].shown]
        PROVE  FlightIsTrue(f)'
    BY <2>1, <2>2, StoredStays DEF FlightIsTrue, ShownIsTrue, Recorded, Asked, FlightType
  <2> QED BY <2>1, <2>2, FlightMoves
<1> QED BY <1>1, <1>2, <1>3, <1>4

\* What is shown when a request ends was true of what is stored.
LEMMA RequestEnds ==
  ASSUME ViewInv, NEW f \in Flights,
         View!onUpdate(f) \/ View!onError(f) \/ View!Discard(f) \/ View!OpenDeliveries(f)
           \/ View!OpenFails(f) \/ View!OpenOperation(f)
  PROVE  ViewInv'
<1> View!TypeOK /\ flight[f] \in FlightType /\ FlightIsTrue(f) /\ OneIsLive /\ PageIsDriven
  BY DEF ViewInv, View!TypeOK, FlightType
<1> flight[f].shown \in View!Shown /\ page \in View!Shown
  BY DEF FlightType, View!TypeOK
<1>0. \A shown : View!needsDeliveryRefresh(shown) \in BOOLEAN
  BY DEF View!needsDeliveryRefresh, View!Pending
<1>1. CASE View!onUpdate(f)
  <2>1. /\ flight[f].live /\ flight[f].stage = "reply" /\ flight[f].for = "refresh"
        /\ page' = flight[f].shown /\ ~inFlight' /\ inFlight' \in BOOLEAN
        /\ timer' = View!needsDeliveryRefresh(page') /\ View!Free(f)
        /\ UNCHANGED <<View!stored, place, calm>>
    BY <1>1 DEF View!onUpdate, View!At, View!queue
  <2>2. ShownIsTrue(page)' /\ page'.status \in View!Statuses
    BY <2>1, StoredStays DEF FlightIsTrue, ShownIsTrue, Recorded, Asked
  <2>3. place = "mounted"
    BY <2>1 DEF OneIsLive
  <2>4. PageIsDriven'
    BY <2>1, <2>2, <2>3 DEF PageIsDriven, View!needsDeliveryRefresh, View!Pending
  <2> QED BY <1>0, <2>1, <2>2, <2>3, <2>4, FlightEnds DEF View!TypeOK
<1>2. CASE View!onError(f)
  <2>1. /\ flight[f].live /\ flight[f].for = "refresh"
        /\ ~inFlight' /\ inFlight' \in BOOLEAN
        /\ timer' = View!needsDeliveryRefresh(page) /\ View!Free(f)
        /\ UNCHANGED <<View!stored, place, page, calm>>
    BY <1>2 DEF View!onError, View!queue
  <2>2. ShownIsTrue(page)'
    BY <2>1, StoredStays DEF ViewInv, ShownIsTrue, Recorded
  <2>3. place = "mounted"
    BY <2>1 DEF OneIsLive
  <2>4. PageIsDriven'
    BY <2>1, <2>3 DEF PageIsDriven, View!needsDeliveryRefresh, View!Pending
  <2> QED BY <1>0, <2>1, <2>2, <2>3, <2>4, FlightEnds DEF View!TypeOK
<1>3. CASE View!Discard(f)
  <2>1. View!Free(f) /\ UNCHANGED <<View!stored, place, page, timer, inFlight, calm>>
    BY <1>3 DEF View!Discard, View!loop
  <2>2. ShownIsTrue(page)' /\ PageIsDriven'
    BY <2>1, StoredStays DEF ViewInv, ShownIsTrue, Recorded, PageIsDriven,
      View!needsDeliveryRefresh, View!Pending
  <2> QED BY <2>1, <2>2, FlightEnds DEF View!TypeOK
<1>4. ASSUME NEW shown \in View!Shown, flight[f].live, View!Mounts(shown), View!Free(f),
             UNCHANGED <<View!stored, calm>>,
             shown.status \in View!Statuses, ShownIsTrue(page)'
      PROVE  ViewInv'
  <2>1. /\ page' = shown /\ place' = "mounted" /\ timer' = View!needsDeliveryRefresh(shown)
        /\ ~inFlight' /\ inFlight' \in BOOLEAN
    BY <1>4 DEF View!Mounts, View!queue
  <2>2. PageIsDriven'
    BY <1>4, <2>1 DEF PageIsDriven, View!needsDeliveryRefresh, View!Pending
  <2> QED BY <1>0, <1>4, <2>1, <2>2, FlightEnds DEF View!TypeOK
<1>5. ASSUME flight[f].stage \in Asked, UNCHANGED View!stored, page' = flight[f].shown
      PROVE  ShownIsTrue(page)' /\ flight[f].shown.status \in View!Statuses
  BY <1>5, StoredStays DEF FlightIsTrue, ShownIsTrue, Recorded
<1>6. CASE View!OpenDeliveries(f)
  <2>1. /\ flight[f].stage \in Asked /\ flight[f].live /\ UNCHANGED <<View!stored, calm>>
        /\ View!Free(f) /\ View!Mounts(flight[f].shown) /\ page' = flight[f].shown
    BY <1>6 DEF View!OpenDeliveries, View!At, Asked, View!Mounts
  <2> QED BY <2>1, <1>4, <1>5
<1>7. CASE View!OpenFails(f)
  <2>0. /\ flight[f].live /\ flight[f].for = "open" /\ View!Free(f)
        /\ UNCHANGED <<View!stored, calm>>
        /\ place = "opening" /\ page = View!Blank
    BY <1>7 DEF View!OpenFails, OneIsLive, PageIsDriven
  <2>1. CASE flight[f].stage \in {"deliveries", "reply"}
    <3> DEFINE shown == [flight[f].shown EXCEPT !.results = View!NoResults]
    <3>1. View!Mounts(shown)
      BY <1>7, <2>1 DEF View!OpenFails
    <3>2. shown \in View!Shown /\ shown.status = flight[f].shown.status
          /\ shown.results = View!NoResults
      BY BlankParts DEF View!Shown, View!Blank
    <3>3. page' = shown
      BY <3>1 DEF View!Mounts
    <3>4. ShownIsTrue(page)' /\ shown.status \in View!Statuses
      BY <2>0, <2>1, <3>2, <3>3, StoredStays DEF FlightIsTrue, ShownIsTrue, Asked
    <3> HIDE DEF shown
    <3> QED BY <1>4, <2>0, <3>1, <3>2, <3>4
  <2>2. CASE flight[f].stage \notin {"deliveries", "reply"}
    <3>1. place' = "closed" /\ UNCHANGED <<page, timer, inFlight>>
      BY <1>7, <2>2 DEF View!OpenFails, View!loop
    <3>2. ShownIsTrue(page)' /\ PageIsDriven'
      BY <2>0, <3>1, StoredStays DEF ViewInv, ShownIsTrue, Recorded, PageIsDriven
    <3> QED BY <2>0, <3>1, <3>2, FlightEnds DEF View!TypeOK
  <2> QED BY <2>1, <2>2
<1>8. CASE View!OpenOperation(f)
  <2>0. /\ flight[f].live /\ flight[f].stage = "answered" /\ UNCHANGED <<View!stored, calm>>
    BY <1>8 DEF View!OpenOperation, View!At
  <2>1. CASE View!To(f, "deliveries", flight[f].shown) /\ UNCHANGED <<place, page, View!loop>>
    <3>1. ASSUME flight'[f] = [flight[f] EXCEPT !.stage = "deliveries", !.shown = flight[f].shown]
          PROVE  FlightIsTrue(f)'
      BY <2>0, <3>1, StoredStays DEF FlightIsTrue, ShownIsTrue, Recorded, Asked, FlightType
    <3> QED BY <2>0, <2>1, <3>1, FlightMoves DEF View!Stages
  <2>2. CASE View!Mounts(flight[f].shown) /\ View!Free(f)
    <3>1. page' = flight[f].shown
      BY <2>2 DEF View!Mounts
    <3> QED BY <1>4, <1>5, <2>0, <2>2, <3>1 DEF Asked
  <2> QED BY <1>8, <2>1, <2>2 DEF View!OpenOperation
<1> QED BY <1>1, <1>2, <1>3, <1>6, <1>7, <1>8

\* A result that is stored changes nothing that is final.
LEMMA SettleStep ==
  ASSUME ViewInv, NEW m \in Pair, NEW o \in View!Outcomes, View!Settle(m, o)
  PROVE  ViewInv'
<1> View!TypeOK
  BY DEF ViewInv
<1>0. /\ "pending" \in rows[m] /\ rows' = [rows EXCEPT ![m] = View!Settled(m, o)]
      /\ UNCHANGED <<snapshot, flags, place, page, timer, inFlight, flight, calm>>
      /\ status' = View!Aggregate(View!selected_deliveries')
  BY DEF View!Settle, View!frozen, View!loop
<1>1. View!Settled(m, o) \in View!RowSets
  <2>1. PICK r \in View!Results, s \in View!Results : rows[m] = {r, s}
    BY <1>0 DEF View!TypeOK, View!RowSets
  <2>2. PICK x \in View!Results : rows[m] \ {"pending"} \in {{}, {x}}
    BY <1>0, <2>1
  <2>3. View!Settled(m, o) = {o, o} \/ View!Settled(m, o) = {x, o}
    BY <2>2 DEF View!Settled
  <2> QED BY <2>2, <2>3 DEF View!RowSets, View!Results
<1>2. rows \in [Pair -> View!RowSets] /\ rows' \in [Pair -> View!RowSets]
      /\ rows'[m] = View!Settled(m, o) /\ \A k \in Pair : k # m => rows'[k] = rows[k]
  BY <1>0, <1>1 DEF View!TypeOK
<1>3. status' \in View!Statuses
  BY <1>0, AggregateParts
<1>4. View!TypeOK'
  BY <1>0, <1>2, <1>3 DEF View!TypeOK
<1>5. StatusAgrees'
  BY <1>0 DEF StatusAgrees
<1>6. ~NoPending
  BY <1>0 DEF NoPending
<1>7. \A k \in Pair : (rows[k] = {} => rows'[k] = {}) /\ (Hidden(k) => Hidden(k)')
  BY <1>0, <1>2 DEF Hidden
<1>8. ASSUME NEW shown, ShownIsTrue(shown)
      PROVE  /\ shown.status \notin View!Final
             /\ shown.results # View!NoResults =>
                  /\ \A k \in Pair : shown.results[k] = {} => rows'[k] = {} \/ Hidden(k)'
                  /\ "pending" \in View!AllResults(shown.results)
  BY <1>6, <1>7, <1>8 DEF ShownIsTrue, Recorded
<1>9. ShownIsTrue(page)'
  <2>1. page' = page /\ ShownIsTrue(page)
    BY <1>0 DEF ViewInv
  <2> QED BY <1>8, <2>1 DEF ShownIsTrue, Recorded
<1>10. ASSUME NEW f \in Flights PROVE FlightIsTrue(f)'
  <2>1. flight'[f] = flight[f] /\ FlightIsTrue(f)
    BY <1>0 DEF ViewInv
  <2>2. CASE flight[f].stage \in Asked
    BY <1>8, <2>1, <2>2 DEF FlightIsTrue, ShownIsTrue, Recorded, Asked
  <2>3. CASE flight[f].stage \notin Asked
    BY <1>6, <2>1, <2>3 DEF FlightIsTrue
  <2> QED BY <2>2, <2>3
<1>11. OneIsLive' /\ PageIsDriven'
  BY <1>0 DEF ViewInv, OneIsLive, PageIsDriven, View!needsDeliveryRefresh, View!Pending
<1> QED BY <1>4, <1>5, <1>9, <1>10, <1>11 DEF ViewInv

\* A refresh waits for the one before, and an opening for nothing.
LEMMA RequestStarts ==
  ASSUME ViewInv, NEW f \in Flights, View!TimerFires(f) \/ View!StaffRefreshes(f) \/ View!Open(f)
  PROVE  ViewInv'
<1> OneIsLive /\ View!TypeOK
  BY DEF ViewInv
<1>1. CASE View!TimerFires(f) \/ View!StaffRefreshes(f)
  <2>1. /\ place = "mounted" /\ ~inFlight /\ View!Start(f, "refresh") /\ ~timer'
        /\ timer' \in BOOLEAN
        /\ inFlight' /\ inFlight' \in BOOLEAN /\ UNCHANGED <<View!stored, place, page, calm>>
    BY <1>1 DEF View!TimerFires, View!StaffRefreshes, View!refresh, View!MayRefresh
  <2>2. \A g \in Flights : ~flight[g].live
    BY <2>1 DEF OneIsLive
  <2> QED BY <2>1, <2>2, FlightStarts
<1>2. CASE View!Open(f)
  <2>1. /\ place = "closed" /\ View!Start(f, "open") /\ place' = "opening"
        /\ UNCHANGED <<View!stored, page, timer, inFlight, calm>>
    BY <1>2 DEF View!Open, View!loop
  <2>2. \A g \in Flights : ~flight[g].live
    BY <2>1 DEF OneIsLive
  <2> QED BY <2>1, <2>2, FlightStarts DEF View!TypeOK
<1> QED BY <1>1, <1>2

\* The loop is stopped, made anew, or left.
LEMMA PageMoves ==
  ASSUME ViewInv, View!Busy \/ View!Resume \/ View!Reload \/ View!CalmDown
  PROVE  ViewInv'
<1> View!TypeOK /\ OneIsLive /\ PageIsDriven /\ ShownIsTrue(page)
    /\ flight \in [Flights -> FlightType]
  BY DEF ViewInv, View!TypeOK, FlightType
<1>1. UNCHANGED View!stored /\ calm' \in BOOLEAN
  BY DEF View!Busy, View!Resume, View!Reload, View!CalmDown, View!TypeOK
<1>2. StatusAgrees'
  BY <1>1, StoredStays DEF ViewInv, StatusAgrees
<1>3. CASE View!Busy
  <2>1. /\ place' = "busy" /\ ~timer' /\ timer' \in BOOLEAN /\ UNCHANGED <<page, inFlight>>
        /\ flight' = View!Stopped /\ place = "mounted"
    BY <1>3 DEF View!Busy
  <2>2. /\ flight' \in [Flights -> FlightType]
        /\ \A f \in Flights : /\ ~flight'[f].live /\ flight'[f].stage = flight[f].stage
                              /\ flight'[f].shown = flight[f].shown
    BY <2>1 DEF View!Stopped, FlightType
  <2>3. View!TypeOK'
    BY <1>1, <2>1, <2>2 DEF View!TypeOK, FlightType, View!stored
  <2>4. ShownIsTrue(page)' /\ PageIsDriven'
    BY <1>1, <2>1, StoredStays DEF ShownIsTrue, Recorded, PageIsDriven
  <2>5. \A f \in Flights : FlightIsTrue(f)'
    BY <1>1, <2>2, StoredStays DEF ViewInv, FlightIsTrue, ShownIsTrue, Recorded
  <2>6. OneIsLive'
    BY <2>2 DEF OneIsLive
  <2> QED BY <1>2, <2>3, <2>4, <2>5, <2>6 DEF ViewInv
<1>4. CASE View!Resume
  <2>1. /\ place = "busy" /\ place' = "mounted" /\ page' = page /\ flight' = flight
        /\ timer' = View!needsDeliveryRefresh(page) /\ timer' \in BOOLEAN
        /\ ~inFlight' /\ inFlight' \in BOOLEAN
    BY <1>4 DEF View!Resume, View!Mounts, View!queue, View!needsDeliveryRefresh, View!Pending
  <2>2. View!TypeOK'
    BY <1>1, <2>1 DEF View!TypeOK, View!stored
  <2>3. ShownIsTrue(page)' /\ PageIsDriven'
    BY <1>1, <2>1, StoredStays DEF ShownIsTrue, Recorded, PageIsDriven,
      View!needsDeliveryRefresh, View!Pending
  <2>4. \A f \in Flights : FlightIsTrue(f)'
    BY <1>1, <2>1, FlightStays DEF ViewInv
  <2>5. OneIsLive'
    BY <2>1 DEF OneIsLive
  <2> QED BY <1>2, <2>2, <2>3, <2>4, <2>5 DEF ViewInv
<1>5. CASE View!Reload
  <2>1. /\ place' = "closed" /\ page' = View!Blank /\ ~timer' /\ timer' \in BOOLEAN
        /\ ~inFlight' /\ inFlight' \in BOOLEAN /\ flight' = [f \in Flights |-> View!Idle]
    BY <1>5 DEF View!Reload
  <2>2. View!TypeOK'
    BY <1>1, <2>1, BlankParts DEF View!TypeOK, View!stored, FlightType
  <2>3. ShownIsTrue(page)' /\ PageIsDriven'
    BY <2>1, BlankParts DEF ShownIsTrue, PageIsDriven
  <2>4. \A f \in Flights : FlightIsTrue(f)'
    BY <2>1, BlankParts DEF FlightIsTrue, Asked
  <2>5. OneIsLive'
    BY <2>1, BlankParts DEF OneIsLive
  <2> QED BY <1>2, <2>2, <2>3, <2>4, <2>5 DEF ViewInv
<1>6. CASE View!CalmDown
  <2>1. UNCHANGED <<place, page, timer, inFlight, flight>>
    BY <1>6 DEF View!CalmDown, View!loop
  <2>2. View!TypeOK'
    BY <1>1, <2>1 DEF View!TypeOK, View!stored
  <2>3. ShownIsTrue(page)' /\ PageIsDriven'
    BY <1>1, <2>1, StoredStays DEF ShownIsTrue, Recorded, PageIsDriven,
      View!needsDeliveryRefresh, View!Pending
  <2>4. \A f \in Flights : FlightIsTrue(f)'
    BY <1>1, <2>1, FlightStays DEF ViewInv
  <2>5. OneIsLive'
    BY <2>1 DEF OneIsLive
  <2> QED BY <1>2, <2>2, <2>3, <2>4, <2>5 DEF ViewInv
<1> QED BY <1>3, <1>4, <1>5, <1>6

LEMMA ViewStep ==
  ASSUME ViewInv, View!Next
  PROVE  ViewInv'
<1>1. CASE \E m \in Pair, o \in View!Outcomes : View!Settle(m, o)
  BY <1>1, SettleStep
<1>2. ASSUME NEW f \in Flights,
             View!Request(f) \/ View!TimerFires(f) \/ View!StaffRefreshes(f)
               \/ View!onError(f) \/ View!OpenFails(f) \/ View!Open(f)
      PROVE  ViewInv'
  BY <1>2, RequestReads, RequestEnds, RequestStarts DEF View!Request
<1>3. CASE View!Busy \/ View!Resume \/ View!Reload \/ View!CalmDown
  BY <1>3, PageMoves
<1> QED BY <1>1, <1>2, <1>3 DEF View!Next

LEMMA ViewInit == View!Init => ViewInv
<1> SUFFICES ASSUME View!Init PROVE ViewInv
  OBVIOUS
<1>1. View!TypeOK
  <2>1. status \in View!Statuses
    BY AggregateParts DEF View!Init
  <2> QED BY <2>1, BlankParts DEF View!Init, View!TypeOK, FlightType
<1>2. StatusAgrees
  BY DEF View!Init, StatusAgrees
<1>3. ShownIsTrue(page) /\ PageIsDriven
  BY BlankParts DEF View!Init, ShownIsTrue, PageIsDriven
<1>4. \A f \in Flights : FlightIsTrue(f)
  BY BlankParts DEF View!Init, FlightIsTrue, Asked
<1>5. OneIsLive
  BY BlankParts DEF View!Init, OneIsLive
<1> QED BY <1>1, <1>2, <1>3, <1>4, <1>5 DEF ViewInv

\* What a page that rests shows, and what it hides.
LEMMA ViewShows ==
  ASSUME ViewInv
  PROVE  View!RestsOnFinal /\ View!NothingHidden
<1>1. View!RestsOnFinal
  <2> SUFFICES ASSUME place = "mounted", ~timer, ~inFlight
               PROVE  /\ page.results = View!selected_deliveries
                      /\ ~View!Pending(page) /\ page.status = View!Aggregate(page.results)
    BY DEF View!RestsOnFinal
  <2>1. ~View!needsDeliveryRefresh(page) /\ page.status \in View!Statuses
    BY DEF ViewInv, PageIsDriven
  <2>2. ~View!Pending(page) /\ page.status \in View!Final /\ page.results # View!NoResults
    BY <2>1 DEF View!needsDeliveryRefresh, View!Statuses, View!Final
  <2> QED BY <2>2 DEF ViewInv, ShownIsTrue, Recorded, View!Pending
<1>2. View!NothingHidden
  BY DEF View!NothingHidden, ViewInv, ShownIsTrue, Recorded, Hidden
<1> QED BY <1>1, <1>2

-----------------------------------------------------------------------------
(* Results that stay on screen *)

\* Records a release has written are coherent.
LEMMA HistoryIsCoherent ==
  ASSUME View!TypeOK, \E kind \in {"current", "previous"} : View!HasHistory(kind)
  PROVE  View!Coherent
<1>1. snapshot = flags /\ View!Wanted # {} /\ View!Wanted \subseteq Pair
      /\ View!Wanted \subseteq DOMAIN snapshot
      /\ DOMAIN snapshot \subseteq Pair
  BY DEF View!HasHistory, View!Wanted, View!TypeOK, View!PartialFlags
<1>2. ASSUME NEW m \in Pair
      PROVE  IF m \in View!Wanted THEN \E o \in View!Outcomes \cup {"pending"} : rows[m] = {o}
             ELSE rows[m] = {} \/ (rows[m] = {"excluded"} /\ m \in DOMAIN snapshot)
  BY DEF View!HasHistory, View!Outcomes
<1>3. \A m \in Pair : \A r, s \in rows[m] : r = s
  BY <1>2
<1>4. View!Wanted \subseteq View!WithRows
  BY <1>1, <1>2 DEF View!WithRows
<1>5. ASSUME NEW m \in View!WithRows PROVE m \in DOMAIN snapshot /\ View!RowFits(m)
  <2>1. CASE m \in View!Wanted
    <3>1. "excluded" \notin rows[m]
      BY <1>2, <2>1 DEF View!WithRows, View!Outcomes
    <3> QED BY <1>1, <2>1, <3>1 DEF View!RowFits, View!Wanted
  <2>2. CASE m \notin View!Wanted
    BY <1>2, <2>2 DEF View!RowFits, View!Wanted, View!WithRows
  <2> QED BY <2>1, <2>2
<1> QED BY <1>1, <1>3, <1>4, <1>5 DEF View!Coherent

\* Coherent records stay coherent, and results are added to what is shown.
LEMMA CoherentSettles ==
  ASSUME View!TypeOK, View!Coherent, NEW m \in Pair, NEW o \in View!Outcomes, View!Settle(m, o)
  PROVE  /\ View!Coherent'
         /\ \A k \in Pair :
              View!selected_deliveries[k] \ {"pending"} \subseteq View!selected_deliveries'[k]
<1>0. /\ "pending" \in rows[m] /\ rows' = [rows EXCEPT ![m] = View!Settled(m, o)]
      /\ UNCHANGED <<snapshot, flags>> /\ rows \in [Pair -> View!RowSets]
  BY DEF View!Settle, View!frozen, View!TypeOK
<1>1. rows[m] = {"pending"} /\ m \in View!WithRows
  BY <1>0 DEF View!Coherent, View!WithRows
<1>2. m \in View!Wanted
  BY <1>1 DEF View!Coherent, View!RowFits, View!Wanted
<1>3. rows'[m] = {o} /\ \A k \in Pair : k # m => rows'[k] = rows[k]
  BY <1>0, <1>1 DEF View!Settled
<1>4. View!Wanted' = View!Wanted /\ View!WithRows' = View!WithRows
  BY <1>0, <1>1, <1>3 DEF View!Wanted, View!WithRows
<1>5. \A k \in View!WithRows : View!RowFits(k)'
  <2> SUFFICES ASSUME NEW k \in View!WithRows PROVE View!RowFits(k)'
    OBVIOUS
  <2>1. k \in Pair /\ View!RowFits(k)
    BY DEF View!Coherent, View!WithRows
  <2>2. CASE k = m
    BY <1>0, <1>2, <1>3, <2>2 DEF View!RowFits, View!Wanted, View!Outcomes
  <2>3. CASE k # m
    BY <1>0, <1>3, <2>1, <2>3 DEF View!RowFits
  <2> QED BY <2>2, <2>3
<1>6. \A k \in Pair : \A r, s \in rows'[k] : r = s
  BY <1>3 DEF View!Coherent
<1>7. View!Coherent'
  BY <1>0, <1>4, <1>5, <1>6 DEF View!Coherent
<1>8. /\ View!selected_deliveries = [k \in Pair |-> IF k \in View!Wanted THEN rows[k] ELSE {}]
      /\ View!selected_deliveries' = [k \in Pair |-> IF k \in View!Wanted THEN rows'[k] ELSE {}]
  BY <1>4, <1>7 DEF View!selected_deliveries
<1> QED BY <1>1, <1>3, <1>7, <1>8

LEMMA LoopInit ==
  ASSUME View!Init, \E kind \in {"current", "previous"} : View!HasHistory(kind)
  PROVE  LoopInv
<1>1. View!TypeOK
  BY ViewInit DEF ViewInv
<1> QED
  BY <1>1, HistoryIsCoherent, BlankParts DEF View!Init, LoopInv, ResultsAreKept, FlightGoesOn

\* What a page has shown stays shown, whatever is stored or answered.
LEMMA SettleKeeps ==
  ASSUME ViewInv, LoopInv, NEW m \in Pair, NEW o \in View!Outcomes, View!Settle(m, o)
  PROVE  LoopInv'
<1>1. /\ View!Coherent'
      /\ \A k \in Pair :
           View!selected_deliveries[k] \ {"pending"} \subseteq View!selected_deliveries'[k]
  BY CoherentSettles DEF ViewInv, LoopInv
<1>2. page' = page /\ flight' = flight
  BY DEF View!Settle
<1>3. ResultsAreKept(page)'
  BY <1>1, <1>2 DEF LoopInv, ResultsAreKept
<1>4. ASSUME NEW f \in Flights PROVE ResultsAreKept(flight[f].shown)' /\ FlightGoesOn(f)'
  BY <1>1, <1>2 DEF LoopInv, ResultsAreKept, FlightGoesOn
<1> QED BY <1>1, <1>3, <1>4 DEF LoopInv

LEMMA RequestKeeps ==
  ASSUME ViewInv, LoopInv, NEW f \in Flights, View!Request(f) \/ View!onError(f)
         \/ View!OpenFails(f)
  PROVE  LoopInv' /\ View!GoesOn
<1> USE DEF LoopInv
<1> View!TypeOK /\ flight \in [Flights -> FlightType] /\ FlightIsTrue(f) /\ OneIsLive
    /\ PageIsDriven
    /\ ShownIsTrue(page) /\ FlightGoesOn(f) /\ ResultsAreKept(flight[f].shown)
        /\ ResultsAreKept(page)
  BY DEF ViewInv, View!TypeOK, FlightType
<1> flight[f] \in FlightType
  OBVIOUS
<1>0. \A m \in Pair : View!Blank.results[m] = {}
  BY BlankParts
<1>s. UNCHANGED View!stored
  BY DEF View!Request, View!ReadOperation, View!ReadProjection, View!ReadDeliveries,
    View!AskDeliveries, View!onUpdate,
    View!onError, View!Discard, View!OpenOperation, View!OpenDeliveries, View!OpenFails
<1>k. View!selected_deliveries' = View!selected_deliveries /\ View!Coherent'
  BY <1>s, StoredStays
<1>t. status \in View!Statuses /\ (status \in View!Final <=> NoPending)
  BY StatusParts DEF ViewInv
\* A request goes on: the page stays, what was read is kept.
<1>1. ASSUME NEW s \in View!Stages, NEW shown \in View!Shown, View!To(f, s, shown), page' = page,
             \A m \in Pair : shown.results[m] \ {"pending"} \subseteq View!selected_deliveries[m],
             page.status \in View!Final =>
               flight[f].for # "refresh" \/ shown.status \in View!Final,
             s = "reply" => \A m \in Pair :
                  page.results[m] \ {"pending"} \subseteq shown.results[m]
      PROVE  LoopInv' /\ View!GoesOn
  <2>1. flight' = [flight EXCEPT ![f] = [flight[f] EXCEPT !.stage = s, !.shown = shown]]
    BY <1>1 DEF View!To
  <2>2. /\ flight'[f].stage = s /\ flight'[f].shown = shown /\ flight'[f].for = flight[f].for
        /\ \A g \in Flights : g # f => flight'[g] = flight[g]
    BY <2>1 DEF FlightType
  <2>3. ResultsAreKept(page)'
    BY <1>1, <1>k DEF ResultsAreKept
  <2>4. ResultsAreKept(flight[f].shown)' /\ FlightGoesOn(f)'
    BY <1>1, <1>k, <2>2 DEF ResultsAreKept, FlightGoesOn
  <2>5. ASSUME NEW g \in Flights, g # f
        PROVE  ResultsAreKept(flight[g].shown)' /\ FlightGoesOn(g)'
    BY <1>1, <1>k, <2>2, <2>5 DEF ResultsAreKept, FlightGoesOn
  <2>6. View!GoesOn
    BY <1>1 DEF View!GoesOn
  <2> QED BY <1>k, <2>3, <2>4, <2>5, <2>6
\* A request is over: whoever is live is live no more.
<1>2. ASSUME View!Free(f), flight[f].live \/ page' = page,
             \A m \in Pair : page'.results[m] \ {"pending"} \subseteq View!selected_deliveries[m],
             View!GoesOn
      PROVE  LoopInv' /\ View!GoesOn
  <2>1. flight'[f] = View!Idle /\ \A g \in Flights : g # f => flight'[g] = flight[g]
    BY <1>2 DEF View!Free
  <2>2. ResultsAreKept(page)'
    BY <1>2, <1>k DEF ResultsAreKept
  <2>3. ResultsAreKept(flight[f].shown)' /\ FlightGoesOn(f)'
    BY <1>0, <2>1, BlankParts DEF ResultsAreKept, FlightGoesOn
  <2>4. ASSUME NEW g \in Flights, g # f
        PROVE  ResultsAreKept(flight[g].shown)' /\ FlightGoesOn(g)'
    BY <1>2, <1>k, <2>1, <2>4 DEF ResultsAreKept, FlightGoesOn, OneIsLive
  <2> QED BY <1>2, <1>k, <2>2, <2>3, <2>4
<1>3. CASE View!ReadOperation(f)
  <2> DEFINE shown == [View!Blank EXCEPT !.status = status]
  <2>1. shown \in View!Shown /\ shown.status = status /\ shown.results = View!NoResults
    BY <1>t, BlankParts DEF View!Shown, View!Blank
  <2>2. View!To(f, "projection", shown) /\ page' = page /\ "projection" \in View!Stages
    BY <1>3 DEF View!ReadOperation, View!Stages
  <2>3. \A m \in Pair : shown.results[m] = {}
    BY <2>1 DEF View!NoResults
  <2>4. page.status \in View!Final => shown.status \in View!Final
    BY <1>t, <2>1 DEF ShownIsTrue
  <2> HIDE DEF shown
  <2> QED BY <1>1, <2>1, <2>2, <2>3, <2>4
<1>4. CASE View!ReadProjection(f)
  <2> DEFINE now == View!projected_operation(flight[f].shown.status)
             shown == [View!Blank EXCEPT !.status = now]
  <2>1. View!To(f, "answered", shown) /\ page' = page /\ "answered" \in View!Stages
        /\ flight[f].live /\ flight[f].stage = "projection"
    BY <1>4 DEF View!ReadProjection, View!At, View!Stages
  <2>2. now \in View!Statuses
    BY <2>1, AggregateParts DEF View!projected_operation, FlightIsTrue
  <2>3. shown \in View!Shown /\ shown.status = now /\ shown.results = View!NoResults
    BY <2>2, BlankParts DEF View!Shown, View!Blank
  <2>4. \A m \in Pair : shown.results[m] = {}
    BY <2>3 DEF View!NoResults
  <2>5. page.status \in View!Final => flight[f].for # "refresh" \/ shown.status \in View!Final
    BY <2>1, <2>3, AggregateParts, PendingParts DEF ShownIsTrue, FlightGoesOn,
      View!projected_operation
  <2> HIDE DEF shown
  <2> QED BY <1>1, <2>1, <2>3, <2>4, <2>5
<1>5. CASE View!ReadDeliveries(f)
  <2> DEFINE shown == [flight[f].shown EXCEPT !.results = View!selected_deliveries]
  <2>1. View!To(f, "reply", shown) /\ page' = page /\ "reply" \in View!Stages
        /\ flight[f].live /\ flight[f].stage = "deliveries"
    BY <1>5 DEF View!ReadDeliveries, View!At, View!Stages
  <2>2. shown \in View!Shown /\ shown.status = flight[f].shown.status
        /\ shown.results = View!selected_deliveries
    BY SelectedParts DEF View!Shown, FlightType
  <2>3. page.status \in View!Final => flight[f].for # "refresh" \/ shown.status \in View!Final
    BY <2>1, <2>2 DEF FlightGoesOn
  <2> HIDE DEF shown
  <2> QED BY <1>1, <2>1, <2>2, <2>3 DEF ResultsAreKept
<1>6. ASSUME NEW s \in {"deliveries"}, View!To(f, s, flight[f].shown), page' = page,
             flight[f].live,
             flight[f].stage = "answered"
      PROVE  LoopInv' /\ View!GoesOn
  <2>1. s \in View!Stages /\ s # "reply" /\ flight[f].shown \in View!Shown
    BY DEF View!Stages, FlightType
  <2>2. page.status \in View!Final =>
        flight[f].for # "refresh" \/ flight[f].shown.status \in View!Final
    BY <1>6 DEF FlightGoesOn
  <2> QED BY <1>1, <1>6, <2>1, <2>2 DEF ResultsAreKept
<1>7. CASE View!AskDeliveries(f)
  BY <1>6, <1>7 DEF View!AskDeliveries, View!At
<1>8. CASE View!onUpdate(f)
  <2>1. /\ View!Free(f) /\ flight[f].live /\ flight[f].for = "refresh"
        /\ flight[f].stage = "reply"
        /\ page' = flight[f].shown
    BY <1>8 DEF View!onUpdate, View!At
  <2>2. page.status \in View!Final => page'.status = page.status
    BY <2>1 DEF FlightGoesOn, ShownIsTrue, FlightIsTrue, Asked
  <2>3. View!GoesOn
    BY <2>1, <2>2 DEF View!GoesOn, FlightGoesOn
  <2> QED BY <1>2, <2>1, <2>3 DEF ResultsAreKept
<1>9. CASE View!onError(f) \/ View!Discard(f)
  <2>1. View!Free(f) /\ page' = page
    BY <1>9 DEF View!onError, View!Discard
  <2> QED BY <1>2, <2>1 DEF ResultsAreKept, View!GoesOn
<1>10. ASSUME flight[f].live, flight[f].for = "open", View!Free(f),
              page' = page
                \/ \A m \in Pair :
                     page'.results[m] \ {"pending"} \subseteq View!selected_deliveries[m]
       PROVE  LoopInv' /\ View!GoesOn
  <2>1. page = View!Blank
    BY <1>10 DEF OneIsLive, PageIsDriven
  <2>2. View!GoesOn
    BY <1>0, <2>1, BlankParts DEF View!GoesOn
  <2> QED BY <1>2, <1>10, <2>2 DEF ResultsAreKept
<1>11. CASE View!OpenDeliveries(f)
  BY <1>10, <1>11 DEF View!OpenDeliveries, View!At, View!Mounts, ResultsAreKept
<1>12. CASE View!OpenOperation(f)
  <2>1. flight[f].live /\ flight[f].stage = "answered" /\ flight[f].for = "open"
    BY <1>12 DEF View!OpenOperation, View!At
  <2>2. CASE View!To(f, "deliveries", flight[f].shown) /\ page' = page
    BY <1>6, <2>1, <2>2
  <2>3. CASE View!Mounts(flight[f].shown) /\ View!Free(f)
    BY <1>10, <2>1, <2>3 DEF View!Mounts, ResultsAreKept
  <2> QED BY <1>12, <2>2, <2>3 DEF View!OpenOperation
<1>13. CASE View!OpenFails(f)
  <2>1. flight[f].live /\ flight[f].for = "open" /\ View!Free(f)
    BY <1>13 DEF View!OpenFails
  <2>2. page' = page \/ page' = [flight[f].shown EXCEPT !.results = View!NoResults]
    BY <1>13 DEF View!OpenFails, View!Mounts
  <2>3. [flight[f].shown EXCEPT !.results = View!NoResults].results = View!NoResults
    BY DEF FlightType, View!Shown
  <2>4. ASSUME page'.results = View!NoResults, NEW m \in Pair
        PROVE  page'.results[m] \ {"pending"} \subseteq View!selected_deliveries[m]
    BY <2>4 DEF View!NoResults
  <2>5. page' = page
        \/ \A m \in Pair : page'.results[m] \ {"pending"} \subseteq View!selected_deliveries[m]
    <3>1. page' = page \/ page'.results = View!NoResults
      BY <2>2, <2>3, Zenon
    <3> QED BY <2>4, <3>1
  <2> QED BY <1>10, <2>1, <2>5
<1> QED
  BY <1>3, <1>4, <1>5, <1>7, <1>8, <1>9, <1>11, <1>12, <1>13 DEF View!Request

LEMMA LoopStep ==
  ASSUME ViewInv, LoopInv, View!Next
  PROVE  LoopInv' /\ View!GoesOn
<1> USE DEF LoopInv
<1>1. ASSUME NEW m \in Pair, NEW o \in View!Outcomes, View!Settle(m, o)
      PROVE  LoopInv' /\ View!GoesOn
  BY <1>1, SettleKeeps DEF View!Settle, View!GoesOn
<1>2. ASSUME NEW f \in Flights, View!Request(f) \/ View!onError(f) \/ View!OpenFails(f)
      PROVE  LoopInv' /\ View!GoesOn
  BY <1>2, RequestKeeps
<1>3. ASSUME UNCHANGED View!stored, page' = page,
             \A g \in Flights : /\ flight'[g].shown \in {flight[g].shown, View!Blank}
                                /\ flight'[g] = flight[g] \/ ~flight'[g].live
                                    \/ flight'[g].stage = "operation"
      PROVE  LoopInv' /\ View!GoesOn
  <2>1. View!selected_deliveries' = View!selected_deliveries /\ View!Coherent'
    BY <1>3, StoredStays
  <2>2. ResultsAreKept(page)' /\ View!GoesOn
    BY <1>3, <2>1 DEF ResultsAreKept, View!GoesOn
  <2>3. ASSUME NEW g \in Flights PROVE ResultsAreKept(flight[g].shown)' /\ FlightGoesOn(g)'
    BY <1>3, <2>1, BlankParts DEF ResultsAreKept, FlightGoesOn
  <2> QED BY <2>1, <2>2, <2>3
<1>4. flight \in [Flights -> FlightType]
  BY DEF ViewInv, View!TypeOK, FlightType
<1>5. ASSUME NEW f \in Flights, View!TimerFires(f) \/ View!StaffRefreshes(f) \/ View!Open(f)
      PROVE  LoopInv' /\ View!GoesOn
  <2>1. PICK for \in {"open", "refresh"} : View!Start(f, for) /\ UNCHANGED <<View!stored, page>>
    BY <1>5 DEF View!TimerFires, View!StaffRefreshes, View!refresh, View!Open
  <2>2. /\ flight'[f].stage = "operation" /\ flight'[f].shown = View!Blank
        /\ \A g \in Flights : g # f => flight'[g] = flight[g]
    BY <1>4, <2>1 DEF View!Start
  <2> QED BY <1>3, <2>1, <2>2
<1>6. CASE View!Busy
  <2>1. /\ UNCHANGED <<View!stored, page>>
        /\ \A g \in Flights : flight'[g].shown = flight[g].shown /\ ~flight'[g].live
    BY <1>4, <1>6 DEF View!Busy, View!Stopped, FlightType
  <2> QED BY <1>3, <2>1
<1>7. CASE View!Resume \/ View!CalmDown
  BY <1>3, <1>7 DEF View!Resume, View!Mounts, View!CalmDown
<1>8. CASE View!Reload
  <2>1. /\ UNCHANGED View!stored /\ page' = View!Blank /\ place' = "closed"
        /\ flight' = [g \in Flights |-> View!Idle]
    BY <1>8 DEF View!Reload
  <2>2. View!selected_deliveries' = View!selected_deliveries /\ View!Coherent'
    BY <2>1, StoredStays
  <2>3. ResultsAreKept(page)' /\ View!GoesOn
    BY <2>1, BlankParts DEF ResultsAreKept, View!GoesOn
  <2>4. ASSUME NEW g \in Flights PROVE ResultsAreKept(flight[g].shown)' /\ FlightGoesOn(g)'
    BY <2>1, BlankParts DEF ResultsAreKept, FlightGoesOn
  <2> QED BY <2>2, <2>3, <2>4
<1> QED
  BY <1>1, <1>2, <1>5, <1>6, <1>7, <1>8 DEF View!Next

-----------------------------------------------------------------------------
\* What is said of the page is said of its variables.
LEMMA ViewStays ==
  ASSUME UNCHANGED View!vars
  PROVE  (ViewInv => ViewInv') /\ (LoopInv => LoopInv')
<1>1. /\ UNCHANGED View!stored /\ UNCHANGED <<snapshot, flags, rows, status>>
      /\ UNCHANGED <<place, page, timer, inFlight, flight, calm>>
  BY DEF View!vars, View!loop, View!stored
<1>2. View!selected_deliveries' = View!selected_deliveries /\ (View!Coherent <=> View!Coherent')
  BY <1>1 DEF View!selected_deliveries, View!Coherent, View!Wanted,
    View!WithRows, View!RowFits
<1>3. ViewInv => ViewInv'
  <2>1. View!TypeOK => View!TypeOK'
    BY <1>1 DEF View!TypeOK, View!stored
  <2>2. NoPending <=> NoPending'
    BY <1>1 DEF NoPending, View!stored
  <2>3. StatusAgrees => StatusAgrees'
    BY <1>1, <1>2 DEF StatusAgrees, View!stored
  <2>4. ShownIsTrue(page) => ShownIsTrue(page)'
    BY <1>1, <1>2, <2>2 DEF ShownIsTrue, Recorded, Hidden, View!stored
  <2>5. ASSUME NEW f \in Flights PROVE FlightIsTrue(f) => FlightIsTrue(f)'
    BY <1>1, <1>2, <2>2 DEF FlightIsTrue, ShownIsTrue, Recorded, Hidden, View!stored
  <2>6. OneIsLive /\ PageIsDriven => (OneIsLive /\ PageIsDriven)'
    BY <1>1 DEF OneIsLive, PageIsDriven, View!needsDeliveryRefresh, View!Pending
  <2> QED BY <2>1, <2>3, <2>4, <2>5, <2>6 DEF ViewInv
<1>4. LoopInv => LoopInv'
  BY <1>1, <1>2 DEF LoopInv, ResultsAreKept, FlightGoesOn
<1> QED BY <1>3, <1>4

-----------------------------------------------------------------------------
(* Whichever component is in focus; the invariants of saving and of the      *)
(* registrations are those of TargetSelectionProofs and StaffAccessProofs.   *)

FocusInv ==
  /\ focus \in {"send", "alone", "racing", "registry", "access", "records", "loop"}
  /\ focus = "send" => SendInv
  /\ focus = "alone" => Alone!TInv
  /\ focus = "racing" => Racing!TInv
  /\ focus = "registry" => Registry!IInv
  /\ focus = "access" => Access!IInv
  /\ focus \in {"records", "loop"} => ViewInv
  /\ focus = "loop" => LoopInv

LEMMA ConstantsHold ==
  /\ Alone!SelectionConstants /\ Racing!SelectionConstants
  /\ Registry!StaffConstants /\ Access!StaffConstants
BY TargetAssumption, StaffAssumption
   DEF Alone!SelectionConstants, Racing!SelectionConstants, Registry!StaffConstants,
   Access!StaffConstants

LEMMA SendInFocus ==
  ASSUME [Next]_vars, focus = "send"
  PROVE  [Send!Next]_sendVars
BY DEF Next, vars, sendVars

LEMMA SavingInFocus ==
  ASSUME [Next]_vars
  PROVE  /\ focus = "alone" => [Alone!Next]_(Alone!vars)
         /\ focus = "racing" => [Racing!Next]_(Racing!vars)
BY DEF Next, vars, targetVars, Alone!vars, Alone!world, Alone!stored, Alone!request,
  Racing!vars, Racing!world, Racing!stored, Racing!request

LEMMA StaffInFocus ==
  ASSUME [Next]_vars
  PROVE  /\ focus = "registry" => [Registry!Next]_(Registry!vars)
         /\ focus = "access" => [Access!Next]_(Access!vars)
BY DEF Next, vars, staffVars, Registry!vars, Registry!tables, Registry!registering,
  Registry!requesting, Access!vars, Access!tables, Access!registering, Access!requesting

LEMMA ViewInFocus ==
  ASSUME [Next]_vars, focus \in {"records", "loop"}
  PROVE  [View!Next]_(View!vars)
BY DEF Next, vars, viewVars, View!vars, View!stored, View!loop

LEMMA FocusInvInit == Init => FocusInv
<1> SUFFICES ASSUME Init PROVE FocusInv
  OBVIOUS
<1>1. CASE focus = "send" /\ Send!Init
  BY <1>1, SendInit DEF FocusInv
<1>2. CASE focus = "alone" /\ Alone!Init
  BY <1>2, ConstantsHold, Alone!TInvInit DEF FocusInv
<1>3. CASE focus = "racing" /\ Racing!Init
  BY <1>3, ConstantsHold, Racing!TInvInit DEF FocusInv
<1>4. CASE focus = "registry" /\ Registry!Init
  BY <1>4, ConstantsHold, Registry!IInvInit DEF FocusInv
<1>5. CASE focus = "access" /\ Access!Init
  BY <1>5, ConstantsHold, Access!IInvInit DEF FocusInv
<1>6. CASE View!Init /\ focus = "records"
  BY <1>6, ViewInit DEF FocusInv
<1>7. CASE /\ View!Init /\ focus = "loop"
           /\ \E kind \in {"current", "previous"} : View!HasHistory(kind)
  BY <1>7, ViewInit, LoopInit DEF FocusInv
<1> QED
  BY <1>1, <1>2, <1>3, <1>4, <1>5, <1>6, <1>7 DEF Init

LEMMA FocusInvStep ==
  ASSUME FocusInv, [Next]_vars
  PROVE  FocusInv'
<1>0. focus' = focus
  BY DEF Next, vars
<1>1. focus = "send" => SendInv'
  BY SendInFocus, SendStep DEF FocusInv
<1>2. focus = "alone" => Alone!TInv'
  BY ConstantsHold, SavingInFocus, Alone!TInvStep DEF FocusInv
<1>3. focus = "racing" => Racing!TInv'
  BY ConstantsHold, SavingInFocus, Racing!TInvStep DEF FocusInv
<1>4. focus = "registry" => Registry!IInv'
  BY ConstantsHold, StaffInFocus, Registry!IInvStep DEF FocusInv
<1>5. focus = "access" => Access!IInv'
  BY ConstantsHold, StaffInFocus, Access!IInvStep DEF FocusInv
<1>6. focus \in {"records", "loop"} => ViewInv'
  BY ViewInFocus, ViewStep, ViewStays DEF FocusInv
<1>7. focus = "loop" => LoopInv'
  BY ViewInFocus, LoopStep, ViewStays DEF FocusInv
<1> QED
  BY <1>0, <1>1, <1>2, <1>3, <1>4, <1>5, <1>6, <1>7 DEF FocusInv

LEMMA FocusInvHolds == Spec => []FocusInv
BY FocusInvInit, FocusInvStep, PTL DEF Spec

-----------------------------------------------------------------------------
(* Theorems *)

\* The types of the component in focus, whatever the constants are.
THEOREM TypesAlwaysHold == Spec => []TypeOK
<1>1. FocusInv => TypeOK
  <2> SUFFICES ASSUME FocusInv PROVE TypeOK
    OBVIOUS
  <2>1. focus = "send" => Send!TypeOK
    BY DEF FocusInv, SendInv, SendTypes
  <2>2. (focus = "alone" => Alone!TypeOK) /\ (focus = "racing" => Racing!TypeOK)
    BY DEF FocusInv, Alone!TInv, Racing!TInv
  <2>3. (focus = "registry" => Registry!TypeOK) /\ (focus = "access" => Access!TypeOK)
    BY DEF FocusInv, Registry!IInv, Registry!RegistryInv, Access!IInv, Access!RegistryInv
  <2>4. focus \in {"records", "loop"} => View!TypeOK
    BY DEF FocusInv, ViewInv
  <2> QED
    BY <2>1, <2>2, <2>3, <2>4 DEF FocusInv, TypeOK
<1> QED
  BY <1>1, FocusInvHolds, PTL

\* However clients compete and retry, and whatever fails between a validation
\* and the answer (send_operation), the answers and the audit tell the truth and
\* the reservation was permitted and is made once.
THEOREM AnswersAlwaysTrue == Spec => AnswersAreTrue
<1>1. FocusInv => (focus = "send" =>
              /\ Send!AcceptedIsReserved /\ Send!RefusedReservedNothing
              /\ Send!AuditIsConsistent /\ Send!ReservedIsPermitted)
  BY AuditFollows DEF FocusInv, SendInv
<1>2. FocusInv /\ [Next]_vars => [focus = "send" => Send!StaysReserved]_vars
  <2> SUFFICES ASSUME SendInv, Next, focus = "send"
               PROVE  Send!StaysReserved
    BY DEF FocusInv
  <2>1. Send!Next
    BY DEF Next
  <2> QED
    BY <2>1, StaysReservedStep
<1> QED
  BY <1>1, <1>2, FocusInvHolds, PTL DEF Spec, AnswersAreTrue

\* What staff save as targets (create_operation, replace_targets), alone or
\* racing, from reads that changed in between: the first save is the automatic
\* selection, its size the initial count for good, and nobody unknown is saved.
THEOREM SavesAlwaysRight == Spec => SavesAreRight
<1>1. FocusInv /\ [Next]_vars =>
        [focus = "alone" => Alone!SavesSelection /\ Alone!CountsOnce /\ Alone!SavesKnown]_vars
  <2> SUFFICES ASSUME Alone!TInv, Next, focus = "alone"
               PROVE  Alone!SavesSelection /\ Alone!CountsOnce /\ Alone!SavesKnown
    BY DEF FocusInv
  <2>1. Alone!Next
    BY DEF Next
  <2> QED
    BY <2>1, ConstantsHold, Alone!SavesSelectionStep, Alone!CountsOnceStep,
       Alone!SavesKnownStep
<1>2. FocusInv /\ [Next]_vars =>
        [focus = "racing" => Racing!SavesSelection /\ Racing!CountsOnce /\ Racing!SavesKnown]_vars
  <2> SUFFICES ASSUME Racing!TInv, Next, focus = "racing"
               PROVE  Racing!SavesSelection /\ Racing!CountsOnce /\ Racing!SavesKnown
    BY DEF FocusInv
  <2>1. Racing!Next
    BY DEF Next
  <2> QED
    BY <2>1, ConstantsHold, Racing!SavesSelectionStep, Racing!CountsOnceStep,
       Racing!SavesKnownStep
<1> QED
  BY <1>1, <1>2, FocusInvHolds, PTL DEF Spec, SavesAreRight

\* However registrations overlap (register_admin_staff), a verified token names
\* one person, for ever.
THEOREM RegistryAlwaysSound == Spec => RegistryIsSound
<1>1. FocusInv => (focus = "registry" => Registry!OneHolder)
  BY DEF FocusInv, Registry!IInv, Registry!RegistryInv
<1>2. FocusInv /\ [Next]_vars => [focus = "registry" => Registry!KeepsHolders]_vars
  <2> SUFFICES ASSUME Registry!IInv, Next, focus = "registry"
               PROVE  Registry!KeepsHolders
    BY DEF FocusInv
  <2>1. Registry!Next
    BY DEF Next
  <2> QED BY <2>1, ConstantsHold, Registry!KeepsHoldersStep DEF Registry!IInv
<1> QED
  BY <1>1, <1>2, FocusInvHolds, PTL DEF Spec, RegistryIsSound

\* Who is let in or refused was rightly so at some time while the request was
\* judged, whatever is registered meanwhile.
THEOREM AccessAlwaysJust == Spec => []AccessIsJust
<1>1. FocusInv => AccessIsJust
  BY DEF FocusInv, Access!IInv, Access!RequestInv, AccessIsJust
<1> QED
  BY <1>1, FocusInvHolds, PTL

\* Whatever is settled, lost, paused or reloaded while the page asks
\* (deliveryRefreshLoop): it rests on the final results, hides no delivery of a
\* selected member, and shows no result it takes back.
THEOREM PageAlwaysRight == Spec => PageIsRight
<1>1. FocusInv => (focus \in {"records", "loop"} => View!RestsOnFinal /\ View!NothingHidden)
  BY ViewShows DEF FocusInv
<1>2. FocusInv /\ [Next]_vars => [focus = "loop" => View!GoesOn]_vars
  <2> SUFFICES ASSUME ViewInv, LoopInv, Next, focus = "loop"
               PROVE  View!GoesOn
    BY DEF FocusInv
  <2>1. View!Next
    BY DEF Next
  <2> QED BY <2>1, LoopStep
<1> QED
  BY <1>1, <1>2, FocusInvHolds, PTL DEF Spec, PageIsRight
=============================================================================
