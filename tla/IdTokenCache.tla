------------------------------ MODULE IdTokenCache ------------------------------
(***************************************************************************)
(* _IdTokenCache: the ID token of one audience, shared by all requests of  *)
(* an instance.  A request looks at the cache without the lock, then again *)
(* under the lock, and only then fetches a token in a worker thread, with  *)
(* the lock held.  A request may be cancelled at any await: the lock is    *)
(* released, but the thread goes on.                                       *)
(*                                                                         *)
(* Time passes between any two steps, in ticks.                            *)
(***************************************************************************)
EXTENDS Integers, FiniteSets

CONSTANTS
  Callers,      \* requests that need a token
  TTL,          \* _TOKEN_TTL_SECONDS: how long a token is handed out
  Life,         \* how long the issuer lets a token live (an hour)
  FetchTime,    \* the longest a fetch takes from the issue to its answer
  MaxTime       \* bound on the clock

CallerAssumption == IsFiniteSet(Callers) /\ Callers # {}
TimeAssumption ==
  /\ TTL \in Nat \ {0} /\ Life \in Nat \ {0} /\ FetchTime \in Nat /\ MaxTime \in Nat
  /\ TTL + FetchTime <= Life

NoToken == -1
Nobody == "nobody"
NobodyAssumption == Nobody \notin Callers

VARIABLES
  now,      \* time.monotonic()
  issued,   \* when the cached token was issued, NoToken when there is none
  until,    \* until when the cache hands it out
  lock,     \* who holds the asyncio lock
  queue,    \* who waits for it
  pc,       \* pc[c]: "start", "lock", "check", "fetch", "done", "failed",
            \* "cancelled"
  thread,   \* thread[c]: when the token its thread brings was issued
  got       \* got[c]: when the token c was handed was issued

vars == <<now, issued, until, lock, queue, pc, thread, got>>

Init ==
  /\ now = 0
  /\ issued = NoToken
  /\ until = 0
  /\ lock = Nobody
  /\ queue = {}
  /\ pc = [c \in Callers |-> "start"]
  /\ thread = [c \in Callers |-> NoToken]
  /\ got = [c \in Callers |-> NoToken]

-----------------------------------------------------------------------------
(* The cache.  A definition called a variant is a deliberate bug; no           *)
(* specification uses it.                                                      *)

Fresh == issued # NoToken /\ until > now

HandOut(c, token) ==
  /\ pc' = [pc EXCEPT ![c] = "done"]
  /\ got' = [got EXCEPT ![c] = token]

\* The cache is hit without the lock, or the lock is awaited.
LookUp(c) ==
  /\ pc[c] = "start"
  /\ IF Fresh
     THEN HandOut(c, issued) /\ UNCHANGED queue
     ELSE /\ pc' = [pc EXCEPT ![c] = "lock"]
          /\ queue' = queue \cup {c}
          /\ UNCHANGED got
  /\ UNCHANGED <<now, issued, until, lock, thread>>

Acquire(c) ==
  /\ pc[c] = "lock"
  /\ lock = Nobody
  /\ lock' = c
  /\ queue' = queue \ {c}
  /\ pc' = [pc EXCEPT ![c] = "check"]
  /\ UNCHANGED <<now, issued, until, thread, got>>

\* Variant: whoever gets the lock fetches.
CheckNotAgain(c) ==
  /\ pc[c] = "check"
  /\ pc' = [pc EXCEPT ![c] = "fetch"]
  /\ UNCHANGED <<now, issued, until, lock, queue, thread, got>>

\* The second look: the token may have been fetched while c waited.
CheckAgain(c) ==
  /\ pc[c] = "check"
  /\ IF Fresh
     THEN HandOut(c, issued) /\ lock' = Nobody
     ELSE pc' = [pc EXCEPT ![c] = "fetch"] /\ UNCHANGED <<lock, got>>
  /\ UNCHANGED <<now, issued, until, queue, thread>>

\* The issuer answers the thread.
Issue(c) ==
  /\ pc[c] = "fetch"
  /\ thread[c] = NoToken
  /\ thread' = [thread EXCEPT ![c] = now]
  /\ UNCHANGED <<now, issued, until, lock, queue, pc, got>>

\* The thread's token reaches the event loop and is cached.
Store(c) ==
  /\ pc[c] = "fetch"
  /\ thread[c] # NoToken
  /\ issued' = thread[c]
  /\ until' = now + TTL
  /\ HandOut(c, thread[c])
  /\ thread' = [thread EXCEPT ![c] = NoToken]
  /\ lock' = Nobody
  /\ UNCHANGED <<now, queue>>

\* Variant: a failed fetch leaves the lock held.
FetchFailsHoldingLock(c) ==
  /\ pc[c] = "fetch"
  /\ pc' = [pc EXCEPT ![c] = "failed"]
  /\ thread' = [thread EXCEPT ![c] = NoToken]
  /\ UNCHANGED <<now, issued, until, lock, queue, got>>

\* The metadata server fails; the request fails, the next one tries again.
FetchFails(c) ==
  /\ pc[c] = "fetch"
  /\ pc' = [pc EXCEPT ![c] = "failed"]
  /\ thread' = [thread EXCEPT ![c] = NoToken]
  /\ lock' = Nobody
  /\ UNCHANGED <<now, issued, until, queue, got>>

\* The client goes away: whatever c's thread brings is dropped.
Cancel(c) ==
  /\ pc[c] \in {"lock", "fetch"}
  /\ pc' = [pc EXCEPT ![c] = "cancelled"]
  /\ queue' = queue \ {c}
  /\ thread' = [thread EXCEPT ![c] = NoToken]
  /\ lock' = IF lock = c THEN Nobody ELSE lock
  /\ UNCHANGED <<now, issued, until, got>>

\* The clock; a fetched token reaches the event loop within FetchTime.
Tick ==
  /\ now < MaxTime
  /\ \A c \in Callers : thread[c] # NoToken => now - thread[c] < FetchTime
  /\ now' = now + 1
  /\ UNCHANGED <<issued, until, lock, queue, pc, thread, got>>

Next ==
  \/ \E c \in Callers : LookUp(c) \/ Acquire(c) \/ CheckAgain(c) \/ Issue(c)
                        \/ Store(c) \/ FetchFails(c) \/ Cancel(c)
  \/ Tick

Spec == Init /\ [][Next]_vars

\* The event loop runs whoever can run and wakes the waiters of the lock; the
\* metadata request has a time limit, so a fetch brings a token or fails.
Fairness ==
  \A c \in Callers :
    /\ WF_vars(LookUp(c))
    /\ WF_vars(Acquire(c))
    /\ WF_vars(CheckAgain(c))
    /\ WF_vars(Store(c) \/ FetchFails(c))

-----------------------------------------------------------------------------
(* Properties *)

Ended == {"done", "failed", "cancelled"}

\* Types, and who holds the lock where.
TypeOK ==
  /\ now \in 0..MaxTime
  /\ issued \in {NoToken} \cup 0..now /\ until \in 0..(now + TTL)
  /\ lock \in Callers \cup {Nobody} /\ queue \subseteq Callers
  /\ pc \in [Callers -> {"start", "lock", "check", "fetch"} \cup Ended]
  /\ thread \in [Callers -> {NoToken} \cup 0..now]
  /\ got \in [Callers -> {NoToken} \cup 0..now]
  /\ \A c \in Callers : pc[c] \in {"check", "fetch"} <=> lock = c
  /\ \A c \in Callers : c \in queue <=> pc[c] = "lock"
  /\ \A c \in Callers : thread[c] # NoToken => pc[c] = "fetch"

\* Single flight: a cached token is replaced only after its time is over,
\* however many requests missed the cache together.
Replaces == issued' # issued => issued = NoToken \/ now >= until

\* A request is never handed a token the issuer no longer honours, although
\* the cache counts from the answer and the issuer from the issue.
HandsOut == \A c \in Callers : got'[c] # got[c] => now < got'[c] + Life
=============================================================================
