------------------------ MODULE BlockhashCacheProofs ------------------------
(***************************************************************************)
(* The safety properties of BlockhashCache, for every number of callers,   *)
(* connections, warmers, requests and invalidations.                       *)
(***************************************************************************)
EXTENDS BlockhashCache, TLAPS

\* What makes them inductive: the cache and the pending map only hold what
\* this generation asked for, and an open request of this generation is in
\* the map; a waiter's request is its connection's and not older than it.
CurrentInv ==
    current # None => current.value.asked = generation

OpenInv ==
    \A r \in Request :
        request[r] # NoPromise =>
          /\ request[r].value \in Value
          /\ request[r].value.asked <= generation
          /\ request[r].phase # "settled"
             /\ request[r].value.asked = generation
               => pending[request[r].value.from] = r

PendingInv ==
    \A k \in Connection :
        pending[k] # None =>
          /\ request[pending[k]] # NoPromise
          /\ request[pending[k]].phase # "settled"
          /\ request[pending[k]].value = [from |-> k, asked |-> generation]

WaiterInv ==
    \A c \in Caller :
        waiter[c] # NoWaiter =>
          /\ request[waiter[c].on] # NoPromise
          /\ request[waiter[c].on].value.from = waiter[c].connection
          /\ request[waiter[c].on].value.asked >= waiter[c].since

AnswerInv ==
    answer # None =>
      (answer.value # None =>
         /\ answer.value.from = answer.connection
         /\ answer.value.asked >= answer.since)

Inv == TypeOK /\ CurrentInv /\ OpenInv /\ PendingInv /\ WaiterInv /\ AnswerInv

-----------------------------------------------------------------------------

\* The request a caller of refresh joins is the pending one or an unused one.
LEMMA JoinedRequest ==
    ASSUME TypeOK, NEW k \in Connection, NEW r \in Joined(k)
    PROVE  /\ r \in Request
           /\ \/ pending[k] # None /\ r = pending[k]
              \/ pending[k] = None /\ request[r] = NoPromise
<1>1. CASE pending[k] # None
  BY <1>1 DEF Joined, TypeOK
<1>2. CASE pending[k] = None
  <2>1. Unused # {} /\ r = (CHOOSE q \in Unused : TRUE)
    BY <1>2 DEF Joined
  <2>2. r \in Unused
    BY <2>1
  <2> QED
    BY <1>2, <2>2 DEF Unused
<1> QED
  BY <1>1, <1>2

\* Joining keeps what the invariant says of requests, map and waiters, and
\* the joined request is this generation's.
LEMMA RefreshInv ==
    ASSUME Inv, NEW k \in Connection, NEW r \in Joined(k), Refresh(k, r),
           UNCHANGED generation
    PROVE  /\ pending' \in [Connection -> Request \cup {None}]
           /\ request' \in [Request -> Promise \cup {NoPromise}]
           /\ OpenInv' /\ PendingInv'
           /\ request'[r] # NoPromise
           /\ request'[r].value = [from |-> k, asked |-> generation]
           /\ \A q \in Request : request[q] # NoPromise => request'[q] = request[q]
<1> USE CacheAssumption, NoValueAssumption
<1>1. /\ r \in Request
      /\ \/ pending[k] # None /\ r = pending[k]
         \/ pending[k] = None /\ request[r] = NoPromise
  BY JoinedRequest DEF Inv
<1>2. CASE pending[k] # None /\ r = pending[k]
  <2>1. request' = request /\ pending' = pending
    BY <1>2 DEF Refresh, Inv, TypeOK
  <2> QED
    BY <1>1, <1>2, <2>1 DEF Inv, TypeOK, OpenInv, PendingInv
<1>3. CASE pending[k] = None /\ request[r] = NoPromise
  <2> DEFINE new == [ value |-> [from |-> k, asked |-> generation],
                      phase |-> "asked", failed |-> FALSE ]
  <2>1. /\ new \in Promise /\ new # NoPromise
        /\ new.value = [from |-> k, asked |-> generation]
        /\ new.phase = "asked" /\ new.value \in Value
        /\ generation \in Nat
    BY DEF Inv, TypeOK, Promise, NoPromise, Phase, Value, Generation
  <2>2. /\ request' = [request EXCEPT ![r] = new]
        /\ pending' = [pending EXCEPT ![k] = r]
    BY <1>1, <1>3 DEF Refresh
  <2> HIDE DEF new
  <2>3. request \in [Request -> Promise \cup {NoPromise}]
        /\ pending \in [Connection -> Request \cup {None}]
    BY DEF Inv, TypeOK
  <2>4. request'[r] = new
        /\ \A q \in Request : q # r => request'[q] = request[q]
    BY <1>1, <2>2, <2>3
  <2>5. pending'[k] = r
        /\ \A j \in Connection : j # k => pending'[j] = pending[j]
    BY <2>2, <2>3
  <2>6. /\ pending' \in [Connection -> Request \cup {None}]
        /\ request' \in [Request -> Promise \cup {NoPromise}]
    BY <1>1, <2>1, <2>2, <2>3
  <2>7. OpenInv'
    <3> SUFFICES ASSUME NEW q \in Request, request'[q] # NoPromise
                 PROVE  /\ request'[q].value \in Value
                        /\ request'[q].value.asked <= generation
                        /\ request'[q].phase # "settled"
                           /\ request'[q].value.asked = generation
                             => pending'[request'[q].value.from] = q
      BY DEF OpenInv
    <3>1. CASE q = r
      BY <3>1, <2>1, <2>4, <2>5
    <3>2. CASE q # r
      <4>1. /\ request[q].value \in Value
            /\ request[q].value.asked <= generation
            /\ request[q].phase # "settled" /\ request[q].value.asked = generation
                 => pending[request[q].value.from] = q
        BY <3>2, <2>4 DEF Inv, OpenInv
      <4>2. request[q].value.from \in Connection
        BY <4>1 DEF Value
      <4>3. q # None
        BY DEF Inv
      <4> QED
        BY <3>2, <2>4, <2>5, <1>3, <4>1, <4>2, <4>3
    <3> QED
      BY <3>1, <3>2
  <2>8. PendingInv'
    <3> SUFFICES ASSUME NEW j \in Connection, pending'[j] # None
                 PROVE  /\ request'[pending'[j]] # NoPromise
                        /\ request'[pending'[j]].phase # "settled"
                        /\ request'[pending'[j]].value
                             = [from |-> j, asked |-> generation]
      BY DEF PendingInv
    <3>1. CASE j = k
      BY <3>1, <2>1, <2>4, <2>5
    <3>2. CASE j # k
      <4>1. pending[j] # None /\ pending[j] \in Request /\ pending'[j] = pending[j]
        BY <3>2, <2>5, <2>3
      <4>2. /\ request[pending[j]] # NoPromise
            /\ request[pending[j]].phase # "settled"
            /\ request[pending[j]].value = [from |-> j, asked |-> generation]
        BY <4>1 DEF Inv, PendingInv
      <4>3. request'[pending[j]] = request[pending[j]]
        BY <4>1, <4>2, <1>3, <2>4
      <4> QED
        BY <4>1, <4>2, <4>3
    <3> QED
      BY <3>1, <3>2
  <2> QED
    BY <1>3, <2>1, <2>4, <2>6, <2>7, <2>8
<1> QED
  BY <1>1, <1>2, <1>3

-----------------------------------------------------------------------------

LEMMA InitInv == Init => Inv
<1> SUFFICES ASSUME Init PROVE Inv
  OBVIOUS
<1> USE CacheAssumption, NoValueAssumption DEF Init
<1>1. TypeOK
  BY DEF TypeOK, Generation
<1>2. CurrentInv /\ OpenInv /\ PendingInv /\ WaiterInv /\ AnswerInv
  BY DEF CurrentInv, OpenInv, PendingInv, WaiterInv, AnswerInv
<1> QED
  BY <1>1, <1>2 DEF Inv

\* A get returns the cached value or joins a request of this generation.
LEMMA GetInv ==
    ASSUME Inv, NEW c \in Caller, NEW k \in Connection, Get(c, k)
    PROVE  Inv'
<1> USE CacheAssumption, NoValueAssumption
<1>1. CASE FreshFor(k)
  <2>1. /\ answer' = [ value |-> current.value, connection |-> k,
                       since |-> generation ]
        /\ UNCHANGED <<current, generation, pending, request, waiter, timer>>
    BY <1>1 DEF Get
  <2>2. /\ current # None /\ current.value.from = k
        /\ current.value.asked = generation /\ current.value \in Value
        /\ generation \in Nat
    BY <1>1 DEF FreshFor, Inv, CurrentInv, TypeOK, Generation
  <2>3. TypeOK'
    BY <2>1, <2>2 DEF Inv, TypeOK, Answer
  <2>4. CurrentInv' /\ OpenInv' /\ PendingInv' /\ WaiterInv'
    BY <2>1 DEF Inv, CurrentInv, OpenInv, PendingInv, WaiterInv
  <2>5. AnswerInv'
    BY <2>1, <2>2 DEF AnswerInv
  <2> QED
    BY <2>3, <2>4, <2>5 DEF Inv
<1>2. CASE ~FreshFor(k)
  <2>1. PICK r \in Joined(k) :
          /\ Refresh(k, r)
          /\ waiter' = [waiter EXCEPT ![c] =
                          [on |-> r, connection |-> k, since |-> generation]]
          /\ answer' = None
    BY <1>2 DEF Get
  <2>2. Idle(c) /\ UNCHANGED <<current, generation, timer>>
    BY DEF Get
  <2>3. r \in Request
    BY JoinedRequest DEF Inv
  <2>4. /\ pending' \in [Connection -> Request \cup {None}]
        /\ request' \in [Request -> Promise \cup {NoPromise}]
        /\ OpenInv' /\ PendingInv'
        /\ request'[r] # NoPromise
        /\ request'[r].value = [from |-> k, asked |-> generation]
        /\ \A q \in Request : request[q] # NoPromise => request'[q] = request[q]
    BY <2>1, <2>2, RefreshInv
  <2>5. waiter' \in [Caller -> Waiter \cup {NoWaiter}]
    BY <2>1, <2>3 DEF Inv, TypeOK, Waiter
  <2>6. TypeOK'
    BY <2>1, <2>2, <2>4, <2>5 DEF Inv, TypeOK
  <2>7. WaiterInv'
    <3> SUFFICES ASSUME NEW d \in Caller, waiter'[d] # NoWaiter
                 PROVE  /\ request'[waiter'[d].on] # NoPromise
                        /\ request'[waiter'[d].on].value.from = waiter'[d].connection
                        /\ request'[waiter'[d].on].value.asked >= waiter'[d].since
      BY DEF WaiterInv
    <3>1. CASE d = c
      <4>1. waiter'[d] = [on |-> r, connection |-> k, since |-> generation]
        BY <3>1, <2>1 DEF Inv, TypeOK
      <4>2. generation \in Nat
        BY DEF Inv, TypeOK, Generation
      <4> QED
        BY <4>1, <4>2, <2>4
    <3>2. CASE d # c
      <4>1. waiter'[d] = waiter[d] /\ waiter[d] \in Waiter
        BY <3>2, <2>1 DEF Inv, TypeOK
      <4>2. waiter[d].on \in Request
        BY <4>1 DEF Waiter
      <4> QED
        BY <4>1, <4>2, <2>4 DEF Inv, WaiterInv
    <3> QED
      BY <3>1, <3>2
  <2>8. CurrentInv' /\ AnswerInv'
    BY <2>1, <2>2 DEF Inv, CurrentInv, AnswerInv
  <2> QED
    BY <2>4, <2>6, <2>7, <2>8 DEF Inv
<1> QED
  BY <1>1, <1>2

\* Starting a timer and its ticks refresh for nobody.
LEMMA WarmInv ==
    ASSUME Inv, NEW k \in Connection, Warm(k),
           timer' \in [Warmer -> Connection \cup {None}],
           UNCHANGED <<current, generation, waiter>>, answer' = None
    PROVE  Inv'
<1> USE CacheAssumption, NoValueAssumption
<1>1. PICK r \in Joined(k) : Refresh(k, r)
  BY DEF Warm
<1>2. /\ pending' \in [Connection -> Request \cup {None}]
      /\ request' \in [Request -> Promise \cup {NoPromise}]
      /\ OpenInv' /\ PendingInv'
      /\ \A q \in Request : request[q] # NoPromise => request'[q] = request[q]
  BY <1>1, RefreshInv
<1>3. TypeOK'
  BY <1>2 DEF Inv, TypeOK
<1>4. WaiterInv'
  BY <1>2 DEF Inv, TypeOK, WaiterInv, Waiter
<1>5. CurrentInv' /\ AnswerInv'
  BY DEF Inv, CurrentInv, AnswerInv
<1> QED
  BY <1>2, <1>3, <1>4, <1>5 DEF Inv

\* A response, a failure, the finally: the request keeps its value while
\* anybody awaits it.
LEMMA RequestInv ==
    ASSUME Inv, NEW r \in Request, Respond(r) \/ Fail(r) \/ Settle(r)
    PROVE  Inv'
<1> USE CacheAssumption, NoValueAssumption
<1>1. /\ request[r] \in Promise /\ request[r] # NoPromise
      /\ request[r].phase # "settled"
      /\ request \in [Request -> Promise \cup {NoPromise}]
  <2>1. request[r].phase # "settled"
    BY DEF Respond, Fail, Settle
  <2> QED
    BY <2>1 DEF Inv, TypeOK, NoPromise
<1>2. /\ answer' = None /\ generation' = generation
      /\ waiter' = waiter /\ timer' = timer
  BY DEF Respond, Fail, Settle
<1>3. CASE Respond(r) \/ Fail(r)
  <2>1. PICK p \in Promise :
          /\ request' = [request EXCEPT ![r] = p]
          /\ p.value = request[r].value
          /\ p.phase # "settled"
    <3>1. CASE Respond(r)
      <4> DEFINE p == [request[r] EXCEPT !.phase = "answered"]
      <4>1. p \in Promise /\ p.value = request[r].value /\ p.phase = "answered"
        BY <1>1 DEF Promise, Phase
      <4>2. request' = [request EXCEPT ![r] = p]
        BY <3>1, <1>1 DEF Respond
      <4> QED
        BY <4>1, <4>2
    <3>2. CASE Fail(r)
      <4> DEFINE p == [request[r] EXCEPT !.phase = "refused", !.failed = TRUE]
      <4>1. p \in Promise /\ p.value = request[r].value /\ p.phase = "refused"
        BY <1>1 DEF Promise, Phase
      <4>2. request' = [request EXCEPT ![r] = p]
        BY <3>2, <1>1 DEF Fail
      <4> QED
        BY <4>1, <4>2
    <3> QED
      BY <1>3, <3>1, <3>2
  <2>2. p # NoPromise
    BY <1>1, <2>1 DEF NoPromise
  <2>3. /\ request'[r] = p
        /\ \A q \in Request : q # r => request'[q] = request[q]
    BY <2>1, <1>1
  <2>4. pending' = pending
    BY <1>3 DEF Respond, Fail
  <2>5. /\ current' \in {None} \cup [value : Value, age : 0..TTL]
        /\ CurrentInv'
    <3>1. CASE current' = current
      BY <3>1, <1>2 DEF Inv, TypeOK, CurrentInv
    <3>2. CASE MayStore(r) /\ current' = [value |-> request[r].value, age |-> 0]
      <4>1. request[r].value \in Value /\ request[r].value.asked = generation
        BY <3>2, <1>1 DEF MayStore, Promise
      <4> QED
        BY <3>2, <4>1, <1>2 DEF CurrentInv
    <3> QED
      BY <1>3, <3>1, <3>2 DEF Respond, Fail
  <2>6. TypeOK'
    <3>1. request' \in [Request -> Promise \cup {NoPromise}]
      BY <2>1, <1>1
    <3> QED
      BY <3>1, <2>4, <2>5, <1>2 DEF Inv, TypeOK
  <2>7. OpenInv'
    BY <2>1, <2>3, <2>4, <1>1, <1>2 DEF Inv, OpenInv
  <2>8. PendingInv'
    BY <2>1, <2>2, <2>3, <2>4, <1>1, <1>2 DEF Inv, TypeOK, PendingInv
  <2>9. WaiterInv'
    <3> SUFFICES ASSUME NEW d \in Caller, waiter'[d] # NoWaiter
                 PROVE  /\ request'[waiter'[d].on] # NoPromise
                        /\ request'[waiter'[d].on].value.from = waiter'[d].connection
                        /\ request'[waiter'[d].on].value.asked >= waiter'[d].since
      BY DEF WaiterInv
    <3>1. waiter[d].on \in Request /\ waiter'[d] = waiter[d]
      BY <1>2 DEF Inv, TypeOK, Waiter
    <3> QED
      BY <3>1, <2>1, <2>2, <2>3 DEF Inv, WaiterInv
  <2> QED
    BY <2>5, <2>6, <2>7, <2>8, <2>9, <1>2 DEF Inv, AnswerInv
<1>4. CASE Settle(r)
  <2>1. /\ request' = [request EXCEPT ![r] =
                         IF Awaited(r, Caller) THEN [@ EXCEPT !.phase = "settled"]
                         ELSE NoPromise]
        /\ pending' = [k \in Connection |->
                         IF k \in Forgotten(r) THEN None ELSE pending[k]]
        /\ current' = current
    BY <1>4 DEF Settle
  <2>2. /\ request'[r] = IF Awaited(r, Caller)
                         THEN [request[r] EXCEPT !.phase = "settled"]
                         ELSE NoPromise
        /\ \A q \in Request : q # r => request'[q] = request[q]
    BY <2>1, <1>1
  <2>3. [request[r] EXCEPT !.phase = "settled"] \in Promise
    BY <1>1 DEF Promise, Phase
  <2>4. request' \in [Request -> Promise \cup {NoPromise}]
    BY <2>1, <2>3, <1>1
  <2>5. /\ pending' \in [Connection -> Request \cup {None}]
        /\ \A k \in Connection : /\ pending'[k] # r
                                 /\ pending[k] # r => pending'[k] = pending[k]
                                 /\ pending'[k] # None => pending'[k] = pending[k]
    BY <2>1 DEF Inv, TypeOK, Forgotten
  <2>6. TypeOK'
    BY <2>1, <2>4, <2>5, <1>2 DEF Inv, TypeOK
  <2>7. OpenInv'
    <3> SUFFICES ASSUME NEW q \in Request, request'[q] # NoPromise
                 PROVE  /\ request'[q].value \in Value
                        /\ request'[q].value.asked <= generation
                        /\ request'[q].phase # "settled"
                           /\ request'[q].value.asked = generation
                             => pending'[request'[q].value.from] = q
      BY <1>2 DEF OpenInv
    <3>1. CASE q = r
      <4>1. request'[r] = [request[r] EXCEPT !.phase = "settled"]
        BY <3>1, <2>2
      <4>2. request'[r].value = request[r].value /\ request'[r].phase = "settled"
        BY <4>1, <1>1 DEF Promise
      <4> QED
        BY <3>1, <4>2, <1>1 DEF Inv, OpenInv
    <3>2. CASE q # r
      <4>1. request'[q] = request[q]
        BY <3>2, <2>2
      <4>2. /\ request[q].value \in Value
            /\ request[q].value.asked <= generation
            /\ request[q].phase # "settled" /\ request[q].value.asked = generation
                 => pending[request[q].value.from] = q
        BY <4>1 DEF Inv, OpenInv
      <4>3. request[q].value.from \in Connection
        BY <4>2 DEF Value
      <4> QED
        BY <3>2, <4>1, <4>2, <4>3, <2>5
    <3> QED
      BY <3>1, <3>2
  <2>8. PendingInv'
    <3> SUFFICES ASSUME NEW k \in Connection, pending'[k] # None
                 PROVE  /\ request'[pending'[k]] # NoPromise
                        /\ request'[pending'[k]].phase # "settled"
                        /\ request'[pending'[k]].value
                             = [from |-> k, asked |-> generation]
      BY <1>2 DEF PendingInv
    <3>1. pending'[k] = pending[k] /\ pending[k] # r /\ pending[k] \in Request
      BY <2>5 DEF Inv, TypeOK
    <3> QED
      BY <3>1, <2>2 DEF Inv, PendingInv
  <2>9. WaiterInv'
    <3> SUFFICES ASSUME NEW d \in Caller, waiter'[d] # NoWaiter
                 PROVE  /\ request'[waiter'[d].on] # NoPromise
                        /\ request'[waiter'[d].on].value.from = waiter'[d].connection
                        /\ request'[waiter'[d].on].value.asked >= waiter'[d].since
      BY DEF WaiterInv
    <3>1. waiter[d].on \in Request /\ waiter'[d] = waiter[d]
      BY <1>2 DEF Inv, TypeOK, Waiter
    <3>2. CASE waiter[d].on # r
      BY <3>1, <3>2, <2>2 DEF Inv, WaiterInv
    <3>3. CASE waiter[d].on = r
      <4>1. request'[r] = [request[r] EXCEPT !.phase = "settled"]
        BY <3>3, <2>2 DEF Awaited
      <4>2. request'[r].value = request[r].value /\ request'[r] # NoPromise
        <5>1. request[r].value \in Value
          BY <1>1 DEF Promise
        <5> QED
          BY <4>1, <5>1, <1>1 DEF Promise, NoPromise
      <4> QED
        BY <3>1, <3>3, <4>2 DEF Inv, WaiterInv
    <3> QED
      BY <3>2, <3>3
  <2> QED
    BY <2>1, <2>6, <2>7, <2>8, <2>9, <1>2 DEF Inv, CurrentInv, AnswerInv
<1> QED
  BY <1>3, <1>4

\* A waiter resumes with its request's outcome, which nobody else lost.
LEMMA ReturnInv ==
    ASSUME Inv, NEW c \in Caller, Return(c)
    PROVE  Inv'
<1> USE CacheAssumption, NoValueAssumption
<1> DEFINE r == waiter[c].on
<1>1. /\ waiter[c] # NoWaiter /\ waiter[c] \in Waiter
      /\ r \in Request /\ request[r].phase = "settled"
  BY DEF Return, Woken, Idle, Inv, TypeOK, Waiter
<1>2. /\ request[r] \in Promise /\ request[r] # NoPromise
      /\ request[r].value \in Value
      /\ request[r].value.from = waiter[c].connection
      /\ request[r].value.asked >= waiter[c].since
  BY <1>1 DEF Inv, TypeOK, WaiterInv, OpenInv
<1>3. /\ answer' = [ value      |-> IF request[r].failed THEN None
                                    ELSE request[r].value,
                     connection |-> waiter[c].connection,
                     since      |-> waiter[c].since ]
      /\ request' = [request EXCEPT ![r] =
                        IF Awaited(r, Caller \ {c}) THEN @ ELSE NoPromise]
      /\ waiter' = [waiter EXCEPT ![c] = NoWaiter]
      /\ UNCHANGED <<current, generation, pending, timer>>
  BY DEF Return
<1> HIDE DEF r
<1>4. /\ request'[r] = IF Awaited(r, Caller \ {c}) THEN request[r] ELSE NoPromise
      /\ \A q \in Request : q # r => request'[q] = request[q]
  BY <1>1, <1>3 DEF Inv, TypeOK
<1>5. TypeOK'
  <2>1. request' \in [Request -> Promise \cup {NoPromise}]
    BY <1>1, <1>2, <1>3 DEF Inv, TypeOK
  <2>2. waiter' \in [Caller -> Waiter \cup {NoWaiter}]
    BY <1>3 DEF Inv, TypeOK
  <2>3. answer' \in Answer
    BY <1>1, <1>2, <1>3 DEF Answer, Waiter
  <2> QED
    BY <2>1, <2>2, <2>3, <1>3 DEF Inv, TypeOK
<1>6. OpenInv'
  BY <1>3, <1>4 DEF Inv, OpenInv
<1>7. PendingInv'
  <2>1. \A k \in Connection : pending[k] # None =>
            pending[k] # r /\ pending[k] \in Request
    BY <1>1 DEF Inv, TypeOK, PendingInv
  <2> QED
    BY <2>1, <1>3, <1>4 DEF Inv, PendingInv
<1>8. WaiterInv'
  <2> SUFFICES ASSUME NEW d \in Caller, waiter'[d] # NoWaiter
               PROVE  /\ request'[waiter'[d].on] # NoPromise
                      /\ request'[waiter'[d].on].value.from = waiter'[d].connection
                      /\ request'[waiter'[d].on].value.asked >= waiter'[d].since
    BY DEF WaiterInv
  <2>1. d # c /\ waiter'[d] = waiter[d]
    BY <1>3 DEF Inv, TypeOK
  <2>2. waiter[d].on \in Request
    BY <2>1 DEF Inv, TypeOK, Waiter
  <2>3. waiter[d].on = r => Awaited(r, Caller \ {c})
    BY <2>1 DEF Awaited
  <2>4. request'[waiter[d].on] = request[waiter[d].on]
    BY <2>2, <2>3, <1>4
  <2> QED
    BY <2>1, <2>4 DEF Inv, WaiterInv
<1>9. CurrentInv' /\ AnswerInv'
  BY <1>2, <1>3 DEF Inv, CurrentInv, AnswerInv
<1> QED
  BY <1>5, <1>6, <1>7, <1>8, <1>9 DEF Inv

\* After invalidate nothing of the old generation is cached or joinable, so
\* the requests under way are no longer of this generation.
LEMMA InvalidateInv ==
    ASSUME Inv, Invalidate
    PROVE  Inv'
<1> USE CacheAssumption, NoValueAssumption
<1>1. /\ generation' = generation + 1 /\ generation' \in Generation
      /\ generation \in Nat
      /\ current' = None /\ answer' = None
      /\ pending' = [k \in Connection |-> None]
      /\ UNCHANGED <<request, waiter, timer>>
  BY DEF Invalidate, Inv, TypeOK, Generation
<1>2. TypeOK'
  BY <1>1 DEF Inv, TypeOK
<1>3. OpenInv'
  BY <1>1 DEF Inv, OpenInv, Value, Generation
<1>4. PendingInv' /\ WaiterInv' /\ CurrentInv' /\ AnswerInv'
  BY <1>1 DEF Inv, PendingInv, WaiterInv, CurrentInv, AnswerInv
<1> QED
  BY <1>2, <1>3, <1>4 DEF Inv

\* Time only ages the cached value.
LEMMA TickInv ==
    ASSUME Inv, Tick
    PROVE  Inv'
<1> USE CacheAssumption, NoValueAssumption
<1>1. /\ current # None /\ current.age < TTL
      /\ current' = [current EXCEPT !.age = @ + 1] /\ answer' = None
      /\ UNCHANGED <<generation, pending, request, waiter, timer>>
  BY DEF Tick
<1>2. /\ current' \in [value : Value, age : 0..TTL]
      /\ current'.value = current.value
  BY <1>1 DEF Inv, TypeOK
<1>3. TypeOK'
  BY <1>1, <1>2 DEF Inv, TypeOK
<1>4. OpenInv' /\ PendingInv' /\ WaiterInv' /\ CurrentInv' /\ AnswerInv'
  BY <1>1, <1>2 DEF Inv, OpenInv, PendingInv, WaiterInv, CurrentInv, AnswerInv
<1> QED
  BY <1>3, <1>4 DEF Inv

LEMMA StepInv == Inv /\ [Next]_vars => Inv'
<1> SUFFICES ASSUME Inv, [Next]_vars PROVE Inv'
  OBVIOUS
<1> USE CacheAssumption, NoValueAssumption
<1>1. ASSUME NEW c \in Caller, Return(c) PROVE Inv'
  BY <1>1, ReturnInv
<1>2. ASSUME NEW c \in Caller, NEW k \in Connection, Get(c, k) PROVE Inv'
  BY <1>2, GetInv
<1>3. ASSUME NEW r \in Request, Respond(r) \/ Fail(r) \/ Settle(r) PROVE Inv'
  BY <1>3, RequestInv
<1>4. ASSUME NEW w \in Warmer, Interval(w) PROVE Inv'
  <2>1. timer[w] \in Connection
    BY <1>4 DEF Interval, Inv, TypeOK
  <2>2. timer' \in [Warmer -> Connection \cup {None}]
    BY <1>4 DEF Interval, Inv, TypeOK
  <2> QED
    BY <1>4, <2>1, <2>2, WarmInv DEF Interval
<1>5. ASSUME NEW w \in Warmer, Stop(w) PROVE Inv'
  BY <1>5 DEF Stop, Inv, TypeOK, CurrentInv, OpenInv, PendingInv, WaiterInv, AnswerInv
<1>6. ASSUME NEW w \in Warmer, NEW k \in Connection, Start(w, k) PROVE Inv'
  <2>1. timer' \in [Warmer -> Connection \cup {None}]
    BY <1>6 DEF Start, Inv, TypeOK
  <2> QED
    BY <1>6, <2>1, WarmInv DEF Start
<1>7. CASE Invalidate
  BY <1>7, InvalidateInv
<1>8. CASE Tick
  BY <1>8, TickInv
<1>9. CASE UNCHANGED vars
  BY <1>9 DEF vars, Inv, TypeOK, CurrentInv, OpenInv, PendingInv, WaiterInv, AnswerInv
<1> QED
  BY <1>1, <1>2, <1>3, <1>4, <1>5, <1>6, <1>7, <1>8, <1>9 DEF Next

\* The inductive invariant holds, from which the theorems below follow.
THEOREM InvAlways == Spec => []Inv
<1>1. Init => Inv
  BY InitInv
<1>2. Inv /\ [Next]_vars => Inv'
  BY StepInv
<1> QED
  BY <1>1, <1>2, PTL DEF Spec

-----------------------------------------------------------------------------

\* The variables of the cache keep their types.
THEOREM TypeCorrect == Spec => []TypeOK
<1>1. Inv => TypeOK
  BY DEF Inv
<1> QED
  BY <1>1, InvAlways, PTL

\* No get returns a blockhash that was asked for before the last
\* invalidate() it knows of.
THEOREM NeverBeforeInvalidate == Spec => []NotBeforeInvalidate
<1>1. Inv => NotBeforeInvalidate
  BY DEF Inv, AnswerInv, NotBeforeInvalidate
<1> QED
  BY <1>1, InvAlways, PTL

\* Every get returns a blockhash of its own connection.
THEOREM AlwaysOwnConnection == Spec => []OwnConnection
<1>1. Inv => OwnConnection
  BY DEF Inv, AnswerInv, OwnConnection
<1> QED
  BY <1>1, InvAlways, PTL

\* Two open requests of one connection and generation are one: both would
\* be the entry of the pending map.
THEOREM AlwaysCoalesced == Spec => []Coalesced
<1>1. Inv => Coalesced
  <2> SUFFICES ASSUME Inv, NEW r \in Request, NEW s \in Request,
                      request[r].phase = "asked", request[s].phase = "asked",
                      request[r].value.asked = generation,
                      request[s].value = request[r].value
               PROVE  r = s
    BY DEF Coalesced
  <2>1. request[r] # NoPromise /\ request[s] # NoPromise
    BY DEF NoPromise
  <2>2. /\ pending[request[r].value.from] = r
        /\ pending[request[s].value.from] = s
    BY <2>1 DEF Inv, OpenInv
  <2> QED
    BY <2>2
<1> QED
  BY <1>1, InvAlways, PTL

\* The pending map never holds a request that is over.
THEOREM PendingAlwaysOpen == Spec => []PendingIsOpen
<1>1. Inv => PendingIsOpen
  BY DEF Inv, PendingInv, PendingIsOpen
<1> QED
  BY <1>1, InvAlways, PTL

=============================================================================
