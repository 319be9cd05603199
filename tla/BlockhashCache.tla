---------------------------- MODULE BlockhashCache ----------------------------
(***************************************************************************)
(* chain/blockhash.ts: the blockhash every plan is signed with.  Callers   *)
(* of get share one cached value and join one request per connection; a    *)
(* timer may warm the cache; invalidate() starts a new generation, and the *)
(* trade and launch retries call it to be sure of a blockhash asked for    *)
(* afterwards.  Everything runs on one event loop, but a request crosses   *)
(* three of its turns: the then that stores the value, the finally that    *)
(* leaves the pending map, and the waiters; any other step may fall in     *)
(* between.  A value is abstracted to the connection that was asked and to *)
(* the generation in which it was.                                         *)
(***************************************************************************)
EXTENDS Integers

CONSTANTS
    Caller,         \* code that awaits get
    Connection,     \* RPC connections
    Warmer,         \* handles returned by start
    Request,        \* bound: requests that are alive at a time
    MaxGeneration,  \* bound: calls of invalidate explored
    TTL,            \* ttlMs, in ticks
    None

ASSUME CacheAssumption ==
    /\ MaxGeneration \in Nat /\ TTL \in Nat
    /\ None \notin Connection \cup Request

Generation == 0..MaxGeneration
Value == [from : Connection, asked : Generation]

ASSUME NoValueAssumption == None \notin Value

\* asked: on the network; answered, refused: before its finally.
Phase == {"asked", "answered", "refused", "settled"}

VARIABLES
    current,     \* the cached value and its age, or None
    generation,
    pending,     \* pending[k]: the request callers of k join, or None
    request,     \* request[r]: the promise r
    waiter,      \* waiter[c]: the get of c that awaits a request
    answer,      \* what a get has just returned, or None
    timer        \* timer[w]: the connection w warms, or None

vars == <<current, generation, pending, request, waiter, answer, timer>>

Promise == [value : Value, phase : Phase, failed : BOOLEAN]
\* No promise, or one that nothing refers to any more.
NoPromise == [value |-> None, phase |-> "settled", failed |-> FALSE]
Waiter == [on : Request, connection : Connection, since : Generation]
NoWaiter == [on |-> None, connection |-> None, since |-> 0]
Answer == [value : Value \cup {None}, connection : Connection, since : Generation]

TypeOK ==
    /\ current \in {None} \cup [value : Value, age : 0..TTL]
    /\ generation \in Generation
    /\ pending \in [Connection -> Request \cup {None}]
    /\ request \in [Request -> Promise \cup {NoPromise}]
    /\ waiter \in [Caller -> Waiter \cup {NoWaiter}]
    /\ answer \in Answer \cup {None}
    /\ timer \in [Warmer -> Connection \cup {None}]

Init ==
    /\ current = None
    /\ generation = 0
    /\ pending = [k \in Connection |-> None]
    /\ request = [r \in Request |-> NoPromise]
    /\ waiter = [c \in Caller |-> NoWaiter]
    /\ answer = None
    /\ timer = [w \in Warmer |-> None]

Idle(c) == waiter[c] = NoWaiter

-----------------------------------------------------------------------------
\* Requests.

Unused == {r \in Request : request[r] = NoPromise}
Awaited(r, callers) == \E c \in callers : waiter[c].on = r

\* Slip: refresh returns what the map holds, if anything.
JoinedUnchecked(k) == {pending[k]}

\* The promise a caller of refresh(k) gets: the pending one or a new one.
Joined(k) ==
    IF pending[k] # None THEN {pending[k]}
    ELSE IF Unused = {} THEN {} ELSE {CHOOSE r \in Unused : TRUE}

Refresh(k, r) ==
    /\ pending' = [pending EXCEPT ![k] = r]
    /\ request' = IF pending[k] = r THEN request
                  ELSE [request EXCEPT ![r] =
                          [ value |-> [from |-> k, asked |-> generation],
                            phase |-> "asked", failed |-> FALSE ]]

\* this.current is k's and younger than ttlMs.
FreshFor(k) ==
    IF current = None THEN FALSE
    ELSE current.value.from = k /\ current.age < TTL

Get(c, k) ==
    /\ Idle(c)
    /\ IF FreshFor(k)
       THEN /\ answer' = [ value |-> current.value, connection |-> k,
                          since |-> generation ]
            /\ UNCHANGED <<pending, request, waiter>>
       ELSE \E r \in Joined(k) :
              /\ Refresh(k, r)
              /\ waiter' = [waiter EXCEPT ![c] =
                              [on |-> r, connection |-> k, since |-> generation]]
              /\ answer' = None
    /\ UNCHANGED <<current, generation, timer>>

\* Slip: a late response is stored whatever happened since.
MayStoreAlways(r) == r \in Request

\* The generation is compared when the value arrives.
MayStore(r) == request[r].value.asked = generation

Respond(r) ==
    /\ request[r].phase = "asked"
    /\ request' = [request EXCEPT ![r].phase = "answered"]
    /\ current' = IF MayStore(r) THEN [value |-> request[r].value, age |-> 0]
                  ELSE current
    /\ UNCHANGED <<generation, pending, waiter, timer>>
    /\ answer' = None

Fail(r) ==
    /\ request[r].phase = "asked"
    /\ request' = [request EXCEPT ![r].phase = "refused", ![r].failed = TRUE]
    /\ UNCHANGED <<current, generation, pending, waiter, timer>>
    /\ answer' = None

\* Slip: then instead of finally: a refused request stays in the map.
ForgottenOnSuccess(r) ==
    {k \in Connection : pending[k] = r /\ ~request[r].failed}

\* Only its own entry is removed.
Forgotten(r) == {k \in Connection : pending[k] = r}

Settle(r) ==
    /\ request[r].phase \in {"answered", "refused"}
    /\ request' = [request EXCEPT ![r] =
                     IF Awaited(r, Caller) THEN [@ EXCEPT !.phase = "settled"]
                     ELSE NoPromise]
    /\ pending' = [k \in Connection |->
                     IF k \in Forgotten(r) THEN None ELSE pending[k]]
    /\ UNCHANGED <<current, generation, waiter, timer>>
    /\ answer' = None

\* Slip: the error of a request does not reach those that wait for it.
WokenByValue(c) ==
    IF Idle(c) THEN FALSE
    ELSE request[waiter[c].on].phase = "settled" /\ ~request[waiter[c].on].failed

\* The await of get resumes, with the value or with the error.
Woken(c) == IF Idle(c) THEN FALSE ELSE request[waiter[c].on].phase = "settled"

Return(c) ==
    /\ Woken(c)
    /\ LET r == request[waiter[c].on] IN
       answer' = [ value      |-> IF r.failed THEN None ELSE r.value,
                   connection |-> waiter[c].connection,
                   since      |-> waiter[c].since ]
    /\ request' = [request EXCEPT ![waiter[c].on] =
                     IF Awaited(waiter[c].on, Caller \ {c}) THEN @ ELSE NoPromise]
    /\ waiter' = [waiter EXCEPT ![c] = NoWaiter]
    /\ UNCHANGED <<current, generation, pending, timer>>

-----------------------------------------------------------------------------
\* Warming, invalidation and time.

Warm(k) == \E r \in Joined(k) : Refresh(k, r)

Start(w, k) ==
    /\ timer[w] = None
    /\ Warm(k)
    /\ timer' = [timer EXCEPT ![w] = k]
    /\ UNCHANGED <<current, generation, waiter>>
    /\ answer' = None

Interval(w) ==
    /\ timer[w] # None
    /\ Warm(timer[w])
    /\ UNCHANGED <<current, generation, waiter, timer>>
    /\ answer' = None

Stop(w) ==
    /\ timer[w] # None
    /\ timer' = [timer EXCEPT ![w] = None]
    /\ UNCHANGED <<current, generation, pending, request, waiter>>
    /\ answer' = None

Invalidate ==
    /\ generation < MaxGeneration
    /\ generation' = generation + 1
    /\ current' = None
    /\ pending' = [k \in Connection |-> None]
    /\ UNCHANGED <<request, waiter, timer>>
    /\ answer' = None

Tick ==
    /\ IF current = None THEN FALSE ELSE current.age < TTL
    /\ current' = [current EXCEPT !.age = @ + 1]
    /\ UNCHANGED <<generation, pending, request, waiter, timer>>
    /\ answer' = None

Next ==
    \/ \E c \in Caller : Return(c) \/ \E k \in Connection : Get(c, k)
    \/ \E r \in Request : Respond(r) \/ Fail(r) \/ Settle(r)
    \/ \E w \in Warmer : Interval(w) \/ Stop(w) \/ \E k \in Connection : Start(w, k)
    \/ Invalidate
    \/ Tick

Spec == Init /\ [][Next]_vars

\* The event loop runs every turn it has queued.  Nothing is assumed of the
\* network: chain/connection.ts sets no timeout of its own, so a request may
\* wait for the gate or for its answer for ever.
Fairness ==
    /\ \A r \in Request : WF_vars(Settle(r))
    /\ \A c \in Caller : WF_vars(Return(c))

FairSpec == Spec /\ Fairness

-----------------------------------------------------------------------------
\* Properties.

\* A get that begins after invalidate() never returns a blockhash that was
\* asked for before it, from the cache or by joining: the new attempt of a
\* trade (core/solard.ts:2988) is signed with a later blockhash than the one
\* whose expiry was just established.
NotBeforeInvalidate ==
    IF answer = None THEN TRUE
    ELSE answer.value # None => answer.value.asked >= answer.since

\* A caller gets a value of the connection it asked: a blockhash of another
\* cluster would never be valid for its transaction.
OwnConnection ==
    IF answer = None THEN TRUE
    ELSE answer.value # None => answer.value.from = answer.connection

\* Requests of one generation are coalesced: the cache never has two of them
\* open on one connection, however gets, timers, answers and invalidations
\* interleave.
Coalesced ==
    \A r, s \in Request :
        /\ request[r].phase = "asked" /\ request[s].phase = "asked"
        /\ request[r].value.asked = generation
        /\ request[s].value = request[r].value
        => r = s

\* No later caller can join a request that is over: one refused request does
\* not answer the gets to come with its error.
PendingIsOpen ==
    \A k \in Connection :
        IF pending[k] = None THEN TRUE
        ELSE /\ request[pending[k]].phase # "settled"
             /\ request[pending[k]].value = [from |-> k, asked |-> generation]

\* The request a get awaits has been answered or refused.
RequestOver(c) ==
    IF Idle(c) THEN FALSE ELSE request[waiter[c].on].phase # "asked"

\* A get whose request is over returns: with a value or with the error, whoever
\* began the request, and also when an invalidation has orphaned it and other
\* gets have begun a new one.  It waits for the network and for nothing else.
GetReturns == \A c \in Caller : RequestOver(c) ~> Idle(c)

=============================================================================
