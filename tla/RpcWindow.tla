------------------------------ MODULE RpcWindow ------------------------------
(***************************************************************************)
(* chain/shared-rpc-window.ts under the transport of chain/connection.ts:  *)
(* every JSON-RPC request of every process that shares SLRD_RPC_GATE_DB    *)
(* reserves its place in a sliding window before it starts.  A batch is    *)
(* split into chunks that fit the window, each chunk is fetched and        *)
(* retried, and each attempt reserves anew.                                *)
(*                                                                         *)
(* reserve() reads the clock when it is called and only then waits for     *)
(* SQLite's write lock, so what it inserts may be stamped up to LockWait   *)
(* in the past.  Times are counted back from the present: the age of a row *)
(* is the time since its stamp, and the lag of a caller is the time since  *)
(* it read the clock.  The rows of one stamp count and go together, so the *)
(* table is what they add up to at each age.                               *)
(***************************************************************************)
EXTENDS Integers, Sequences

CONSTANTS
    Client,        \* concurrent callers of solardRpcFetch, in any process
    MaxRequests, WindowMs,    \* SLRD_RPC_MAX_REQUESTS, SLRD_RPC_WINDOW_MS
    MaxSends, SendWindowMs,   \* SLRD_RPC_MAX_SENDS, SLRD_RPC_SEND_WINDOW_MS
    LockWait,      \* busy_timeout; 0 for the window of one process
    Retries,       \* retries of one chunk after a 429 or a network error
    Batch          \* bodies that are fetched: for each request, is it a send?

ASSUME WindowAssumption ==
    {MaxRequests, WindowMs, MaxSends, SendWindowMs} \subseteq Nat \ {0}
ASSUME BoundAssumption == {LockWait, Retries} \subseteq Nat
ASSUME BatchAssumption == Batch \subseteq Seq(BOOLEAN) \ {<<>>}

Longest == IF WindowMs > SendWindowMs THEN WindowMs ELSE SendWindowMs

\* After this age no caller can tell a row from a deleted one.
MaxAge == Longest + LockWait

Cost == [requests : Nat \ {0}, sends : Nat]

\* What the reservations of one stamp add up to.
Load == [requests : Nat, sends : Nat]
NoLoad == [requests |-> 0, sends |-> 0]

\* gate: between two reservations; lock: in reserve(); fetch: on the network.
Caller == [ pc : {"idle", "gate", "lock", "fetch"}, chunks : Seq(Cost),
            lag : 0..LockWait, retries : 0..Retries ]
Idle == [pc |-> "idle", chunks |-> <<>>, lag |-> 0, retries |-> 0]

\* What a refused client was told: how long it still sleeps, how late it was
\* when it asked, and (history) that nothing was reserved since.
Told == [sleep : 0..MaxAge, lag : 0..LockWait, calm : BOOLEAN]
NotTold == [sleep |-> 0, lag |-> 0, calm |-> FALSE]

VARIABLES
    rows,     \* the table: rows[a] are the reservations stamped a ago
    client,
    told,
    starts    \* history: starts[d] is what really started d ago

vars == <<rows, client, told, starts>>

TypeOK ==
    /\ rows \in [0..(MaxAge - 1) -> Load]
    /\ client \in [Client -> Caller]
    /\ told \in [Client -> Told]
    /\ starts \in [0..(Longest - 1) -> Load]

Init ==
    /\ rows = [a \in 0..(MaxAge - 1) |-> NoLoad]
    /\ client = [c \in Client |-> Idle]
    /\ told = [c \in Client |-> NotTold]
    /\ starts = [d \in 0..(Longest - 1) |-> NoLoad]

-----------------------------------------------------------------------------
\* The window.

\* What is younger than n.
Total(loads, key, n) ==
    LET sum[a \in DOMAIN loads] ==
            loads[a][key] + IF a = 0 THEN 0 ELSE sum[a - 1]
    IN IF n = 0 THEN 0 ELSE sum[n - 1]

\* Slip: the departure of the oldest row is enough for any cost.
WaitForOldest(loads, lag, window, limit, cost, key) ==
    LET oldest == CHOOSE a \in 0..(lag + window - 1) :
                    /\ loads[a][key] > 0
                    /\ \A b \in (a + 1)..(lag + window - 1) : loads[b][key] = 0
    IN IF cost = 0 \/ Total(loads, key, lag + window) + cost <= limit THEN 0
       ELSE lag + window - oldest

\* The rows with row.at > now - windowMs count, now lying lag back.  From the
\* oldest on, the time until the first goes whose departure makes room.
WaitForBudget(loads, lag, window, limit, cost, key) ==
    LET fits(a) == Total(loads, key, a) + cost <= limit
        active == {a \in 0..(lag + window - 1) : loads[a][key] > 0}
        last == CHOOSE a \in active :
                    fits(a) /\ \A b \in active : b > a => ~fits(b)
    IN IF cost = 0 \/ fits(lag + window) THEN 0 ELSE lag + window - last

Wait(loads, lag, cost) ==
    LET forRequests == WaitForBudget(loads, lag, WindowMs, MaxRequests,
                                     cost.requests, "requests")
        forSends == WaitForBudget(loads, lag, SendWindowMs, MaxSends,
                                  cost.sends, "sends")
    IN IF forRequests > forSends THEN forRequests ELSE forSends

\* Slip: the cutoff forgets that the send window may be the longer one.
KeptForRequests(loads, lag) ==
    [a \in DOMAIN loads |-> IF a < lag + WindowMs THEN loads[a] ELSE NoLoad]

\* DELETE ... WHERE at <= cutoff
Kept(loads, lag) ==
    [a \in DOMAIN loads |-> IF a < lag + Longest THEN loads[a] ELSE NoLoad]

Added(load, cost) == [requests |-> load.requests + cost.requests,
                      sends |-> load.sends + cost.sends]

Inserted(loads, lag, cost) == [loads EXCEPT ![lag] = Added(@, cost)]

-----------------------------------------------------------------------------
\* The transport.

\* Slip: the send budget is not looked at when a chunk is filled.
AddToFullChunks(isSend, chunks) ==
    LET last == chunks[Len(chunks)]
        cost == IF isSend THEN 1 ELSE 0
    IN IF chunks = <<>> \/ last.requests >= MaxRequests
       THEN Append(chunks, [requests |-> 1, sends |-> cost])
       ELSE [chunks EXCEPT ![Len(chunks)] =
               [requests |-> last.requests + 1, sends |-> last.sends + cost]]

\* A chunk is closed when it is full or before a send too many.
AddToChunks(isSend, chunks) ==
    LET last == chunks[Len(chunks)]
        cost == IF isSend THEN 1 ELSE 0
        closed == \/ last.requests >= MaxRequests
                  \/ isSend /\ last.sends >= MaxSends
    IN IF chunks = <<>> \/ closed
       THEN Append(chunks, [requests |-> 1, sends |-> cost])
       ELSE [chunks EXCEPT ![Len(chunks)] =
               [requests |-> last.requests + 1, sends |-> last.sends + cost]]

Chunks(batch) ==
    LET chunks[i \in 0..Len(batch)] ==
            IF i = 0 THEN <<>> ELSE AddToChunks(batch[i], chunks[i - 1])
    IN chunks[Len(batch)]

Fetch(c, batch) ==
    /\ client[c].pc = "idle"
    /\ client' = [client EXCEPT ![c] =
                    [Idle EXCEPT !.pc = "gate", !.chunks = Chunks(batch)]]
    /\ UNCHANGED <<rows, told, starts>>

\* reserve() is called when the sleep is over: the clock is read, the lock is
\* not held yet.
ReadClock(c) ==
    /\ client[c].pc = "gate" /\ told[c].sleep = 0
    /\ client' = [client EXCEPT ![c].pc = "lock", ![c].lag = 0]
    /\ UNCHANGED <<rows, told, starts>>

\* The immediate transaction: reserve and start, or sleep and try again.
Reserve(c) ==
    /\ client[c].pc = "lock"
    /\ LET cost == Head(client[c].chunks)
           lag  == client[c].lag
           kept == Kept(rows, lag)
           wait == Wait(kept, lag, cost)
       IN IF wait = 0
          THEN /\ rows' = Inserted(kept, lag, cost)
               /\ starts' = [starts EXCEPT ![0] = Added(@, cost)]
               /\ client' = [client EXCEPT ![c].pc = "fetch", ![c].lag = 0]
               /\ told' = [d \in Client |-> IF d = c THEN NotTold
                                             ELSE [told[d] EXCEPT !.calm = FALSE]]
          ELSE /\ rows' = kept
               /\ client' = [client EXCEPT ![c].pc = "gate", ![c].lag = 0]
               /\ told' = [told EXCEPT ![c] =
                             [sleep |-> wait, lag |-> lag, calm |-> TRUE]]
               /\ UNCHANGED starts

\* SQLITE_BUSY after busy_timeout: reserve throws, the request fails.
Busy(c) ==
    /\ client[c].pc = "lock" /\ client[c].lag = LockWait /\ LockWait > 0
    /\ client' = [client EXCEPT ![c] = Idle]
    /\ told' = [told EXCEPT ![c] = NotTold]
    /\ UNCHANGED <<rows, starts>>

\* The chunk is answered: the next one, or the batch is complete.
Respond(c) ==
    /\ client[c].pc = "fetch"
    /\ client' = [client EXCEPT ![c] =
                    IF Len(client[c].chunks) = 1 THEN Idle
                    ELSE [Idle EXCEPT !.pc = "gate",
                                      !.chunks = Tail(client[c].chunks)]]
    /\ UNCHANGED <<rows, told, starts>>

\* Slip: one retry too many.
MayRetryOnceMore(c) == client[c].retries <= Retries

MayRetry(c) == client[c].retries < Retries

\* A 429 or a network error: after the backoff the loop starts over.
Retry(c) ==
    /\ client[c].pc = "fetch" /\ MayRetry(c)
    /\ client' = [client EXCEPT ![c].pc = "gate", ![c].retries = @ + 1]
    /\ UNCHANGED <<rows, told, starts>>

\* An abort, another HTTP error, or no retry left: the batch ends here.
GiveUp(c) ==
    /\ client[c].pc = "fetch"
    /\ client' = [client EXCEPT ![c] = Idle]
    /\ UNCHANGED <<rows, told, starts>>

\* What was loads d ago.
Later(loads, d) == [a \in DOMAIN loads |-> IF a >= d THEN loads[a - d] ELSE NoLoad]

Tick ==
    /\ \A c \in Client : client[c].pc = "lock" => client[c].lag < LockWait
    /\ rows' = Later(rows, 1)
    /\ starts' = Later(starts, 1)
    /\ client' = [c \in Client |->
                    IF client[c].pc = "lock" THEN [client[c] EXCEPT !.lag = @ + 1]
                    ELSE client[c]]
    /\ told' = [c \in Client |->
                  IF told[c].sleep > 0 THEN [told[c] EXCEPT !.sleep = @ - 1]
                  ELSE told[c]]

Next ==
    \/ \E c \in Client :
        \/ \E batch \in Batch : Fetch(c, batch)
        \/ ReadClock(c) \/ Reserve(c) \/ Busy(c)
        \/ Respond(c) \/ Retry(c) \/ GiveUp(c)
    \/ Tick

Spec == Init /\ [][Next]_vars

-----------------------------------------------------------------------------
\* Properties.

\* What the gate guarantees: no interval as long as a window less the time a
\* reservation can wait for the lock sees more starts than the budget, over all
\* processes, retries and batches.  In one process that is the window itself;
\* with a shared database the limit is weaker by the lock's wait.  The send
\* window has a length of its own, but its reservations live in the rows that
\* both windows prune.
BudgetPerWindow ==
    /\ \A n \in 1..(WindowMs - LockWait) :
            Total(starts, "requests", n) <= MaxRequests
    /\ \A n \in 1..(SendWindowMs - LockWait) :
            Total(starts, "sends", n) <= MaxSends

\* A wait that reserve() returns is right for the client that sleeps it, with
\* both budgets, costs above one and clocks that were read before the lock.  It
\* is not early: unless somebody reserved in between, the next reserve() lets
\* the client go, however late that one gets the lock.  It is late by no more
\* than the lag of the reserve() that told it: until then the window is full.
WaitIsRight ==
    \A c \in Client : LET cost == Head(client[c].chunks) IN
        /\ told[c].calm /\ client[c].pc = "lock" =>
              Wait(Kept(rows, client[c].lag), client[c].lag, cost) = 0
        /\ told[c].sleep > told[c].lag => Wait(rows, 0, cost) > 0

\* No chunk of a batch exceeds a budget: reserve() would refuse it for ever.
ChunksFit ==
    \A c \in Client : \A i \in DOMAIN client[c].chunks :
        /\ client[c].chunks[i].requests <= MaxRequests
        /\ client[c].chunks[i].sends <= MaxSends

=============================================================================
