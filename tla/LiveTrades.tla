------------------------------- MODULE LiveTrades -------------------------------
(***************************************************************************)
(* sdk/live.ts, listenTrades over subscribeTrades with rpcUrls, on the     *)
(* core subscriptions of market/launch-trades.ts.                          *)
(*                                                                         *)
(* Two promise chains run at the same time.  The POOL serialises the calls *)
(* on the current core subscription with the health check that replaces it *)
(* by one on another endpoint.  The LISTENER serialises its own add,       *)
(* remove and close with the refresh of a migrated token and the renewal   *)
(* of the migration feed after a failover; its jobs await jobs of the pool.*)
(* A step is the code between two awaits that leave the event loop's turn. *)
(*                                                                         *)
(* Recording a trade and calling back are one step: the recorder awaits    *)
(* microtasks only (module LiveTradeHistory).                              *)
(***************************************************************************)
EXTENDS Naturals, Sequences, FiniteSets

CONSTANTS
    Mint,
    Initial,        \* the tokens the listener starts with
    Trade,          \* trades on chain
    MintOf,         \* MintOf[t]: the token of trade t
    MaxFailovers,   \* bound: core subscriptions created by health checks
    MaxMigrations,  \* bound: migration events delivered
    MaxJobs,        \* bound: jobs in the listener's chain when a call is made
    Window          \* size of the duplicate filter (4096)

ASSUME LiveAssumption ==
    /\ Initial \subseteq Mint
    /\ MintOf \in [Trade -> Mint]
    /\ MaxFailovers \in Nat /\ MaxMigrations \in Nat /\ MaxJobs \in Nat
    /\ Window \in Nat \ {0}

Sub == 1..(1 + MaxFailovers)

VARIABLES
    sub,         \* sub[s]: core subscription s and the tokens it listens to
    current,     \* the pool's subscription
    pool,        \* the pool's chain of jobs, the running one first
    poolAt,      \* the await the running job is at
    poolStopped,
    listener,    \* the listener's chain of jobs
    listenerAt,
    stopped,     \* close() has been called
    closed,      \* what has become of the listener's closed promise
    watched,     \* tokens the caller watches
    feed,        \* tokens of the migration feed; feed[2]: its replacement
    migrated,    \* migration events so far
    arrived,     \* <<s, t>>: core subscription s has been notified of t
    flight,      \* trades between their log and onTrade
    seen,        \* the duplicate filter, oldest first
    accepted     \* history: the trades that passed the filter

poolVars == <<sub, current, pool, poolAt, poolStopped>>
listenerVars == <<listener, listenerAt, stopped, closed, watched, feed, migrated>>
tradeVars == <<arrived, flight, seen, accepted>>
vars == <<poolVars, listenerVars, tradeVars>>

Job == [op : {"add", "remove"}, mint : Mint] \cup [op : {"check", "close"}]
ListenerJob == [op : {"add", "remove", "reset"}, mint : Mint]
               \cup [op : {"renew", "close"}]
NoFeed == [open |-> FALSE, tokens |-> {}]

TypeOK ==
    /\ sub \in [Sub -> [phase : {"new", "open", "closed"}, tokens : SUBSET Mint]]
    /\ current \in Sub
    /\ pool \in Seq(Job)
    /\ poolAt \in {"start", "probe", "unsubscribe", "swap"}
    /\ poolStopped \in BOOLEAN
    /\ listener \in Seq(ListenerJob)
    /\ listenerAt \in {"start", "pool", "readd", "subscribe", "swap"}
    /\ stopped \in BOOLEAN
    /\ closed \in {"pending", "resolved", "rejected"}
    /\ watched \subseteq Mint
    /\ feed \in [{1, 2} -> [open : BOOLEAN, tokens : SUBSET Mint]]
    /\ migrated \in 0..MaxMigrations
    /\ arrived \subseteq Sub \X Trade
    /\ flight \subseteq [sub : Sub, trade : Trade, at : {"enrich", "price"}]
    /\ seen \in Seq(Trade) /\ Len(seen) <= Window
    /\ accepted \in Seq(Trade)

Init ==
    /\ sub = [s \in Sub |-> IF s = 1 THEN [phase |-> "open", tokens |-> Initial]
                            ELSE [phase |-> "new", tokens |-> {}]]
    /\ current = 1
    /\ pool = <<>> /\ poolAt = "start" /\ poolStopped = FALSE
    /\ listener = <<>> /\ listenerAt = "start"
    /\ stopped = FALSE /\ closed = "pending"
    /\ watched = Initial
    /\ feed = [i \in {1, 2} |-> IF i = 1 THEN [open |-> TRUE, tokens |-> Initial]
                                ELSE NoFeed]
    /\ migrated = 0
    /\ arrived = {} /\ flight = {} /\ seen = <<>> /\ accepted = <<>>

-----------------------------------------------------------------------------
(* Core subscriptions *)

AddToken(s, m) == sub' = [sub EXCEPT ![s].tokens = @ \cup {m}]
RemoveToken(s, m) == sub' = [sub EXCEPT ![s].tokens = @ \ {m}]

\* close() and removeTokens() forget first and unsubscribe afterwards.
CloseSub(s) == [sub EXCEPT ![s] = [phase |-> "closed", tokens |-> {}]]

\* Slip: the tokens are read when the subscription they are on is closed.
OpenedAfterClose(s) ==
    [sub EXCEPT ![s] = [phase |-> "open", tokens |-> CloseSub(current)[current].tokens]]

\* A failover subscribes to the tokens of the subscription it replaces.
Opened(s) ==
    [sub EXCEPT ![s] = [phase |-> "open", tokens |-> sub[current].tokens]]

-----------------------------------------------------------------------------
(* The pool's chain *)

PoolJob(op) == pool # <<>> /\ Head(pool).op = op

\* Slip: what is left in the chain when the pool is closed is never answered.
PoolDoneWhileOpen == ~poolStopped /\ pool' = Tail(pool) /\ poolAt' = "start"

PoolDone == pool' = Tail(pool) /\ poolAt' = "start"
PoolAwaits(label) == poolAt' = label /\ UNCHANGED pool

Queued(q, op) == \E i \in DOMAIN q : q[i].op = op

\* The timer: not while a check is queued or running, never after close.
HealthTimer ==
    /\ ~poolStopped
    /\ ~Queued(pool, "check")
    /\ pool' = Append(pool, [op |-> "check"])
    /\ UNCHANGED <<sub, current, poolAt, poolStopped, listenerVars, tradeVars>>

PoolAdd ==
    /\ PoolJob("add")
    /\ IF poolStopped THEN UNCHANGED sub ELSE AddToken(current, Head(pool).mint)
    /\ PoolDone
    /\ UNCHANGED <<current, poolStopped, listenerVars, tradeVars>>

PoolRemove ==
    /\ PoolJob("remove")
    /\ \/ /\ poolAt = "start" /\ ~poolStopped
          /\ RemoveToken(current, Head(pool).mint)
          /\ PoolAwaits("unsubscribe")
       \/ /\ poolAt = "unsubscribe" \/ poolStopped
          /\ PoolDone
          /\ UNCHANGED sub
    /\ UNCHANGED <<current, poolStopped, listenerVars, tradeVars>>

Probe ==
    /\ PoolJob("check")
    /\ poolAt = "start"
    /\ IF poolStopped THEN PoolDone ELSE PoolAwaits("probe")
    /\ UNCHANGED <<sub, current, poolStopped, listenerVars, tradeVars>>

\* The probe took time: the pool may have been closed.
MayFailOver == ~poolStopped /\ current < 1 + MaxFailovers

\* The endpoint is healthy, or no endpoint is, or there is another one: the
\* new subscription is opened and the old one closed.
Probed ==
    /\ PoolJob("check")
    /\ poolAt = "probe"
    /\ \/ PoolDone /\ UNCHANGED sub
       \/ /\ MayFailOver
          /\ sub' = [Opened(current + 1) EXCEPT ![current] = CloseSub(current)[current]]
          /\ PoolAwaits("swap")
    /\ UNCHANGED <<current, poolStopped, listenerVars, tradeVars>>

\* notifyReady tells the listener, which renews its migration feed.
Swap ==
    /\ PoolJob("check")
    /\ poolAt = "swap"
    /\ current' = current + 1
    /\ PoolDone
    /\ listener' = IF stopped THEN listener ELSE Append(listener, [op |-> "renew"])
    /\ UNCHANGED <<sub, poolStopped, listenerAt, stopped, closed, watched, feed,
                   migrated, tradeVars>>

\* The subscription current when the job runs, not when close was called.
PoolClose ==
    /\ PoolJob("close")
    /\ \/ /\ poolAt = "start"
          /\ sub' = CloseSub(current)
          /\ PoolAwaits("unsubscribe")
       \/ poolAt = "unsubscribe" /\ PoolDone /\ UNCHANGED sub
    /\ UNCHANGED <<current, poolStopped, listenerVars, tradeVars>>

PoolStep ==
    PoolAdd \/ PoolRemove \/ Probe \/ Probed \/ Swap \/ PoolClose

-----------------------------------------------------------------------------
(* The listener's chain *)

Runs(op) == listener # <<>> /\ Head(listener).op = op
Token == Head(listener).mint
Done == listener' = Tail(listener) /\ listenerAt' = "start"
Awaits(label) == listenerAt' = label /\ UNCHANGED listener

AskPool(job) == pool' = Append(pool, job)
\* No job but the listener's is ever in the pool, apart from a check.
PoolAnswered == ~\E i \in DOMAIN pool : pool[i].op # "check"

Call(job) ==
    /\ ~stopped
    /\ Len(listener) < MaxJobs
    /\ listener' = Append(listener, job)
    /\ UNCHANGED <<poolVars, listenerAt, stopped, closed, watched, feed, migrated,
                   tradeVars>>

\* The token is watched once both feeds have it.
Add ==
    /\ Runs("add")
    /\ \/ /\ listenerAt = "start" /\ ~stopped
          /\ AskPool([op |-> "add", mint |-> Token])
          /\ Awaits("pool")
          /\ UNCHANGED <<watched, feed>>
       \/ /\ listenerAt = "start" /\ stopped
          /\ Done
          /\ UNCHANGED <<pool, watched, feed>>
       \/ /\ listenerAt = "pool" /\ PoolAnswered
          /\ feed' = [feed EXCEPT ![1].tokens = @ \cup {Token}]
          /\ watched' = watched \cup {Token}
          /\ Done
          /\ UNCHANGED pool
    /\ UNCHANGED <<sub, current, poolAt, poolStopped, stopped, closed, migrated,
                   tradeVars>>

Remove ==
    /\ Runs("remove")
    /\ \/ /\ listenerAt = "start"
          /\ watched' = watched \ {Token}
          /\ feed' = [feed EXCEPT ![1].tokens = @ \ {Token}]
          /\ AskPool([op |-> "remove", mint |-> Token])
          /\ Awaits("pool")
       \/ /\ listenerAt = "pool" /\ PoolAnswered
          /\ Done
          /\ UNCHANGED <<pool, watched, feed>>
    /\ UNCHANGED <<sub, current, poolAt, poolStopped, stopped, closed, migrated,
                   tradeVars>>

\* A migrated token is unsubscribed and subscribed again, if it is still
\* watched when the job runs.
Reset ==
    /\ Runs("reset")
    /\ \/ /\ listenerAt = "start" /\ ~stopped /\ Token \in watched
          /\ AskPool([op |-> "remove", mint |-> Token])
          /\ Awaits("pool")
       \/ /\ listenerAt = "start" /\ (stopped \/ Token \notin watched)
          /\ Done
          /\ UNCHANGED pool
       \/ /\ listenerAt = "pool" /\ PoolAnswered
          /\ AskPool([op |-> "add", mint |-> Token])
          /\ Awaits("readd")
       \/ /\ listenerAt = "readd" /\ PoolAnswered
          /\ Done
          /\ UNCHANGED pool
    /\ UNCHANGED <<sub, current, poolAt, poolStopped, stopped, closed, watched,
                   feed, migrated, tradeVars>>

\* Slip: the old feed is not closed.
FeedReplacedOnly == [i \in {1, 2} |-> feed[2]]

FeedReplaced == [feed EXCEPT ![1] = feed[2], ![2] = NoFeed]

\* A new feed of the watched tokens is opened before the old one is closed.
Renew ==
    /\ Runs("renew")
    /\ \/ /\ listenerAt = "start" /\ ~stopped
          /\ Awaits("subscribe")
          /\ UNCHANGED feed
       \/ /\ \/ listenerAt = "start" /\ stopped
             \/ listenerAt = "subscribe"      \* no endpoint: reported
          /\ Done
          /\ UNCHANGED feed
       \/ /\ listenerAt = "subscribe"
          /\ feed' = [i \in {1, 2} |-> IF i = 1 THEN NoFeed
                                       ELSE [open |-> TRUE, tokens |-> watched]]
          /\ Awaits("swap")
       \/ /\ listenerAt = "swap"
          /\ feed' = FeedReplaced
          /\ Done
    /\ UNCHANGED <<poolVars, stopped, closed, watched, migrated, tradeVars>>

\* close(), or the caller's signal.
CloseListener ==
    /\ ~stopped
    /\ stopped' = TRUE
    /\ listener' = Append(listener, [op |-> "close"])
    /\ UNCHANGED <<poolVars, listenerAt, closed, watched, feed, migrated, tradeVars>>

\* Both feeds are closed, then the history, which may fail to flush.
Close ==
    /\ Runs("close")
    /\ \/ /\ listenerAt = "start"
          /\ poolStopped' = TRUE
          /\ AskPool([op |-> "close"])
          /\ feed' = [feed EXCEPT ![1] = NoFeed]
          /\ Awaits("pool")
          /\ UNCHANGED <<closed, watched>>
       \/ /\ listenerAt = "pool" /\ PoolAnswered
          /\ watched' = {}
          /\ closed' \in {"resolved", "rejected"}
          /\ Done
          /\ UNCHANGED <<pool, poolStopped, feed>>
    /\ UNCHANGED <<sub, current, poolAt, stopped, migrated, tradeVars>>

\* A migration of a token reaches the listener from an open feed.
Migration(m) ==
    /\ migrated < MaxMigrations
    /\ \E i \in {1, 2} : feed[i].open /\ m \in feed[i].tokens
    /\ ~stopped /\ m \in watched
    /\ migrated' = migrated + 1
    /\ listener' = Append(listener, [op |-> "reset", mint |-> m])
    /\ UNCHANGED <<poolVars, listenerAt, stopped, closed, watched, feed, tradeVars>>

ListenerStep == Add \/ Remove \/ Reset \/ Renew \/ Close

-----------------------------------------------------------------------------
(* Trades *)

\* onTokenLogs: the decoded trade waits for metadata, supply or its pool.
Log(s, t) ==
    /\ sub[s].phase = "open" /\ MintOf[t] \in sub[s].tokens
    /\ <<s, t>> \notin arrived
    /\ arrived' = arrived \cup {<<s, t>>}
    /\ flight' = flight \cup {[sub |-> s, trade |-> t, at |-> "enrich"]}
    /\ UNCHANGED <<poolVars, listenerVars, seen, accepted>>

Subscribed(f) == sub[f.sub].phase = "open" /\ MintOf[f.trade] \in sub[f.sub].tokens

\* Enriched, or dropped: on an error, or when no longer subscribed.
Enrich(f) ==
    /\ f \in flight /\ f.at = "enrich"
    /\ \/ flight' = flight \ {f}
       \/ Subscribed(f) /\ flight' = (flight \ {f}) \cup {[f EXCEPT !.at = "price"]}
    /\ UNCHANGED <<poolVars, listenerVars, arrived, seen, accepted>>

\* Slip: nothing is forgotten.
RememberedForever(t) == Append(seen, t)

\* Slip: a full filter takes nothing in.
RememberedUntilFull(t) == IF Len(seen) < Window THEN Append(seen, t) ELSE seen

\* The oldest of more than Window is forgotten.
Remembered(t) ==
    IF Len(seen) < Window THEN Append(seen, t) ELSE Append(Tail(seen), t)

Duplicate(t) == \E i \in DOMAIN seen : seen[i] = t

\* onTrade of whatever subscription, also of one closed since.
OnTrade(f) ==
    /\ f \in flight /\ f.at = "price"
    /\ flight' = flight \ {f}
    /\ IF Duplicate(f.trade) THEN UNCHANGED <<seen, accepted>>
       ELSE /\ seen' = Remembered(f.trade)
            /\ accepted' = Append(accepted, f.trade)
    /\ UNCHANGED <<poolVars, listenerVars, arrived>>

Next ==
    \/ HealthTimer \/ PoolStep \/ ListenerStep \/ CloseListener
    \/ \E m \in Mint : \/ Call([op |-> "add", mint |-> m])
                       \/ Call([op |-> "remove", mint |-> m])
                       \/ Migration(m)
    \/ \E s \in Sub, t \in Trade : Log(s, t)
    \/ \E f \in flight : Enrich(f) \/ OnTrade(f)

Spec == Init /\ [][Next]_vars

\* Where a chain awaits the unsubscription of a feed.  live.ts has a plain
\* web3.js Connection, and only the probe of an endpoint has a timeout.
PoolUnsubscribes == poolAt \in {"unsubscribe", "swap"}
ListenerUnsubscribes ==
    \/ Runs("renew") /\ listenerAt = "swap"
    \/ Runs("close") /\ listenerAt = "pool"

\* The event loop runs its turns, and a probe is answered or times out.
Fairness ==
    /\ WF_vars(PoolStep /\ ~PoolUnsubscribes)
    /\ WF_vars(ListenerStep /\ ~ListenerUnsubscribes)

FairSpec == Spec /\ Fairness

-----------------------------------------------------------------------------
(* Properties *)

Refreshing(m) ==
    Runs("reset") /\ Token = m /\ listenerAt \in {"pool", "readd"}

\* "preserves watched tokens when switching": an open subscription listens to
\* every watched token, whatever failover, addition or removal is under way,
\* except while a migrated token is refreshed; and so does a migration feed.
WatchedIsCovered ==
    ~stopped => \A m \in watched :
        /\ Refreshing(m) \/ \E s \in Sub : sub[s].phase = "open" /\ m \in sub[s].tokens
        /\ \E i \in {1, 2} : feed[i].open /\ m \in feed[i].tokens

\* Once closed has settled nothing is open, and no check or renewal that was
\* under way opens anything again.
ClosedIsQuiet ==
    closed # "pending" =>
        /\ \A s \in Sub : sub[s].phase # "open"
        /\ \A i \in {1, 2} : ~feed[i].open

\* A trade is passed on again only after Window others: the overlap of two
\* endpoints repeats nothing shorter.
DeliveredOnce ==
    \A i, j \in DOMAIN accepted :
        i < j /\ accepted[i] = accepted[j] =>
            Cardinality({accepted[k] : k \in (i + 1)..(j - 1)}) >= Window

\* The node answers what is unsubscribed.  The code does not see to it.
UnsubscriptionsEnd ==
    /\ WF_vars(PoolStep /\ PoolUnsubscribes)
    /\ WF_vars(ListenerStep /\ ListenerUnsubscribes)

\* close() waits for no more than the unsubscriptions: if they end, so does it,
\* whatever was queued, probed or renewed when it was called.  The two chains
\* never wait for each other, and no job is left without an answer.
CloseEnds == UnsubscriptionsEnd => (stopped ~> closed # "pending")
=============================================================================
