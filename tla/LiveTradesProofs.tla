---------------------------- MODULE LiveTradesProofs ----------------------------
(***************************************************************************)
(* What the live trade subscriptions guarantee, for every number of        *)
(* tokens, trades, failovers, migrations and calls: watched tokens stay    *)
(* covered, a closed listener is quiet, and the overlap of two endpoints   *)
(* repeats no trade within the window of the duplicate filter.             *)
(*                                                                         *)
(* The argument is that the two promise chains are tied together by one    *)
(* job: what the listener awaits is the only job in the pool that is not   *)
(* a health check.  It also gives the safety half of the liveness of       *)
(* close(): a measure that every step of either chain brings down.         *)
(***************************************************************************)
EXTENDS LiveTrades, FiniteSetTheorems, TLAPS

USE LiveAssumption

-----------------------------------------------------------------------------
(* Sequences *)

LEMMA TailFacts ==
    ASSUME NEW S, NEW q \in Seq(S), q # <<>>
    PROVE  /\ Tail(q) \in Seq(S) /\ Len(q) \in Nat \ {0} /\ Len(Tail(q)) = Len(q) - 1
           /\ Head(q) = q[1] /\ q[1] \in S
           /\ \A i \in 1..Len(Tail(q)) : Tail(q)[i] = q[i + 1] /\ i + 1 \in 1..Len(q)
  OBVIOUS

LEMMA AppendFacts ==
    ASSUME NEW S, NEW q \in Seq(S), NEW x \in S
    PROVE  /\ Append(q, x) \in Seq(S) /\ Len(q) \in Nat
           /\ Len(Append(q, x)) = Len(q) + 1 /\ Append(q, x) # <<>>
           /\ Append(q, x)[Len(q) + 1] = x
           /\ \A i \in 1..Len(q) : Append(q, x)[i] = q[i] /\ i \in 1..(Len(q) + 1)
           /\ q # <<>> => Head(Append(q, x)) = Head(q) /\ 1 \in 1..Len(q)
           /\ q = <<>> => Len(q) = 0
  OBVIOUS

-----------------------------------------------------------------------------
(* The two chains *)

PoolOK ==
    /\ poolAt # "start" => pool # <<>>
    /\ poolAt \in {"probe", "swap"} => Head(pool).op = "check"
    /\ poolAt = "unsubscribe" => Head(pool).op \in {"remove", "close"}
    /\ poolAt = "swap" => current < 1 + MaxFailovers

ListenerOK ==
    /\ listenerAt # "start" => listener # <<>>
    /\ listenerAt \in {"subscribe", "swap"} => Head(listener).op = "renew"
    /\ listenerAt = "readd" => Head(listener).op = "reset"
    /\ listenerAt = "pool" => Head(listener).op \in {"add", "remove", "reset", "close"}

\* The listener's running job awaits this job of the pool.
AskedFor(j) ==
    /\ listener # <<>>
    /\ \/ /\ j.op = "close" /\ listenerAt = "pool"
          /\ Head(listener).op = "close"
       \/ /\ j.op = "remove" /\ listenerAt = "pool"
          /\ Head(listener).op \in {"remove", "reset"} /\ j.mint = Token
       \/ /\ j.op = "add" /\ j.mint = Token
          /\ \/ listenerAt = "pool" /\ Head(listener).op = "add"
             \/ listenerAt = "readd" /\ Head(listener).op = "reset"

AskedOK ==
    \A i \in 1..Len(pool) : pool[i].op # "check" =>
        /\ AskedFor(pool[i])
        /\ \A j \in 1..Len(pool) : pool[j].op # "check" => j = i

ChainInv == PoolOK /\ ListenerOK /\ AskedOK

OnlyChecks(q) == \A i \in 1..Len(q) : q[i].op = "check"

LEMMA JobTypes ==
    /\ [op |-> "check"] \in Job /\ [op |-> "close"] \in Job
    /\ \A m \in Mint : [op |-> "add", mint |-> m] \in Job
                       /\ [op |-> "remove", mint |-> m] \in Job
    /\ [op |-> "renew"] \in ListenerJob /\ [op |-> "close"] \in ListenerJob
    /\ \A m \in Mint : /\ [op |-> "add", mint |-> m] \in ListenerJob
                       /\ [op |-> "remove", mint |-> m] \in ListenerJob
                       /\ [op |-> "reset", mint |-> m] \in ListenerJob
    /\ \A j \in Job : j.op \in {"add", "remove", "check", "close"}
                      /\ (j.op \in {"add", "remove"} => j.mint \in Mint)
    /\ \A j \in ListenerJob : j.op \in {"add", "remove", "reset", "renew", "close"}
                      /\ (j.op \in {"add", "remove", "reset"} => j.mint \in Mint)
  BY DEF Job, ListenerJob

\* A step of the listener: its pool jobs are over, and it asks for at most one.
LEMMA ListenerEffect ==
    ASSUME TypeOK, ChainInv, ListenerStep
    PROVE  /\ OnlyChecks(pool) /\ listener # <<>>
           /\ ListenerOK' /\ listener' \in {listener, Tail(listener)}
           /\ listener' = Tail(listener) => listenerAt' = "start"
           /\ listenerAt' \in {"start", "pool", "readd", "subscribe", "swap"}
           /\ \/ pool' = pool
              \/ \E j \in Job : /\ j.op # "check" /\ pool' = Append(pool, j)
                                /\ AskedFor(j)'
                                /\ j.op = "close" <=> Runs("close")
           /\ UNCHANGED <<sub, current, poolAt, migrated, tradeVars>>
<1>0. /\ listener \in Seq(ListenerJob) /\ pool \in Seq(Job) /\ Len(pool) \in Nat
      /\ DOMAIN pool = 1..Len(pool)
  BY DEF TypeOK
<1>1. listener # <<>>
  BY DEF ListenerStep, Add, Remove, Reset, Renew, Close, Runs
<1>2. Head(listener) \in ListenerJob
  BY <1>0, <1>1, TailFacts
<1>3. listenerAt \notin {"pool", "readd"} => OnlyChecks(pool)
  BY <1>0 DEF ChainInv, AskedOK, AskedFor, OnlyChecks
<1>4. PoolAnswered => OnlyChecks(pool)
  BY <1>0 DEF PoolAnswered, OnlyChecks
<1>5. CASE Add
  <2>1. Token \in Mint /\ OnlyChecks(pool)
    BY <1>2, <1>3, <1>4, <1>5, JobTypes DEF Add, Runs, Token
  <2>2. CASE AskPool([op |-> "add", mint |-> Token]) /\ Awaits("pool")
    <3>1. PICK j \in Job : j = [op |-> "add", mint |-> Token] /\ j.op = "add" /\ j.mint = Token
      BY <2>1, JobTypes
    <3>2. pool' = Append(pool, j) /\ listener' = listener /\ listenerAt' = "pool"
      BY <2>2, <3>1 DEF AskPool, Awaits
    <3>3. AskedFor(j)' /\ ListenerOK'
      BY <1>1, <1>5, <3>1, <3>2 DEF AskedFor, Add, Runs, Token, ListenerOK
    <3> QED
      BY <1>1, <1>5, <2>1, <3>1, <3>2, <3>3 DEF Add, Runs
  <2>3. CASE Done /\ UNCHANGED pool
    BY <1>1, <1>5, <2>1, <2>3 DEF Add, Done, ListenerOK
  <2> QED
    BY <1>5, <2>2, <2>3 DEF Add
<1>6. CASE Remove
  <2>1. Token \in Mint /\ OnlyChecks(pool)
    BY <1>2, <1>3, <1>4, <1>6, JobTypes DEF Remove, Runs, Token
  <2>2. CASE AskPool([op |-> "remove", mint |-> Token]) /\ Awaits("pool")
    <3>1. PICK j \in Job : j = [op |-> "remove", mint |-> Token] /\ j.op = "remove" /\ j.mint = Token
      BY <2>1, JobTypes
    <3>2. pool' = Append(pool, j) /\ listener' = listener /\ listenerAt' = "pool"
      BY <2>2, <3>1 DEF AskPool, Awaits
    <3>3. AskedFor(j)' /\ ListenerOK'
      BY <1>1, <1>6, <3>1, <3>2 DEF AskedFor, Remove, Runs, Token, ListenerOK
    <3> QED
      BY <1>1, <1>6, <2>1, <3>1, <3>2, <3>3 DEF Remove, Runs
  <2>3. CASE Done /\ UNCHANGED pool
    BY <1>1, <1>6, <2>1, <2>3 DEF Remove, Done, ListenerOK
  <2> QED
    BY <1>6, <2>2, <2>3 DEF Remove
<1>7. CASE Reset
  <2>1. Token \in Mint /\ OnlyChecks(pool)
    BY <1>2, <1>3, <1>4, <1>7, JobTypes DEF Reset, Runs, Token
  <2>2. CASE AskPool([op |-> "remove", mint |-> Token]) /\ Awaits("pool")
    <3>1. PICK j \in Job : j = [op |-> "remove", mint |-> Token] /\ j.op = "remove" /\ j.mint = Token
      BY <2>1, JobTypes
    <3>2. pool' = Append(pool, j) /\ listener' = listener /\ listenerAt' = "pool"
      BY <2>2, <3>1 DEF AskPool, Awaits
    <3>3. AskedFor(j)' /\ ListenerOK'
      BY <1>1, <1>7, <3>1, <3>2 DEF AskedFor, Reset, Runs, Token, ListenerOK
    <3> QED
      BY <1>1, <1>7, <2>1, <3>1, <3>2, <3>3 DEF Reset, Runs
  <2>3. CASE AskPool([op |-> "add", mint |-> Token]) /\ Awaits("readd")
    <3>1. PICK j \in Job : j = [op |-> "add", mint |-> Token] /\ j.op = "add" /\ j.mint = Token
      BY <2>1, JobTypes
    <3>2. pool' = Append(pool, j) /\ listener' = listener /\ listenerAt' = "readd"
      BY <2>3, <3>1 DEF AskPool, Awaits
    <3>3. AskedFor(j)' /\ ListenerOK'
      BY <1>1, <1>7, <3>1, <3>2 DEF AskedFor, Reset, Runs, Token, ListenerOK
    <3> QED
      BY <1>1, <1>7, <2>1, <3>1, <3>2, <3>3 DEF Reset, Runs
  <2>4. CASE Done /\ UNCHANGED pool
    BY <1>1, <1>7, <2>1, <2>4 DEF Reset, Done, ListenerOK
  <2> QED
    BY <1>7, <2>2, <2>3, <2>4 DEF Reset
<1>8. CASE Renew
  <2>1. OnlyChecks(pool) /\ listenerAt' \in {"start", "subscribe", "swap"}
    BY <1>3, <1>8 DEF Renew, Done, Awaits
  <2>2. /\ listener' \in {listener, Tail(listener)}
        /\ listener' = Tail(listener) => listenerAt' = "start" \/ listener' = listener
        /\ listenerAt' # "start" => listener' = listener
    BY <1>8 DEF Renew, Done, Awaits
  <2>3. listener' = Tail(listener) => listenerAt' = "start"
    <3>1. Len(Tail(listener)) = Len(listener) - 1 /\ Len(listener) \in Nat
      BY <1>0, <1>1, TailFacts
    <3>2. Tail(listener) # listener
      BY <3>1
    <3> QED
      BY <2>2, <3>2
  <2>4. ListenerOK'
    BY <1>1, <1>8, <2>1, <2>2 DEF Renew, Runs, ListenerOK
  <2> QED
    BY <1>1, <1>8, <2>1, <2>2, <2>3, <2>4 DEF Renew, poolVars
<1>9. CASE Close
  <2>1. OnlyChecks(pool)
    BY <1>3, <1>4, <1>9 DEF Close
  <2>2. CASE AskPool([op |-> "close"]) /\ Awaits("pool")
    <3>1. PICK j \in Job : j = [op |-> "close"] /\ j.op = "close"
      BY JobTypes
    <3>2. pool' = Append(pool, j) /\ listener' = listener /\ listenerAt' = "pool"
      BY <2>2, <3>1 DEF AskPool, Awaits
    <3>3. AskedFor(j)' /\ ListenerOK'
      BY <1>1, <1>9, <3>1, <3>2 DEF AskedFor, Close, Runs, ListenerOK
    <3> QED
      BY <1>1, <1>9, <2>1, <3>1, <3>2, <3>3 DEF Close, Runs
  <2>3. CASE Done /\ UNCHANGED pool
    BY <1>1, <1>9, <2>1, <2>3 DEF Close, Done, ListenerOK
  <2> QED
    BY <1>9, <2>2, <2>3 DEF Close
<1> QED
  BY <1>5, <1>6, <1>7, <1>8, <1>9 DEF ListenerStep

\* Jobs are appended to the listener's chain behind the running one.
LEMMA ListenerGrows ==
    ASSUME TypeOK, ChainInv, listenerAt' = listenerAt,
           listener' = listener \/ \E x \in ListenerJob : listener' = Append(listener, x)
    PROVE  /\ ListenerOK' /\ listener' \in Seq(ListenerJob)
           /\ listener # <<>> => listener' # <<>> /\ Head(listener') = Head(listener)
           /\ \A j \in Job : AskedFor(j) => AskedFor(j)'
<1>1. /\ listener' \in Seq(ListenerJob)
      /\ listener # <<>> => listener' # <<>> /\ Head(listener') = Head(listener)
  <2>0. listener \in Seq(ListenerJob)
    BY DEF TypeOK
  <2>1. ASSUME NEW x \in ListenerJob, listener' = Append(listener, x)
        PROVE  /\ listener' \in Seq(ListenerJob)
               /\ listener # <<>> => listener' # <<>> /\ Head(listener') = Head(listener)
    BY <2>0, <2>1, AppendFacts
  <2> QED
    BY <2>0, <2>1
<1>2. ListenerOK'
  BY <1>1 DEF ChainInv, ListenerOK
<1>3. \A j \in Job : AskedFor(j) => AskedFor(j)'
  BY <1>1 DEF AskedFor, Token
<1> QED
  BY <1>1, <1>2, <1>3

\* A step of the pool: its job goes on, or is over.
LEMMA PoolEffect ==
    ASSUME TypeOK, ChainInv, PoolStep
    PROVE  /\ pool # <<>> /\ PoolOK' /\ current' \in Sub
           /\ poolAt' \in {"start", "probe", "unsubscribe", "swap"}
           /\ sub' \in [Sub -> [phase : {"new", "open", "closed"}, tokens : SUBSET Mint]]
           /\ pool' = pool \/ (pool' = Tail(pool) /\ poolAt' = "start")
           /\ \/ listener' = listener
              \/ ~stopped /\ \E x \in ListenerJob : x.op = "renew" /\ listener' = Append(listener, x)
           /\ UNCHANGED <<poolStopped, listenerAt, stopped, closed, watched, feed,
                          migrated, tradeVars>>
<1>0. /\ pool \in Seq(Job) /\ current \in Sub /\ 1 + MaxFailovers \in Nat
      /\ sub \in [Sub -> [phase : {"new", "open", "closed"}, tokens : SUBSET Mint]]
  BY DEF TypeOK
<1>1. pool # <<>>
  BY DEF PoolStep, PoolAdd, PoolRemove, Probe, Probed, Swap, PoolClose, PoolJob
<1>2. Head(pool) \in Job
  BY <1>0, <1>1, TailFacts
<1>3. ASSUME NEW m \in Mint, AddToken(current, m) \/ RemoveToken(current, m)
      PROVE  sub' \in [Sub -> [phase : {"new", "open", "closed"}, tokens : SUBSET Mint]]
  <2>1. /\ sub[current] \in [phase : {"new", "open", "closed"}, tokens : SUBSET Mint]
        /\ sub[current].tokens \cup {m} \in SUBSET Mint
        /\ sub[current].tokens \ {m} \in SUBSET Mint
    BY <1>0
  <2>2. CASE AddToken(current, m)
    BY <1>0, <2>1, <2>2 DEF AddToken
  <2>3. CASE RemoveToken(current, m)
    BY <1>0, <2>1, <2>3 DEF RemoveToken
  <2> QED
    BY <1>3, <2>2, <2>3
<1>4. /\ CloseSub(current) \in [Sub -> [phase : {"new", "open", "closed"}, tokens : SUBSET Mint]]
  BY <1>0 DEF CloseSub
<1>5. CASE PoolAdd
  <2>1. Head(pool).mint \in Mint
    BY <1>2, <1>5, JobTypes DEF PoolAdd, PoolJob
  <2>2. sub' \in [Sub -> [phase : {"new", "open", "closed"}, tokens : SUBSET Mint]]
    BY <1>0, <1>3, <1>5, <2>1 DEF PoolAdd
  <2> QED
    BY <1>0, <1>1, <1>5, <2>2 DEF PoolAdd, PoolDone, PoolOK, listenerVars
<1>6. CASE PoolRemove
  <2>1. Head(pool).mint \in Mint
    BY <1>2, <1>6, JobTypes DEF PoolRemove, PoolJob
  <2>2. sub' \in [Sub -> [phase : {"new", "open", "closed"}, tokens : SUBSET Mint]]
    BY <1>0, <1>3, <1>6, <2>1 DEF PoolRemove
  <2> QED
    BY <1>0, <1>1, <1>6, <2>2
       DEF PoolRemove, PoolJob, PoolDone, PoolAwaits, PoolOK, listenerVars
<1>7. CASE Probe
  BY <1>0, <1>1, <1>7 DEF Probe, PoolJob, PoolDone, PoolAwaits, PoolOK, listenerVars
<1>8. CASE Probed
  <2>1. CASE PoolDone /\ UNCHANGED sub
    BY <1>0, <1>1, <1>8, <2>1 DEF Probed, PoolDone, PoolOK, listenerVars
  <2>2. CASE /\ MayFailOver /\ PoolAwaits("swap")
             /\ sub' = [Opened(current + 1) EXCEPT ![current] = CloseSub(current)[current]]
    <3>1. current + 1 \in Sub /\ current < 1 + MaxFailovers
      BY <1>0, <2>2 DEF MayFailOver, Sub
    <3>2. Opened(current + 1) \in [Sub -> [phase : {"new", "open", "closed"}, tokens : SUBSET Mint]]
      BY <1>0, <3>1 DEF Opened
    <3>3. CloseSub(current)[current] \in [phase : {"new", "open", "closed"}, tokens : SUBSET Mint]
      BY <1>0, <1>4
    <3>4. sub' \in [Sub -> [phase : {"new", "open", "closed"}, tokens : SUBSET Mint]]
      BY <2>2, <3>2, <3>3
    <3> QED
      BY <1>0, <1>1, <1>8, <2>2, <3>1, <3>4
         DEF Probed, PoolJob, PoolAwaits, PoolOK, listenerVars
  <2> QED
    BY <1>8, <2>1, <2>2 DEF Probed
<1>9. CASE Swap
  <2>1. current' \in Sub
    BY <1>0, <1>9 DEF Swap, ChainInv, PoolOK, Sub
  <2>2. \/ listener' = listener
        \/ ~stopped /\ \E x \in ListenerJob : x.op = "renew" /\ listener' = Append(listener, x)
    BY <1>9, JobTypes DEF Swap
  <2> QED
    BY <1>0, <1>1, <1>9, <2>1, <2>2 DEF Swap, PoolDone, PoolOK, listenerVars
<1>10. CASE PoolClose
  BY <1>0, <1>1, <1>4, <1>10
     DEF PoolClose, PoolJob, PoolDone, PoolAwaits, PoolOK, listenerVars
<1> QED
  BY <1>5, <1>6, <1>7, <1>8, <1>9, <1>10 DEF PoolStep

\* The other steps leave the pool's running job alone.
Outside ==
    \/ HealthTimer \/ CloseListener
    \/ \E m \in Mint : \/ Call([op |-> "add", mint |-> m])
                       \/ Call([op |-> "remove", mint |-> m])
                       \/ Migration(m)

Traded ==
    \/ \E s \in Sub, t \in Trade : Log(s, t)
    \/ \E f \in flight : Enrich(f) \/ OnTrade(f)

LEMMA OutsideEffect ==
    ASSUME TypeOK, ChainInv, Outside
    PROVE  /\ pool' = pool \/ (~poolStopped /\ pool' = Append(pool, [op |-> "check"]))
           /\ \/ listener' = listener
              \/ /\ ~stopped
                 /\ \E x \in ListenerJob :
                      /\ listener' = Append(listener, x)
                      /\ x.op = "close" => stopped'
           /\ stopped => stopped'
           /\ migrated' \in 0..MaxMigrations /\ stopped' \in BOOLEAN
           /\ UNCHANGED <<sub, current, poolAt, poolStopped, listenerAt, closed,
                          watched, feed, tradeVars>>
<1>1. CASE HealthTimer
  BY <1>1 DEF HealthTimer, listenerVars, TypeOK
<1>2. CASE CloseListener
  BY <1>2, JobTypes DEF CloseListener, poolVars, TypeOK
<1>3. ASSUME NEW m \in Mint,
             \/ Call([op |-> "add", mint |-> m]) \/ Call([op |-> "remove", mint |-> m])
             \/ Migration(m)
      PROVE  /\ pool' = pool /\ ~stopped /\ migrated' \in 0..MaxMigrations
             /\ \E x \in ListenerJob : /\ listener' = Append(listener, x)
                                       /\ x.op # "close"
             /\ UNCHANGED <<sub, current, poolAt, poolStopped, listenerAt, closed,
                            watched, feed, stopped, tradeVars>>
  <2>0. migrated \in 0..MaxMigrations
    BY DEF TypeOK
  <2>1. CASE Call([op |-> "add", mint |-> m])
    <3>1. PICK x \in ListenerJob : x = [op |-> "add", mint |-> m] /\ x.op = "add"
      BY JobTypes
    <3> QED
      BY <2>0, <2>1, <3>1 DEF Call, poolVars
  <2>2. CASE Call([op |-> "remove", mint |-> m])
    <3>1. PICK x \in ListenerJob : x = [op |-> "remove", mint |-> m] /\ x.op = "remove"
      BY JobTypes
    <3> QED
      BY <2>0, <2>2, <3>1 DEF Call, poolVars
  <2>3. CASE Migration(m)
    <3>1. PICK x \in ListenerJob : x = [op |-> "reset", mint |-> m] /\ x.op = "reset"
      BY JobTypes
    <3> QED
      BY <2>0, <2>3, <3>1 DEF Migration, poolVars
  <2> QED
    BY <1>3, <2>1, <2>2, <2>3
<1>4. stopped \in BOOLEAN
  BY DEF TypeOK
<1> QED
  BY <1>1, <1>2, <1>3, <1>4 DEF Outside

LEMMA TradedEffect ==
    ASSUME Traded
    PROVE  UNCHANGED <<poolVars, listenerVars>>
  BY DEF Traded, Log, Enrich, OnTrade

LEMMA Steps ==
    Next => PoolStep \/ ListenerStep \/ Outside \/ Traded
  BY DEF Next, Outside, Traded

\* A job of the pool that is over was the only one that is not a check.
LEMMA PoppedChecks ==
    ASSUME TypeOK, AskedOK, pool # <<>>, pool[1].op # "check"
    PROVE  OnlyChecks(Tail(pool))
<1>1. /\ Len(pool) \in Nat \ {0} /\ Len(Tail(pool)) = Len(pool) - 1
      /\ \A i \in 1..Len(Tail(pool)) : Tail(pool)[i] = pool[i + 1] /\ i + 1 \in 1..Len(pool)
  BY TailFacts DEF TypeOK
<1>2. \A j \in 1..Len(pool) : pool[j].op # "check" => j = 1
  BY <1>1 DEF AskedOK
<1> QED
  BY <1>1, <1>2 DEF OnlyChecks

LEMMA ChainInduction ==
    ASSUME TypeOK, ChainInv, [Next]_vars
    PROVE  ChainInv'
<1>0. /\ pool \in Seq(Job) /\ Len(pool) \in Nat
      /\ \A i \in 1..Len(pool) : pool[i] \in Job
  BY DEF TypeOK
\* The listener's job is the same, the pool the same, shorter, or longer by a check.
<1>1. ASSUME \A j \in Job : AskedFor(j) => AskedFor(j)',
             pool' = pool \/ pool' = Append(pool, [op |-> "check"])
             \/ (pool # <<>> /\ pool' = Tail(pool))
      PROVE  AskedOK'
  <2>1. CASE pool' = pool
    BY <1>0, <1>1, <2>1 DEF ChainInv, AskedOK
  <2>2. CASE pool' = Append(pool, [op |-> "check"])
    <3>1. /\ Len(pool') = Len(pool) + 1 /\ pool'[Len(pool) + 1].op = "check"
          /\ \A i \in 1..Len(pool) : pool'[i] = pool[i]
      BY <1>0, <2>2, AppendFacts, JobTypes
    <3>2. \A i \in 1..Len(pool') : i \in 1..Len(pool) \/ i = Len(pool) + 1
      BY <1>0, <3>1
    <3> QED
      BY <1>0, <1>1, <3>1, <3>2 DEF ChainInv, AskedOK
  <2>3. CASE pool # <<>> /\ pool' = Tail(pool)
    <3>1. /\ Len(pool') = Len(pool) - 1
          /\ \A i \in 1..Len(pool') : pool'[i] = pool[i + 1] /\ i + 1 \in 1..Len(pool)
      BY <1>0, <2>3, TailFacts
    <3>2. ASSUME NEW i \in 1..Len(pool'), pool'[i].op # "check"
          PROVE  /\ AskedFor(pool[i])'
                 /\ \A j \in 1..Len(pool') : pool'[j].op # "check" => j = i
      <4>1. /\ AskedFor(pool[i + 1])
            /\ \A j \in 1..Len(pool) : pool[j].op # "check" => j = i + 1
        BY <3>1, <3>2 DEF ChainInv, AskedOK
      <4>2. \A j \in 1..Len(pool') : pool'[j].op # "check" => j = i
        BY <3>1, <4>1
      <4>3. ASSUME NEW k \in Job, k = pool[i + 1] PROVE AskedFor(k)'
        BY <1>1, <4>1, <4>3
      <4>4. pool[i + 1] \in Job /\ pool'[i] = pool[i + 1]
        BY <1>0, <3>1
      <4>5. PICK k \in Job : k = pool[i + 1]
        BY <4>4
      <4>6. AskedFor(k)' /\ k = pool'[i]
        BY <4>3, <4>4, <4>5
      <4> QED
        BY <4>2, <4>6 DEF AskedFor
    <3> QED
      BY <3>2 DEF AskedOK
  <2> QED
    BY <1>1, <2>1, <2>2, <2>3
<1>2. CASE PoolStep
  <2>1. /\ \A j \in Job : AskedFor(j) => AskedFor(j)'
        /\ ListenerOK'
    BY <1>2, PoolEffect, ListenerGrows
  <2> QED
    BY <1>1, <1>2, <2>1, PoolEffect DEF ChainInv
<1>3. CASE Outside
  <2>1. /\ \A j \in Job : AskedFor(j) => AskedFor(j)'
        /\ ListenerOK'
    BY <1>3, OutsideEffect, ListenerGrows
  <2>2. PoolOK'
    <3>1. pool # <<>> => pool' # <<>> /\ Head(pool') = Head(pool)
      BY <1>0, <1>3, OutsideEffect, AppendFacts, JobTypes
    <3>2. poolAt' = poolAt /\ current' = current
      BY <1>3, OutsideEffect
    <3> QED
      BY <3>1, <3>2 DEF ChainInv, PoolOK
  <2>3. AskedOK'
    BY <1>1, <1>3, <2>1, OutsideEffect
  <2> QED
    BY <2>1, <2>2, <2>3 DEF ChainInv
<1>4. CASE ListenerStep
  <2>1. OnlyChecks(pool) /\ ListenerOK' /\ poolAt' = poolAt /\ current' = current
    BY <1>4, ListenerEffect
  <2>2. CASE pool' = pool
    BY <2>1, <2>2 DEF ChainInv, OnlyChecks, AskedOK, PoolOK
  <2>3. ASSUME NEW j \in Job, j.op # "check", pool' = Append(pool, j), AskedFor(j)'
        PROVE  ChainInv'
    <3>1. /\ Len(pool') = Len(pool) + 1 /\ pool'[Len(pool) + 1] = j
          /\ \A i \in 1..Len(pool) : pool'[i] = pool[i]
          /\ pool # <<>> => pool' # <<>> /\ Head(pool') = Head(pool)
      BY <1>0, <2>3, AppendFacts
    <3>2. \A i \in 1..Len(pool') : pool'[i].op # "check" => i = Len(pool) + 1
      <4>1. \A i \in 1..Len(pool') : i \in 1..Len(pool) \/ i = Len(pool) + 1
        BY <1>0, <3>1
      <4> QED
        BY <2>1, <3>1, <4>1 DEF OnlyChecks
    <3>3. AskedOK'
      <4>1. ASSUME NEW i \in 1..Len(pool'), pool'[i].op # "check"
            PROVE  /\ AskedFor(pool[i])'
                   /\ \A k \in 1..Len(pool') : pool'[k].op # "check" => k = i
        <5>1. i = Len(pool) + 1 /\ pool'[i] = j
          BY <3>1, <3>2, <4>1
        <5> QED
          BY <2>3, <3>2, <5>1 DEF AskedFor
      <4> QED
        BY <4>1 DEF AskedOK
    <3>4. PoolOK'
      BY <2>1, <3>1 DEF ChainInv, PoolOK
    <3> QED
      BY <2>1, <3>3, <3>4 DEF ChainInv
  <2> QED
    BY <1>4, <2>2, <2>3, ListenerEffect
<1>5. CASE UNCHANGED <<poolVars, listenerVars>>
  BY <1>5 DEF poolVars, listenerVars, ChainInv, PoolOK, ListenerOK, AskedOK, AskedFor, Token
<1> QED
  BY <1>2, <1>3, <1>4, <1>5, Steps, TradedEffect DEF vars

LEMMA TypeInduction ==
    ASSUME TypeOK, ChainInv, [Next]_vars
    PROVE  TypeOK'
<1>0. /\ pool \in Seq(Job) /\ listener \in Seq(ListenerJob)
      /\ seen \in Seq(Trade) /\ accepted \in Seq(Trade) /\ Window \in Nat \ {0}
      /\ watched \subseteq Mint
      /\ feed \in [{1, 2} -> [open : BOOLEAN, tokens : SUBSET Mint]]
  BY DEF TypeOK
<1>1. CASE PoolStep
  <2>1. pool' \in Seq(Job)
    <3>1. pool # <<>> /\ (pool' = pool \/ pool' = Tail(pool))
      BY <1>1, PoolEffect
    <3>2. Tail(pool) \in Seq(Job)
      BY <1>0, <3>1, TailFacts
    <3> QED
      BY <1>0, <3>1, <3>2
  <2>2. listener' \in Seq(ListenerJob)
    BY <1>1, PoolEffect, ListenerGrows
  <2> QED
    BY <1>1, <2>1, <2>2, PoolEffect DEF TypeOK, tradeVars
<1>2. CASE Outside
  <2>1. pool' \in Seq(Job)
    <3>1. pool' = pool \/ pool' = Append(pool, [op |-> "check"])
      BY <1>2, OutsideEffect
    <3>2. Append(pool, [op |-> "check"]) \in Seq(Job)
      BY <1>0, AppendFacts, JobTypes
    <3> QED
      BY <1>0, <3>1, <3>2
  <2>2. listener' \in Seq(ListenerJob)
    BY <1>2, OutsideEffect, ListenerGrows
  <2> QED
    BY <1>2, <2>1, <2>2, OutsideEffect DEF TypeOK, tradeVars
<1>3. CASE ListenerStep
  <2>1. listener # <<>> /\ pool' \in Seq(Job)
    <3>1. pool' = pool \/ \E j \in Job : pool' = Append(pool, j)
      BY <1>3, ListenerEffect
    <3>2. \A j \in Job : Append(pool, j) \in Seq(Job)
      BY <1>0, AppendFacts
    <3> QED
      BY <1>0, <1>3, <3>1, <3>2, ListenerEffect
  <2>2. listener' \in Seq(ListenerJob) /\ Head(listener) \in ListenerJob
    <3>1. listener' = listener \/ listener' = Tail(listener)
      BY <1>3, ListenerEffect
    <3>2. Tail(listener) \in Seq(ListenerJob) /\ Head(listener) \in ListenerJob
      BY <1>0, <2>1, TailFacts
    <3> QED
      BY <1>0, <3>1, <3>2
  <2>3. /\ poolStopped' \in BOOLEAN /\ stopped' \in BOOLEAN
        /\ closed' \in {"pending", "resolved", "rejected"}
    BY <1>3 DEF ListenerStep, Add, Remove, Reset, Renew, Close, poolVars, TypeOK
  <2>4. /\ watched' \subseteq Mint
        /\ feed' \in [{1, 2} -> [open : BOOLEAN, tokens : SUBSET Mint]]
    <3>0. /\ watched \subseteq Mint
          /\ feed \in [{1, 2} -> [open : BOOLEAN, tokens : SUBSET Mint]]
          /\ NoFeed \in [open : BOOLEAN, tokens : SUBSET Mint]
      BY <1>0 DEF NoFeed
    <3>1. CASE Add
      <4>1. Token \in Mint
        BY <2>2, <3>1, JobTypes DEF Add, Runs, Token
      <4> QED
        BY <3>0, <3>1, <4>1 DEF Add
    <3>2. CASE Remove
      BY <3>0, <3>2 DEF Remove
    <3>3. CASE Reset
      BY <3>0, <3>3 DEF Reset
    <3>4. CASE Renew
      <4>1. watched' = watched
        BY <3>4 DEF Renew
      <4>2. [i \in {1, 2} |-> IF i = 1 THEN NoFeed ELSE [open |-> TRUE, tokens |-> watched]]
              \in [{1, 2} -> [open : BOOLEAN, tokens : SUBSET Mint]]
        BY <3>0
      <4>3. FeedReplaced \in [{1, 2} -> [open : BOOLEAN, tokens : SUBSET Mint]]
        BY <3>0 DEF FeedReplaced
      <4> QED
        BY <3>0, <3>4, <4>1, <4>2, <4>3 DEF Renew
    <3>5. CASE Close
      <4>1. [feed EXCEPT ![1] = NoFeed] \in [{1, 2} -> [open : BOOLEAN, tokens : SUBSET Mint]]
        BY <3>0
      <4> QED
        BY <3>0, <3>5, <4>1 DEF Close
    <3> QED
      BY <1>3, <3>1, <3>2, <3>3, <3>4, <3>5 DEF ListenerStep
  <2> QED
    BY <1>3, <2>1, <2>2, <2>3, <2>4, ListenerEffect DEF TypeOK, tradeVars
<1>4. CASE Traded
  <2>1. UNCHANGED <<poolVars, listenerVars>>
    BY <1>4, TradedEffect
  <2>2. /\ arrived' \subseteq Sub \X Trade
        /\ flight' \subseteq [sub : Sub, trade : Trade, at : {"enrich", "price"}]
    <3>0. /\ arrived \subseteq Sub \X Trade
          /\ flight \subseteq [sub : Sub, trade : Trade, at : {"enrich", "price"}]
      BY DEF TypeOK
    <3>1. ASSUME NEW s \in Sub, NEW t \in Trade, Log(s, t)
          PROVE  /\ arrived' \subseteq Sub \X Trade
                 /\ flight' \subseteq [sub : Sub, trade : Trade, at : {"enrich", "price"}]
      BY <3>0, <3>1 DEF Log
    <3>2. ASSUME NEW f \in flight, Enrich(f) \/ OnTrade(f)
          PROVE  /\ arrived' \subseteq Sub \X Trade
                 /\ flight' \subseteq [sub : Sub, trade : Trade, at : {"enrich", "price"}]
      BY <3>0, <3>2 DEF Enrich, OnTrade
    <3> QED
      BY <1>4, <3>1, <3>2 DEF Traded
  <2>3. seen' \in Seq(Trade) /\ Len(seen') <= Window /\ accepted' \in Seq(Trade)
    <3>0. Len(seen) \in Nat /\ Len(seen) <= Window
      BY DEF TypeOK
    <3>1. ASSUME NEW f \in flight, OnTrade(f)
          PROVE  seen' \in Seq(Trade) /\ Len(seen') <= Window /\ accepted' \in Seq(Trade)
      <4>1. f.trade \in Trade
        BY DEF TypeOK
      <4>2. /\ seen' = seen \/ seen' = Remembered(f.trade)
            /\ accepted' = accepted \/ accepted' = Append(accepted, f.trade)
        BY <3>1 DEF OnTrade
      <4>3. accepted' \in Seq(Trade)
        <5>1. Append(accepted, f.trade) \in Seq(Trade)
          BY <1>0, <4>1, AppendFacts
        <5> QED
          BY <1>0, <4>2, <5>1
      <4>4. Remembered(f.trade) \in Seq(Trade) /\ Len(Remembered(f.trade)) <= Window
        <5>1. CASE Len(seen) < Window
          BY <1>0, <3>0, <4>1, <5>1 DEF Remembered
        <5>2. CASE ~(Len(seen) < Window)
          <6>1. seen # <<>>
            BY <1>0, <3>0, <5>2
          <6>2. Tail(seen) \in Seq(Trade) /\ Len(Tail(seen)) = Window - 1
            BY <1>0, <3>0, <5>2, <6>1, TailFacts
          <6> QED
            BY <1>0, <4>1, <5>2, <6>2 DEF Remembered
        <5> QED
          BY <5>1, <5>2
      <4> QED
        BY <1>0, <3>0, <4>2, <4>3, <4>4
    <3> QED
      BY <1>0, <1>4, <3>0, <3>1 DEF Traded, Log, Enrich
  <2> QED
    BY <2>1, <2>2, <2>3 DEF TypeOK, poolVars, listenerVars
<1>5. CASE UNCHANGED vars
  BY <1>5 DEF vars, poolVars, listenerVars, tradeVars, TypeOK
<1> QED
  BY <1>1, <1>2, <1>3, <1>4, <1>5, Steps

-----------------------------------------------------------------------------
(* The end of the two chains *)

\* Nothing is behind the listener's last job, which stops the pool first.
LastJobOK ==
    /\ \A i \in 1..Len(listener) :
          listener[i].op = "close" => stopped /\ i = Len(listener)
    /\ poolStopped => stopped
    /\ Runs("close") /\ listenerAt = "pool" => poolStopped
    /\ closed # "pending" => listener = <<>> /\ stopped /\ poolStopped

\* The subscription that listens: at the swap the new one, not yet current.
Live == IF poolAt = "swap" THEN current + 1 ELSE current

\* The subscription will still be closed.
CloseAhead ==
    \E i \in 1..Len(pool) : pool[i].op = "close" /\ (i = 1 => poolAt = "start")

SubsOK ==
    /\ \A s \in Sub : sub[s].phase = "open" => s = Live
    /\ ~poolStopped => sub[Live].phase = "open"
    /\ poolStopped => sub[Live].phase # "open" \/ CloseAhead

FeedsOK ==
    /\ feed[2].open => listenerAt = "swap"
    /\ closed # "pending" \/ (Runs("close") /\ listenerAt = "pool") => ~feed[1].open
    /\ ~stopped =>
          IF listenerAt = "swap" THEN feed[2].open /\ watched \subseteq feed[2].tokens
          ELSE feed[1].open /\ watched \subseteq feed[1].tokens

LEMMA LastJobInduction ==
    ASSUME TypeOK, ChainInv, LastJobOK, [Next]_vars
    PROVE  LastJobOK'
<1>0. /\ listener \in Seq(ListenerJob) /\ Len(listener) \in Nat
      /\ stopped \in BOOLEAN /\ poolStopped \in BOOLEAN
      /\ listener # <<>> => Len(listener) \in Nat \ {0} /\ Head(listener) = listener[1]
  BY TailFacts DEF TypeOK
\* The listener's chain stays, or grows before it is stopped.
<1>1. ASSUME UNCHANGED <<poolStopped, closed, listenerAt>>,
             ListenerOK' /\ (stopped => stopped'),
             \/ listener' = listener
             \/ /\ ~stopped
                /\ \E x \in ListenerJob : /\ listener' = Append(listener, x)
                                          /\ x.op = "close" => stopped'
      PROVE  LastJobOK'
  <2>1. CASE listener' = listener
    BY <1>1, <2>1 DEF LastJobOK, Runs
  <2>2. ASSUME ~stopped, NEW x \in ListenerJob, listener' = Append(listener, x),
               x.op = "close" => stopped'
        PROVE  LastJobOK'
    <3>1. /\ Len(listener') = Len(listener) + 1 /\ listener'[Len(listener) + 1] = x
          /\ \A i \in 1..Len(listener) : listener'[i] = listener[i]
          /\ listener # <<>> => Head(listener') = Head(listener)
      BY <1>0, <2>2, AppendFacts
    <3>2. \A i \in 1..Len(listener') : i \in 1..Len(listener) \/ i = Len(listener) + 1
      BY <1>0, <3>1
    <3>3. \A i \in 1..Len(listener) : listener[i].op # "close"
      BY <2>2 DEF LastJobOK
    <3>4. \A i \in 1..Len(listener') :
             listener'[i].op = "close" => stopped' /\ i = Len(listener')
      BY <2>2, <3>1, <3>2, <3>3
    <3>5. listenerAt = "pool" => listener # <<>>
      BY DEF ChainInv, ListenerOK
    <3>6. ~(Runs("close")' /\ listenerAt' = "pool")
      BY <1>0, <1>1, <3>1, <3>3, <3>5 DEF Runs
    <3> QED
      BY <1>1, <2>2, <3>4, <3>6 DEF LastJobOK
  <2> QED
    BY <1>1, <2>1, <2>2
<1>2. CASE PoolStep
  <2>1. ListenerOK'
    BY <1>2, PoolEffect, ListenerGrows
  <2>2. \/ listener' = listener
        \/ /\ ~stopped
           /\ \E x \in ListenerJob : /\ listener' = Append(listener, x)
                                     /\ x.op = "close" => stopped'
    BY <1>2, PoolEffect
  <2>3. UNCHANGED <<poolStopped, closed, listenerAt, stopped>>
    BY <1>2, PoolEffect
  <2> QED
    BY <1>1, <2>1, <2>2, <2>3
<1>3. CASE Outside
  <2>1. ListenerOK'
    BY <1>3, OutsideEffect, ListenerGrows
  <2> QED
    BY <1>1, <1>3, <2>1, OutsideEffect
<1>4. CASE ListenerStep
  <2>1. /\ listener # <<>> /\ ListenerOK' /\ listener' \in {listener, Tail(listener)}
        /\ listener' = Tail(listener) => listenerAt' = "start"
    BY <1>4, ListenerEffect
  <2>2. /\ Len(Tail(listener)) = Len(listener) - 1
        /\ \A i \in 1..Len(Tail(listener)) :
              Tail(listener)[i] = listener[i + 1] /\ i + 1 \in 1..Len(listener)
    BY <1>0, <2>1, TailFacts
  <2>3. stopped' = stopped
    BY <1>4 DEF ListenerStep, Add, Remove, Reset, Renew, Close
  <2>4. \A i \in 1..Len(listener') :
             listener'[i].op = "close" => stopped' /\ i = Len(listener')
    <3>1. CASE listener' = listener
      BY <2>3, <3>1 DEF LastJobOK
    <3>2. CASE listener' = Tail(listener)
      BY <1>0, <2>2, <2>3, <3>2 DEF LastJobOK
    <3> QED
      BY <2>1, <3>1, <3>2
  <2>5. CASE ~Close
    <3>1. UNCHANGED <<poolStopped, closed>> /\ ~Runs("close") /\ closed = "pending"
      BY <1>4, <2>1, <2>5
         DEF ListenerStep, Add, Remove, Reset, Renew, poolVars, Runs, LastJobOK
    <3>2. ~(Runs("close")' /\ listenerAt' = "pool")
      BY <2>1, <3>1 DEF Runs
    <3> QED
      BY <2>3, <2>4, <3>1, <3>2 DEF LastJobOK
  <2>6. CASE Close
    <3>1. stopped /\ Len(listener) = 1
      <4>1. 1 \in 1..Len(listener) /\ listener[1].op = "close"
        BY <1>0, <2>1, <2>6 DEF Close, Runs
      <4> QED
        BY <4>1 DEF LastJobOK
    <3>2. CASE listenerAt = "start"
      BY <2>1, <2>3, <2>4, <2>6, <3>1, <3>2 DEF Close, Awaits, LastJobOK
    <3>3. CASE listenerAt = "pool"
      <4>1. poolStopped /\ poolStopped' /\ listener' = Tail(listener) /\ listenerAt' = "start"
        BY <2>6, <3>3 DEF Close, Done, LastJobOK
      <4>2. listener' = <<>>
        BY <1>0, <2>1, <2>2, <3>1, <4>1
      <4> QED
        BY <2>3, <2>4, <3>1, <4>1, <4>2 DEF LastJobOK
    <3> QED
      BY <2>6, <3>2, <3>3 DEF Close
  <2> QED
    BY <2>5, <2>6
<1>5. CASE UNCHANGED <<poolVars, listenerVars>>
  BY <1>5 DEF poolVars, listenerVars, LastJobOK, Runs
<1> QED
  BY <1>2, <1>3, <1>4, <1>5, Steps, TradedEffect DEF vars

\* The listener's step leaves the subscriptions to the pool, and asks it to
\* close when it stops it.
LEMMA SubsInduction ==
    ASSUME TypeOK, ChainInv, LastJobOK, SubsOK, [Next]_vars
    PROVE  SubsOK'
<1>0. /\ pool \in Seq(Job) /\ Len(pool) \in Nat /\ current \in Sub /\ current \in Nat
      /\ pool # <<>> => Len(pool) \in Nat \ {0} /\ Head(pool) = pool[1] /\ 1 \in 1..Len(pool)
      /\ sub \in [Sub -> [phase : {"new", "open", "closed"}, tokens : SUBSET Mint]]
      /\ poolStopped \in BOOLEAN
      /\ poolAt \in {"start", "probe", "unsubscribe", "swap"}
  BY TailFacts DEF TypeOK, Sub
\* A job that is not a check is the last but the checks, so closing is over
\* when it is not the one that closes.
<1>1. pool # <<>> /\ pool[1].op # "check" =>
         (CloseAhead => pool[1].op = "close" /\ poolAt = "start")
  BY <1>0 DEF CloseAhead, ChainInv, AskedOK
\* A check at the head leaves the close where it is.
<1>2. ASSUME pool # <<>>, pool[1].op = "check",
             pool' = pool \/ (pool' = Tail(pool) /\ poolAt' = "start"), CloseAhead
      PROVE  CloseAhead'
  <2>1. PICK i \in 1..Len(pool) : pool[i].op = "close"
    BY <1>2 DEF CloseAhead
  <2>2. i # 1
    BY <1>2, <2>1
  <2>3. CASE pool' = pool
    BY <2>1, <2>2, <2>3 DEF CloseAhead
  <2>4. CASE pool' = Tail(pool) /\ poolAt' = "start"
    <3>1. i - 1 \in 1..Len(Tail(pool)) /\ Tail(pool)[i - 1] = pool[i]
      <4>1. Len(Tail(pool)) = Len(pool) - 1
            /\ \A k \in 1..Len(Tail(pool)) : Tail(pool)[k] = pool[k + 1]
        BY <1>0, <1>2, TailFacts
      <4>2. i - 1 \in 1..Len(Tail(pool)) /\ (i - 1) + 1 = i
        BY <1>0, <2>2, <4>1
      <4> QED
        BY <4>1, <4>2
    <3> QED
      BY <2>1, <2>4, <3>1 DEF CloseAhead
  <2> QED
    BY <1>2, <2>3, <2>4
<1>3. CASE PoolStep
  <2>0. /\ pool # <<>> /\ poolStopped' = poolStopped
        /\ pool' = pool \/ (pool' = Tail(pool) /\ poolAt' = "start")
    BY <1>3, PoolEffect
  \* The phases stay, and a check leaves the close ahead.
  <2>1. ASSUME Live' = Live, \A s \in Sub : sub'[s].phase = sub[s].phase,
               pool[1].op = "check" \/ ~CloseAhead, Live \in Sub
        PROVE  SubsOK'
    BY <1>2, <2>0, <2>1 DEF SubsOK
  <2>2. CASE PoolAdd
    <3>1. poolAt = "start" /\ poolAt' = "start" /\ pool[1].op = "add" /\ current' = current
      BY <1>0, <2>0, <2>2 DEF PoolAdd, PoolJob, PoolDone, ChainInv, PoolOK
    <3>2. \A s \in Sub : sub'[s].phase = sub[s].phase
      BY <1>0, <2>2 DEF PoolAdd, AddToken
    <3> QED
      BY <1>0, <1>1, <2>0, <2>1, <3>1, <3>2 DEF Live
  <2>3. CASE PoolRemove
    <3>1. /\ poolAt # "swap" /\ poolAt' # "swap" /\ pool[1].op = "remove"
          /\ current' = current
      BY <1>0, <2>0, <2>3
         DEF PoolRemove, PoolJob, PoolDone, PoolAwaits, ChainInv, PoolOK
    <3>2. \A s \in Sub : sub'[s].phase = sub[s].phase
      BY <1>0, <2>3 DEF PoolRemove, RemoveToken
    <3> QED
      BY <1>0, <1>1, <2>0, <2>1, <3>1, <3>2 DEF Live
  <2>4. CASE Probe
    <3>1. poolAt # "swap" /\ poolAt' # "swap" /\ pool[1].op = "check" /\ current' = current
      BY <1>0, <2>0, <2>4 DEF Probe, PoolJob, PoolDone, PoolAwaits
    <3> QED
      BY <1>0, <2>1, <2>4, <3>1 DEF Live, Probe
  <2>5. CASE Probed
    <3>1. poolAt # "swap" /\ pool[1].op = "check" /\ current' = current
      BY <1>0, <2>0, <2>5 DEF Probed, PoolJob
    <3>2. CASE PoolDone /\ UNCHANGED sub
      BY <1>0, <2>1, <3>1, <3>2 DEF Live, PoolDone
    <3>3. CASE /\ MayFailOver /\ PoolAwaits("swap")
               /\ sub' = [Opened(current + 1) EXCEPT ![current] = CloseSub(current)[current]]
      <4>1. current + 1 \in Sub /\ ~poolStopped
        BY <1>0, <3>3 DEF MayFailOver, Sub
      <4>2. \A s \in Sub :
               /\ s = current => sub'[s].phase = "closed"
               /\ s = current + 1 => sub'[s].phase = "open"
               /\ s \notin {current, current + 1} => sub'[s] = sub[s]
        <5>1. CloseSub(current)[current].phase = "closed"
          BY <1>0 DEF CloseSub
        <5>2. /\ DOMAIN Opened(current + 1) = Sub /\ current \in Sub /\ current # current + 1
              /\ Opened(current + 1)[current + 1].phase = "open"
          BY <1>0, <4>1 DEF Opened
        <5>3. \A s \in Sub : s # current + 1 => Opened(current + 1)[s] = sub[s]
          BY <1>0 DEF Opened
        <5>4. sub'[current] = CloseSub(current)[current]
          BY <3>3, <5>2
        <5>5. \A s \in Sub : s # current => sub'[s] = Opened(current + 1)[s]
          BY <3>3, <5>2
        <5> QED
          BY <4>1, <5>1, <5>2, <5>3, <5>4, <5>5
      <4>3. Live = current /\ Live' = current + 1
        BY <3>1, <3>3 DEF Live, PoolAwaits
      <4> QED
        BY <1>0, <2>0, <4>1, <4>2, <4>3 DEF SubsOK
    <3> QED
      BY <2>5, <3>2, <3>3 DEF Probed
  <2>6. CASE Swap
    <3>1. poolAt = "swap" /\ poolAt' = "start" /\ current' = current + 1 /\ sub' = sub
      BY <2>6 DEF Swap, PoolDone
    <3>2. pool[1].op = "check" /\ Live \in Sub
      BY <1>0, <2>0, <2>6 DEF Swap, PoolJob, ChainInv, PoolOK, Live, Sub
    <3> QED
      BY <1>0, <2>1, <3>1, <3>2 DEF Live
  <2>7. CASE PoolClose
    <3>1. poolAt # "swap" /\ poolAt' # "swap" /\ pool[1].op = "close" /\ current' = current
      BY <1>0, <2>0, <2>7 DEF PoolClose, PoolJob, PoolDone, PoolAwaits
    <3>2. poolStopped
      BY <1>0, <2>0, <3>1 DEF ChainInv, AskedOK, AskedFor, LastJobOK, Runs
    <3>3. CASE poolAt = "start" /\ sub' = CloseSub(current)
      <4>1. \A s \in Sub : IF s = current THEN sub'[s].phase = "closed" ELSE sub'[s] = sub[s]
        BY <1>0, <3>3 DEF CloseSub
      <4> QED
        BY <1>0, <2>0, <3>1, <3>2, <4>1 DEF SubsOK, Live
    <3>4. CASE poolAt = "unsubscribe" /\ sub' = sub
      <4>1. ~CloseAhead
        BY <1>1, <2>0, <3>1, <3>4
      <4> QED
        BY <1>0, <2>1, <3>1, <3>4, <4>1 DEF Live
    <3> QED
      BY <2>7, <3>3, <3>4 DEF PoolClose
  <2> QED
    BY <1>3, <2>2, <2>3, <2>4, <2>5, <2>6, <2>7 DEF PoolStep
<1>4. CASE Outside
  <2>1. /\ Live' = Live /\ sub' = sub /\ poolStopped' = poolStopped /\ poolAt' = poolAt
        /\ poolStopped => pool' = pool
    BY <1>4, OutsideEffect DEF Live
  <2> QED
    BY <2>1 DEF SubsOK, CloseAhead
<1>5. CASE ListenerStep
  <2>1. Live' = Live /\ sub' = sub /\ poolAt' = poolAt
    BY <1>5, ListenerEffect DEF Live
  <2>2. CASE pool' = pool
    <3>1. poolStopped' = poolStopped
      <4>1. CASE Close
        <5>1. CASE listenerAt = "start"
          <6>1. pool' = Append(pool, [op |-> "close"])
            BY <4>1, <5>1 DEF Close, AskPool
          <6>2. Len(pool') = Len(pool) + 1
            BY <1>0, <6>1, AppendFacts, JobTypes
          <6> QED
            BY <1>0, <2>2, <6>2
        <5> QED
          BY <4>1, <5>1 DEF Close
      <4> QED
        BY <1>5, <4>1 DEF ListenerStep, Add, Remove, Reset, Renew, poolVars
    <3> QED
      BY <2>1, <2>2, <3>1 DEF SubsOK, CloseAhead
  <2>3. ASSUME NEW j \in Job, pool' = Append(pool, j), j.op = "close" <=> Runs("close")
        PROVE  SubsOK'
    <3>1. /\ Len(pool') = Len(pool) + 1 /\ pool'[Len(pool) + 1] = j
          /\ \A i \in 1..Len(pool) : pool'[i] = pool[i]
          /\ pool = <<>> => Len(pool) = 0
      BY <1>0, <2>3, AppendFacts
    <3>2. CloseAhead => CloseAhead'
      <4>1. \A i \in 1..Len(pool) : i \in 1..Len(pool')
        BY <1>0, <3>1
      <4> QED
        BY <2>1, <3>1, <4>1 DEF CloseAhead
    <3>3. CASE Close
      <4>1. Len(pool) + 1 \in 1..Len(pool')
        BY <1>0, <3>1
      <4>2. Len(pool) + 1 = 1 => poolAt = "start"
        BY <1>0 DEF ChainInv, PoolOK
      <4>3. CloseAhead'
        BY <2>1, <2>3, <3>1, <3>3, <4>1, <4>2 DEF CloseAhead, Close
      <4>4. poolStopped'
        BY <2>3, <3>1, <3>3, <1>0 DEF Close, LastJobOK
      <4> QED
        BY <2>1, <4>3, <4>4 DEF SubsOK
    <3>4. CASE ~Close
      <4>1. poolStopped' = poolStopped
        BY <1>5, <3>4 DEF ListenerStep, Add, Remove, Reset, Renew, poolVars
      <4> QED
        BY <2>1, <3>2, <4>1 DEF SubsOK
    <3> QED
      BY <3>3, <3>4
  <2> QED
    BY <1>5, <2>2, <2>3, ListenerEffect
<1>6. CASE UNCHANGED <<poolVars, listenerVars>>
  BY <1>6 DEF poolVars, SubsOK, CloseAhead, Live
<1> QED
  BY <1>3, <1>4, <1>5, <1>6, Steps, TradedEffect DEF vars

\* The feeds are the listener's own; only a renewal opens one.
LEMMA FeedsInduction ==
    ASSUME TypeOK, ChainInv, LastJobOK, FeedsOK, [Next]_vars
    PROVE  FeedsOK'
<1>0. /\ feed \in [{1, 2} -> [open : BOOLEAN, tokens : SUBSET Mint]]
      /\ stopped \in BOOLEAN
      /\ NoFeed.open = FALSE
  BY DEF TypeOK, NoFeed
\* The running job of the listener stays.
<1>1. ASSUME UNCHANGED <<feed, closed, watched, listenerAt>>, stopped => stopped',
             listener # <<>> => listener' # <<>> /\ Head(listener') = Head(listener)
      PROVE  FeedsOK'
  <2>1. listenerAt = "pool" => listener # <<>>
    BY DEF ChainInv, ListenerOK
  <2> QED
    BY <1>0, <1>1, <2>1 DEF FeedsOK, Runs
<1>2. CASE PoolStep
  <2>1. listener # <<>> => listener' # <<>> /\ Head(listener') = Head(listener)
    BY <1>2, PoolEffect, ListenerGrows
  <2> QED
    BY <1>1, <1>2, <2>1, PoolEffect
<1>3. CASE Outside
  <2>1. listener # <<>> => listener' # <<>> /\ Head(listener') = Head(listener)
    BY <1>3, OutsideEffect, ListenerGrows
  <2> QED
    BY <1>1, <1>3, <2>1, OutsideEffect
<1>4. CASE ListenerStep
  <2>1. /\ listener # <<>> /\ listener' \in {listener, Tail(listener)}
        /\ listener' = Tail(listener) => listenerAt' = "start"
        /\ closed = "pending"
    BY <1>4, ListenerEffect DEF LastJobOK
  <2>2. stopped' = stopped
    BY <1>4 DEF ListenerStep, Add, Remove, Reset, Renew, Close
  <2>3. ~Runs("close") => ~(Runs("close")' /\ listenerAt' = "pool")
    BY <2>1 DEF Runs
  <2>4. CASE Add
    <3>1. /\ listenerAt \notin {"swap"} /\ listenerAt' # "swap" /\ closed' = closed
          /\ ~Runs("close")
      BY <2>4 DEF Add, Runs, Done, Awaits
    <3>2. CASE UNCHANGED <<watched, feed>>
      BY <2>1, <2>2, <2>3, <3>1, <3>2 DEF FeedsOK
    <3>3. CASE /\ feed' = [feed EXCEPT ![1].tokens = @ \cup {Token}]
               /\ watched' = watched \cup {Token}
      <4>1. /\ feed'[1].open = feed[1].open /\ feed'[2] = feed[2]
            /\ feed'[1].tokens = feed[1].tokens \cup {Token}
        BY <1>0, <3>3
      <4> QED
        BY <2>1, <2>2, <2>3, <3>1, <3>3, <4>1 DEF FeedsOK
    <3> QED
      BY <2>4, <3>2, <3>3 DEF Add
  <2>5. CASE Remove
    <3>1. /\ listenerAt \notin {"swap"} /\ listenerAt' # "swap" /\ closed' = closed
          /\ ~Runs("close")
      BY <2>5 DEF Remove, Runs, Done, Awaits
    <3>2. CASE UNCHANGED <<watched, feed>>
      BY <2>1, <2>2, <2>3, <3>1, <3>2 DEF FeedsOK
    <3>3. CASE /\ feed' = [feed EXCEPT ![1].tokens = @ \ {Token}]
               /\ watched' = watched \ {Token}
      <4>1. /\ feed'[1].open = feed[1].open /\ feed'[2] = feed[2]
            /\ feed'[1].tokens = feed[1].tokens \ {Token}
        BY <1>0, <3>3
      <4> QED
        BY <2>1, <2>2, <2>3, <3>1, <3>3, <4>1 DEF FeedsOK
    <3> QED
      BY <2>5, <3>2, <3>3 DEF Remove
  <2>6. CASE Reset
    <3>1. /\ listenerAt \notin {"swap"} /\ listenerAt' # "swap" /\ closed' = closed
          /\ ~Runs("close") /\ UNCHANGED <<watched, feed>>
      BY <2>6 DEF Reset, Runs, Done, Awaits
    <3> QED
      BY <2>1, <2>2, <2>3, <3>1 DEF FeedsOK
  <2>7. CASE Renew
    <3>1. closed' = closed /\ watched' = watched /\ ~Runs("close")
      BY <2>7 DEF Renew, Runs
    <3>2. CASE listenerAt # "swap" /\ listenerAt' # "swap" /\ feed' = feed
      BY <2>1, <2>2, <2>3, <3>1, <3>2 DEF FeedsOK
    <3>3. CASE /\ listenerAt' = "swap"
               /\ feed' = [i \in {1, 2} |-> IF i = 1 THEN NoFeed
                                            ELSE [open |-> TRUE, tokens |-> watched]]
      <4>1. feed'[1] = NoFeed /\ feed'[2].open = TRUE /\ feed'[2].tokens = watched
        BY <3>3
      <4> QED
        BY <1>0, <2>1, <2>2, <2>3, <3>1, <3>3, <4>1 DEF FeedsOK
    <3>4. CASE listenerAt = "swap" /\ listenerAt' = "start" /\ feed' = FeedReplaced
      <4>1. feed'[1] = feed[2] /\ feed'[2] = NoFeed
        BY <1>0, <3>4 DEF FeedReplaced
      <4> QED
        BY <1>0, <2>1, <2>2, <2>3, <3>1, <3>4, <4>1 DEF FeedsOK
    <3> QED
      BY <2>7, <3>2, <3>3, <3>4 DEF Renew, Done, Awaits
  <2>8. CASE Close
    <3>1. /\ stopped /\ listenerAt # "swap" /\ listenerAt' # "swap" /\ Runs("close")
          /\ feed'[2] = feed[2] /\ ~feed'[1].open
      <4>1. stopped
        <5>1. Len(listener) \in Nat \ {0} /\ Head(listener) = listener[1]
          BY <2>1, TailFacts DEF TypeOK
        <5>2. 1 \in 1..Len(listener) /\ listener[1].op = "close"
          BY <2>8, <5>1 DEF Close, Runs
        <5> QED
          BY <5>2 DEF LastJobOK
      <4>2. CASE listenerAt = "start"
        BY <1>0, <2>8, <4>1, <4>2 DEF Close, Awaits
      <4>3. CASE listenerAt = "pool"
        BY <2>8, <4>1, <4>3 DEF Close, Done, FeedsOK
      <4> QED
        BY <2>8, <4>2, <4>3 DEF Close
    <3> QED
      BY <2>2, <3>1 DEF FeedsOK
  <2> QED
    BY <1>4, <2>4, <2>5, <2>6, <2>7, <2>8 DEF ListenerStep
<1>5. CASE UNCHANGED <<poolVars, listenerVars>>
  BY <1>5 DEF listenerVars, FeedsOK, Runs
<1> QED
  BY <1>2, <1>3, <1>4, <1>5, Steps, TradedEffect DEF vars

ClosingInv == ChainInv /\ LastJobOK /\ SubsOK /\ FeedsOK

LEMMA ClosingInduction == TypeOK /\ ClosingInv /\ [Next]_vars => (TypeOK /\ ClosingInv)'
  BY TypeInduction, ChainInduction, LastJobInduction, SubsInduction, FeedsInduction
     DEF ClosingInv

LEMMA ClosingInit == Init => TypeOK /\ ClosingInv
<1> SUFFICES ASSUME Init PROVE TypeOK /\ ClosingInv
  OBVIOUS
<1>1. 1 \in Sub /\ 0 \in 0..MaxMigrations
  BY DEF Sub
<1>2. sub \in [Sub -> [phase : {"new", "open", "closed"}, tokens : SUBSET Mint]]
  BY <1>1 DEF Init
<1>3. feed \in [{1, 2} -> [open : BOOLEAN, tokens : SUBSET Mint]]
  BY DEF Init, NoFeed
<1>4. TypeOK
  <2>1. /\ current \in Sub /\ watched \subseteq Mint /\ migrated \in 0..MaxMigrations
        /\ poolStopped \in BOOLEAN /\ stopped \in BOOLEAN
        /\ arrived = {} /\ flight = {}
    BY <1>1 DEF Init
  <2>2. pool \in Seq(Job) /\ listener \in Seq(ListenerJob)
    BY DEF Init
  <2>3. seen \in Seq(Trade) /\ Len(seen) <= Window /\ accepted \in Seq(Trade)
    BY DEF Init
  <2>4. /\ poolAt = "start" /\ listenerAt = "start" /\ closed = "pending"
    BY DEF Init
  <2> QED
    BY <1>2, <1>3, <2>1, <2>2, <2>3, <2>4 DEF TypeOK
<1>5. ChainInv
  BY DEF Init, ChainInv, PoolOK, ListenerOK, AskedOK
<1>6. LastJobOK
  BY DEF Init, LastJobOK, Runs
<1>7. SubsOK
  BY <1>1 DEF Init, SubsOK, Live
<1>8. FeedsOK
  BY DEF Init, FeedsOK, NoFeed, Runs
<1> QED
  BY <1>4, <1>5, <1>6, <1>7, <1>8 DEF ClosingInv

\* Every variable of the two chains, the feeds and the filter keeps its type.
THEOREM TypeCorrect == Spec => []TypeOK
  BY ClosingInit, ClosingInduction, PTL DEF Spec

\* Once the closed promise has settled no subscription and no migration feed
\* is open, whatever check, failover or renewal was under way.
THEOREM ClosedListenerIsQuiet == Spec => []ClosedIsQuiet
<1>1. TypeOK /\ ClosingInv => ClosedIsQuiet
  <2> SUFFICES ASSUME TypeOK, ClosingInv, closed # "pending" PROVE ClosedIsQuiet
    BY DEF ClosedIsQuiet
  <2>1. listener = <<>> /\ poolStopped /\ listenerAt = "start"
    BY DEF ClosingInv, LastJobOK, ChainInv, ListenerOK, TypeOK
  <2>2. ~CloseAhead
    BY <2>1 DEF ClosingInv, ChainInv, AskedOK, AskedFor, CloseAhead
  <2>3. \A s \in Sub : sub[s].phase # "open"
    BY <2>1, <2>2 DEF ClosingInv, SubsOK
  <2>4. ~feed[1].open /\ ~feed[2].open
    BY <2>1 DEF ClosingInv, FeedsOK
  <2> QED
    BY <2>3, <2>4 DEF ClosedIsQuiet
<1> QED
  BY <1>1, ClosingInit, ClosingInduction, PTL DEF Spec

-----------------------------------------------------------------------------
(* Watched tokens *)

\* The subscription that listens has every watched token but one that is being
\* refreshed, and the token of an addition that the pool has answered.
TokensOK ==
    ~stopped =>
        /\ \A m \in watched : Refreshing(m) \/ m \in sub[Live].tokens
        /\ PoolAnswered /\ Runs("add") /\ listenerAt = "pool" =>
              Token \in sub[Live].tokens
        /\ PoolAnswered /\ listenerAt = "readd" => Token \in sub[Live].tokens
        /\ Runs("remove") /\ listenerAt = "pool" => Token \notin watched

LEMMA Answered ==
    ASSUME TypeOK
    PROVE  /\ PoolAnswered <=> OnlyChecks(pool)
           /\ \A x \in Job : x.op # "check" => ~OnlyChecks(Append(pool, x))
           /\ OnlyChecks(Append(pool, [op |-> "check"])) => OnlyChecks(pool)
           /\ pool # <<>> /\ pool[1].op = "check" /\ OnlyChecks(Tail(pool)) =>
                 OnlyChecks(pool)
<1>0. pool \in Seq(Job) /\ Len(pool) \in Nat /\ DOMAIN pool = 1..Len(pool)
  BY DEF TypeOK
<1>1. PoolAnswered <=> OnlyChecks(pool)
  BY <1>0 DEF PoolAnswered, OnlyChecks
<1>2. ASSUME NEW x \in Job
      PROVE  /\ x.op # "check" => ~OnlyChecks(Append(pool, x))
             /\ OnlyChecks(Append(pool, x)) => OnlyChecks(pool)
  <2>1. /\ Len(Append(pool, x)) = Len(pool) + 1 /\ Append(pool, x)[Len(pool) + 1] = x
        /\ \A i \in 1..Len(pool) : Append(pool, x)[i] = pool[i]
    BY <1>0, AppendFacts
  <2>2. Len(pool) + 1 \in 1..Len(Append(pool, x))
        /\ \A i \in 1..Len(pool) : i \in 1..Len(Append(pool, x))
    BY <1>0, <2>1
  <2> QED
    BY <2>1, <2>2 DEF OnlyChecks
<1>3. ASSUME pool # <<>>, pool[1].op = "check", OnlyChecks(Tail(pool))
      PROVE  OnlyChecks(pool)
  <2>1. /\ Len(Tail(pool)) = Len(pool) - 1
        /\ \A i \in 1..Len(Tail(pool)) : Tail(pool)[i] = pool[i + 1]
    BY <1>0, <1>3, TailFacts
  <2>2. ASSUME NEW i \in 1..Len(pool), i # 1 PROVE pool[i].op = "check"
    <3>1. i - 1 \in 1..Len(Tail(pool)) /\ (i - 1) + 1 = i
      BY <1>0, <2>1, <2>2
    <3> QED
      BY <1>3, <2>1, <3>1 DEF OnlyChecks
  <2> QED
    BY <1>3, <2>2 DEF OnlyChecks
<1> QED
  BY <1>1, <1>2, <1>3, JobTypes

LEMMA TokensInduction ==
    ASSUME TypeOK, ClosingInv, TokensOK, [Next]_vars
    PROVE  TokensOK'
<1> SUFFICES ASSUME ~stopped' PROVE TokensOK'
  BY DEF TokensOK
<1>0. /\ pool \in Seq(Job) /\ current \in Sub /\ current \in Nat
      /\ pool # <<>> => Len(pool) \in Nat \ {0} /\ Head(pool) = pool[1] /\ 1 \in 1..Len(pool)
      /\ sub \in [Sub -> [phase : {"new", "open", "closed"}, tokens : SUBSET Mint]]
      /\ poolAt \in {"start", "probe", "unsubscribe", "swap"}
      /\ ChainInv /\ LastJobOK /\ PoolOK /\ ListenerOK
  BY TailFacts DEF TypeOK, Sub, ClosingInv, ChainInv
<1>2. pool' \in Seq(Job) /\ (PoolAnswered' <=> OnlyChecks(pool'))
  <2>1. pool' \in Seq(Job)
    BY <1>0, TypeInduction DEF TypeOK
  <2> QED
    BY <2>1 DEF PoolAnswered, OnlyChecks
<1>1. listenerAt # "start" => listener # <<>>
  BY <1>0 DEF ListenerOK
\* A step that takes no token away and answers nothing.
<1>3. ASSUME ~stopped, UNCHANGED <<watched, listenerAt>>,
             listener # <<>> => listener' # <<>> /\ Head(listener') = Head(listener),
             sub[Live].tokens \subseteq sub'[Live'].tokens,
             PoolAnswered' => PoolAnswered
      PROVE  TokensOK'
  <2>1. listenerAt # "start" =>
           /\ Token' = Token
           /\ \A m \in Mint : Refreshing(m) <=> Refreshing(m)'
           /\ Runs("add")' <=> Runs("add")
           /\ Runs("remove")' <=> Runs("remove")
    BY <1>1, <1>3 DEF Token, Runs, Refreshing
  <2>2. \A m \in Mint : Refreshing(m) => Refreshing(m)'
    BY <2>1 DEF Refreshing
  <2>3. watched \subseteq Mint
    BY DEF TypeOK
  <2> QED
    BY <1>3, <2>1, <2>2, <2>3 DEF TokensOK
<1>4. CASE PoolStep
  <2>0. /\ pool # <<>> /\ UNCHANGED <<watched, listenerAt, stopped>> /\ ~stopped
        /\ pool' = pool \/ pool' = Tail(pool)
        /\ listener # <<>> => listener' # <<>> /\ Head(listener') = Head(listener)
    BY <1>0, <1>4, PoolEffect, ListenerGrows
  <2>1. ~poolStopped
    BY <1>0, <2>0 DEF LastJobOK
  <2>2. pool[1].op # "check" => ~PoolAnswered /\ AskedFor(pool[1])
    BY <1>0, <2>0, Answered DEF OnlyChecks, ChainInv, AskedOK
  <2>3. pool' = pool \/ pool[1].op = "check" => (PoolAnswered' => PoolAnswered)
    BY <1>2, <2>0, Answered
  <2>4. CASE PoolAdd
    <3>1. /\ poolAt = "start" /\ poolAt' = "start" /\ pool[1].op = "add"
          /\ current' = current /\ AddToken(current, pool[1].mint)
          /\ listener' = listener
      BY <1>0, <2>0, <2>1, <2>4 DEF PoolAdd, PoolJob, PoolDone, PoolOK, listenerVars
    <3>2. /\ Live = current /\ Live' = current
          /\ sub'[current].tokens = sub[current].tokens \cup {pool[1].mint}
      BY <1>0, <3>1 DEF Live, AddToken
    <3>3. /\ pool[1].mint = Token /\ Token' = Token
          /\ Runs("remove") = FALSE
      BY <2>2, <3>1 DEF AskedFor, Token, Runs
    <3>4. \A m \in watched : Refreshing(m)' \/ m \in sub'[Live'].tokens
      BY <2>0, <3>1, <3>2 DEF TokensOK, Refreshing, Runs, Token
    <3>5. Token' \in sub'[Live'].tokens
      BY <3>2, <3>3
    <3> QED
      BY <2>0, <3>1, <3>3, <3>4, <3>5 DEF TokensOK, Runs
  <2>5. CASE PoolRemove
    <3>1. /\ pool[1].op = "remove" /\ current' = current /\ listener' = listener
          /\ poolAt # "swap" /\ poolAt' # "swap"
      BY <1>0, <2>0, <2>5
         DEF PoolRemove, PoolJob, PoolDone, PoolAwaits, PoolOK, listenerVars
    <3>2. /\ pool[1].mint = Token /\ listenerAt = "pool"
          /\ Runs("remove") \/ Runs("reset")
          /\ ~Runs("add") /\ Live = current /\ Live' = current
      BY <2>2, <3>1 DEF AskedFor, Token, Runs, Live
    <3>3. \A m \in Mint : m # Token => (m \in sub[Live].tokens => m \in sub'[Live'].tokens)
      <4>1. CASE RemoveToken(current, pool[1].mint)
        BY <1>0, <3>2, <4>1 DEF RemoveToken
      <4>2. CASE UNCHANGED sub
        BY <3>2, <4>2
      <4> QED
        BY <1>0, <2>5, <4>1, <4>2 DEF PoolRemove
    <3>4. \A m \in watched : Refreshing(m)' \/ m \in sub'[Live'].tokens
      <4>1. ASSUME NEW m \in watched, ~Refreshing(m) PROVE m \in sub'[Live'].tokens
        <5>1. m # Token
          BY <2>0, <3>2, <4>1 DEF TokensOK, Refreshing
        <5>2. m \in sub[Live].tokens /\ m \in Mint
          BY <2>0, <4>1 DEF TokensOK, TypeOK
        <5> QED
          BY <3>3, <5>1, <5>2
      <4>2. \A m \in watched : Refreshing(m) => Refreshing(m)'
        BY <2>0, <3>1 DEF Refreshing, Runs, Token
      <4> QED
        BY <4>1, <4>2
    <3> QED
      BY <2>0, <3>1, <3>2, <3>4 DEF TokensOK, Runs, Token
  <2>6. CASE Probe
    <3>1. poolAt # "swap" /\ poolAt' # "swap" /\ pool[1].op = "check" /\ current' = current
          /\ sub' = sub
      BY <1>0, <2>0, <2>6 DEF Probe, PoolJob, PoolDone, PoolAwaits
    <3> QED
      BY <1>3, <2>0, <2>3, <3>1 DEF Live
  <2>7. CASE Probed
    <3>1. poolAt # "swap" /\ pool[1].op = "check" /\ current' = current
      BY <1>0, <2>0, <2>7 DEF Probed, PoolJob
    <3>2. CASE PoolDone /\ UNCHANGED sub
      BY <1>3, <2>0, <2>3, <3>1, <3>2 DEF Live, PoolDone
    <3>3. CASE /\ MayFailOver /\ PoolAwaits("swap")
               /\ sub' = [Opened(current + 1) EXCEPT ![current] = CloseSub(current)[current]]
      <4>1. current + 1 \in Sub /\ current # current + 1
        BY <1>0, <3>3 DEF MayFailOver, Sub
      <4>2. Live = current /\ Live' = current + 1
        BY <3>1, <3>3 DEF Live, PoolAwaits
      <4>3. sub'[current + 1].tokens = sub[current].tokens
        <5>1. Opened(current + 1)[current + 1].tokens = sub[current].tokens
              /\ DOMAIN Opened(current + 1) = Sub
          BY <1>0, <4>1 DEF Opened
        <5> QED
          BY <3>3, <4>1, <5>1
      <4> QED
        BY <1>3, <2>0, <2>3, <3>1, <4>2, <4>3
    <3> QED
      BY <2>7, <3>2, <3>3 DEF Probed
  <2>8. CASE Swap
    <3>1. Live' = Live /\ sub' = sub /\ pool[1].op = "check"
      BY <1>0, <2>0, <2>8 DEF Swap, PoolJob, PoolDone, Live
    <3> QED
      BY <1>3, <2>0, <2>3, <3>1
  <2>9. CASE PoolClose
    <3>1. pool[1].op = "close"
      BY <1>0, <2>0, <2>9 DEF PoolClose, PoolJob
    <3> QED
      BY <1>0, <2>1, <2>2, <3>1 DEF AskedFor, LastJobOK, Runs
  <2> QED
    BY <1>4, <2>4, <2>5, <2>6, <2>7, <2>8, <2>9 DEF PoolStep
<1>5. CASE Outside
  <2>1. /\ Live' = Live /\ sub' = sub /\ ~stopped /\ UNCHANGED <<watched, listenerAt>>
        /\ pool' = pool \/ pool' = Append(pool, [op |-> "check"])
    BY <1>0, <1>5, OutsideEffect DEF Live
  <2>2. listener # <<>> => listener' # <<>> /\ Head(listener') = Head(listener)
    BY <1>0, <1>5, OutsideEffect, ListenerGrows
  <2>3. PoolAnswered' => PoolAnswered
    BY <1>2, <2>1, Answered
  <2> QED
    BY <1>3, <2>1, <2>2, <2>3
<1>6. CASE ListenerStep
  <2>1. /\ OnlyChecks(pool) /\ listener # <<>> /\ PoolAnswered
        /\ listener' \in {listener, Tail(listener)}
        /\ listener' = Tail(listener) => listenerAt' = "start"
        /\ sub' = sub /\ Live' = Live
    BY <1>0, <1>6, ListenerEffect, Answered DEF Live
  <2>2. stopped' = stopped /\ ~stopped
    BY <1>6 DEF ListenerStep, Add, Remove, Reset, Renew, Close
  <2>3. ASSUME NEW j \in Job, j.op # "check", pool' = Append(pool, j)
        PROVE  ~PoolAnswered'
    BY <1>2, <2>3, Answered
  <2>4. \A m \in watched : ~Refreshing(m) => m \in sub[Live].tokens
    BY <2>2 DEF TokensOK
  <2>5. Token \in Mint \/ Head(listener).op \in {"renew", "close"}
    <3>1. Head(listener) \in ListenerJob
      BY <2>1, TailFacts DEF TypeOK
    <3> QED
      BY <3>1, JobTypes DEF Token
  <2>6. CASE Add
    <3>0. Token \in Mint /\ Head(listener).op = "add" /\ \A m \in watched : ~Refreshing(m)
      BY <2>5, <2>6 DEF Add, Runs, Refreshing
    <3>1. CASE AskPool([op |-> "add", mint |-> Token]) /\ Awaits("pool") /\ watched' = watched
      <4>1. ~PoolAnswered'
        BY <2>3, <3>0, <3>1, JobTypes DEF AskPool
      <4>2. ~Runs("remove")' /\ listenerAt' = "pool"
        BY <3>0, <3>1 DEF Awaits, Runs
      <4> QED
        BY <2>1, <2>4, <3>0, <3>1, <4>1, <4>2 DEF TokensOK
    <3>2. CASE Done /\ listenerAt = "pool" /\ watched' = watched \cup {Token}
      <4>1. Token \in sub[Live].tokens
        BY <2>1, <2>2, <2>6, <3>2 DEF TokensOK, Add
      <4> QED
        BY <2>1, <2>4, <3>0, <3>2, <4>1 DEF TokensOK, Done
    <3> QED
      BY <2>2, <2>6, <3>1, <3>2 DEF Add
  <2>7. CASE Remove
    <3>0. Token \in Mint /\ Head(listener).op = "remove" /\ \A m \in watched : ~Refreshing(m)
      BY <2>5, <2>7 DEF Remove, Runs, Refreshing
    <3>1. CASE /\ AskPool([op |-> "remove", mint |-> Token]) /\ Awaits("pool")
               /\ watched' = watched \ {Token}
      <4>1. ~PoolAnswered'
        BY <2>3, <3>0, <3>1, JobTypes DEF AskPool
      <4>2. Token' = Token /\ listenerAt' = "pool"
        BY <3>1 DEF Awaits, Token
      <4> QED
        BY <2>1, <2>4, <3>0, <3>1, <4>1, <4>2 DEF TokensOK
    <3>2. CASE Done /\ watched' = watched
      BY <2>1, <2>4, <3>0, <3>2 DEF TokensOK, Done
    <3> QED
      BY <2>7, <3>1, <3>2 DEF Remove
  <2>8. CASE Reset
    <3>0. /\ Token \in Mint /\ Head(listener).op = "reset" /\ watched' = watched
          /\ \A m \in watched : m # Token => m \in sub[Live].tokens
      BY <2>4, <2>5, <2>8 DEF Reset, Runs, Refreshing
    <3>1. CASE AskPool([op |-> "remove", mint |-> Token]) /\ Awaits("pool") /\ listenerAt = "start"
      <4>1. ~PoolAnswered'
        BY <2>3, <3>0, <3>1, JobTypes DEF AskPool
      <4>2. ~Runs("remove")' /\ listenerAt' = "pool"
        BY <3>0, <3>1 DEF Awaits, Runs
      <4>3. \A m \in watched : m \in sub[Live].tokens
        BY <2>4, <3>1 DEF Refreshing
      <4> QED
        BY <2>1, <3>0, <4>1, <4>2, <4>3 DEF TokensOK
    <3>2. CASE Done /\ listenerAt = "start"
      <4>1. \A m \in watched : m \in sub[Live].tokens
        BY <2>4, <3>2 DEF Refreshing
      <4> QED
        BY <2>1, <3>0, <3>2, <4>1 DEF TokensOK, Done
    <3>3. CASE AskPool([op |-> "add", mint |-> Token]) /\ Awaits("readd")
      <4>1. ~PoolAnswered'
        BY <2>3, <3>0, <3>3, JobTypes DEF AskPool
      <4>2. listenerAt' = "readd" /\ Refreshing(Token)'
        BY <2>1, <3>0, <3>3 DEF Awaits, Runs, Refreshing, Token
      <4>3. \A m \in watched : m = Token => Refreshing(m)'
        BY <3>0, <3>3, <4>2 DEF Awaits, Refreshing, Runs, Token
      <4> QED
        BY <2>1, <3>0, <4>1, <4>2, <4>3 DEF TokensOK
    <3>4. CASE Done /\ listenerAt = "readd"
      <4>1. Token \in sub[Live].tokens
        BY <2>1, <2>2, <3>4 DEF TokensOK
      <4>2. \A m \in watched : m \in sub[Live].tokens
        BY <3>0, <4>1
      <4> QED
        BY <2>1, <3>0, <3>4, <4>2 DEF TokensOK, Done
    <3> QED
      BY <2>8, <3>1, <3>2, <3>3, <3>4 DEF Reset
  <2>9. CASE Renew
    <3>1. /\ watched' = watched /\ listenerAt' \notin {"pool", "readd"}
          /\ \A m \in watched : ~Refreshing(m)
      BY <2>9 DEF Renew, Done, Awaits, Runs, Refreshing
    <3> QED
      BY <2>1, <2>4, <3>1 DEF TokensOK
  <2>10. CASE Close
    <3>1. Len(listener) \in Nat \ {0} /\ Head(listener) = listener[1]
      BY <2>1, TailFacts DEF TypeOK
    <3>2. 1 \in 1..Len(listener) /\ listener[1].op = "close"
      BY <2>10, <3>1 DEF Close, Runs
    <3> QED
      BY <1>0, <2>2, <3>2 DEF LastJobOK
  <2> QED
    BY <1>6, <2>6, <2>7, <2>8, <2>9, <2>10 DEF ListenerStep
<1>7. CASE UNCHANGED <<poolVars, listenerVars>>
  BY <1>7 DEF poolVars, listenerVars, TokensOK, Live, PoolAnswered, Refreshing, Runs, Token
<1> QED
  BY <1>4, <1>5, <1>6, <1>7, Steps, TradedEffect DEF vars

LEMMA TokensInit == Init => TokensOK
<1> SUFFICES ASSUME Init PROVE TokensOK
  OBVIOUS
<1>1. 1 \in Sub /\ Live = 1 /\ listenerAt = "start" /\ watched = Initial
  BY DEF Init, Sub, Live
<1>2. sub[Live].tokens = Initial
  BY <1>1 DEF Init
<1> QED
  BY <1>1, <1>2 DEF TokensOK

\* Whatever failover, addition or removal is under way, an open subscription
\* listens to every watched token that is not being refreshed, and an open
\* migration feed to every watched token.
THEOREM WatchedTokensAreCovered == Spec => []WatchedIsCovered
<1>1. TypeOK /\ ClosingInv /\ TokensOK => WatchedIsCovered
  <2> SUFFICES ASSUME TypeOK, ClosingInv, TokensOK, ~stopped PROVE WatchedIsCovered
    BY DEF WatchedIsCovered
  <2>1. ~poolStopped /\ poolStopped \in BOOLEAN
    BY DEF ClosingInv, LastJobOK, TypeOK
  <2>2. Live \in Sub
    <3>1. current \in 1..(1 + MaxFailovers)
      BY DEF TypeOK, Sub
    <3>2. poolAt = "swap" => current < 1 + MaxFailovers
      BY DEF ClosingInv, ChainInv, PoolOK
    <3> QED
      BY <3>1, <3>2 DEF Live, Sub
  <2>3. sub[Live].phase = "open"
    BY <2>1 DEF ClosingInv, SubsOK
  <2>4. \A m \in watched : Refreshing(m) \/ m \in sub[Live].tokens
    BY DEF TokensOK
  <2>5. \/ feed[1].open /\ watched \subseteq feed[1].tokens
        \/ feed[2].open /\ watched \subseteq feed[2].tokens
    BY DEF ClosingInv, FeedsOK
  <2> QED
    BY <2>2, <2>3, <2>4, <2>5 DEF WatchedIsCovered
<1>2. Init => TypeOK /\ ClosingInv /\ TokensOK
  BY ClosingInit, TokensInit
<1>3. TypeOK /\ ClosingInv /\ TokensOK /\ [Next]_vars => (TypeOK /\ ClosingInv /\ TokensOK)'
  BY ClosingInduction, TokensInduction
<1> QED
  BY <1>1, <1>2, <1>3, PTL DEF Spec

-----------------------------------------------------------------------------
(* The duplicate filter *)

\* The filter is the end of what was accepted, and repeats nothing.
FilterOK ==
    /\ Len(seen) <= Len(accepted)
    /\ Len(seen) < Window => Len(seen) = Len(accepted)
    /\ \A k \in 1..Len(seen) : seen[k] = accepted[Len(accepted) - Len(seen) + k]
    /\ \A k, l \in 1..Len(seen) : seen[k] = seen[l] => k = l

FilterInv ==
    /\ seen \in Seq(Trade) /\ Len(seen) <= Window
    /\ accepted \in Seq(Trade)
    /\ flight \subseteq [sub : Sub, trade : Trade, at : {"enrich", "price"}]
    /\ FilterOK

\* A trade takes the filter and the history one further, or neither.
LEMMA AcceptedEffect ==
    ASSUME FilterInv, [Next]_vars
    PROVE  \/ UNCHANGED <<seen, accepted>>
           \/ \E t \in Trade : /\ ~Duplicate(t)
                               /\ seen' = Remembered(t)
                               /\ accepted' = Append(accepted, t)
<1>1. CASE PoolStep
  BY <1>1 DEF PoolStep, PoolAdd, PoolRemove, Probe, Probed, Swap, PoolClose, tradeVars
<1>2. CASE ListenerStep
  BY <1>2 DEF ListenerStep, Add, Remove, Reset, Renew, Close, tradeVars
<1>3. CASE Outside
  BY <1>3 DEF Outside, HealthTimer, CloseListener, Call, Migration, tradeVars
<1>4. CASE Traded
  <2>1. \A f \in flight : f.trade \in Trade
    BY DEF FilterInv
  <2> QED
    BY <1>4, <2>1 DEF Traded, Log, Enrich, OnTrade
<1>5. CASE UNCHANGED vars
  BY <1>5 DEF vars, tradeVars
<1> QED
  BY <1>1, <1>2, <1>3, <1>4, <1>5, Steps

LEMMA Full == \A a, b \in Nat : a <= b /\ ~(a < b) => a = b
  OBVIOUS

LEMMA Positions == \A n \in Nat : \A k \in 1..n : k = n \/ k \in 1..(n - 1)
  OBVIOUS

LEMMA FilterInduction ==
    ASSUME FilterInv, [Next]_vars
    PROVE  FilterInv'
<1>0. /\ seen \in Seq(Trade) /\ Len(seen) <= Window /\ Len(seen) \in Nat
      /\ accepted \in Seq(Trade) /\ Len(accepted) \in Nat /\ Window \in Nat \ {0}
      /\ DOMAIN seen = 1..Len(seen) /\ FilterOK
  BY DEF FilterInv
<1>1. (flight \subseteq [sub : Sub, trade : Trade, at : {"enrich", "price"}])'
  <2>0. flight \subseteq [sub : Sub, trade : Trade, at : {"enrich", "price"}]
    BY DEF FilterInv
  <2>1. CASE PoolStep
    BY <2>0, <2>1
       DEF PoolStep, PoolAdd, PoolRemove, Probe, Probed, Swap, PoolClose, tradeVars
  <2>2. CASE ListenerStep
    BY <2>0, <2>2 DEF ListenerStep, Add, Remove, Reset, Renew, Close, tradeVars
  <2>3. CASE Outside
    BY <2>0, <2>3 DEF Outside, HealthTimer, CloseListener, Call, Migration, tradeVars
  <2>4. ASSUME NEW s \in Sub, NEW t \in Trade, Log(s, t)
        PROVE  (flight \subseteq [sub : Sub, trade : Trade, at : {"enrich", "price"}])'
    BY <2>0, <2>4 DEF Log
  <2>5. ASSUME NEW f \in flight, Enrich(f) \/ OnTrade(f)
        PROVE  (flight \subseteq [sub : Sub, trade : Trade, at : {"enrich", "price"}])'
    <3>1. [f EXCEPT !.at = "price"] \in [sub : Sub, trade : Trade, at : {"enrich", "price"}]
      BY <2>0
    <3> QED
      BY <2>0, <2>5, <3>1 DEF Enrich, OnTrade
  <2>6. CASE UNCHANGED vars
    BY <2>0, <2>6 DEF vars, tradeVars
  <2> QED
    BY <2>1, <2>2, <2>3, <2>4, <2>5, <2>6, Steps DEF Traded
<1>2. CASE UNCHANGED <<seen, accepted>>
  BY <1>0, <1>1, <1>2 DEF FilterInv, FilterOK
<1>3. ASSUME NEW t \in Trade, ~Duplicate(t),
             seen' = Remembered(t), accepted' = Append(accepted, t)
      PROVE  FilterInv'
  <2>1. /\ accepted' \in Seq(Trade) /\ Len(accepted') = Len(accepted) + 1
        /\ accepted'[Len(accepted) + 1] = t
        /\ \A i \in 1..Len(accepted) : accepted'[i] = accepted[i]
    BY <1>0, <1>3, AppendFacts
  <2>2. \A k \in 1..Len(seen) : seen[k] # t
    BY <1>0, <1>3 DEF Duplicate
  <2>3. CASE Len(seen) < Window
    <3>1. /\ seen' \in Seq(Trade) /\ Len(seen') = Len(seen) + 1
          /\ seen'[Len(seen) + 1] = t
          /\ \A i \in 1..Len(seen) : seen'[i] = seen[i]
      BY <1>0, <1>3, <2>3, AppendFacts DEF Remembered
    <3>2. Len(seen) = Len(accepted)
      BY <1>0, <2>3 DEF FilterOK
    <3>3. ASSUME NEW k \in 1..Len(seen')
          PROVE  seen'[k] = accepted'[Len(accepted') - Len(seen') + k]
      <4>1. Len(accepted') - Len(seen') + k = k
        BY <1>0, <2>1, <3>1, <3>2
      <4>2. CASE k = Len(seen) + 1
        BY <2>1, <3>1, <3>2, <4>1, <4>2
      <4>3. CASE k \in 1..Len(seen)
        <5>1. Len(accepted) - Len(seen) + k = k
          BY <1>0, <3>2, <4>3
        <5> QED
          BY <1>0, <2>1, <3>1, <3>2, <4>1, <4>3, <5>1 DEF FilterOK
      <4> QED
        BY <1>0, <3>1, <4>2, <4>3
    <3>4. ASSUME NEW k \in 1..Len(seen'), NEW l \in 1..Len(seen'), seen'[k] = seen'[l]
          PROVE  k = l
      <4>1. /\ k \in 1..Len(seen) \/ k = Len(seen) + 1
            /\ l \in 1..Len(seen) \/ l = Len(seen) + 1
        BY <1>0, <3>1
      <4> QED
        BY <1>0, <2>2, <3>1, <3>4, <4>1 DEF FilterOK
    <3>5. Len(seen') <= Window /\ Len(seen') <= Len(accepted')
          /\ (Len(seen') < Window => Len(seen') = Len(accepted'))
      BY <1>0, <2>1, <2>3, <3>1, <3>2
    <3> QED
      BY <1>1, <2>1, <3>1, <3>3, <3>4, <3>5 DEF FilterInv, FilterOK
  <2>4. CASE ~(Len(seen) < Window)
    <3>0. Len(seen) = Window /\ seen # <<>>
      <4>1. Len(seen) = Window
        <5>1. Len(seen) \in Nat /\ Window \in Nat /\ Len(seen) <= Window
          BY <1>0
        <5> QED
          BY <2>4, <5>1, Full
      <4>2. seen = <<>> => Len(seen) = 0
        OBVIOUS
      <4> QED
        BY <1>0, <4>1, <4>2
    <3>1. /\ Tail(seen) \in Seq(Trade) /\ Len(Tail(seen)) = Len(seen) - 1
          /\ \A i \in 1..Len(Tail(seen)) : Tail(seen)[i] = seen[i + 1] /\ i + 1 \in 1..Len(seen)
      BY <1>0, <3>0, TailFacts
    <3>2. /\ seen' \in Seq(Trade) /\ Len(seen') = Len(seen)
          /\ seen'[Len(seen)] = t
          /\ \A i \in 1..(Len(seen) - 1) : seen'[i] = seen[i + 1] /\ i + 1 \in 1..Len(seen)
      <4>1. seen' = Append(Tail(seen), t)
        BY <1>3, <2>4 DEF Remembered
      <4>2. /\ Append(Tail(seen), t) \in Seq(Trade)
            /\ Len(Append(Tail(seen), t)) = Len(Tail(seen)) + 1
            /\ Append(Tail(seen), t)[Len(Tail(seen)) + 1] = t
            /\ \A i \in 1..Len(Tail(seen)) : Append(Tail(seen), t)[i] = Tail(seen)[i]
        BY <3>1, AppendFacts
      <4>3. Len(Tail(seen)) + 1 = Len(seen)
        BY <1>0, <3>1
      <4> QED
        BY <3>1, <4>1, <4>2, <4>3
    <3>3. ASSUME NEW k \in 1..Len(seen')
          PROVE  seen'[k] = accepted'[Len(accepted') - Len(seen') + k]
      <4>2. CASE k = Len(seen)
        <5>1. Len(accepted') - Len(seen') + k = Len(accepted) + 1
          BY <1>0, <2>1, <3>2, <4>2
        <5> QED
          BY <2>1, <3>2, <4>2, <5>1
      <4>3. CASE k \in 1..(Len(seen) - 1)
        <5>1. /\ Len(accepted') - Len(seen') + k = Len(accepted) - Len(seen) + (k + 1)
              /\ Len(accepted) - Len(seen) + (k + 1) \in 1..Len(accepted)
          BY <1>0, <2>1, <3>2, <4>3 DEF FilterOK
        <5>2. seen[k + 1] = accepted[Len(accepted) - Len(seen) + (k + 1)]
          BY <1>0, <3>2, <4>3 DEF FilterOK
        <5> QED
          BY <2>1, <3>2, <4>3, <5>1, <5>2
      <4>4. k = Len(seen) \/ k \in 1..(Len(seen) - 1)
        BY <1>0, <3>2, Positions
      <4> QED
        BY <4>2, <4>3, <4>4
    <3>4. ASSUME NEW k \in 1..Len(seen'), NEW l \in 1..Len(seen'), seen'[k] = seen'[l]
          PROVE  k = l
      <4>1. /\ k \in 1..(Len(seen) - 1) \/ k = Len(seen)
            /\ l \in 1..(Len(seen) - 1) \/ l = Len(seen)
        BY <1>0, <3>2
      <4>2. CASE k \in 1..(Len(seen) - 1) /\ l \in 1..(Len(seen) - 1)
        <5>1. /\ seen[k + 1] = seen[l + 1]
              /\ k + 1 \in 1..Len(seen) /\ l + 1 \in 1..Len(seen)
          BY <3>2, <3>4, <4>2
        <5>2. k + 1 = l + 1
          BY <1>0, <5>1 DEF FilterOK
        <5> QED
          BY <1>0, <4>2, <5>2
      <4> QED
        BY <2>2, <3>2, <3>4, <4>1, <4>2
    <3>5. Len(seen') <= Window /\ Len(seen') <= Len(accepted') /\ ~(Len(seen') < Window)
      BY <1>0, <2>1, <3>0, <3>2 DEF FilterOK
    <3> QED
      BY <1>1, <2>1, <3>2, <3>3, <3>4, <3>5 DEF FilterInv, FilterOK
  <2> QED
    BY <2>3, <2>4
<1> QED
  BY <1>2, <1>3, AcceptedEffect

\* What the filter does not hold any more lies behind Window different trades.
LEMMA WindowPassed ==
    ASSUME FilterInv, NEW i \in 1..Len(accepted), ~Duplicate(accepted[i])
    PROVE  Cardinality({accepted[k] : k \in (i + 1)..Len(accepted)}) >= Window
<1> DEFINE n == Len(accepted)
           Between == {accepted[k] : k \in (i + 1)..n}
<1>0. /\ Len(seen) \in Nat /\ n \in Nat /\ Window \in Nat \ {0} /\ i \in Nat \ {0} /\ i <= n
      /\ DOMAIN seen = 1..Len(seen) /\ FilterOK /\ Len(seen) <= Window
  BY DEF FilterInv
<1>1. i <= n - Len(seen)
  <2> SUFFICES ASSUME ~(i <= n - Len(seen)) PROVE FALSE
    OBVIOUS
  <2>1. i - (n - Len(seen)) \in 1..Len(seen)
    BY <1>0
  <2>2. n - Len(seen) + (i - (n - Len(seen))) = i
    BY <1>0
  <2>3. seen[i - (n - Len(seen))] = accepted[i]
    BY <1>0, <2>1, <2>2 DEF FilterOK
  <2> QED
    BY <1>0, <2>1, <2>3 DEF Duplicate
<1>2. Len(seen) = Window
  <2>1. Len(seen) # n
    BY <1>0, <1>1
  <2>2. ~(Len(seen) < Window)
    BY <1>0, <2>1 DEF FilterOK
  <2>3. Len(seen) \in Nat /\ Window \in Nat /\ Len(seen) <= Window
    BY <1>0
  <2> QED
    BY <2>2, <2>3, Full
<1>3. IsFiniteSet(Between)
  <2> DEFINE f == [k \in (i + 1)..n |-> accepted[k]]
  <2>1. f \in Surjection((i + 1)..n, Between)
    BY DEF Surjection
  <2>2. IsFiniteSet((i + 1)..n)
    BY <1>0, FS_Interval
  <2> QED
    BY <2>1, <2>2, FS_Surjection
<1>4. Cardinality(1..Window) <= Cardinality(Between)
  <2> DEFINE g == [k \in 1..Window |-> seen[k]]
  <2>1. ASSUME NEW k \in 1..Window PROVE seen[k] \in Between
    <3>1. n - Len(seen) + k \in (i + 1)..n
      BY <1>0, <1>1, <1>2
    <3>2. seen[k] = accepted[n - Len(seen) + k]
      BY <1>0, <1>2 DEF FilterOK
    <3> QED
      BY <3>1, <3>2
  <2>2. g \in [1..Window -> Between]
    BY <2>1
  <2>3. \A k, l \in 1..Window : g[k] = g[l] => k = l
    BY <1>0, <1>2 DEF FilterOK
  <2>4. g \in Injection(1..Window, Between)
    BY <2>2, <2>3 DEF Injection, IsInjective
  <2> QED
    BY <1>3, <2>4, FS_Injection
<1>5. Cardinality(1..Window) = Window
  <2>1. Cardinality(1..Window) = IF 1 > Window THEN 0 ELSE Window - 1 + 1
    BY <1>0, FS_Interval
  <2> QED
    BY <1>0, <2>1
<1> QED
  BY <1>4, <1>5

LEMMA DeliveredInduction ==
    ASSUME FilterInv, DeliveredOnce, [Next]_vars
    PROVE  DeliveredOnce'
<1>0. accepted \in Seq(Trade) /\ Len(accepted) \in Nat /\ DOMAIN accepted = 1..Len(accepted)
  BY DEF FilterInv
<1>1. CASE UNCHANGED <<seen, accepted>>
  BY <1>1 DEF DeliveredOnce
<1>2. ASSUME NEW t \in Trade, ~Duplicate(t), accepted' = Append(accepted, t)
      PROVE  DeliveredOnce'
  <2>1. /\ accepted' \in Seq(Trade) /\ Len(accepted') = Len(accepted) + 1
        /\ accepted'[Len(accepted) + 1] = t
        /\ \A k \in 1..Len(accepted) : accepted'[k] = accepted[k]
    BY <1>0, <1>2, AppendFacts
  <2>2. DOMAIN accepted' = 1..(Len(accepted) + 1)
    BY <2>1
  <2>3. ASSUME NEW i \in 1..(Len(accepted) + 1), NEW j \in 1..(Len(accepted) + 1),
               i < j, accepted'[i] = accepted'[j]
        PROVE  Cardinality({accepted'[k] : k \in (i + 1)..(j - 1)}) >= Window
    <3>1. i \in 1..Len(accepted) /\ \A k \in (i + 1)..(j - 1) : k \in 1..Len(accepted)
      BY <1>0, <2>3
    <3>2. {accepted'[k] : k \in (i + 1)..(j - 1)} = {accepted[k] : k \in (i + 1)..(j - 1)}
      BY <2>1, <3>1
    <3>3. CASE j = Len(accepted) + 1
      <4>1. accepted[i] = t /\ ~Duplicate(accepted[i])
        BY <1>2, <2>1, <2>3, <3>1, <3>3
      <4>2. j - 1 = Len(accepted)
        BY <1>0, <3>3
      <4> QED
        BY <3>1, <3>2, <4>1, <4>2, WindowPassed
    <3>4. CASE j # Len(accepted) + 1
      <4>1. j \in 1..Len(accepted) /\ accepted[i] = accepted[j]
        BY <1>0, <2>1, <2>3, <3>1, <3>4
      <4> QED
        BY <1>0, <2>3, <3>1, <3>2, <4>1 DEF DeliveredOnce
    <3> QED
      BY <3>3, <3>4
  <2> QED
    BY <2>2, <2>3 DEF DeliveredOnce
<1> QED
  BY <1>1, <1>2, AcceptedEffect

\* The overlap of two endpoints repeats no trade within the filter's window:
\* between two deliveries of a trade lie at least Window others.
THEOREM TradesAreDeliveredOnce == Spec => []DeliveredOnce
<1>1. Init => FilterInv /\ DeliveredOnce
  BY DEF Init, FilterInv, FilterOK, DeliveredOnce
<1>2. FilterInv /\ DeliveredOnce /\ [Next]_vars => (FilterInv /\ DeliveredOnce)'
  BY FilterInduction, DeliveredInduction
<1> QED
  BY <1>1, <1>2, PTL DEF Spec

-----------------------------------------------------------------------------
(* The end of close(): what its liveness rests on *)

\* Once close() has been called its job is the last one, until it settles.
CloseQueued ==
    stopped /\ closed = "pending" =>
        listener # <<>> /\ listener[Len(listener)].op = "close"

\* The two chains do not wait for each other: what the listener's running job
\* waits for is a job it has itself put in the pool, whose jobs wait for
\* requests only.
NoMutualWait ==
    stopped /\ closed = "pending" =>
        /\ listener # <<>>
        /\ listenerAt \in {"pool", "readd"} =>
              PoolAnswered \/ \E i \in DOMAIN pool : AskedFor(pool[i])

\* What is left of the listener's chain: its jobs, and the awaits of the
\* running one.
ListenerStage ==
    IF listenerAt = "start" THEN 4
    ELSE IF listenerAt \in {"pool", "subscribe"} THEN 3 ELSE 2
ListenerWork == 5 * Len(listener) + ListenerStage

\* What is left of the pool's chain up to its i-th job.
PoolStage ==
    IF poolAt = "start" THEN 3
    ELSE IF poolAt \in {"probe", "unsubscribe"} THEN 2 ELSE 1
PoolWork(i) == 4 * i + PoolStage

\* After close() nothing is put behind it, and its chain only gets shorter.
CloseAdvances ==
    stopped =>
        /\ stopped'
        /\ ListenerWork' <= ListenerWork
        /\ ListenerStep => ListenerWork' < ListenerWork

\* The job the listener awaits is never overtaken: each step of the pool
\* answers it or brings it nearer, and no other step puts it back.
AskedAdvances ==
    \A i \in DOMAIN pool : pool[i].op # "check" =>
        \/ OnlyChecks(pool')
        \/ \E k \in DOMAIN pool' :
              /\ pool'[k] = pool[i]
              /\ 4 * k + PoolStage' <= PoolWork(i)
              /\ PoolStep => 4 * k + PoolStage' < PoolWork(i)

\* A step of the pool ends its job, or takes it to a later await.
LEMMA PoolStages ==
    ASSUME TypeOK, PoolOK, PoolStep
    PROVE  \/ pool' = Tail(pool) /\ PoolStage' = 3
           \/ pool' = pool /\ PoolStage' < PoolStage
<1>1. PoolAdd \/ PoolRemove \/ Probe \/ Probed \/ Swap \/ PoolClose
  BY DEF PoolStep
<1>2. \/ PoolDone
      \/ poolAt \in {"start", "unsubscribe"} /\ PoolAwaits("unsubscribe") /\ poolAt = "start"
      \/ poolAt = "start" /\ PoolAwaits("probe")
      \/ poolAt = "probe" /\ PoolAwaits("swap")
  BY <1>1 DEF PoolAdd, PoolRemove, Probe, Probed, Swap, PoolClose
<1> QED
  BY <1>2 DEF PoolDone, PoolAwaits, PoolStage

\* So does a step of the listener.
LEMMA ListenerStages ==
    ASSUME TypeOK, ListenerStep
    PROVE  /\ listener # <<>> /\ UNCHANGED stopped
           /\ \/ listener' = Tail(listener) /\ ListenerStage' = 4
              \/ listener' = listener /\ ListenerStage' < ListenerStage
<1>1. listener # <<>> /\ UNCHANGED stopped
  BY DEF ListenerStep, Add, Remove, Reset, Renew, Close, Runs
<1>2. \/ Done
      \/ listenerAt = "start" /\ (Awaits("pool") \/ Awaits("subscribe"))
      \/ listenerAt = "pool" /\ Awaits("readd")
      \/ listenerAt = "subscribe" /\ Awaits("swap")
  BY DEF ListenerStep, Add, Remove, Reset, Renew, Close
<1> QED
  BY <1>1, <1>2 DEF Done, Awaits, ListenerStage

LEMMA CloseStep ==
    ASSUME TypeOK, ClosingInv, [Next]_vars
    PROVE  CloseAdvances \/ UNCHANGED vars
<1> SUFFICES ASSUME stopped, Next PROVE CloseAdvances
  BY DEF CloseAdvances
<1>0. /\ listener \in Seq(ListenerJob) /\ Len(listener) \in Nat /\ ChainInv
      /\ ListenerStage \in {2, 3, 4} /\ ListenerStage' \in {2, 3, 4}
  BY DEF TypeOK, ListenerStage, ClosingInv
<1>1. CASE ListenerStep
  <2>1. CASE listener' = Tail(listener) /\ ListenerStage' = 4
    <3>1. Len(listener') = Len(listener) - 1
      BY <1>0, <1>1, <2>1, ListenerStages, TailFacts
    <3> QED
      BY <1>0, <1>1, <2>1, <3>1, ListenerStages DEF CloseAdvances, ListenerWork
  <2>2. CASE listener' = listener /\ ListenerStage' < ListenerStage
    BY <1>0, <1>1, <2>2, ListenerStages DEF CloseAdvances, ListenerWork
  <2> QED
    BY <1>1, <2>1, <2>2, ListenerStages
<1>2. CASE ~ListenerStep
  <2>1. stopped' /\ UNCHANGED <<listener, listenerAt>>
    <3>1. CASE PoolStep
      BY <1>0, <3>1, PoolEffect
    <3>2. CASE Outside
      BY <1>0, <3>2, OutsideEffect
    <3>3. CASE Traded
      BY <3>3, TradedEffect DEF listenerVars
    <3> QED
      BY <1>2, <3>1, <3>2, <3>3, Steps
  <2> QED
    BY <1>0, <1>2, <2>1 DEF CloseAdvances, ListenerWork, ListenerStage
<1> QED
  BY <1>1, <1>2

LEMMA AskedStep ==
    ASSUME TypeOK, ClosingInv, Next
    PROVE  AskedAdvances
<1> SUFFICES ASSUME NEW i \in DOMAIN pool, pool[i].op # "check", ~OnlyChecks(pool')
             PROVE  \E k \in DOMAIN pool' :
                      /\ pool'[k] = pool[i]
                      /\ 4 * k + PoolStage' <= PoolWork(i)
                      /\ PoolStep => 4 * k + PoolStage' < PoolWork(i)
  BY DEF AskedAdvances
<1>0. /\ pool \in Seq(Job) /\ Len(pool) \in Nat /\ DOMAIN pool = 1..Len(pool)
      /\ i \in 1..Len(pool) /\ ChainInv /\ PoolOK /\ AskedOK
      /\ PoolStage \in {1, 2, 3} /\ PoolStage' \in {1, 2, 3}
  BY DEF TypeOK, PoolStage, ClosingInv, ChainInv
<1>1. ~OnlyChecks(pool)
  BY <1>0 DEF OnlyChecks
<1>2. CASE PoolStep
  <2>1. CASE pool' = Tail(pool) /\ PoolStage' = 3
    <3>0. pool # <<>>
      BY <1>0, <1>2, PoolEffect
    <3>1. /\ pool # <<>> /\ Len(pool') = Len(pool) - 1
          /\ \A j \in 1..Len(pool') : pool'[j] = pool[j + 1]
      BY <1>0, <2>1, <3>0, TailFacts
    <3>2. i # 1
      BY <1>0, <2>1, <3>1, PoppedChecks
    <3>3. i - 1 \in 1..Len(pool') /\ (i - 1) + 1 = i
      BY <1>0, <3>1, <3>2
    <3>4. pool'[i - 1] = pool[i] /\ DOMAIN pool' = 1..Len(pool')
      BY <1>0, <2>1, <3>1, <3>3, TailFacts
    <3>5. 4 * (i - 1) + PoolStage' < PoolWork(i)
      <4>1. i \in Nat
        BY <1>0
      <4>2. \A n \in Nat : \A a, b \in {1, 2, 3} : 4 * (n - 1) + a < 4 * n + b
        OBVIOUS
      <4> QED
        BY <1>0, <4>1, <4>2 DEF PoolWork
    <3> QED
      BY <1>0, <3>3, <3>4, <3>5 DEF PoolWork
  <2>2. CASE pool' = pool /\ PoolStage' < PoolStage
    BY <1>0, <2>2 DEF PoolWork
  <2> QED
    BY <1>0, <1>2, <2>1, <2>2, PoolStages
<1>3. CASE ~PoolStep /\ (Outside \/ Traded)
  <2>1. /\ poolAt' = poolAt
        /\ pool' = pool \/ pool' = Append(pool, [op |-> "check"])
    BY <1>0, <1>3, OutsideEffect, TradedEffect DEF poolVars
  <2>2. i \in DOMAIN pool' /\ pool'[i] = pool[i]
    BY <1>0, <2>1, AppendFacts, JobTypes
  <2>3. PoolStage' = PoolStage
    BY <2>1 DEF PoolStage
  <2> QED
    BY <1>0, <1>3, <2>2, <2>3 DEF PoolWork
<1>4. CASE ListenerStep
  BY <1>0, <1>1, <1>4, ListenerEffect
<1> QED
  BY <1>2, <1>3, <1>4, Steps

LEMMA CloseQueuedInduction ==
    ASSUME TypeOK, ClosingInv, CloseQueued, [Next]_vars
    PROVE  CloseQueued'
<1> SUFFICES ASSUME stopped', closed' = "pending"
             PROVE  listener' # <<>> /\ listener'[Len(listener')].op = "close"
  BY DEF CloseQueued
<1>0. /\ listener \in Seq(ListenerJob) /\ Len(listener) \in Nat /\ ChainInv
      /\ LastJobOK /\ stopped \in BOOLEAN
  BY DEF TypeOK, ClosingInv
<1>1. CASE UNCHANGED <<stopped, closed, listener>>
  BY <1>1 DEF CloseQueued
<1>2. CASE CloseListener
  BY <1>0, <1>2, AppendFacts, JobTypes DEF CloseListener
<1>3. CASE ListenerStep
  <2>1. listener # <<>> /\ stopped
    BY <1>3, ListenerStages
  <2>2. closed = "pending"
    BY <1>0, <2>1 DEF LastJobOK, TypeOK
  <2>3. listener[Len(listener)].op = "close"
    BY <2>1, <2>2 DEF CloseQueued
  <2>4. CASE listener' = listener
    BY <2>1, <2>3, <2>4
  <2>5. CASE listener' = Tail(listener) /\ listener' # listener
    <3>1. /\ Len(listener) \in Nat \ {0} /\ Len(listener') = Len(listener) - 1
          /\ Head(listener) = listener[1] /\ listener' \in Seq(ListenerJob)
          /\ \A j \in 1..Len(listener') : listener'[j] = listener[j + 1]
      BY <1>0, <2>1, <2>5, TailFacts
    <3>2. Len(listener) # 1
      <4>1. SUFFICES ASSUME Len(listener) = 1 PROVE FALSE
        OBVIOUS
      <4>2. Runs("close")
        BY <2>1, <2>3, <3>1, <4>1 DEF Runs
      <4>3. Close
        BY <1>3, <4>2 DEF ListenerStep, Add, Remove, Reset, Renew, Runs
      <4> QED
        BY <2>5, <4>3 DEF Close, Awaits
    <3>3. Len(listener') \in 1..Len(listener') /\ Len(listener') + 1 = Len(listener)
      BY <3>1, <3>2
    <3> QED
      BY <2>3, <3>1, <3>3
  <2> QED
    BY <1>0, <1>3, <2>4, <2>5, ListenerStages
<1>4. CASE PoolStep
  <2>1. UNCHANGED <<stopped, closed>> /\ (listener' = listener \/ ~stopped)
    BY <1>0, <1>4, PoolEffect
  <2> QED
    BY <1>1, <2>1
<1>5. CASE Outside /\ ~CloseListener
  <2>1. UNCHANGED <<stopped, closed>> /\ (listener' = listener \/ ~stopped)
    BY <1>5 DEF Outside, HealthTimer, Call, Migration, listenerVars
  <2> QED
    BY <1>1, <2>1
<1> QED
  BY <1>1, <1>2, <1>3, <1>4, <1>5, Steps, TradedEffect DEF vars, listenerVars

LEMMA NoWait ==
    ASSUME TypeOK, ClosingInv, CloseQueued
    PROVE  NoMutualWait
<1>1. PoolAnswered \/ \E i \in DOMAIN pool : AskedFor(pool[i])
  <2>1. DOMAIN pool = 1..Len(pool)
    BY DEF TypeOK
  <2> QED
    BY <2>1 DEF ClosingInv, ChainInv, AskedOK, PoolAnswered
<1> QED
  BY <1>1 DEF NoMutualWait, CloseQueued

\* The safety half of CloseEnds: once close() has been called, the two chains
\* never wait for each other, each step of the listener leaves it less to do,
\* nothing gives it more, and what it awaits comes nearer with every step of
\* the pool, past the checks that were ahead of it and no others.
THEOREM CloseComesNearer ==
    Spec => []NoMutualWait /\ [][CloseAdvances /\ AskedAdvances]_vars
<1>1. Init => CloseQueued
  BY DEF Init, CloseQueued
<1>2. TypeOK /\ ClosingInv /\ CloseQueued => NoMutualWait
  BY NoWait
<1>3. TypeOK /\ ClosingInv /\ [Next]_vars => [CloseAdvances /\ AskedAdvances]_vars
  BY CloseStep, AskedStep
<1>4. TypeOK /\ ClosingInv /\ CloseQueued /\ [Next]_vars => CloseQueued'
  BY CloseQueuedInduction
<1> QED
  BY <1>1, <1>2, <1>3, <1>4, ClosingInit, ClosingInduction, PTL DEF Spec
=============================================================================
