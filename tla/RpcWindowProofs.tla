--------------------------- MODULE RpcWindowProofs ---------------------------
(***************************************************************************)
(* The budgets of RpcWindow hold and its waits are right, for every pair   *)
(* of windows and budgets, every wait for the lock, and any number of      *)
(* callers, retries and batches.                                           *)
(***************************************************************************)
EXTENDS RpcWindow, WellFoundedInduction, TLAPS

USE WindowAssumption, BoundAssumption

-----------------------------------------------------------------------------
(* Induction for a set of numbers: its complement has no least element. *)

LEMMA NumberInduction ==
    ASSUME NEW S, 0 \in S, \A n \in Nat : n \in S => n + 1 \in S
    PROVE  Nat \subseteq S
<1> SUFFICES ASSUME Nat \ S # {} PROVE FALSE
  OBVIOUS
<1> DEFINE Less == OpToRel(<, Nat)
<1>1. IsWellFoundedOn(Less, Nat)
  BY NatLessThanWellFounded
<1>2. \A x, y \in Nat : <<y, x>> \in Less <=> y < x
  BY DEF OpToRel
<1> HIDE DEF Less
<1>3. PICK m \in Nat \ S : \A y \in Nat \ S : ~(<<y, m>> \in Less)
  <2>1. Nat \ S \subseteq Nat
    OBVIOUS
  <2> QED
    BY <1>1, <2>1, WFMin
<1>4. \A y \in Nat \ S : ~(y < m)
  BY <1>2, <1>3
<1>5. m # 0 /\ m - 1 \in Nat /\ m - 1 < m /\ (m - 1) + 1 = m
  OBVIOUS
<1>6. m - 1 \in S
  BY <1>4, <1>5
<1> QED
  BY <1>5, <1>6

-----------------------------------------------------------------------------
(* Sums of loads *)

Key == {"requests", "sends"}

LEMMA LoadFacts ==
    ASSUME NEW load \in Load, NEW key \in Key
    PROVE  load[key] \in Nat
BY DEF Load, Key

\* The sum is what its recursive definition says: it exists at every age.
LEMMA TotalStep ==
    ASSUME NEW K \in Nat \ {0}, NEW loads \in [0..(K - 1) -> Load], NEW key \in Key
    PROVE  /\ Total(loads, key, 0) = 0
           /\ \A n \in 0..(K - 1) :
                Total(loads, key, n + 1) = loads[n][key] + Total(loads, key, n)
<1>0. DOMAIN loads = 0..(K - 1) /\ \A a \in 0..(K - 1) : loads[a][key] \in Nat
  BY LoadFacts
<1> DEFINE Body(f, a) == loads[a][key] + IF a = 0 THEN 0 ELSE f[a - 1]
           Good == {m \in Nat : \E f : f = [a \in 0..m |-> Body(f, a)]}
<1>1. 0 \in Good
  <2>1. PICK g : g = [a \in 0..0 |-> loads[0][key] + 0]
    OBVIOUS
  <2>2. g = [a \in 0..0 |-> Body(g, a)]
    BY <2>1
  <2> QED
    BY <2>2
<1>2. ASSUME NEW m \in Nat, m \in Good PROVE m + 1 \in Good
  <2>1. PICK f : f = [a \in 0..m |-> Body(f, a)]
    BY <1>2
  <2> DEFINE g == [a \in 0..(m + 1) |-> IF a = m + 1 THEN Body(f, a) ELSE f[a]]
  <2>2. \A a \in 1..(m + 1) : g[a - 1] = f[a - 1]
    OBVIOUS
  <2>3. \A a \in 0..m : f[a] = Body(f, a)
    BY <2>1
  <2>4. \A a \in 0..(m + 1) : g[a] = Body(f, a)
    BY <2>3
  <2>5. g = [a \in 0..(m + 1) |-> g[a]]
    OBVIOUS
  <2> HIDE DEF g
  <2>6. \A a \in 0..(m + 1) : Body(f, a) = Body(g, a)
    BY <2>2
  <2>7. g = [a \in 0..(m + 1) |-> Body(g, a)]
    BY <2>4, <2>5, <2>6
  <2>8. \E h : h = [a \in 0..(m + 1) |-> Body(h, a)]
    BY <2>7
  <2>9. m + 1 \in Nat
    OBVIOUS
  <2> QED
    BY <2>8, <2>9
<1>3. K - 1 \in Good
  <2> HIDE DEF Good
  <2>1. Nat \subseteq Good
    BY <1>1, <1>2, NumberInduction
  <2> QED
    BY <2>1
<1> DEFINE sum == CHOOSE f : f = [a \in 0..(K - 1) |-> Body(f, a)]
<1>4. \E f : f = [a \in 0..(K - 1) |-> Body(f, a)]
  BY <1>3
<1>5. sum = [a \in 0..(K - 1) |-> Body(sum, a)]
  BY <1>4
<1>6. \A n : Total(loads, key, n) = IF n = 0 THEN 0 ELSE sum[n - 1]
  BY <1>0 DEF Total
<1> HIDE DEF sum
<1>7. \A a \in 0..(K - 1) : sum[a] = Body(sum, a)
  BY <1>5
<1>8. ASSUME NEW n \in 0..(K - 1)
      PROVE  Total(loads, key, n + 1) = loads[n][key] + Total(loads, key, n)
  <2>1. Total(loads, key, n + 1) = sum[n]
    <3>1. n + 1 # 0 /\ (n + 1) - 1 = n
      OBVIOUS
    <3> QED
      BY <1>6, <3>1
  <2>2. sum[n] = loads[n][key] + Total(loads, key, n)
    BY <1>6, <1>7
  <2> QED
    BY <2>1, <2>2
<1> QED
  BY <1>6, <1>8

LEMMA TotalType ==
    ASSUME NEW K \in Nat \ {0}, NEW loads \in [0..(K - 1) -> Load], NEW key \in Key
    PROVE  \A n \in 0..K : Total(loads, key, n) \in Nat
<1> DEFINE Good == {n \in Nat : n <= K => Total(loads, key, n) \in Nat}
<1>1. 0 \in Good
  BY TotalStep
<1>2. ASSUME NEW n \in Nat, n \in Good PROVE n + 1 \in Good
  <2> SUFFICES ASSUME n + 1 <= K PROVE Total(loads, key, n + 1) \in Nat
    OBVIOUS
  <2>1. n \in 0..(K - 1) /\ loads[n] \in Load /\ Total(loads, key, n) \in Nat
    BY <1>2
  <2>2. loads[n][key] \in Nat
    BY <2>1, LoadFacts
  <2>3. Total(loads, key, n + 1) = loads[n][key] + Total(loads, key, n)
    BY <2>1, TotalStep
  <2> QED
    BY <2>1, <2>2, <2>3
<1> HIDE DEF Good
<1>3. Nat \subseteq Good
  BY <1>1, <1>2, NumberInduction
<1> QED
  BY <1>3 DEF Good

\* What the proofs below need to know of a table, in one place.
LEMMA TotalFacts ==
    ASSUME NEW K \in Nat \ {0}, NEW loads \in [0..(K - 1) -> Load], NEW key \in Key
    PROVE  /\ Total(loads, key, 0) = 0
           /\ \A n \in 0..K : Total(loads, key, n) \in Nat
           /\ \A n \in 0..(K - 1) :
                /\ loads[n][key] \in Nat
                /\ n + 1 \in 0..K
                /\ Total(loads, key, n + 1) = Total(loads, key, n) + loads[n][key]
<1>1. ASSUME NEW n \in 0..(K - 1)
      PROVE  /\ loads[n][key] \in Nat
             /\ n + 1 \in 0..K
             /\ Total(loads, key, n + 1) = Total(loads, key, n) + loads[n][key]
  <2>1. loads[n][key] \in Nat
    BY LoadFacts
  <2>2. n \in 0..K /\ n + 1 \in 0..K
    OBVIOUS
  <2>3. Total(loads, key, n) \in Nat
    BY <2>2, TotalType
  <2>4. Total(loads, key, n + 1) = loads[n][key] + Total(loads, key, n)
    BY TotalStep
  <2> QED
    BY <2>1, <2>2, <2>3, <2>4
<1> QED
  BY <1>1, TotalStep, TotalType

\* A longer interval sees no less.
LEMMA TotalMonotone ==
    ASSUME NEW K \in Nat \ {0}, NEW loads \in [0..(K - 1) -> Load], NEW key \in Key,
           NEW m \in 0..K
    PROVE  \A n \in m..K : Total(loads, key, m) <= Total(loads, key, n)
<1> DEFINE Good == {i \in Nat : m + i <= K =>
                        Total(loads, key, m) <= Total(loads, key, m + i)}
<1>1. 0 \in Good
  <2>1. m + 0 = m /\ Total(loads, key, m) \in Nat
    BY TotalType
  <2> QED
    BY <2>1
<1>2. ASSUME NEW i \in Nat, i \in Good PROVE i + 1 \in Good
  <2> SUFFICES ASSUME m + (i + 1) <= K
               PROVE  Total(loads, key, m) <= Total(loads, key, m + (i + 1))
    OBVIOUS
  <2>1. m + i \in 0..(K - 1) /\ m + i \in 0..K /\ m + i <= K /\ m + (i + 1) = (m + i) + 1
    OBVIOUS
  <2>2. /\ loads[m + i][key] \in Nat
        /\ Total(loads, key, (m + i) + 1) = Total(loads, key, m + i) + loads[m + i][key]
        /\ Total(loads, key, m + i) \in Nat /\ Total(loads, key, m) \in Nat
    BY <2>1, TotalFacts
  <2>3. Total(loads, key, m) <= Total(loads, key, m + i)
    BY <1>2, <2>1
  <2> QED
    BY <2>1, <2>2, <2>3
<1> HIDE DEF Good
<1>3. Nat \subseteq Good
  BY <1>1, <1>2, NumberInduction
<1>4. ASSUME NEW n \in m..K PROVE Total(loads, key, m) <= Total(loads, key, n)
  <2>1. n - m \in Nat /\ m + (n - m) = n /\ n <= K
    OBVIOUS
  <2>2. n - m \in Good
    BY <1>3, <2>1
  <2> QED
    BY <2>1, <2>2 DEF Good
<1> QED
  BY <1>4

\* The total depends on the loads it counts.
LEMMA TotalSame ==
    ASSUME NEW K \in Nat \ {0}, NEW loads \in [0..(K - 1) -> Load],
           NEW other \in [0..(K - 1) -> Load], NEW key \in Key,
           NEW m \in 0..K, \A a \in 0..(m - 1) : loads[a] = other[a]
    PROVE  Total(loads, key, m) = Total(other, key, m)
<1> DEFINE Good == {n \in Nat : n <= m => Total(loads, key, n) = Total(other, key, n)}
<1>1. 0 \in Good
  BY TotalStep
<1>2. ASSUME NEW n \in Nat, n \in Good PROVE n + 1 \in Good
  <2> SUFFICES ASSUME n + 1 <= m
               PROVE  Total(loads, key, n + 1) = Total(other, key, n + 1)
    OBVIOUS
  <2>1. n \in 0..(K - 1) /\ n \in 0..(m - 1) /\ n <= m
    OBVIOUS
  <2>2. /\ Total(loads, key, n + 1) = loads[n][key] + Total(loads, key, n)
        /\ Total(other, key, n + 1) = other[n][key] + Total(other, key, n)
    BY <2>1, TotalStep
  <2> QED
    BY <1>2, <2>1, <2>2
<1> HIDE DEF Good
<1>3. Nat \subseteq Good
  BY <1>1, <1>2, NumberInduction
<1>4. m \in Good
  BY <1>3
<1> QED
  BY <1>4 DEF Good

\* What is kept is a table, and counts as before below the cutoff.
LEMMA KeptFacts ==
    ASSUME NEW K \in Nat \ {0}, NEW loads \in [0..(K - 1) -> Load],
           NEW lag \in 0..LockWait
    PROVE  /\ Kept(loads, lag) \in [0..(K - 1) -> Load]
           /\ \A key \in Key, n \in 0..K : n <= lag + Longest =>
                Total(Kept(loads, lag), key, n) = Total(loads, key, n)
<1>1. NoLoad \in Load
  BY DEF Load, NoLoad
<1>2. Longest \in Nat \ {0}
  BY DEF Longest
<1>3. Kept(loads, lag) \in [0..(K - 1) -> Load]
  BY <1>1 DEF Kept
<1>4. ASSUME NEW key \in Key, NEW n \in 0..K, n <= lag + Longest
      PROVE  Total(Kept(loads, lag), key, n) = Total(loads, key, n)
  <2>1. \A a \in 0..(n - 1) : a \in DOMAIN loads /\ a < lag + Longest
    BY <1>2, <1>4
  <2>2. \A a \in 0..(n - 1) : Kept(loads, lag)[a] = loads[a]
    BY <2>1 DEF Kept
  <2> QED
    BY <1>3, <2>2, TotalSame
<1> QED
  BY <1>3, <1>4

\* A reservation counts in every interval that reaches back to its stamp.
Adds(after, loads, lag, cost, K) ==
    \A key \in Key, n \in 0..K :
        Total(after, key, n) = Total(loads, key, n) + IF lag < n THEN cost[key] ELSE 0

LEMMA InsertedFacts ==
    ASSUME NEW K \in Nat \ {0}, NEW loads \in [0..(K - 1) -> Load],
           NEW lag \in 0..(K - 1), NEW cost \in Load
    PROVE  /\ Inserted(loads, lag, cost) \in [0..(K - 1) -> Load]
           /\ Adds(Inserted(loads, lag, cost), loads, lag, cost, K)
<1> DEFINE after == Inserted(loads, lag, cost)
<1>1. /\ Added(loads[lag], cost) \in Load
      /\ \A key \in Key : Added(loads[lag], cost)[key] = loads[lag][key] + cost[key]
  <2>1. loads[lag] \in Load /\ Added(loads[lag], cost) \in Load
    BY DEF Added, Load
  <2>2. /\ Added(loads[lag], cost)["requests"] = loads[lag]["requests"] + cost["requests"]
        /\ Added(loads[lag], cost)["sends"] = loads[lag]["sends"] + cost["sends"]
    BY DEF Added
  <2> QED
    BY <2>1, <2>2 DEF Key
<1>2. /\ after \in [0..(K - 1) -> Load]
      /\ after[lag] = Added(loads[lag], cost)
      /\ \A a \in 0..(K - 1) : a # lag => after[a] = loads[a]
  BY <1>1 DEF Inserted
<1> HIDE DEF after
<1>3. ASSUME NEW key \in Key, NEW n \in 0..K
      PROVE  Total(after, key, n) = Total(loads, key, n) + IF lag < n THEN cost[key] ELSE 0
  <2>0. cost[key] \in Nat
    BY LoadFacts
  <2> DEFINE Good == {m \in Nat : m <= K =>
                Total(after, key, m) = Total(loads, key, m) + IF lag < m THEN cost[key] ELSE 0}
  <2>1. 0 \in Good
    <3>1. Total(after, key, 0) = 0 /\ Total(loads, key, 0) = 0
      BY <1>2, TotalStep
    <3> QED
      BY <3>1
  <2>2. ASSUME NEW m \in Nat, m \in Good PROVE m + 1 \in Good
    <3> SUFFICES ASSUME m + 1 <= K
                 PROVE  Total(after, key, m + 1) =
                          Total(loads, key, m + 1) + IF lag < m + 1 THEN cost[key] ELSE 0
      OBVIOUS
    <3>1. m \in 0..(K - 1) /\ m \in 0..K
      OBVIOUS
    <3>2. /\ Total(after, key, m + 1) = Total(after, key, m) + after[m][key]
          /\ Total(loads, key, m + 1) = Total(loads, key, m) + loads[m][key]
          /\ loads[m][key] \in Nat
          /\ Total(loads, key, m) \in Nat
      <4>1. Total(after, key, m + 1) = Total(after, key, m) + after[m][key]
        BY <1>2, <3>1, TotalFacts
      <4>2. /\ Total(loads, key, m + 1) = Total(loads, key, m) + loads[m][key]
            /\ loads[m][key] \in Nat
        BY <3>1, TotalFacts
      <4>3. Total(loads, key, m) \in Nat
        BY <3>1, TotalType
      <4> QED
        BY <4>1, <4>2, <4>3
    <3>3. Total(after, key, m) = Total(loads, key, m) + IF lag < m THEN cost[key] ELSE 0
      BY <2>2, <3>1
    <3>4. CASE m = lag
      <4>1. after[m][key] = loads[m][key] + cost[key] /\ ~(lag < m) /\ lag < m + 1
        BY <1>1, <1>2, <3>4
      <4> QED
        BY <2>0, <3>2, <3>3, <4>1
    <3>5. CASE m # lag
      <4>1. after[m][key] = loads[m][key] /\ (lag < m <=> lag < m + 1)
        BY <1>2, <3>1, <3>5
      <4> QED
        BY <2>0, <3>2, <3>3, <4>1
    <3> QED
      BY <3>4, <3>5
  <2> HIDE DEF Good
  <2>3. Nat \subseteq Good
    BY <2>1, <2>2, NumberInduction
  <2>4. n \in Good /\ n <= K
    BY <2>3
  <2> QED
    BY <2>4 DEF Good
<1> QED
  BY <1>2, <1>3 DEF after, Adds

\* As time passes an interval reaches less far back.
LEMMA LaterFacts ==
    ASSUME NEW K \in Nat \ {0}, NEW loads \in [0..(K - 1) -> Load], NEW d \in Nat
    PROVE  /\ Later(loads, d) \in [0..(K - 1) -> Load]
           /\ \A key \in Key, n \in 0..K :
                Total(Later(loads, d), key, n) =
                    IF n <= d THEN 0 ELSE Total(loads, key, n - d)
<1> DEFINE after == Later(loads, d)
<1>1. NoLoad \in Load /\ \A key \in Key : NoLoad[key] = 0
  BY DEF Load, NoLoad, Key
<1>2. /\ after \in [0..(K - 1) -> Load]
      /\ \A a \in 0..(K - 1) : after[a] = IF a >= d THEN loads[a - d] ELSE NoLoad
  <2>1. \A a \in 0..(K - 1) : a >= d => a - d \in 0..(K - 1)
    OBVIOUS
  <2> QED
    BY <1>1, <2>1 DEF Later
<1> HIDE DEF after
<1>3. ASSUME NEW key \in Key, NEW n \in 0..K
      PROVE  Total(after, key, n) = IF n <= d THEN 0 ELSE Total(loads, key, n - d)
  <2> DEFINE Good == {m \in Nat : m <= K =>
                Total(after, key, m) = IF m <= d THEN 0 ELSE Total(loads, key, m - d)}
  <2>1. 0 \in Good
    <3>1. Total(after, key, 0) = 0
      BY <1>2, TotalStep
    <3>2. 0 <= d /\ 0 \in Nat
      OBVIOUS
    <3> QED
      BY <3>1, <3>2
  <2>2. ASSUME NEW m \in Nat, m \in Good PROVE m + 1 \in Good
    <3> SUFFICES ASSUME m + 1 <= K
                 PROVE  Total(after, key, m + 1) =
                          IF m + 1 <= d THEN 0 ELSE Total(loads, key, (m + 1) - d)
      OBVIOUS
    <3>1. m \in 0..(K - 1) /\ m <= K
      OBVIOUS
    <3>2. Total(after, key, m + 1) = after[m][key] + Total(after, key, m)
      BY <1>2, <3>1, TotalStep
    <3>3. Total(after, key, m) = IF m <= d THEN 0 ELSE Total(loads, key, m - d)
      BY <2>2, <3>1
    <3>4. CASE m < d
      BY <1>1, <1>2, <3>1, <3>2, <3>3, <3>4
    <3>5. CASE m >= d
      <4>1. m - d \in 0..(K - 1) /\ (m + 1) - d = (m - d) + 1 /\ ~(m + 1 <= d)
        BY <3>1, <3>5
      <4>2. Total(loads, key, (m - d) + 1) = loads[m - d][key] + Total(loads, key, m - d)
        BY <4>1, TotalStep
      <4>3. after[m][key] = loads[m - d][key]
        BY <1>2, <3>1, <3>5
      <4>4. Total(after, key, m) = Total(loads, key, m - d)
        <5>1. CASE m = d
          <6>1. Total(loads, key, 0) = 0 /\ m - d = 0
            BY <5>1, TotalStep
          <6> QED
            BY <3>3, <5>1, <6>1
        <5>2. CASE m # d
          BY <3>3, <3>5, <5>2
        <5> QED
          BY <5>1, <5>2
      <4> QED
        BY <3>2, <4>1, <4>2, <4>3, <4>4
    <3> QED
      BY <3>4, <3>5
  <2> HIDE DEF Good
  <2>3. Nat \subseteq Good
    BY <2>1, <2>2, NumberInduction
  <2>4. n \in Good /\ n <= K
    BY <2>3
  <2> QED
    BY <2>4 DEF Good
<1> QED
  BY <1>2, <1>3 DEF after

-----------------------------------------------------------------------------
(* The wait *)

LEMMA Bounds ==
    /\ Longest \in Nat \ {0} /\ MaxAge \in Nat \ {0}
    /\ Longest \in 1..MaxAge /\ MaxAge = Longest + LockWait
    /\ WindowMs \in 1..Longest /\ SendWindowMs \in 1..Longest
    /\ LockWait \in Nat /\ MaxRequests \in Nat \ {0} /\ MaxSends \in Nat \ {0}
BY DEF Longest, MaxAge

\* Where a cost fits in one interval but not in a longer one, there is a last
\* age at which it does, and rows of that age are what it does not fit with.
LEMMA LastFit ==
    ASSUME NEW K \in Nat \ {0}, NEW loads \in [0..(K - 1) -> Load], NEW key \in Key,
           NEW limit \in Nat, NEW cost \in Nat, NEW m \in 0..K, NEW n \in m..K,
           Total(loads, key, m) + cost <= limit,
           ~(Total(loads, key, n) + cost <= limit)
    PROVE  \E a \in m..(n - 1) :
               /\ Total(loads, key, a) + cost <= limit
               /\ loads[a][key] > 0
               /\ \A b \in (a + 1)..n : ~(Total(loads, key, b) + cost <= limit)
<1> DEFINE Fits(a) == Total(loads, key, a) + cost <= limit
           Good == {i \in Nat : m + i <= n => Fits(m + i)}
<1>1. PICK a \in m..(n - 1) : Fits(a) /\ ~Fits(a + 1)
  <2> SUFFICES ASSUME \A a \in m..(n - 1) : Fits(a) => Fits(a + 1) PROVE FALSE
    OBVIOUS
  <2> HIDE DEF Fits
  <2>1. 0 \in Good
    <3>1. m + 0 = m
      OBVIOUS
    <3> QED
      BY <3>1 DEF Fits
  <2>2. ASSUME NEW i \in Nat, i \in Good PROVE i + 1 \in Good
    <3> SUFFICES ASSUME m + (i + 1) <= n PROVE Fits(m + (i + 1))
      OBVIOUS
    <3>1. m + i \in m..(n - 1) /\ m + i <= n /\ m + (i + 1) = (m + i) + 1
      OBVIOUS
    <3>2. Fits((m + i) + 1)
      BY <2>2, <3>1
    <3> QED
      BY <3>1, <3>2
  <2> HIDE DEF Good
  <2>3. Nat \subseteq Good
    BY <2>1, <2>2, NumberInduction
  <2>4. n - m \in Nat /\ m + (n - m) = n /\ n <= n
    OBVIOUS
  <2>5. n - m \in Good
    BY <2>3, <2>4
  <2>6. Fits(n)
    BY <2>4, <2>5 DEF Good
  <2> QED
    BY <2>6 DEF Fits
<1>2. a \in 0..(K - 1) /\ a + 1 \in 0..K /\ n \in 0..K
  OBVIOUS
<1>3. /\ loads[a][key] \in Nat /\ Total(loads, key, a) \in Nat
      /\ Total(loads, key, a + 1) = Total(loads, key, a) + loads[a][key]
  <2>1. a \in 0..K
    OBVIOUS
  <2>2. Total(loads, key, a) \in Nat
    BY <2>1, TotalType
  <2>3. /\ loads[a][key] \in Nat
        /\ Total(loads, key, a + 1) = Total(loads, key, a) + loads[a][key]
    BY <1>2, TotalFacts
  <2> QED
    BY <2>2, <2>3
<1>4. loads[a][key] > 0
  <2>1. Total(loads, key, a + 1) # Total(loads, key, a)
    BY <1>1
  <2> QED
    BY <1>3, <2>1
<1>5. ASSUME NEW b \in (a + 1)..n PROVE ~Fits(b)
  <2>1. b \in (a + 1)..K /\ b \in 0..K
    BY <1>2
  <2>2. Total(loads, key, a + 1) <= Total(loads, key, b)
    BY <1>2, <2>1, TotalMonotone
  <2>3. Total(loads, key, a + 1) \in Nat /\ Total(loads, key, b) \in Nat
    BY <1>2, <2>1, TotalType
  <2> QED
    BY <1>1, <2>2, <2>3
<1> QED
  BY <1>1, <1>4, <1>5

\* After the wait, and not before, the interval has room.
ExactFor(wait, loads, lag, window, limit, cost, key) ==
    /\ wait \in 0..(lag + window)
    /\ cost = 0 => wait = 0
    /\ cost # 0 => \A d \in 0..(lag + window) :
         (Total(loads, key, lag + window - d) + cost <= limit) <=> wait <= d

LEMMA WaitFacts ==
    ASSUME NEW loads \in [0..(MaxAge - 1) -> Load], NEW key \in Key,
           NEW lag \in 0..LockWait, NEW window \in 1..Longest,
           NEW limit \in Nat, NEW cost \in 0..limit
    PROVE  ExactFor(WaitForBudget(loads, lag, window, limit, cost, key),
                    loads, lag, window, limit, cost, key)
<1>w. PICK wait : wait = WaitForBudget(loads, lag, window, limit, cost, key)
  OBVIOUS
<1> SUFFICES
        /\ wait \in 0..(lag + window)
        /\ cost = 0 => wait = 0
        /\ cost # 0 => \A d \in 0..(lag + window) :
             (Total(loads, key, lag + window - d) + cost <= limit) <=> wait <= d
  BY <1>w DEF ExactFor
<1> DEFINE n == lag + window
           Fits(a) == Total(loads, key, a) + cost <= limit
           Active == {a \in 0..(lag + window - 1) : loads[a][key] > 0}
           last == CHOOSE a \in Active : Fits(a) /\ \A b \in Active : b > a => ~Fits(b)
<1>1. wait = IF cost = 0 \/ Fits(n) THEN 0 ELSE lag + window - last
  BY <1>w, Zenon DEF WaitForBudget
<1>0. last = CHOOSE a \in Active : Fits(a) /\ \A b \in Active : b > a => ~Fits(b)
  OBVIOUS
<1>9. n = lag + window
  OBVIOUS
<1> HIDE DEF n, last
<1>2. n \in 1..MaxAge /\ lag + window - 1 = n - 1 /\ MaxAge \in Nat \ {0}
      /\ n \in Nat /\ n <= MaxAge
  BY <1>9, Bounds
<1>3. ASSUME NEW a \in 0..n PROVE Total(loads, key, a) \in Nat /\ a \in 0..MaxAge
  <2>1. a \in 0..MaxAge
    BY <1>2
  <2> QED
    BY <1>2, <2>1, TotalType
<1>4. ASSUME NEW a \in 0..n, NEW b \in a..n, Fits(b) PROVE Fits(a)
  <2>1. a \in 0..MaxAge /\ b \in a..MaxAge /\ b \in 0..n
    BY <1>2
  <2>2. Total(loads, key, a) <= Total(loads, key, b)
    BY <1>2, <2>1, TotalMonotone
  <2> QED
    BY <1>3, <1>4, <2>1, <2>2
<1>5. CASE cost = 0
  BY <1>1, <1>2, <1>5, <1>9
<1>6. CASE cost # 0 /\ Fits(n)
  <2>1. wait = 0
    BY <1>1, <1>6
  <2>2. \A d \in 0..n : Fits(n - d)
    BY <1>2, <1>4, <1>6
  <2> QED
    BY <1>2, <1>6, <1>9, <2>1, <2>2
<1>7. CASE cost # 0 /\ ~Fits(n)
  <2>0. ASSUME NEW b \in 0..n, Fits(b)
        PROVE  \E a \in Active : a >= b /\ Fits(a) /\ \A c \in Active : c > a => ~Fits(c)
    <3>1. b \in 0..MaxAge /\ n \in b..MaxAge
      BY <1>2
    <3>2. PICK a \in b..(n - 1) : /\ Fits(a) /\ loads[a][key] > 0
                                  /\ \A c \in (a + 1)..n : ~Fits(c)
      <4>1. cost \in Nat
        OBVIOUS
      <4> HIDE DEF Active
      <4> QED
        BY <1>2, <1>7, <2>0, <3>1, <4>1, LastFit
    <3>3. a \in Active /\ a >= b
      BY <1>2, <3>2
    <3>4. \A c \in Active : c > a => c \in (a + 1)..n
      BY <1>2, <3>2
    <3> QED
      BY <3>2, <3>3, <3>4
  <2>1. Fits(0)
    BY <1>2, TotalStep
  <2>2. last \in Active /\ Fits(last) /\ \A b \in Active : b > last => ~Fits(b)
    <3>1. 0 \in 0..n
      BY <1>2
    <3>2. \E a \in Active : Fits(a) /\ \A c \in Active : c > a => ~Fits(c)
      BY <2>0, <2>1, <3>1
    <3> HIDE DEF Active, Fits
    <3> QED
      BY <1>0, <3>2
  <2>3. last \in 0..(n - 1)
    BY <1>2, <2>2
  <2>4. \A b \in 0..n : b > last => ~Fits(b)
    <3> SUFFICES ASSUME NEW b \in 0..n, b > last, Fits(b) PROVE FALSE
      OBVIOUS
    <3>1. PICK a \in Active : a >= b /\ Fits(a)
      BY <2>0
    <3>2. a > last
      BY <2>3, <3>1
    <3> QED
      BY <2>2, <3>1, <3>2
  <2>5. wait = n - last
    BY <1>1, <1>2, <1>7, <1>9, <2>3
  <2>6. ASSUME NEW d \in 0..n PROVE Fits(n - d) <=> wait <= d
    <3>1. n - d \in 0..n /\ (wait <= d <=> n - d <= last)
      BY <1>2, <2>3, <2>5
    <3>2. CASE n - d <= last
      <4>1. last \in (n - d)..n
        BY <1>2, <2>3, <3>1, <3>2
      <4> QED
        BY <1>4, <2>2, <3>1, <3>2, <4>1
    <3>3. CASE n - d > last
      BY <2>3, <2>4, <3>1, <3>3
    <3> QED
      BY <1>2, <2>3, <3>1, <3>2, <3>3
  <2> QED
    BY <1>2, <1>7, <1>9, <2>3, <2>5, <2>6
<1> QED
  BY <1>5, <1>6, <1>7

-----------------------------------------------------------------------------
(* Chunks *)

\* What reserve() may ever accept.
Fitting == [requests : 1..MaxRequests, sends : 0..MaxSends]

LEMMA AddedChunk ==
    ASSUME NEW chunks \in Seq(Fitting), NEW isSend \in BOOLEAN
    PROVE  /\ AddToChunks(isSend, chunks) \in Seq(Fitting)
           /\ AddToChunks(isSend, chunks) # <<>>
<1> DEFINE cost == IF isSend THEN 1 ELSE 0
           last == chunks[Len(chunks)]
           closed == last.requests >= MaxRequests \/ (isSend /\ last.sends >= MaxSends)
           new == [requests |-> 1, sends |-> cost]
           more == [requests |-> last.requests + 1, sends |-> last.sends + cost]
<1>1. AddToChunks(isSend, chunks) =
        IF chunks = <<>> \/ closed THEN Append(chunks, new)
        ELSE [chunks EXCEPT ![Len(chunks)] = more]
  BY DEF AddToChunks
<1>2. new \in Fitting
  BY Bounds DEF Fitting
<1>3. CASE chunks = <<>> \/ closed
  <2> HIDE DEF closed, new
  <2>1. AddToChunks(isSend, chunks) = Append(chunks, new)
    BY <1>1, <1>3
  <2> QED
    BY <1>2, <2>1
<1>4. CASE chunks # <<>> /\ ~closed
  <2>1. Len(chunks) \in 1..Len(chunks) /\ last \in Fitting
    BY <1>4
  <2>2. more \in Fitting
    BY <1>4, <2>1, Bounds DEF Fitting
  <2>3. AddToChunks(isSend, chunks) = [chunks EXCEPT ![Len(chunks)] = more]
    BY <1>1, <1>4
  <2> HIDE DEF more, closed
  <2> QED
    BY <1>4, <2>1, <2>2, <2>3
<1> QED
  BY <1>3, <1>4

\* Every part of a batch can be reserved, and a batch has parts.
LEMMA ChunksFacts ==
    ASSUME NEW batch \in Seq(BOOLEAN), batch # <<>>
    PROVE  Chunks(batch) \in Seq(Fitting) /\ Chunks(batch) # <<>>
<1>0. /\ Len(batch) \in Nat \ {0} /\ \A i \in 1..Len(batch) : batch[i] \in BOOLEAN
  OBVIOUS
<1> DEFINE Body(f, i) == IF i = 0 THEN <<>> ELSE AddToChunks(batch[i], f[i - 1])
           Good == {m \in Nat : \E f : f = [i \in 0..m |-> Body(f, i)]}
<1>1. 0 \in Good
  <2>1. PICK g : g = [i \in 0..0 |-> <<>>]
    OBVIOUS
  <2>2. g = [i \in 0..0 |-> Body(g, i)]
    BY <2>1
  <2> QED
    BY <2>2
<1>2. ASSUME NEW m \in Nat, m \in Good PROVE m + 1 \in Good
  <2>1. PICK f : f = [i \in 0..m |-> Body(f, i)]
    BY <1>2
  <2> DEFINE g == [i \in 0..(m + 1) |-> IF i = m + 1 THEN Body(f, i) ELSE f[i]]
  <2>2. \A i \in 1..(m + 1) : g[i - 1] = f[i - 1]
    OBVIOUS
  <2>3. \A i \in 0..m : f[i] = Body(f, i)
    BY <2>1
  <2>4. \A i \in 0..(m + 1) : g[i] = Body(f, i)
    BY <2>3
  <2>5. g = [i \in 0..(m + 1) |-> g[i]]
    OBVIOUS
  <2> HIDE DEF g
  <2>6. ASSUME NEW i \in 0..(m + 1) PROVE Body(f, i) = Body(g, i)
    <3>1. i = 0 \/ i \in 1..(m + 1)
      OBVIOUS
    <3> QED
      BY <2>2, <3>1
  <2>7. g = [i \in 0..(m + 1) |-> Body(g, i)]
    BY <2>4, <2>5, <2>6
  <2>8. \E h : h = [i \in 0..(m + 1) |-> Body(h, i)]
    BY <2>7
  <2>9. m + 1 \in Nat
    OBVIOUS
  <2> QED
    BY <2>8, <2>9
<1>3. Len(batch) \in Good
  <2> HIDE DEF Good
  <2>1. Nat \subseteq Good
    BY <1>1, <1>2, NumberInduction
  <2> QED
    BY <1>0, <2>1
<1> DEFINE chunks == CHOOSE f : f = [i \in 0..Len(batch) |-> Body(f, i)]
<1>4. \E f : f = [i \in 0..Len(batch) |-> Body(f, i)]
  BY <1>3
<1>5. chunks = [i \in 0..Len(batch) |-> Body(chunks, i)]
  BY <1>4
<1>6. Chunks(batch) = chunks[Len(batch)]
  BY DEF Chunks
<1> HIDE DEF chunks
<1>7. \A i \in 0..Len(batch) : chunks[i] = Body(chunks, i)
  BY <1>5
<1> DEFINE Fine(q, i) == q \in Seq(Fitting) /\ (i # 0 => q # <<>>)
           Filled == {i \in Nat : i <= Len(batch) => Fine(chunks[i], i)}
<1>8. 0 \in Filled
  <2>1. chunks[0] = <<>>
    BY <1>0, <1>7
  <2>2. Fine(<<>>, 0)
    OBVIOUS
  <2> QED
    BY <2>1, <2>2
<1>9. ASSUME NEW m \in Nat, m \in Filled PROVE m + 1 \in Filled
  <2> SUFFICES ASSUME m + 1 <= Len(batch) PROVE Fine(chunks[m + 1], m + 1)
    OBVIOUS
  <2>1. m + 1 \in 1..Len(batch) /\ m + 1 \in 0..Len(batch) /\ (m + 1) - 1 = m /\ m <= Len(batch)
    BY <1>0
  <2>2. chunks[m + 1] = AddToChunks(batch[m + 1], chunks[m])
    BY <1>7, <2>1
  <2>3. chunks[m] \in Seq(Fitting) /\ batch[m + 1] \in BOOLEAN
    BY <1>0, <1>9, <2>1
  <2> QED
    BY <2>2, <2>3, AddedChunk
<1>10. Len(batch) \in Filled
  <2> HIDE DEF Filled
  <2>1. Nat \subseteq Filled
    BY <1>8, <1>9, NumberInduction
  <2> QED
    BY <1>0, <2>1
<1> QED
  BY <1>0, <1>6, <1>10

LEMMA FittingFacts ==
    /\ Fitting \subseteq Cost /\ Fitting \subseteq Load
    /\ \A cost \in Fitting : /\ cost.requests \in 1..MaxRequests /\ cost.requests <= MaxRequests
                             /\ cost.sends \in 0..MaxSends /\ cost.sends <= MaxSends
    /\ Seq(Fitting) \subseteq Seq(Cost)
<1>1. Fitting \subseteq Cost /\ Fitting \subseteq Load
  BY Bounds DEF Fitting, Cost, Load
<1>2. \A cost \in Fitting : /\ cost.requests \in 1..MaxRequests /\ cost.requests <= MaxRequests
                            /\ cost.sends \in 0..MaxSends /\ cost.sends <= MaxSends
  BY Bounds DEF Fitting
<1> QED
  BY <1>1, <1>2

-----------------------------------------------------------------------------
(* What a wait says of the table *)

WindowOf(key) == IF key = "requests" THEN WindowMs ELSE SendWindowMs
LimitOf(key) == IF key = "requests" THEN MaxRequests ELSE MaxSends

\* The cost fits with what is younger than n.
HasRoom(loads, cost, key, n) ==
    cost[key] = 0 \/ Total(loads, key, n) + cost[key] <= LimitOf(key)

\* What is left of an interval that the wait shortens from its far end.
Left(n, wait) == IF wait > n THEN 0 ELSE n - wait

LEMMA KeyFacts ==
    ASSUME NEW key \in Key
    PROVE  /\ WindowOf(key) \in 1..Longest /\ WindowOf(key) \in Nat
           /\ LimitOf(key) \in Nat
           /\ \A cost \in Fitting : cost[key] \in 0..LimitOf(key)
BY Bounds DEF Key, WindowOf, LimitOf, Fitting

LEMMA WaitMeans ==
    ASSUME NEW loads \in [0..(MaxAge - 1) -> Load], NEW lag \in 0..LockWait,
           NEW cost \in Fitting, NEW wait, wait = Wait(loads, lag, cost)
    PROVE  /\ wait \in 0..MaxAge
           /\ \A key \in Key :
                HasRoom(loads, cost, key, Left(lag + WindowOf(key), wait))
           /\ wait > 0 => \E key \in Key :
                /\ wait <= lag + WindowOf(key)
                /\ ~HasRoom(loads, cost, key, lag + WindowOf(key) - (wait - 1))
<1> DEFINE For(key) == WaitForBudget(loads, lag, WindowOf(key), LimitOf(key), cost[key], key)
<1>1. wait = IF For("requests") > For("sends") THEN For("requests") ELSE For("sends")
  BY DEF Wait, WindowOf, LimitOf
<1>2. ASSUME NEW key \in Key
      PROVE  ExactFor(For(key), loads, lag, WindowOf(key), LimitOf(key), cost[key], key)
  BY KeyFacts, WaitFacts
<1> HIDE DEF For
<1>3. ASSUME NEW key \in Key
      PROVE  For(key) \in 0..(lag + WindowOf(key)) /\ For(key) \in Nat /\ For(key) <= MaxAge
             /\ lag + WindowOf(key) \in Nat
  BY <1>2, KeyFacts, Bounds DEF ExactFor
<1>4. /\ "requests" \in Key /\ "sends" \in Key
      /\ \A key \in Key : key = "requests" \/ key = "sends"
  BY DEF Key
<1>5. /\ wait \in 0..MaxAge /\ wait \in Nat
      /\ \A key \in Key : For(key) <= wait
      /\ \E key \in Key : wait = For(key)
  BY <1>1, <1>3, <1>4, Bounds
<1>6. ASSUME NEW key \in Key
      PROVE  HasRoom(loads, cost, key, Left(lag + WindowOf(key), wait))
  <2>0. PICK n : n = lag + WindowOf(key)
    OBVIOUS
  <2>1. n \in Nat /\ wait \in Nat /\ LimitOf(key) \in Nat
        /\ cost[key] \in Nat /\ cost[key] <= LimitOf(key)
    BY <1>3, <1>5, <2>0, KeyFacts
  <2>2. CASE wait > n
    <3>1. Total(loads, key, 0) = 0
      BY Bounds, TotalStep
    <3>2. Left(n, wait) = 0
      BY <2>1, <2>2 DEF Left
    <3> QED
      BY <2>0, <2>1, <3>1, <3>2 DEF HasRoom
  <2>3. CASE cost[key] # 0 /\ wait <= n
    <3>1. wait \in 0..(lag + WindowOf(key)) /\ For(key) <= wait
      BY <1>5, <2>0, <2>1, <2>3
    <3>2. Total(loads, key, lag + WindowOf(key) - wait) + cost[key] <= LimitOf(key)
      BY <1>2, <2>3, <3>1 DEF ExactFor
    <3>3. Left(n, wait) = lag + WindowOf(key) - wait
      <4>1. Left(n, wait) = n - wait
        BY <2>1, <2>3 DEF Left
      <4>2. lag \in Nat /\ WindowOf(key) \in Nat
        BY KeyFacts, Bounds
      <4>3. n - wait = lag + WindowOf(key) - wait
        BY <2>0, <2>1, <4>2
      <4> QED
        BY <4>1, <4>3
    <3>4. Total(loads, key, Left(n, wait)) + cost[key] <= LimitOf(key)
      BY <3>2, <3>3
    <3> QED
      BY <2>0, <3>4 DEF HasRoom
  <2>4. CASE cost[key] = 0
    BY <2>4 DEF HasRoom
  <2> QED
    BY <2>1, <2>2, <2>3, <2>4
<1>7. ASSUME wait > 0
      PROVE  \E key \in Key :
                /\ wait <= lag + WindowOf(key)
                /\ ~HasRoom(loads, cost, key, lag + WindowOf(key) - (wait - 1))
  <2>1. PICK key \in Key : wait = For(key)
    BY <1>5
  <2>2. /\ wait - 1 \in 0..(lag + WindowOf(key)) /\ ~(For(key) <= wait - 1)
        /\ wait <= lag + WindowOf(key) /\ For(key) # 0
    BY <1>3, <1>5, <1>7, <2>1
  <2>3. cost[key] # 0
    BY <1>2, <2>2 DEF ExactFor
  <2>4. ~(Total(loads, key, lag + WindowOf(key) - (wait - 1)) + cost[key] <= LimitOf(key))
    BY <1>2, <2>2, <2>3 DEF ExactFor
  <2> QED
    BY <2>2, <2>3, <2>4 DEF HasRoom
<1> QED
  BY <1>5, <1>6, <1>7

\* Room in an interval is room in a shorter one.
LEMMA RoomShorter ==
    ASSUME NEW loads \in [0..(MaxAge - 1) -> Load], NEW key \in Key,
           NEW cost \in Fitting, NEW n \in 0..MaxAge, NEW m \in 0..n,
           HasRoom(loads, cost, key, n)
    PROVE  HasRoom(loads, cost, key, m)
<1>1. m \in 0..MaxAge /\ n \in m..MaxAge /\ MaxAge \in Nat \ {0}
  BY Bounds
<1>2. /\ Total(loads, key, m) <= Total(loads, key, n)
      /\ Total(loads, key, m) \in Nat /\ Total(loads, key, n) \in Nat
  BY <1>1, TotalMonotone, TotalType
<1>3. cost[key] \in Nat /\ LimitOf(key) \in Nat
  BY KeyFacts
<1> QED
  BY <1>2, <1>3 DEF HasRoom

\* Nothing is waited for exactly where both budgets have room.
LEMMA NoWait ==
    ASSUME NEW loads \in [0..(MaxAge - 1) -> Load], NEW lag \in 0..LockWait,
           NEW cost \in Fitting
    PROVE  Wait(loads, lag, cost) = 0 <=>
             \A key \in Key : HasRoom(loads, cost, key, lag + WindowOf(key))
<1>1. PICK wait : wait = Wait(loads, lag, cost)
  OBVIOUS
<1>2. /\ wait \in Nat
      /\ \A key \in Key : HasRoom(loads, cost, key, Left(lag + WindowOf(key), wait))
      /\ wait > 0 => \E key \in Key :
           /\ wait <= lag + WindowOf(key)
           /\ ~HasRoom(loads, cost, key, lag + WindowOf(key) - (wait - 1))
  BY <1>1, WaitMeans, Bounds
<1>3. ASSUME wait = 0, NEW key \in Key
      PROVE  HasRoom(loads, cost, key, lag + WindowOf(key))
  <2>1. Left(lag + WindowOf(key), wait) = lag + WindowOf(key)
    BY <1>3, KeyFacts DEF Left
  <2> QED
    BY <1>2, <2>1
<1>4. ASSUME wait > 0
      PROVE  \E key \in Key : ~HasRoom(loads, cost, key, lag + WindowOf(key))
  <2>1. PICK key \in Key :
           /\ wait <= lag + WindowOf(key)
           /\ ~HasRoom(loads, cost, key, lag + WindowOf(key) - (wait - 1))
    BY <1>2, <1>4
  <2>2. /\ lag + WindowOf(key) \in 0..MaxAge
        /\ lag + WindowOf(key) - (wait - 1) \in 0..(lag + WindowOf(key))
    BY <1>2, <1>4, <2>1, KeyFacts, Bounds
  <2> QED
    BY <2>1, <2>2, RoomShorter
<1> QED
  BY <1>1, <1>2, <1>3, <1>4

\* Pruning makes room and takes none.
LEMMA RoomKept ==
    ASSUME NEW loads \in [0..(MaxAge - 1) -> Load], NEW lag \in 0..LockWait,
           NEW key \in Key, NEW cost \in Fitting, NEW n \in 0..MaxAge
    PROVE  /\ HasRoom(loads, cost, key, n) => HasRoom(Kept(loads, lag), cost, key, n)
           /\ n <= Longest /\ HasRoom(Kept(loads, lag), cost, key, n)
                => HasRoom(loads, cost, key, n)
<1> DEFINE kept == Kept(loads, lag)
           Good == {m \in Nat : m <= MaxAge => Total(kept, key, m) <= Total(loads, key, m)}
<1>1. MaxAge \in Nat \ {0} /\ kept \in [0..(MaxAge - 1) -> Load]
  BY Bounds, KeptFacts
<1>2. \A a \in 0..(MaxAge - 1) : kept[a] = loads[a] \/ kept[a] = NoLoad
  BY DEF Kept
<1>3. NoLoad[key] = 0
  BY DEF NoLoad, Key
<1> HIDE DEF kept
<1>4. 0 \in Good
  <2>1. Total(kept, key, 0) = 0 /\ Total(loads, key, 0) = 0
    BY <1>1, TotalStep
  <2> QED
    BY <2>1
<1>5. ASSUME NEW m \in Nat, m \in Good PROVE m + 1 \in Good
  <2> SUFFICES ASSUME m + 1 <= MaxAge
               PROVE  Total(kept, key, m + 1) <= Total(loads, key, m + 1)
    OBVIOUS
  <2>1. m \in 0..(MaxAge - 1) /\ m \in 0..MaxAge /\ m <= MaxAge
    BY <1>1
  <2>2. /\ Total(kept, key, m + 1) = Total(kept, key, m) + kept[m][key]
        /\ kept[m][key] \in Nat /\ Total(kept, key, m) \in Nat
    BY <1>1, <2>1, TotalFacts
  <2>3. /\ Total(loads, key, m + 1) = Total(loads, key, m) + loads[m][key]
        /\ loads[m][key] \in Nat /\ Total(loads, key, m) \in Nat
    BY <1>1, <2>1, TotalFacts
  <2>4. kept[m][key] <= loads[m][key]
    BY <1>2, <1>3, <2>1, <2>3
  <2>5. Total(kept, key, m) <= Total(loads, key, m)
    BY <1>5, <2>1
  <2>6. \A x, y, v, w \in Nat : x <= y /\ v <= w => x + v <= y + w
    OBVIOUS
  <2> QED
    BY <2>2, <2>3, <2>4, <2>5, <2>6
<1> HIDE DEF Good
<1>6. Nat \subseteq Good
  BY <1>4, <1>5, NumberInduction
<1>7. n \in Good /\ n <= MaxAge
  BY <1>1, <1>6
<1>8. Total(kept, key, n) <= Total(loads, key, n)
  BY <1>7 DEF Good
<1>9. n <= Longest => Total(kept, key, n) = Total(loads, key, n)
  <2>1. n <= Longest => n <= lag + Longest
    BY Bounds
  <2> QED
    BY <1>1, <2>1, KeptFacts DEF kept
<1>10. /\ Total(kept, key, n) \in Nat /\ Total(loads, key, n) \in Nat
       /\ cost[key] \in Nat /\ LimitOf(key) \in Nat
  <2>1. Total(kept, key, n) \in Nat /\ Total(loads, key, n) \in Nat
    BY <1>1, TotalType
  <2>2. cost[key] \in 0..LimitOf(key) /\ LimitOf(key) \in Nat
    BY KeyFacts
  <2> QED
    BY <2>1, <2>2
<1>11. HasRoom(loads, cost, key, n) => HasRoom(kept, cost, key, n)
  BY <1>8, <1>10 DEF HasRoom
<1>12. n <= Longest /\ HasRoom(kept, cost, key, n) => HasRoom(loads, cost, key, n)
  BY <1>9 DEF HasRoom
<1> QED
  BY <1>11, <1>12 DEF kept

\* A reservation makes no room.
LEMMA RoomInserted ==
    ASSUME NEW loads \in [0..(MaxAge - 1) -> Load], NEW lag \in 0..LockWait,
           NEW key \in Key, NEW other \in Fitting, NEW cost \in Fitting,
           NEW n \in 0..MaxAge, HasRoom(Inserted(loads, lag, other), cost, key, n)
    PROVE  HasRoom(loads, cost, key, n)
<1>1. MaxAge \in Nat \ {0} /\ lag \in 0..(MaxAge - 1) /\ other \in Load
  BY Bounds, FittingFacts
<1>2. Adds(Inserted(loads, lag, other), loads, lag, other, MaxAge)
  BY <1>1, InsertedFacts
<1>3. Total(Inserted(loads, lag, other), key, n)
        = Total(loads, key, n) + IF lag < n THEN other[key] ELSE 0
  BY <1>2 DEF Adds
<1>4. /\ Total(loads, key, n) \in Nat /\ other[key] \in Nat /\ cost[key] \in Nat
      /\ LimitOf(key) \in Nat
  BY <1>1, KeyFacts, TotalType
<1> QED
  BY <1>3, <1>4 DEF HasRoom

\* As time passes the same cost fits one further back, and no further.
LEMMA RoomLater ==
    ASSUME NEW loads \in [0..(MaxAge - 1) -> Load], NEW key \in Key,
           NEW cost \in Fitting, NEW n \in 0..MaxAge
    PROVE  /\ HasRoom(loads, cost, key, n) =>
                \A m \in 0..MaxAge : m <= n + 1 => HasRoom(Later(loads, 1), cost, key, m)
           /\ n # 0 /\ n + 1 \in 0..MaxAge /\ HasRoom(Later(loads, 1), cost, key, n + 1)
                => HasRoom(loads, cost, key, n)
<1>1. /\ MaxAge \in Nat \ {0} /\ 1 \in Nat
      /\ cost[key] \in Nat /\ LimitOf(key) \in Nat /\ cost[key] <= LimitOf(key)
  BY Bounds, KeyFacts
<1>2. \A m \in 0..MaxAge : Total(Later(loads, 1), key, m)
                             = IF m <= 1 THEN 0 ELSE Total(loads, key, m - 1)
  BY <1>1, LaterFacts
<1>3. ASSUME HasRoom(loads, cost, key, n), NEW m \in 0..MaxAge, m <= n + 1
      PROVE  HasRoom(Later(loads, 1), cost, key, m)
  <2>1. CASE m <= 1
    BY <1>1, <1>2, <2>1 DEF HasRoom
  <2>2. CASE ~(m <= 1)
    <3>1. m - 1 \in 0..n
      BY <1>3, <2>2
    <3>2. HasRoom(loads, cost, key, m - 1)
      BY <1>3, <3>1, RoomShorter
    <3> QED
      BY <1>2, <2>2, <3>2 DEF HasRoom
  <2> QED
    BY <2>1, <2>2
<1>4. ASSUME n # 0, n + 1 \in 0..MaxAge, HasRoom(Later(loads, 1), cost, key, n + 1)
      PROVE  HasRoom(loads, cost, key, n)
  <2>1. ~(n + 1 <= 1) /\ (n + 1) - 1 = n
    BY <1>4
  <2>2. Total(Later(loads, 1), key, n + 1) = Total(loads, key, n)
    BY <1>2, <1>4, <2>1
  <2> QED
    BY <1>4, <2>2 DEF HasRoom
<1> QED
  BY <1>3, <1>4

-----------------------------------------------------------------------------
(* The invariant *)

\* A call that is not idle has a chunk left, and all of them can be reserved.
ClientOK ==
    /\ client \in [Client -> Caller]
    /\ \A c \in Client :
        /\ client[c].chunks \in Seq(Fitting)
        /\ client[c].pc # "idle" => client[c].chunks # <<>>

\* What a caller with the present clock would count is within the budget.
RowsOK ==
    /\ rows \in [0..(MaxAge - 1) -> Load]
    /\ Total(rows, "requests", WindowMs) <= MaxRequests
    /\ Total(rows, "sends", SendWindowMs) <= MaxSends

\* What has started is in the table, its stamp at most LockWait too old.
StartsOK ==
    /\ starts \in [0..(Longest - 1) -> Load]
    /\ \A key \in Key, n \in 0..Longest : n + LockWait <= Longest =>
            Total(starts, key, n) <= Total(rows, key, n + LockWait)

Inv == ClientOK /\ RowsOK /\ StartsOK

\* A reservation that does not wait keeps the budget, for every later clock.
LEMMA BudgetKept ==
    ASSUME NEW loads \in [0..(MaxAge - 1) -> Load], NEW key \in Key,
           NEW lag \in 0..LockWait, NEW window \in 1..Longest, NEW limit \in Nat,
           NEW cost \in Load, cost[key] <= limit,
           Total(loads, key, window) <= limit,
           WaitForBudget(loads, lag, window, limit, cost[key], key) = 0
    PROVE  Total(Inserted(loads, lag, cost), key, window) <= limit
<1>1. cost[key] \in 0..limit
  BY LoadFacts
<1>2. /\ lag \in 0..(MaxAge - 1) /\ MaxAge \in Nat \ {0} /\ window \in 0..MaxAge
      /\ lag + window \in window..MaxAge /\ lag + window \in 0..MaxAge
      /\ 0 \in 0..(lag + window) /\ lag + window - 0 = lag + window
  BY Bounds
<1>3. ExactFor(0, loads, lag, window, limit, cost[key], key)
  BY <1>1, WaitFacts
<1>4. cost[key] # 0 => Total(loads, key, lag + window) + cost[key] <= limit
  <2>1. cost[key] # 0 =>
            (Total(loads, key, lag + window - 0) + cost[key] <= limit <=> 0 <= 0)
    BY <1>2, <1>3 DEF ExactFor
  <2> QED
    BY <1>2, <2>1
<1>5. /\ Total(loads, key, window) <= Total(loads, key, lag + window)
      /\ Total(loads, key, window) \in Nat /\ Total(loads, key, lag + window) \in Nat
  BY <1>2, TotalMonotone, TotalType
<1>6. Total(Inserted(loads, lag, cost), key, window)
        = Total(loads, key, window) + IF lag < window THEN cost[key] ELSE 0
  BY <1>2, InsertedFacts DEF Adds
<1> QED
  BY <1>1, <1>4, <1>5, <1>6

LEMMA InitInv == Init => Inv
<1> SUFFICES ASSUME Init PROVE Inv
  OBVIOUS
<1>1. NoLoad \in Load /\ Idle \in Caller /\ Idle.pc = "idle" /\ Idle.chunks = <<>>
  BY DEF NoLoad, Load, Idle, Caller
<1>2. /\ rows = [a \in 0..(MaxAge - 1) |-> NoLoad] /\ rows \in [0..(MaxAge - 1) -> Load]
      /\ starts = [a \in 0..(Longest - 1) |-> NoLoad] /\ starts \in [0..(Longest - 1) -> Load]
  BY <1>1 DEF Init
<1>3. rows = Later(rows, MaxAge) /\ starts = Later(starts, Longest)
  <2>1. \A a \in 0..(MaxAge - 1) : ~(a >= MaxAge)
    BY Bounds
  <2>2. \A a \in 0..(Longest - 1) : ~(a >= Longest)
    BY Bounds
  <2> QED
    BY <1>2, <2>1, <2>2 DEF Later
<1>4. ASSUME NEW key \in Key
      PROVE  /\ \A n \in 0..MaxAge : Total(rows, key, n) = 0
             /\ \A n \in 0..Longest : Total(starts, key, n) = 0
  <2>1. ASSUME NEW n \in 0..MaxAge PROVE Total(Later(rows, MaxAge), key, n) = 0
    <3>1. n <= MaxAge /\ MaxAge \in Nat \ {0} /\ MaxAge \in Nat
      BY Bounds
    <3> QED
      BY <1>2, <3>1, LaterFacts
  <2>2. \A n \in 0..Longest : Total(Later(starts, Longest), key, n) = 0
    BY <1>2, Bounds, LaterFacts
  <2> QED
    BY <1>3, <2>1, <2>2
<1>5. RowsOK
  <2>1. /\ WindowMs \in 0..MaxAge /\ SendWindowMs \in 0..MaxAge
        /\ "requests" \in Key /\ "sends" \in Key
    BY Bounds DEF Key
  <2> QED
    BY <1>2, <1>4, <2>1, Bounds DEF RowsOK
<1>6. StartsOK
  <2>1. \A n \in 0..Longest : n + LockWait \in 0..MaxAge
    BY Bounds
  <2>2. ASSUME NEW key \in Key, NEW n \in 0..Longest, n + LockWait <= Longest
        PROVE  Total(starts, key, n) <= Total(rows, key, n + LockWait)
    <3>1. Total(starts, key, n) = 0 /\ Total(rows, key, n + LockWait) = 0
      BY <1>4, <2>1
    <3> QED
      BY <3>1
  <2> QED
    BY <1>2, <2>2 DEF StartsOK
<1>7. ClientOK
  <2>1. client \in [Client -> Caller] /\ \A c \in Client : client[c] = Idle
    BY <1>1 DEF Init
  <2>2. <<>> \in Seq(Fitting)
    OBVIOUS
  <2> QED
    BY <1>1, <2>1, <2>2 DEF ClientOK
<1> QED
  BY <1>5, <1>6, <1>7 DEF Inv

\* A step of one caller that leaves its chunks or ends its call.
LEMMA ClientStep ==
    ASSUME ClientOK, NEW c \in Client, NEW after \in Caller,
           client' = [client EXCEPT ![c] = after],
           after.chunks \in Seq(Fitting), after.pc # "idle" => after.chunks # <<>>
    PROVE  ClientOK'
BY DEF ClientOK

LEMMA TableUnchanged ==
    ASSUME RowsOK, StartsOK, UNCHANGED <<rows, starts>>
    PROVE  RowsOK' /\ StartsOK'
BY DEF RowsOK, StartsOK

\* Reserve() starts what it has room for, and only then.
LEMMA ReserveInv ==
    ASSUME Inv, NEW c \in Client, Reserve(c)
    PROVE  Inv'
<1> DEFINE cost == Head(client[c].chunks)
           lag == client[c].lag
           kept == Kept(rows, lag)
<1>1. /\ client[c] \in Caller /\ client[c].pc = "lock"
      /\ client[c].chunks \in Seq(Fitting) /\ client[c].chunks # <<>>
      /\ client \in [Client -> Caller]
  BY DEF Inv, ClientOK, Reserve
<1>2. cost \in Fitting /\ lag \in 0..LockWait
  BY <1>1 DEF Caller
<1>3. IF Wait(kept, lag, cost) = 0
      THEN /\ rows' = Inserted(kept, lag, cost)
           /\ starts' = [starts EXCEPT ![0] = Added(@, cost)]
           /\ client' = [client EXCEPT ![c].pc = "fetch", ![c].lag = 0]
      ELSE /\ rows' = kept
           /\ client' = [client EXCEPT ![c].pc = "gate", ![c].lag = 0]
           /\ UNCHANGED starts
  BY DEF Reserve
<1> HIDE DEF cost, lag
<1>4. /\ cost \in Load /\ cost.requests \in Nat \ {0} /\ cost.requests <= MaxRequests
      /\ cost.sends \in Nat /\ cost.sends <= MaxSends
      /\ cost["requests"] = cost.requests /\ cost["sends"] = cost.sends
  BY <1>2, FittingFacts, Bounds
<1>5. /\ rows \in [0..(MaxAge - 1) -> Load] /\ starts \in [0..(Longest - 1) -> Load]
      /\ "requests" \in Key /\ "sends" \in Key
  BY DEF Inv, RowsOK, StartsOK, Key
<1>6. /\ kept \in [0..(MaxAge - 1) -> Load]
      /\ \A key \in Key, n \in 0..Longest : Total(kept, key, n) = Total(rows, key, n)
  <2>1. MaxAge \in Nat \ {0} /\ \A n \in 0..Longest : n \in 0..MaxAge /\ n <= lag + Longest
    BY <1>2, Bounds
  <2> QED
    BY <1>2, <1>5, <2>1, KeptFacts
<1> HIDE DEF kept
<1>7. /\ Total(kept, "requests", WindowMs) <= MaxRequests
      /\ Total(kept, "sends", SendWindowMs) <= MaxSends
  <2>1. WindowMs \in 0..Longest /\ SendWindowMs \in 0..Longest
    BY Bounds
  <2> QED
    BY <1>5, <1>6, <2>1 DEF Inv, RowsOK
<1>8. ASSUME NEW key \in Key, NEW n \in 0..Longest, n + LockWait <= Longest
      PROVE  /\ Total(starts, key, n) <= Total(kept, key, n + LockWait)
             /\ n + LockWait \in 0..Longest /\ n + LockWait \in 0..MaxAge
  <2>1. n + LockWait \in 0..Longest /\ n + LockWait \in 0..MaxAge
    BY <1>8, Bounds
  <2>2. Total(starts, key, n) <= Total(rows, key, n + LockWait)
    BY <1>8 DEF Inv, StartsOK
  <2> QED
    BY <1>6, <2>1, <2>2
<1>9. CASE Wait(kept, lag, cost) = 0
  <2>1. /\ rows' = Inserted(kept, lag, cost)
        /\ starts' = [starts EXCEPT ![0] = Added(@, cost)]
        /\ client' = [client EXCEPT ![c].pc = "fetch", ![c].lag = 0]
    BY <1>3, <1>9
  <2>2. /\ WaitForBudget(kept, lag, WindowMs, MaxRequests, cost.requests, "requests") = 0
        /\ WaitForBudget(kept, lag, SendWindowMs, MaxSends, cost.sends, "sends") = 0
    <3>1. PICK r : r = WaitForBudget(kept, lag, WindowMs, MaxRequests, cost.requests, "requests")
      OBVIOUS
    <3>2. PICK s : s = WaitForBudget(kept, lag, SendWindowMs, MaxSends, cost.sends, "sends")
      OBVIOUS
    <3>3. r \in 0..(lag + WindowMs) /\ s \in 0..(lag + SendWindowMs)
      <4>1. cost.requests \in 0..MaxRequests /\ cost.sends \in 0..MaxSends
        BY <1>4, Bounds
      <4>2. ExactFor(r, kept, lag, WindowMs, MaxRequests, cost.requests, "requests")
        BY <1>2, <1>5, <1>6, <3>1, <4>1, Bounds, WaitFacts
      <4>3. ExactFor(s, kept, lag, SendWindowMs, MaxSends, cost.sends, "sends")
        BY <1>2, <1>5, <1>6, <3>2, <4>1, Bounds, WaitFacts
      <4> QED
        BY <4>2, <4>3 DEF ExactFor
    <3>4. (IF r > s THEN r ELSE s) = 0
      BY <1>9, <3>1, <3>2 DEF Wait
    <3>5. r \in Nat /\ s \in Nat
      BY <1>2, <3>3, Bounds
    <3> QED
      BY <3>1, <3>2, <3>4, <3>5
  <2>3. rows' \in [0..(MaxAge - 1) -> Load]
    <3>1. lag \in 0..(MaxAge - 1) /\ MaxAge \in Nat \ {0}
      BY <1>2, Bounds
    <3> QED
      BY <1>4, <1>6, <2>1, <3>1, InsertedFacts
  <2>4. Total(rows', "requests", WindowMs) <= MaxRequests
    BY <1>2, <1>4, <1>5, <1>6, <1>7, <2>1, <2>2, Bounds, BudgetKept
  <2>5. Total(rows', "sends", SendWindowMs) <= MaxSends
    BY <1>2, <1>4, <1>5, <1>6, <1>7, <2>1, <2>2, Bounds, BudgetKept
  <2>6. RowsOK'
    BY <2>3, <2>4, <2>5 DEF RowsOK
  <2>7. starts' = Inserted(starts, 0, cost)
    BY <2>1 DEF Inserted
  <2>8. starts' \in [0..(Longest - 1) -> Load]
    <3>1. 0 \in 0..(Longest - 1) /\ Longest \in Nat \ {0}
      BY Bounds
    <3> QED
      BY <1>4, <1>5, <2>7, <3>1, InsertedFacts
  <2>9. ASSUME NEW key \in Key, NEW n \in 0..Longest, n + LockWait <= Longest
        PROVE  Total(starts', key, n) <= Total(rows', key, n + LockWait)
    <3>1. /\ n + LockWait \in 0..Longest /\ n + LockWait \in 0..MaxAge
          /\ Total(starts, key, n) <= Total(kept, key, n + LockWait)
      BY <1>8, <2>9
    <3>2. 0 \in 0..(Longest - 1) /\ Longest \in Nat \ {0}
          /\ lag \in 0..(MaxAge - 1) /\ MaxAge \in Nat \ {0}
      BY <1>2, Bounds
    <3>3. Total(starts', key, n) = Total(starts, key, n) + IF 0 < n THEN cost[key] ELSE 0
      <4>1. Adds(starts', starts, 0, cost, Longest)
        BY <1>4, <1>5, <2>7, <3>2, InsertedFacts
      <4> QED
        BY <4>1 DEF Adds
    <3>4. Total(rows', key, n + LockWait) = Total(kept, key, n + LockWait)
                                              + IF lag < n + LockWait THEN cost[key] ELSE 0
      <4>1. Adds(rows', kept, lag, cost, MaxAge)
        BY <1>4, <1>6, <2>1, <3>2, InsertedFacts
      <4> QED
        BY <3>1, <4>1 DEF Adds
    <3>5. cost[key] \in Nat /\ Total(starts, key, n) \in Nat
          /\ Total(kept, key, n + LockWait) \in Nat
      BY <1>4, <1>5, <1>6, <3>1, <3>2, LoadFacts, TotalType
    <3>6. 0 < n => lag < n + LockWait
      BY <1>2, Bounds
    <3> QED
      BY <3>1, <3>3, <3>4, <3>5, <3>6
  <2>10. StartsOK'
    BY <2>8, <2>9 DEF StartsOK
  <2>11. ClientOK'
    <3>1. PICK after : after = [client[c] EXCEPT !.pc = "fetch", !.lag = 0]
      OBVIOUS
    <3>2. /\ after \in Caller /\ after.chunks = client[c].chunks
      <4>1. 0 \in 0..LockWait
        BY Bounds
      <4> QED
        BY <1>1, <3>1, <4>1 DEF Caller
    <3>3. client' = [client EXCEPT ![c] = after]
      BY <1>1, <2>1, <3>1
    <3> QED
      BY <1>1, <3>2, <3>3, ClientStep DEF Inv
  <2> QED
    BY <2>6, <2>10, <2>11 DEF Inv
<1>10. CASE Wait(kept, lag, cost) # 0
  <2>1. /\ rows' = kept /\ starts' = starts
        /\ client' = [client EXCEPT ![c].pc = "gate", ![c].lag = 0]
    BY <1>3, <1>10
  <2>2. RowsOK'
    BY <1>6, <1>7, <2>1 DEF RowsOK
  <2>3. StartsOK'
    BY <1>5, <1>8, <2>1 DEF StartsOK
  <2>4. ClientOK'
    <3>1. PICK after : after = [client[c] EXCEPT !.pc = "gate", !.lag = 0]
      OBVIOUS
    <3>2. /\ after \in Caller /\ after.chunks = client[c].chunks
      <4>1. 0 \in 0..LockWait
        BY Bounds
      <4> QED
        BY <1>1, <3>1, <4>1 DEF Caller
    <3>3. client' = [client EXCEPT ![c] = after]
      BY <1>1, <2>1, <3>1
    <3> QED
      BY <1>1, <3>2, <3>3, ClientStep DEF Inv
  <2> QED
    BY <2>2, <2>3, <2>4 DEF Inv
<1> QED
  BY <1>9, <1>10

\* Time passes for the table and for what has started alike.
LEMMA TickInv ==
    ASSUME Inv, Tick
    PROVE  Inv'
<1>1. /\ rows \in [0..(MaxAge - 1) -> Load] /\ starts \in [0..(Longest - 1) -> Load]
      /\ rows' = Later(rows, 1) /\ starts' = Later(starts, 1)
      /\ MaxAge \in Nat \ {0} /\ Longest \in Nat \ {0} /\ 1 \in Nat
  BY Bounds DEF Inv, RowsOK, StartsOK, Tick
<1>2. ASSUME NEW key \in Key
      PROVE  /\ \A n \in 0..MaxAge :
                    Total(rows', key, n) = IF n <= 1 THEN 0 ELSE Total(rows, key, n - 1)
             /\ \A n \in 0..Longest :
                    Total(starts', key, n) = IF n <= 1 THEN 0 ELSE Total(starts, key, n - 1)
  BY <1>1, LaterFacts
<1>3. rows' \in [0..(MaxAge - 1) -> Load] /\ starts' \in [0..(Longest - 1) -> Load]
  BY <1>1, LaterFacts
<1>4. ASSUME NEW key \in Key, NEW window \in 1..Longest, NEW limit \in Nat,
             Total(rows, key, window) <= limit
      PROVE  Total(rows', key, window) <= limit
  <2>1. /\ window \in 0..MaxAge /\ window - 1 \in 0..MaxAge /\ window \in (window - 1)..MaxAge
    BY Bounds
  <2>2. /\ Total(rows, key, window - 1) <= Total(rows, key, window)
        /\ Total(rows, key, window - 1) \in Nat /\ Total(rows, key, window) \in Nat
    BY <1>1, <2>1, TotalMonotone, TotalType
  <2>3. Total(rows', key, window)
          = IF window <= 1 THEN 0 ELSE Total(rows, key, window - 1)
    BY <1>2, <2>1
  <2> QED
    BY <1>4, <2>2, <2>3
<1>5. RowsOK'
  <2>1. "requests" \in Key /\ "sends" \in Key
    BY DEF Key
  <2>2. Total(rows, "requests", WindowMs) <= MaxRequests
        /\ Total(rows, "sends", SendWindowMs) <= MaxSends
    BY DEF Inv, RowsOK
  <2>3. Total(rows', "requests", WindowMs) <= MaxRequests
    BY <1>4, <2>1, <2>2, Bounds
  <2>4. Total(rows', "sends", SendWindowMs) <= MaxSends
    BY <1>4, <2>1, <2>2, Bounds
  <2> QED
    BY <1>3, <2>3, <2>4 DEF RowsOK
<1>6. ASSUME NEW key \in Key, NEW n \in 0..Longest, n + LockWait <= Longest
      PROVE  Total(starts', key, n) <= Total(rows', key, n + LockWait)
  <2>1. n + LockWait \in 0..MaxAge
    BY <1>6, Bounds
  <2>2. CASE n <= 1
    <3>1. Total(starts', key, n) = 0
      BY <1>2, <2>2
    <3>2. Total(rows', key, n + LockWait) \in Nat
      BY <1>1, <1>3, <2>1, TotalType
    <3> QED
      BY <3>1, <3>2
  <2>3. CASE ~(n <= 1)
    <3>1. /\ n - 1 \in 0..Longest /\ (n - 1) + LockWait <= Longest
          /\ ~(n + LockWait <= 1) /\ (n + LockWait) - 1 = (n - 1) + LockWait
      BY <1>6, <2>3, Bounds
    <3>2. Total(starts, key, n - 1) <= Total(rows, key, (n - 1) + LockWait)
      BY <3>1 DEF Inv, StartsOK
    <3>3. Total(starts', key, n) = Total(starts, key, n - 1)
      BY <1>2, <2>3
    <3>4. Total(rows', key, n + LockWait) = Total(rows, key, (n - 1) + LockWait)
      <4>1. Total(rows', key, n + LockWait) = Total(rows, key, (n + LockWait) - 1)
        BY <1>2, <2>1, <3>1
      <4> QED
        BY <3>1, <4>1
    <3> QED
      BY <3>2, <3>3, <3>4
  <2> QED
    BY <2>2, <2>3
<1>7. StartsOK'
  BY <1>3, <1>6 DEF StartsOK
<1>8. ClientOK'
  <2>1. client' = [c \in Client |-> IF client[c].pc = "lock"
                                    THEN [client[c] EXCEPT !.lag = @ + 1] ELSE client[c]]
    BY DEF Tick
  <2>2. ASSUME NEW c \in Client
        PROVE  /\ client'[c] \in Caller
               /\ client'[c].chunks = client[c].chunks /\ client'[c].pc = client[c].pc
    <3>1. client[c] \in Caller /\ (client[c].pc = "lock" => client[c].lag < LockWait)
      BY DEF Inv, ClientOK, Tick
    <3>2. client[c].pc = "lock" => client[c].lag + 1 \in 0..LockWait
      BY <3>1, Bounds DEF Caller
    <3> QED
      BY <2>1, <3>1, <3>2 DEF Caller
  <2>3. client' \in [Client -> Caller]
    BY <2>1, <2>2
  <2> QED
    BY <2>2, <2>3 DEF Inv, ClientOK
<1> QED
  BY <1>5, <1>7, <1>8 DEF Inv

\* The record a step leaves its caller with.
StepsTo(c, after) ==
    /\ client' = [client EXCEPT ![c] = after]
    /\ after \in Caller
    /\ after.chunks \in Seq(Fitting)
    /\ after.pc # "idle" => after.chunks # <<>>

\* The transport between two reservations.
LEMMA TransportInv ==
    ASSUME Inv, NEW c \in Client,
           \/ \E batch \in Batch : Fetch(c, batch)
           \/ ReadClock(c) \/ Busy(c) \/ Respond(c) \/ Retry(c) \/ GiveUp(c)
    PROVE  Inv'
<1>1. /\ client \in [Client -> Caller] /\ client[c] \in Caller
      /\ client[c].chunks \in Seq(Fitting)
      /\ client[c].pc # "idle" => client[c].chunks # <<>>
      /\ client[c].retries \in 0..Retries
  BY DEF Inv, ClientOK, Caller
<1>2. UNCHANGED <<rows, starts>>
  BY DEF Fetch, ReadClock, Busy, Respond, Retry, GiveUp
<1> SUFFICES \E after : StepsTo(c, after)
  <2>1. ASSUME NEW after, StepsTo(c, after) PROVE ClientOK'
    BY <2>1, ClientStep DEF StepsTo, Inv
  <2> QED
    BY <1>2, <2>1, TableUnchanged DEF Inv
<1>3. 0 \in 0..LockWait /\ 0 \in 0..Retries /\ <<>> \in Seq(Fitting)
  BY Bounds
<1>4. Idle \in Caller /\ Idle.pc = "idle" /\ Idle.chunks \in Seq(Fitting)
  BY <1>3, FittingFacts DEF Idle, Caller
<1>5. ASSUME NEW chunks \in Seq(Fitting), chunks # <<>>, NEW after,
             after = [Idle EXCEPT !.pc = "gate", !.chunks = chunks],
             client' = [client EXCEPT ![c] = after]
      PROVE  StepsTo(c, after)
  <2>1. chunks \in Seq(Cost)
    BY FittingFacts
  <2> QED
    BY <1>3, <1>5, <2>1 DEF Idle, Caller, StepsTo
<1>6. ASSUME NEW batch \in Batch, Fetch(c, batch) PROVE \E after : StepsTo(c, after)
  <2>1. Chunks(batch) \in Seq(Fitting) /\ Chunks(batch) # <<>>
    BY BatchAssumption, ChunksFacts
  <2> QED
    BY <1>5, <1>6, <2>1 DEF Fetch
<1>7. CASE ReadClock(c)
  <2>1. PICK after : after = [client[c] EXCEPT !.pc = "lock", !.lag = 0]
    OBVIOUS
  <2>2. client' = [client EXCEPT ![c] = after] /\ client[c].pc = "gate"
    BY <1>1, <1>7, <2>1 DEF ReadClock
  <2>3. after \in Caller /\ after.chunks = client[c].chunks
    BY <1>1, <1>3, <2>1 DEF Caller
  <2>4. StepsTo(c, after)
    BY <1>1, <2>2, <2>3 DEF StepsTo
  <2> QED
    BY <2>4
<1>8. CASE Busy(c) \/ GiveUp(c)
  <2>1. StepsTo(c, Idle)
    BY <1>4, <1>8 DEF Busy, GiveUp, StepsTo
  <2> QED
    BY <2>1
<1>9. CASE Respond(c)
  <2>1. client[c].pc = "fetch" /\ client[c].chunks # <<>>
    BY <1>1, <1>9 DEF Respond
  <2>2. CASE Len(client[c].chunks) = 1
    <3>1. StepsTo(c, Idle)
      BY <1>4, <1>9, <2>2 DEF Respond, StepsTo
    <3> QED
      BY <3>1
  <2>3. CASE Len(client[c].chunks) # 1
    <3>1. Tail(client[c].chunks) \in Seq(Fitting) /\ Tail(client[c].chunks) # <<>>
      <4>1. PICK q : q = client[c].chunks
        OBVIOUS
      <4>2. q \in Seq(Fitting) /\ q # <<>> /\ Len(q) # 1
        BY <1>1, <2>1, <2>3, <4>1
      <4>3. Tail(q) \in Seq(Fitting) /\ Len(Tail(q)) = Len(q) - 1 /\ Len(q) - 1 # 0
        BY <4>2
      <4>4. Tail(q) # <<>>
        BY <4>3
      <4> QED
        BY <4>1, <4>3, <4>4
    <3>2. client' = [client EXCEPT ![c] =
                        [Idle EXCEPT !.pc = "gate", !.chunks = Tail(client[c].chunks)]]
      BY <1>9, <2>3 DEF Respond
    <3> QED
      BY <1>5, <3>1, <3>2
  <2> QED
    BY <2>2, <2>3
<1>10. CASE Retry(c)
  <2>1. PICK after : after = [client[c] EXCEPT !.pc = "gate", !.retries = @ + 1]
    OBVIOUS
  <2>2. client' = [client EXCEPT ![c] = after] /\ client[c].pc = "fetch"
        /\ client[c].retries < Retries
    BY <1>1, <1>10, <2>1 DEF Retry, MayRetry
  <2>3. client[c].retries + 1 \in 0..Retries
    BY <1>1, <2>2
  <2>4. after \in Caller /\ after.chunks = client[c].chunks
    BY <1>1, <2>1, <2>3 DEF Caller
  <2>5. StepsTo(c, after)
    BY <1>1, <2>2, <2>4 DEF StepsTo
  <2> QED
    BY <2>5
<1> QED
  BY <1>6, <1>7, <1>8, <1>9, <1>10

LEMMA InductionStep == Inv /\ [Next]_vars => Inv'
<1> SUFFICES ASSUME Inv, [Next]_vars PROVE Inv'
  OBVIOUS
<1>1. CASE Next
  BY <1>1, ReserveInv, TransportInv, TickInv DEF Next
<1>2. CASE UNCHANGED vars
  BY <1>2 DEF vars, Inv, ClientOK, RowsOK, StartsOK
<1> QED
  BY <1>1, <1>2

-----------------------------------------------------------------------------
(* What a refused client was told *)

CostOf(c) == Head(client[c].chunks)

\* How far back a client that was told to wait will find room: as far as its
\* window when the sleep is over, and from then on as far as its lag adds.
Reach(c, key) ==
    IF client[c].pc = "lock" THEN client[c].lag + WindowOf(key)
    ELSE Left(WindowOf(key), told[c].sleep)

\* A client that was told nothing, or whose wait has been served.
Untold(c) == ~told[c].calm /\ told[c].sleep = 0

WaitServed(c) ==
    told[c].calm => /\ client[c].pc \in {"gate", "lock"}
                    /\ \A key \in Key : HasRoom(rows, CostOf(c), key, Reach(c, key))

\* Until the sleep has come down to the lag, the window itself has no room.
WaitNeeded(c) ==
    told[c].sleep > told[c].lag => \E key \in Key :
        /\ told[c].sleep <= told[c].lag + WindowOf(key)
        /\ ~HasRoom(rows, CostOf(c), key,
                    told[c].lag + WindowOf(key) - (told[c].sleep - 1))

Promise(c) ==
    /\ told[c].sleep > 0 => client[c].pc = "gate"
    /\ WaitServed(c)
    /\ WaitNeeded(c)

Promises == told \in [Client -> Told] /\ \A c \in Client : Promise(c)

LEMMA ToldFacts ==
    ASSUME NEW t \in Told
    PROVE  t.sleep \in Nat /\ t.lag \in Nat /\ t.lag <= LockWait /\ t.calm \in BOOLEAN
BY Bounds DEF Told

LEMMA CostFits ==
    ASSUME ClientOK, NEW c \in Client, client[c].pc # "idle"
    PROVE  CostOf(c) \in Fitting
BY DEF ClientOK, CostOf

LEMMA NotToldFacts == NotTold \in Told /\ ~NotTold.calm /\ NotTold.sleep = 0
BY Bounds DEF NotTold, Told

LEMMA InitPromises == Init => Promises
<1> SUFFICES ASSUME Init PROVE Promises
  OBVIOUS
<1>1. told \in [Client -> Told] /\ \A c \in Client : told[c] = NotTold
  BY NotToldFacts DEF Init
<1>2. ASSUME NEW c \in Client PROVE Promise(c)
  <2>1. ~told[c].calm /\ told[c].sleep = 0 /\ told[c].lag \in Nat
    BY <1>1, NotToldFacts, ToldFacts
  <2> QED
    BY <2>1 DEF Promise, WaitServed, WaitNeeded
<1> QED
  BY <1>1, <1>2 DEF Promises

\* Nothing is promised to a client that was told nothing.
LEMMA NothingPromised ==
    ASSUME NEW c \in Client, told'[c] \in Told, Untold(c)'
    PROVE  Promise(c)'
<1>1. ~told'[c].calm /\ told'[c].sleep = 0 /\ told'[c].lag \in Nat
  BY ToldFacts DEF Untold
<1> QED
  BY <1>1 DEF Promise, WaitServed, WaitNeeded

\* A step that leaves a client and its table alone keeps the promise to it.
LEMMA PromiseUnchanged ==
    ASSUME NEW c \in Client, Promise(c), rows' = rows,
           client'[c] = client[c], told'[c] = told[c]
    PROVE  Promise(c)'
BY DEF Promise, WaitServed, WaitNeeded, Reach, CostOf

LEMMA TransportPromises ==
    ASSUME Inv, Promises, NEW c \in Client,
           \/ \E batch \in Batch : Fetch(c, batch)
           \/ ReadClock(c) \/ Busy(c) \/ Respond(c) \/ Retry(c) \/ GiveUp(c)
    PROVE  Promises'
<1>1. /\ client \in [Client -> Caller] /\ told \in [Client -> Told] /\ rows' = rows
  BY DEF Inv, ClientOK, Promises, Fetch, ReadClock, Busy, Respond, Retry, GiveUp
<1>2. /\ \A d \in Client : d # c => client'[d] = client[d] /\ told'[d] = told[d]
      /\ told' \in [Client -> Told]
  BY <1>1, NotToldFacts DEF Fetch, ReadClock, Busy, Respond, Retry, GiveUp
<1>3. ASSUME NEW d \in Client, d # c PROVE Promise(d)'
  BY <1>1, <1>2, <1>3, PromiseUnchanged DEF Promises
<1>4. Promise(c)'
  <2>1. CASE ReadClock(c)
    <3>1. /\ told'[c] = told[c] /\ told[c].sleep = 0 /\ client[c].pc = "gate"
          /\ client'[c].pc = "lock" /\ client'[c].lag = 0
          /\ client'[c].chunks = client[c].chunks
          /\ told[c].lag \in Nat
      BY <1>1, <2>1, ToldFacts DEF ReadClock
    <3>2. \A key \in Key : Reach(c, key)' = Reach(c, key)
      <4>1. \A key \in Key : WindowOf(key)' = WindowOf(key) /\ WindowOf(key) \in Nat
        BY KeyFacts DEF WindowOf
      <4>2. client[c].pc # "lock"
        BY <3>1
      <4> QED
        BY <3>1, <4>1, <4>2 DEF Reach, Left
    <3>3. CostOf(c)' = CostOf(c)
      BY <3>1 DEF CostOf
    <3>4. WaitServed(c) => WaitServed(c)'
      BY <1>1, <3>1, <3>2, <3>3 DEF WaitServed, HasRoom, LimitOf
    <3>5. WaitNeeded(c)'
      BY <3>1 DEF WaitNeeded
    <3> QED
      BY <3>1, <3>4, <3>5 DEF Promise, Promises
  <2>2. CASE Busy(c)
    <3>1. told'[c] = NotTold
      BY <1>1, <2>2 DEF Busy
    <3> QED
      BY <1>2, <3>1, NotToldFacts, NothingPromised DEF Untold
  <2>3. CASE (\E batch \in Batch : Fetch(c, batch)) \/ Respond(c) \/ Retry(c) \/ GiveUp(c)
    <3>1. client[c].pc \in {"idle", "fetch"} /\ told'[c] = told[c]
      BY <2>3 DEF Fetch, Respond, Retry, GiveUp
    <3>2. ~told[c].calm /\ ~(told[c].sleep > 0) /\ told[c].sleep \in Nat
      BY <1>1, <3>1, ToldFacts DEF Promises, Promise, WaitServed
    <3>3. ~told'[c].calm /\ told'[c].sleep = 0
      BY <3>1, <3>2
    <3> QED
      BY <1>2, <3>3, NothingPromised DEF Untold
  <2> QED
    BY <2>1, <2>2, <2>3
<1> QED
  BY <1>2, <1>3, <1>4 DEF Promises

LEMMA ReservePromises ==
    ASSUME Inv, Promises, NEW c \in Client, Reserve(c)
    PROVE  Promises'
<1> DEFINE lag == client[c].lag
           kept == Kept(rows, lag)
           wait == Wait(kept, lag, CostOf(c))
<1>1. /\ client \in [Client -> Caller] /\ told \in [Client -> Told]
      /\ rows \in [0..(MaxAge - 1) -> Load]
      /\ client[c].pc = "lock" /\ lag \in 0..LockWait
      /\ CostOf(c) \in Fitting
  BY CostFits DEF Inv, ClientOK, RowsOK, Promises, Reserve, Caller
<1>2. IF wait = 0
      THEN /\ rows' = Inserted(kept, lag, CostOf(c))
           /\ client' = [client EXCEPT ![c].pc = "fetch", ![c].lag = 0]
           /\ told' = [d \in Client |-> IF d = c THEN NotTold
                                        ELSE [told[d] EXCEPT !.calm = FALSE]]
      ELSE /\ rows' = kept
           /\ client' = [client EXCEPT ![c].pc = "gate", ![c].lag = 0]
           /\ told' = [told EXCEPT ![c] = [sleep |-> wait, lag |-> lag, calm |-> TRUE]]
  BY DEF Reserve, CostOf
<1> HIDE DEF lag
<1>3. kept \in [0..(MaxAge - 1) -> Load]
  BY <1>1, Bounds, KeptFacts
<1> HIDE DEF kept, wait
<1>4. \A d \in Client : d # c => client'[d] = client[d] /\ CostOf(d)' = CostOf(d)
  BY <1>1, <1>2 DEF CostOf
<1>5. \A d \in Client : told[d].calm \/ told[d].sleep > 0 => client[d].pc # "idle"
  BY DEF Promises, Promise, WaitServed
<1>6. ASSUME NEW d \in Client, NEW key \in Key
      PROVE  Reach(d, key) \in 0..MaxAge
  <2>1. client[d].lag \in 0..LockWait /\ told[d].sleep \in Nat
    BY <1>1, ToldFacts DEF Caller
  <2> QED
    BY <2>1, KeyFacts, Bounds DEF Reach, Left
<1>7. ASSUME NEW d \in Client, told[d].sleep > told[d].lag, NEW key \in Key,
             told[d].sleep <= told[d].lag + WindowOf(key)
      PROVE  /\ told[d].lag + WindowOf(key) - (told[d].sleep - 1) \in 0..MaxAge
             /\ told[d].lag + WindowOf(key) - (told[d].sleep - 1) <= Longest
  <2>1. told[d].sleep \in Nat /\ told[d].lag \in Nat
    BY <1>1, ToldFacts
  <2> QED
    BY <1>7, <2>1, KeyFacts, Bounds
<1>8. CASE wait = 0
  <2>1. /\ rows' = Inserted(kept, lag, CostOf(c))
        /\ told'[c] = NotTold
        /\ \A d \in Client : d # c => told'[d] = [told[d] EXCEPT !.calm = FALSE]
        /\ told' = [d \in Client |-> IF d = c THEN NotTold
                                     ELSE [told[d] EXCEPT !.calm = FALSE]]
    BY <1>2, <1>8
  <2>2. told' \in [Client -> Told]
    <3>1. \A d \in Client : [told[d] EXCEPT !.calm = FALSE] \in Told
      BY <1>1 DEF Told
    <3> QED
      BY <2>1, <3>1, NotToldFacts
  <2>3. Promise(c)'
    BY <2>1, <2>2, NotToldFacts, NothingPromised DEF Untold
  <2>4. ASSUME NEW d \in Client, d # c PROVE Promise(d)'
    <3>1. /\ ~told'[d].calm /\ told'[d].sleep = told[d].sleep /\ told'[d].lag = told[d].lag
          /\ client'[d] = client[d]
      <4>1. told[d] \in Told
        BY <1>1
      <4>2. told'[d] = [told[d] EXCEPT !.calm = FALSE]
        BY <2>1, <2>4
      <4> QED
        BY <1>4, <2>4, <4>1, <4>2 DEF Told
    <3>2. ASSUME told[d].sleep > told[d].lag PROVE WaitNeeded(d)'
      <4>0. told[d].sleep > 0 /\ CostOf(d) \in Fitting /\ CostOf(d)' = CostOf(d)
        <5>1. told[d].sleep > 0
          BY <1>1, <3>2, ToldFacts
        <5> QED
          BY <1>4, <1>5, <2>4, <5>1, CostFits DEF Inv
      <4>1. PICK key \in Key :
              /\ told[d].sleep <= told[d].lag + WindowOf(key)
              /\ ~HasRoom(rows, CostOf(d), key,
                          told[d].lag + WindowOf(key) - (told[d].sleep - 1))
        BY <3>2 DEF Promises, Promise, WaitNeeded
      <4>2. PICK n : n = told[d].lag + WindowOf(key) - (told[d].sleep - 1)
        OBVIOUS
      <4>3. n \in 0..MaxAge /\ n <= Longest
        BY <1>7, <3>2, <4>1, <4>2
      <4>4. ~HasRoom(kept, CostOf(d), key, n)
        BY <1>1, <4>0, <4>1, <4>2, <4>3, RoomKept DEF kept
      <4>5. ~HasRoom(rows', CostOf(d), key, n)
        BY <1>1, <1>3, <2>1, <4>0, <4>3, <4>4, RoomInserted
      <4>6. WindowOf(key)' = WindowOf(key)
        BY DEF WindowOf
      <4>7. ~HasRoom(rows, CostOf(d), key, n)'
        BY <4>0, <4>2, <4>5 DEF HasRoom, LimitOf
      <4> QED
        BY <3>1, <4>0, <4>1, <4>2, <4>5, <4>6 DEF WaitNeeded, HasRoom, LimitOf
    <3>3. WaitNeeded(d)'
      BY <3>1, <3>2 DEF WaitNeeded
    <3> QED
      BY <3>1, <3>3 DEF Promise, Promises, WaitServed
  <2> QED
    BY <2>2, <2>3, <2>4 DEF Promises
<1>9. CASE wait # 0
  <2>1. /\ rows' = kept
        /\ client'[c].pc = "gate" /\ client'[c].chunks = client[c].chunks
        /\ told'[c] = [sleep |-> wait, lag |-> lag, calm |-> TRUE]
        /\ \A d \in Client : d # c => told'[d] = told[d]
    <3>1. /\ rows' = kept /\ client' = [client EXCEPT ![c].pc = "gate", ![c].lag = 0]
          /\ told' = [told EXCEPT ![c] = [sleep |-> wait, lag |-> lag, calm |-> TRUE]]
      BY <1>2, <1>9
    <3>2. client[c] \in Caller
      BY <1>1
    <3>3. client'[c].pc = "gate" /\ client'[c].chunks = client[c].chunks
      BY <1>1, <3>1, <3>2 DEF Caller
    <3> QED
      BY <1>1, <3>1, <3>3
  <2>2. /\ wait \in 0..MaxAge /\ wait \in Nat /\ wait > 0
        /\ \A key \in Key : HasRoom(kept, CostOf(c), key, Left(lag + WindowOf(key), wait))
        /\ \E key \in Key :
             /\ wait <= lag + WindowOf(key)
             /\ ~HasRoom(kept, CostOf(c), key, lag + WindowOf(key) - (wait - 1))
    <3>1. wait = Wait(kept, lag, CostOf(c))
      BY DEF wait
    <3>2. wait \in 0..MaxAge /\ wait \in Nat /\ wait # 0
      BY <1>1, <1>3, <1>9, <3>1, Bounds, WaitMeans
    <3> QED
      BY <1>1, <1>3, <3>1, <3>2, WaitMeans
  <2>3. told' \in [Client -> Told]
    <3>1. [sleep |-> wait, lag |-> lag, calm |-> TRUE] \in Told
      BY <1>1, <2>2 DEF Told
    <3>2. told' = [told EXCEPT ![c] = [sleep |-> wait, lag |-> lag, calm |-> TRUE]]
      BY <1>2, <1>9
    <3> QED
      BY <1>1, <3>1, <3>2
  <2>4. Promise(c)'
    <3>1. /\ told'[c].sleep = wait /\ told'[c].lag = lag /\ CostOf(c)' = CostOf(c)
          /\ \A key \in Key : WindowOf(key)' = WindowOf(key) /\ LimitOf(key)' = LimitOf(key)
      BY <2>1 DEF CostOf, WindowOf, LimitOf
    <3>2. ASSUME NEW key \in Key PROVE HasRoom(rows, CostOf(c), key, Reach(c, key))'
      <4>1. Reach(c, key)' = Left(WindowOf(key), wait)
        BY <2>1, <3>1 DEF Reach, Left
      <4>2. /\ Left(lag + WindowOf(key), wait) \in 0..MaxAge
            /\ Left(WindowOf(key), wait) \in 0..Left(lag + WindowOf(key), wait)
        <5>1. /\ lag + WindowOf(key) \in 0..MaxAge /\ WindowOf(key) \in Nat /\ lag \in Nat
              /\ WindowOf(key) <= lag + WindowOf(key) /\ MaxAge \in Nat
          BY <1>1, KeyFacts, Bounds
        <5> QED
          BY <2>2, <5>1 DEF Left
      <4>3. HasRoom(kept, CostOf(c), key, Left(WindowOf(key), wait))
        BY <1>1, <1>3, <2>2, <4>2, RoomShorter
      <4> QED
        BY <2>1, <3>1, <4>1, <4>3 DEF HasRoom
    <3>3. WaitServed(c)'
      BY <2>1, <3>2 DEF WaitServed
    <3>4. PICK key \in Key :
             /\ wait <= lag + WindowOf(key)
             /\ ~HasRoom(kept, CostOf(c), key, lag + WindowOf(key) - (wait - 1))
      BY <2>2
    <3>5. ~HasRoom(rows, CostOf(c), key,
                   told[c].lag + WindowOf(key) - (told[c].sleep - 1))'
      BY <2>1, <3>1, <3>4 DEF HasRoom
    <3>6. WaitNeeded(c)'
      BY <3>1, <3>4, <3>5 DEF WaitNeeded
    <3> QED
      BY <2>1, <3>3, <3>6 DEF Promise
  <2>5. ASSUME NEW d \in Client, d # c PROVE Promise(d)'
    <3>1. /\ told'[d] = told[d] /\ client'[d] = client[d] /\ CostOf(d)' = CostOf(d)
          /\ \A key \in Key : WindowOf(key)' = WindowOf(key) /\ LimitOf(key)' = LimitOf(key)
          /\ \A key \in Key : Reach(d, key)' = Reach(d, key)
      BY <1>4, <2>1, <2>5 DEF Reach, WindowOf, LimitOf, Left
    <3>2. WaitServed(d)'
      <4> SUFFICES ASSUME told[d].calm
                   PROVE  /\ client[d].pc \in {"gate", "lock"}
                          /\ \A key \in Key : HasRoom(kept, CostOf(d), key, Reach(d, key))
        BY <2>1, <3>1 DEF WaitServed, HasRoom
      <4>1. client[d].pc \in {"gate", "lock"} /\ CostOf(d) \in Fitting
        BY <1>5, CostFits DEF Inv, Promises, Promise, WaitServed
      <4>2. \A key \in Key : HasRoom(rows, CostOf(d), key, Reach(d, key))
        BY DEF Promises, Promise, WaitServed
      <4> QED
        BY <1>1, <1>6, <4>1, <4>2, RoomKept DEF kept
    <3>3. WaitNeeded(d)'
      <4> SUFFICES ASSUME told[d].sleep > told[d].lag
                   PROVE  \E key \in Key :
                            /\ told[d].sleep <= told[d].lag + WindowOf(key)
                            /\ ~HasRoom(kept, CostOf(d), key,
                                        told[d].lag + WindowOf(key) - (told[d].sleep - 1))
        BY <2>1, <3>1 DEF WaitNeeded, HasRoom
      <4>0. CostOf(d) \in Fitting
        <5>1. told[d].sleep > 0
          BY <1>1, ToldFacts
        <5> QED
          BY <1>5, <5>1, CostFits DEF Inv
      <4>1. PICK key \in Key :
              /\ told[d].sleep <= told[d].lag + WindowOf(key)
              /\ ~HasRoom(rows, CostOf(d), key,
                          told[d].lag + WindowOf(key) - (told[d].sleep - 1))
        BY DEF Promises, Promise, WaitNeeded
      <4>2. PICK n : n = told[d].lag + WindowOf(key) - (told[d].sleep - 1)
        OBVIOUS
      <4>3. n \in 0..MaxAge /\ n <= Longest
        BY <1>7, <4>1, <4>2
      <4>4. ~HasRoom(kept, CostOf(d), key, n)
        BY <1>1, <4>0, <4>1, <4>2, <4>3, RoomKept DEF kept
      <4> QED
        BY <4>1, <4>2, <4>4
    <3> QED
      BY <3>1, <3>2, <3>3 DEF Promise, Promises
  <2> QED
    BY <2>3, <2>4, <2>5 DEF Promises
<1> QED
  BY <1>8, <1>9

LEMMA TickPromises ==
    ASSUME Inv, Promises, Tick
    PROVE  Promises'
<1>1. /\ client \in [Client -> Caller] /\ told \in [Client -> Told]
      /\ rows \in [0..(MaxAge - 1) -> Load] /\ rows' = Later(rows, 1)
      /\ client' = [c \in Client |-> IF client[c].pc = "lock"
                                     THEN [client[c] EXCEPT !.lag = @ + 1] ELSE client[c]]
      /\ told' = [c \in Client |-> IF told[c].sleep > 0
                                   THEN [told[c] EXCEPT !.sleep = @ - 1] ELSE told[c]]
      /\ \A c \in Client : client[c].pc = "lock" => client[c].lag < LockWait
  BY DEF Inv, ClientOK, RowsOK, Promises, Tick
<1>2. ASSUME NEW c \in Client
      PROVE  /\ told[c] \in Told /\ told[c].sleep \in Nat /\ told[c].sleep <= MaxAge
             /\ told[c].lag \in Nat /\ told'[c] \in Told
             /\ told'[c].calm = told[c].calm /\ told'[c].lag = told[c].lag
             /\ told'[c].sleep = IF told[c].sleep > 0 THEN told[c].sleep - 1 ELSE 0
             /\ client'[c].pc = client[c].pc /\ client'[c].chunks = client[c].chunks
             /\ CostOf(c)' = CostOf(c)
             /\ client[c].lag \in Nat
             /\ client[c].pc = "lock" =>
                  client'[c].lag = client[c].lag + 1 /\ client[c].lag + 1 <= LockWait
  <2>1. told[c] \in Told /\ client[c] \in Caller /\ MaxAge \in Nat
    BY <1>1, Bounds
  <2>2. /\ told[c].sleep \in Nat /\ told[c].sleep <= MaxAge /\ told[c].lag \in Nat
        /\ client[c].lag \in Nat
    BY <2>1, Bounds DEF Told, Caller
  <2>3. told'[c] = IF told[c].sleep > 0 THEN [told[c] EXCEPT !.sleep = @ - 1] ELSE told[c]
    BY <1>1
  <2>4. /\ told'[c] \in Told
        /\ told'[c].calm = told[c].calm /\ told'[c].lag = told[c].lag
        /\ told'[c].sleep = IF told[c].sleep > 0 THEN told[c].sleep - 1 ELSE 0
    <3>1. told[c].sleep > 0 => told[c].sleep - 1 \in 0..MaxAge
      BY <2>1, <2>2
    <3> QED
      BY <2>1, <2>2, <2>3, <3>1 DEF Told
  <2>5. client'[c] = IF client[c].pc = "lock"
                     THEN [client[c] EXCEPT !.lag = @ + 1] ELSE client[c]
    BY <1>1
  <2>6. /\ client'[c].pc = client[c].pc /\ client'[c].chunks = client[c].chunks
        /\ client[c].pc = "lock" => client'[c].lag = client[c].lag + 1
    BY <2>1, <2>5 DEF Caller
  <2>7. client[c].pc = "lock" => client[c].lag + 1 <= LockWait
    BY <1>1, <2>2, Bounds
  <2> QED
    BY <2>1, <2>2, <2>4, <2>6, <2>7 DEF CostOf
<1>3. ASSUME NEW c \in Client PROVE WaitServed(c)'
  <2> SUFFICES ASSUME told[c].calm, NEW key \in Key
               PROVE  HasRoom(Later(rows, 1), CostOf(c), key, Reach(c, key)')
    <3>1. told[c].calm => client[c].pc \in {"gate", "lock"}
      BY DEF Promises, Promise, WaitServed
    <3> QED
      BY <1>1, <1>2, <3>1 DEF WaitServed, HasRoom, LimitOf
  <2>1. client[c].pc \in {"gate", "lock"} /\ HasRoom(rows, CostOf(c), key, Reach(c, key))
    BY DEF Promises, Promise, WaitServed
  <2>2. CostOf(c) \in Fitting
    BY <2>1, CostFits DEF Inv
  <2>3. told[c].sleep > 0 => client[c].pc = "gate"
    BY DEF Promises, Promise
  <2>4. /\ Reach(c, key) \in 0..MaxAge /\ Reach(c, key)' \in 0..MaxAge
        /\ Reach(c, key)' <= Reach(c, key) + 1
    <3>1. WindowOf(key) \in 1..Longest /\ WindowOf(key) \in Nat /\ WindowOf(key)' = WindowOf(key)
      BY KeyFacts DEF WindowOf
    <3>2. CASE client[c].pc = "lock"
      <4>1. Reach(c, key) = client[c].lag + WindowOf(key)
            /\ Reach(c, key)' = client[c].lag + 1 + WindowOf(key)
        BY <1>2, <3>1, <3>2 DEF Reach
      <4> QED
        BY <1>2, <3>1, <3>2, <4>1, Bounds
    <3>3. CASE client[c].pc # "lock"
      <4>1. Reach(c, key) = Left(WindowOf(key), told[c].sleep)
            /\ Reach(c, key)' = Left(WindowOf(key), told'[c].sleep)
        BY <1>2, <3>1, <3>3 DEF Reach, Left
      <4> QED
        BY <1>2, <3>1, <4>1, Bounds DEF Left
    <3> QED
      BY <3>2, <3>3
  <2> QED
    BY <1>1, <2>1, <2>2, <2>4, RoomLater
<1>4. ASSUME NEW c \in Client PROVE WaitNeeded(c)'
  <2> SUFFICES ASSUME told'[c].sleep > told[c].lag PROVE WaitNeeded(c)'
    BY <1>2 DEF WaitNeeded
  <2>1. /\ told[c].sleep > 0 /\ told[c].sleep > told[c].lag
        /\ told'[c].sleep = told[c].sleep - 1
    BY <1>2
  <2>2. CostOf(c) \in Fitting
    BY <2>1, CostFits DEF Inv, Promises, Promise
  <2>3. PICK key \in Key :
           /\ told[c].sleep <= told[c].lag + WindowOf(key)
           /\ ~HasRoom(rows, CostOf(c), key,
                       told[c].lag + WindowOf(key) - (told[c].sleep - 1))
    BY <2>1 DEF Promises, Promise, WaitNeeded
  <2>4. PICK n : n = told[c].lag + WindowOf(key) - (told[c].sleep - 1)
    OBVIOUS
  <2>5. WindowOf(key) \in 1..Longest /\ WindowOf(key) \in Nat /\ WindowOf(key)' = WindowOf(key)
    BY KeyFacts DEF WindowOf
  <2>6. /\ n \in 0..MaxAge /\ n # 0 /\ n + 1 \in 0..MaxAge
        /\ n + 1 = told'[c].lag + WindowOf(key)' - (told'[c].sleep - 1)
        /\ told'[c].sleep <= told'[c].lag + WindowOf(key)'
    BY <1>2, <2>1, <2>3, <2>4, <2>5, Bounds
  <2>7. ~HasRoom(Later(rows, 1), CostOf(c), key, n + 1)
    BY <1>1, <2>2, <2>3, <2>4, <2>6, RoomLater
  <2>8. ~HasRoom(rows, CostOf(c), key,
                 told[c].lag + WindowOf(key) - (told[c].sleep - 1))'
    BY <1>1, <1>2, <2>6, <2>7 DEF HasRoom, LimitOf
  <2> QED
    BY <2>6, <2>8 DEF WaitNeeded
<1>5. ASSUME NEW c \in Client, told'[c].sleep > 0 PROVE client'[c].pc = "gate"
  <2>1. told[c].sleep > 0
    BY <1>2, <1>5
  <2> QED
    BY <1>2, <2>1 DEF Promises, Promise
<1>6. told' \in [Client -> Told]
  BY <1>1, <1>2
<1> QED
  BY <1>3, <1>4, <1>5, <1>6 DEF Promises, Promise

LEMMA PromisesStep == Inv /\ Promises /\ [Next]_vars => Promises'
<1> SUFFICES ASSUME Inv, Promises, [Next]_vars PROVE Promises'
  OBVIOUS
<1>1. CASE Next
  BY <1>1, ReservePromises, TransportPromises, TickPromises DEF Next
<1>2. CASE UNCHANGED vars
  <2>1. \A c \in Client : Promise(c)'
    BY <1>2, PromiseUnchanged DEF vars, Promises
  <2> QED
    BY <1>2, <2>1 DEF vars, Promises
<1> QED
  BY <1>1, <1>2

-----------------------------------------------------------------------------
(* Theorems *)

\* The table, the callers and the history of starts keep their types.
THEOREM TypeCorrect == Spec => []TypeOK
<1>1. Inv /\ Promises => TypeOK
  BY DEF Inv, ClientOK, RowsOK, StartsOK, Promises, TypeOK
<1> QED
  BY <1>1, InitInv, InductionStep, InitPromises, PromisesStep, PTL DEF Spec

\* No interval as long as a window less the wait for the lock sees more
\* starts than the budget, whoever reserves, retries or gives up.
THEOREM BudgetsHold == Spec => []BudgetPerWindow
<1>1. Inv => BudgetPerWindow
  <2> SUFFICES ASSUME Inv PROVE BudgetPerWindow
    OBVIOUS
  <2>1. ASSUME NEW key \in Key, NEW window \in 1..Longest, NEW limit \in Nat,
               Total(rows, key, window) <= limit, NEW n \in 1..(window - LockWait)
        PROVE  Total(starts, key, n) <= limit
    <3>1. /\ n \in 0..Longest /\ n + LockWait <= Longest
          /\ n + LockWait \in 0..MaxAge /\ window \in (n + LockWait)..MaxAge
          /\ window \in 0..MaxAge
      BY Bounds
    <3>2. /\ rows \in [0..(MaxAge - 1) -> Load] /\ starts \in [0..(Longest - 1) -> Load]
          /\ MaxAge \in Nat \ {0} /\ Longest \in Nat \ {0}
      BY Bounds DEF Inv, RowsOK, StartsOK
    <3>3. Total(starts, key, n) <= Total(rows, key, n + LockWait)
      BY <3>1 DEF Inv, StartsOK
    <3>4. Total(rows, key, n + LockWait) <= Total(rows, key, window)
      BY <3>1, <3>2, TotalMonotone
    <3>5. /\ Total(starts, key, n) \in Nat /\ Total(rows, key, n + LockWait) \in Nat
          /\ Total(rows, key, window) \in Nat
      BY <3>1, <3>2, TotalType
    <3> QED
      BY <2>1, <3>3, <3>4, <3>5
  <2>2. "requests" \in Key /\ "sends" \in Key
    BY DEF Key
  <2>3. Total(rows, "requests", WindowMs) <= MaxRequests
        /\ Total(rows, "sends", SendWindowMs) <= MaxSends
    BY DEF Inv, RowsOK
  <2>4. \A n \in 1..(WindowMs - LockWait) : Total(starts, "requests", n) <= MaxRequests
    BY <2>1, <2>2, <2>3, Bounds
  <2>5. \A n \in 1..(SendWindowMs - LockWait) : Total(starts, "sends", n) <= MaxSends
    BY <2>1, <2>2, <2>3, Bounds
  <2> QED
    BY <2>4, <2>5 DEF BudgetPerWindow
<1> QED
  BY <1>1, InitInv, InductionStep, PTL DEF Spec

\* A client that sleeps what reserve() told it, undisturbed, is let go however
\* long it then waits for the lock, and while more of its sleep is left than
\* that reserve() was late, no earlier call could have been let go.
THEOREM WaitsAreRight == Spec => []WaitIsRight
<1>1. ASSUME Inv, Promises, NEW c \in Client, told[c].calm, client[c].pc = "lock"
      PROVE  Wait(Kept(rows, client[c].lag), client[c].lag, CostOf(c)) = 0
  <2>1. /\ CostOf(c) \in Fitting /\ client[c].lag \in 0..LockWait
        /\ rows \in [0..(MaxAge - 1) -> Load]
    BY <1>1, CostFits DEF Inv, ClientOK, Caller, RowsOK
  <2>2. ASSUME NEW key \in Key
        PROVE  HasRoom(Kept(rows, client[c].lag), CostOf(c), key,
                       client[c].lag + WindowOf(key))
    <3>1. HasRoom(rows, CostOf(c), key, client[c].lag + WindowOf(key))
      BY <1>1 DEF Promises, Promise, WaitServed, Reach
    <3>2. client[c].lag + WindowOf(key) \in 0..MaxAge
      BY <2>1, KeyFacts, Bounds
    <3> QED
      BY <2>1, <3>1, <3>2, RoomKept
  <2>3. Kept(rows, client[c].lag) \in [0..(MaxAge - 1) -> Load]
    BY <2>1, Bounds, KeptFacts
  <2> QED
    BY <2>1, <2>2, <2>3, NoWait
<1>2. ASSUME Inv, Promises, NEW c \in Client, told[c].sleep > told[c].lag
      PROVE  Wait(rows, 0, CostOf(c)) > 0
  <2>1. told[c].sleep \in Nat /\ told[c].lag \in Nat /\ told[c].sleep > 0
    BY <1>2, ToldFacts DEF Promises
  <2>2. /\ CostOf(c) \in Fitting /\ rows \in [0..(MaxAge - 1) -> Load]
        /\ 0 \in 0..LockWait
    BY <1>2, <2>1, CostFits, Bounds DEF Inv, RowsOK, Promises, Promise
  <2>3. PICK key \in Key :
           /\ told[c].sleep <= told[c].lag + WindowOf(key)
           /\ ~HasRoom(rows, CostOf(c), key,
                       told[c].lag + WindowOf(key) - (told[c].sleep - 1))
    BY <1>2 DEF Promises, Promise, WaitNeeded
  <2>4. /\ told[c].lag + WindowOf(key) - (told[c].sleep - 1) \in 0..WindowOf(key)
        /\ WindowOf(key) \in 0..MaxAge /\ 0 + WindowOf(key) = WindowOf(key)
    BY <1>2, <2>1, <2>3, KeyFacts, Bounds
  <2>5. ~HasRoom(rows, CostOf(c), key, 0 + WindowOf(key))
    BY <2>2, <2>3, <2>4, RoomShorter
  <2>6. Wait(rows, 0, CostOf(c)) # 0
    BY <2>2, <2>5, NoWait
  <2>7. Wait(rows, 0, CostOf(c)) \in Nat
    BY <2>2, Bounds, WaitMeans
  <2> QED
    BY <2>6, <2>7
<1>3. Inv /\ Promises => WaitIsRight
  BY <1>1, <1>2 DEF WaitIsRight, CostOf
<1> QED
  BY <1>3, InitInv, InductionStep, InitPromises, PromisesStep, PTL DEF Spec

\* Every chunk of every batch can be reserved.
THEOREM ChunksAlwaysFit == Spec => []ChunksFit
<1>1. Inv => ChunksFit
  <2> SUFFICES ASSUME Inv, NEW c \in Client, NEW i \in DOMAIN client[c].chunks
               PROVE  /\ client[c].chunks[i].requests <= MaxRequests
                      /\ client[c].chunks[i].sends <= MaxSends
    BY DEF ChunksFit
  <2>1. client[c].chunks[i] \in Fitting
    BY DEF Inv, ClientOK
  <2> QED
    BY <2>1, FittingFacts
<1> QED
  BY <1>1, InitInv, InductionStep, PTL DEF Spec
==============================================================================
