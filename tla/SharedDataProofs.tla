------------------------- MODULE SharedDataProofs -------------------------
(***************************************************************************)
(* Proofs about SharedData: no accepted change is lost and every step      *)
(* implements ObservedValues, for any number of types, threads and changes *)
(* and for every period and wrap of the tick counter; and no consumer is   *)
(* called twice within its period while no counter wraps in mid-period.    *)
(***************************************************************************)
EXTENDS SharedData, Integers, TLAPS

\* What a collected pair and a raised flag say about the last callback.
Waiting ==
    /\ \A th \in Threads : \A p \in pairs[th] :
          /\ Consumer[p.type] = th
          /\ seen[p.type] < p.version
          /\ p.version <= version[p.type]
          /\ isChanged[p.type] => p.version < version[p.type]
    /\ \A t \in Types : isChanged[t] => seen[t] < version[t]

\* A thread holds at most one pair of a type.
OnePair ==
    \A th \in Threads : \A p, q \in pairs[th] : p.type = q.type => p = q

IInv == TypeOK /\ Waiting /\ OnePair /\ NoLostChange

\* The types whose flag CheckAll clears.
Collected(th, g) == {t \in Polls(th, g) : Collects(t)}

-----------------------------------------------------------------------------
\* The next tick is a number: the counter wraps, and Wrap is not 0.
LEMMA TickIsNat ==
    ASSUME TypeOK, NEW t \in Types
    PROVE  NextTick(t) \in Nat
BY BoundsAssumption DEF TypeOK, NextTick

\* A pair in a thread's hand is a record of a type and a version.
LEMMA PairFields ==
    ASSUME TypeOK, NEW th \in Threads, NEW p \in pairs[th]
    PROVE  /\ p.type \in Types
           /\ p.version \in Nat
           /\ p = [type |-> p.type, version |-> p.version]
<1>1. pairs[th] \subseteq Pair
  BY DEF TypeOK
<1>2. p \in Pair
  BY <1>1
<1> QED
  BY <1>2 DEF Pair

\* The states the threads start from satisfy the invariant.
LEMMA Start == Init => IInv
<1> SUFFICES ASSUME Init PROVE IInv
  OBVIOUS
<1>1. TypeOK
  BY MapsAssumption DEF Init, TypeOK
<1>2. Waiting /\ OnePair /\ NoLostChange
  BY DEF Init, Waiting, OnePair, NoLostChange
<1> QED
  BY <1>1, <1>2 DEF IInv

-----------------------------------------------------------------------------
\* CheckAll keeps every variable within its type.
LEMMA CheckAllTyped ==
    ASSUME TypeOK, NEW th \in Threads, NEW g \in Groups, CheckAll(th, g)
    PROVE  TypeOK'
<1>1. \A t \in Types : NextTick(t) \in Nat
  BY TickIsNat
<1>2. ticks' \in [Types -> Nat]
  BY <1>1 DEF CheckAll, TypeOK
<1>3. {[type |-> t, version |-> version[t]] : t \in Collected(th, g)} \subseteq Pair
  BY DEF TypeOK, Pair, Collected, Polls
<1>4. pairs' \in [Threads -> SUBSET Pair]
  BY <1>3 DEF CheckAll, TypeOK, Collected
<1>5. isChanged' \in [Types -> BOOLEAN]
  BY DEF CheckAll
<1>6. gap' \in [Types -> Nat]
  BY DEF CheckAll, TypeOK
<1>7. todo' \in [Threads -> SUBSET Groups]
  BY DEF CheckAll, TypeOK
<1> QED
  BY <1>2, <1>4, <1>5, <1>6, <1>7 DEF CheckAll, TypeOK

\* Every step keeps every variable within its type.
LEMMA Typed ==
    ASSUME TypeOK, [Next]_vars
    PROVE  TypeOK'
<1>1. ASSUME NEW t \in Types, SetData(t) PROVE TypeOK'
  <2>1. version' \in [Types -> Nat] /\ isChanged' \in [Types -> BOOLEAN]
    BY <1>1 DEF SetData, TypeOK
  <2> QED
    BY <2>1, <1>1 DEF SetData, TypeOK, pollVars
<1>2. ASSUME NEW t \in Types, AppendNotify(t) PROVE TypeOK'
  BY <1>2 DEF AppendNotify, TypeOK, dataVars, pollVars
<1>3. ASSUME NEW th \in Threads, EnterLoop(th) PROVE TypeOK'
  BY <1>3 DEF EnterLoop, TypeOK, dataVars, pollVars
<1>4. ASSUME NEW th \in Threads, CheckTick(th) PROVE TypeOK'
  BY <1>4 DEF CheckTick, TypeOK, dataVars, pollVars
<1>5. ASSUME NEW th \in Threads, NEW g \in Groups, CheckAll(th, g) PROVE TypeOK'
  BY <1>5, CheckAllTyped
<1>6. ASSUME NEW th \in Threads, NEW p \in pairs[th], CallBack(th, p) PROVE TypeOK'
  <2>1. p.type \in Types /\ p.version \in Nat
    BY PairFields
  <2> QED
    BY <2>1, <1>6 DEF CallBack, TypeOK, dataVars, pollVars
<1>7. CASE UNCHANGED vars
  BY <1>7 DEF vars, dataVars, pollVars, TypeOK
<1> QED
  BY <1>1, <1>2, <1>3, <1>4, <1>5, <1>6, <1>7 DEF Next, Poll

-----------------------------------------------------------------------------
\* A change that is accepted raises the flag above whatever is being delivered.
LEMMA SetDataKeeps ==
    ASSUME IInv, NEW t \in Types, SetData(t)
    PROVE  Waiting' /\ OnePair' /\ NoLostChange'
<1> USE DEF IInv
<1>1. /\ version' = [version EXCEPT ![t] = @ + 1]
      /\ isChanged' = [isChanged EXCEPT ![t] = TRUE]
      /\ pairs' = pairs /\ seen' = seen
  BY DEF SetData
<1>2. \A u \in Types : version[u] \in Nat /\ seen[u] \in Nat
  BY DEF TypeOK
<1>3. \A u \in Types : version'[u] = IF u = t THEN version[u] + 1 ELSE version[u]
  BY <1>1 DEF TypeOK
<1>4. /\ isChanged'[t]
      /\ \A u \in Types : u # t => isChanged'[u] = isChanged[u]
  BY <1>1, Zenon DEF TypeOK
<1>5. seen[t] <= version[t]
  <2>1. CASE isChanged[t] \/ seen[t] = version[t]
    BY <1>2, <2>1 DEF Waiting
  <2>2. CASE [type |-> t, version |-> version[t]] \in pairs[Consumer[t]]
    <3>1. Consumer[t] \in Threads
      BY MapsAssumption
    <3> DEFINE p == [type |-> t, version |-> version[t]]
    <3>2. p \in pairs[Consumer[t]] /\ p.type = t /\ p.version = version[t]
      BY <2>2
    <3>3. seen[p.type] < p.version
      BY <3>1, <3>2 DEF Waiting
    <3> QED
      BY <1>2, <3>2, <3>3
  <2> QED
    BY <2>1, <2>2 DEF NoLostChange
<1>6. Waiting'
  <2>1. ASSUME NEW th \in Threads, NEW p \in pairs[th]
        PROVE  /\ Consumer[p.type] = th
               /\ seen[p.type] < p.version
               /\ p.version <= version'[p.type]
               /\ isChanged'[p.type] => p.version < version'[p.type]
    <3>1. p.type \in Types /\ p.version \in Nat
      BY PairFields
    <3>2. Consumer[p.type] = th /\ seen[p.type] < p.version
      BY DEF Waiting
    <3>3. /\ p.version <= version[p.type]
          /\ isChanged[p.type] => p.version < version[p.type]
      BY DEF Waiting
    <3>4. CASE p.type = t
      BY <1>2, <1>3, <3>1, <3>2, <3>3, <3>4
    <3>5. CASE p.type # t
      BY <1>3, <1>4, <3>1, <3>2, <3>3, <3>5
    <3> QED
      BY <3>4, <3>5
  <2>2. \A u \in Types : isChanged'[u] => seen[u] < version'[u]
    BY <1>2, <1>3, <1>4, <1>5 DEF Waiting
  <2> QED
    BY <2>1, <2>2, <1>1 DEF Waiting
<1>7. OnePair'
  BY <1>1 DEF OnePair
<1>8. NoLostChange'
  BY <1>1, <1>3, <1>4 DEF NoLostChange
<1> QED
  BY <1>6, <1>7, <1>8

\* What is collected under the mutex leaves the flag and becomes a pair with
\* the version that the flag stood for.
LEMMA CheckAllKeeps ==
    ASSUME IInv, NEW th \in Threads, NEW g \in Groups, CheckAll(th, g)
    PROVE  Waiting' /\ OnePair' /\ NoLostChange'
<1> USE DEF IInv
<1> DEFINE C == Collected(th, g)
           new == {[type |-> t, version |-> version[t]] : t \in C}
<1>1. /\ pairs[th] = {}
      /\ pairs' = [pairs EXCEPT ![th] = new]
      /\ isChanged' = [t \in Types |-> isChanged[t] /\ t \notin C]
      /\ version' = version /\ seen' = seen
  BY DEF CheckAll, Collected
<1>2. \A t \in C : t \in Types /\ Consumer[t] = th /\ isChanged[t]
  BY DEF Collected, Polls, Collects
<1>3. pairs'[th] = new
  BY <1>1 DEF TypeOK
<1>4. \A o \in Threads : o # th => pairs'[o] = pairs[o]
  BY <1>1 DEF TypeOK
<1>5. ASSUME NEW t \in Types PROVE isChanged'[t] = (isChanged[t] /\ t \notin C)
  BY <1>1
<1> HIDE DEF C
<1>6. ASSUME NEW p \in new
      PROVE  p.type \in C /\ p.version = version[p.type]
  BY <1>6
<1>7. Waiting'
  <2>1. ASSUME NEW p \in new
        PROVE  /\ Consumer[p.type] = th
               /\ seen[p.type] < p.version
               /\ p.version <= version[p.type]
               /\ isChanged'[p.type] => p.version < version[p.type]
    <3>1. p.type \in C /\ p.version = version[p.type]
      BY <1>6, <2>1
    <3>2. version[p.type] \in Nat /\ seen[p.type] \in Nat
      BY <3>1, <1>2 DEF TypeOK
    <3>3. seen[p.type] < version[p.type]
      BY <3>1, <1>2 DEF Waiting
    <3>4. ~isChanged'[p.type]
      BY <3>1, <1>2, <1>5
    <3> QED
      BY <3>1, <3>2, <3>3, <3>4, <1>2
  <2>2. ASSUME NEW o \in Threads, o # th, NEW p \in pairs'[o]
        PROVE  /\ Consumer[p.type] = o
               /\ seen[p.type] < p.version
               /\ p.version <= version[p.type]
               /\ isChanged'[p.type] => p.version < version[p.type]
    <3>1. p \in pairs[o]
      BY <2>2, <1>4
    <3>2. p.type \in Types
      BY <3>1, PairFields
    <3> QED
      BY <3>1, <3>2, <1>5 DEF Waiting
  <2>3. ASSUME NEW t \in Types, isChanged'[t] PROVE seen[t] < version[t]
    BY <2>3, <1>5 DEF Waiting
  <2> QED
    BY <2>1, <2>2, <2>3, <1>1, <1>3 DEF Waiting
<1>8. OnePair'
  <2>1. ASSUME NEW p \in new, NEW q \in new, p.type = q.type PROVE p = q
    BY <2>1
  <2> QED
    BY <2>1, <1>3, <1>4 DEF OnePair
<1>9. NoLostChange'
  <2> SUFFICES ASSUME NEW t \in Types
               PROVE  \/ isChanged'[t]
                      \/ seen[t] = version[t]
                      \/ [type |-> t, version |-> version[t]] \in pairs'[Consumer[t]]
    BY <1>1 DEF NoLostChange
  <2>1. CASE t \in C
    <3>1. [type |-> t, version |-> version[t]] \in new
      BY <2>1
    <3> QED
      BY <3>1, <2>1, <1>2, <1>3
  <2>2. CASE t \notin C /\ isChanged[t]
    BY <2>2, <1>5
  <2>3. CASE t \notin C /\ ~isChanged[t]
    <3>1. Consumer[t] \in Threads
      BY MapsAssumption
    <3> QED
      BY <2>3, <3>1, <1>1, <1>4 DEF NoLostChange
  <2> QED
    BY <2>1, <2>2, <2>3
<1> QED
  BY <1>7, <1>8, <1>9

\* A callback brings its type up to the version in the pair.
LEMMA CallBackKeeps ==
    ASSUME IInv, NEW th \in Threads, NEW p \in pairs[th], CallBack(th, p)
    PROVE  Waiting' /\ OnePair' /\ NoLostChange'
<1> USE DEF IInv
<1>1. /\ pairs' = [pairs EXCEPT ![th] = @ \ {p}]
      /\ seen' = [seen EXCEPT ![p.type] = p.version]
      /\ version' = version /\ isChanged' = isChanged
  BY DEF CallBack, dataVars
<1>2. p.type \in Types /\ p.version \in Nat /\ Consumer[p.type] = th
  BY PairFields DEF Waiting
<1>3. /\ pairs'[th] = pairs[th] \ {p}
      /\ \A o \in Threads : o # th => pairs'[o] = pairs[o]
  BY <1>1 DEF TypeOK
<1>4. \A t \in Types : seen'[t] = IF t = p.type THEN p.version ELSE seen[t]
  BY <1>1 DEF TypeOK
<1>5. ASSUME NEW o \in Threads, NEW q \in pairs'[o]
      PROVE  q \in pairs[o] /\ q.type \in Types /\ q.type # p.type
  <2>1. q \in pairs[o]
    BY <1>5, <1>3
  <2>2. q.type \in Types /\ Consumer[q.type] = o
    BY <2>1, PairFields DEF Waiting
  <2>3. CASE o = th
    BY <2>1, <2>2, <2>3, <1>3, <1>5 DEF OnePair
  <2>4. CASE o # th
    BY <2>1, <2>2, <2>4, <1>2
  <2> QED
    BY <2>3, <2>4
<1>6. Waiting'
  <2>1. ASSUME NEW o \in Threads, NEW q \in pairs'[o]
        PROVE  /\ Consumer[q.type] = o
               /\ seen'[q.type] < q.version
               /\ q.version <= version[q.type]
               /\ isChanged[q.type] => q.version < version[q.type]
    BY <1>4, <1>5 DEF Waiting
  <2>2. ASSUME NEW t \in Types, isChanged[t] PROVE seen'[t] < version[t]
    BY <2>2, <1>4 DEF Waiting
  <2> QED
    BY <2>1, <2>2, <1>1 DEF Waiting
<1>7. OnePair'
  BY <1>5 DEF OnePair
<1>8. NoLostChange'
  <2> SUFFICES ASSUME NEW t \in Types
               PROVE  \/ isChanged[t]
                      \/ seen'[t] = version[t]
                      \/ [type |-> t, version |-> version[t]] \in pairs'[Consumer[t]]
    BY <1>1 DEF NoLostChange
  <2>1. CASE t # p.type
    <3>1. [type |-> t, version |-> version[t]] # p
      BY <2>1
    <3>2. Consumer[t] \in Threads
      BY MapsAssumption
    <3> QED
      BY <2>1, <3>1, <3>2, <1>3, <1>4 DEF NoLostChange
  <2>2. CASE t = p.type
    <3>1. version[t] \in Nat /\ seen[t] \in Nat
      BY DEF TypeOK
    <3>2. seen[t] # version[t]
      BY <2>2, <3>1, <1>2 DEF Waiting
    <3>3. CASE [type |-> t, version |-> version[t]] \in pairs[th]
      <4>1. [type |-> t, version |-> version[t]] = p
        BY <2>2, <3>3 DEF OnePair
      <4>2. p.version = version[t]
        BY <4>1
      <4> QED
        BY <2>2, <4>2, <1>4
    <3> QED
      BY <2>2, <3>2, <3>3, <1>2 DEF NoLostChange
  <2> QED
    BY <2>1, <2>2
<1> QED
  BY <1>6, <1>7, <1>8

\* The invariant is inductive.
LEMMA Step ==
    ASSUME IInv, [Next]_vars
    PROVE  IInv'
<1>1. TypeOK'
  BY Typed DEF IInv
<1>2. ASSUME UNCHANGED <<version, isChanged, pairs, seen>>
      PROVE  Waiting' /\ OnePair' /\ NoLostChange'
  BY <1>2 DEF IInv, Waiting, OnePair, NoLostChange
<1>3. ASSUME NEW t \in Types, SetData(t) PROVE IInv'
  BY <1>1, <1>3, SetDataKeeps DEF IInv
<1>4. ASSUME NEW t \in Types, AppendNotify(t) PROVE IInv'
  BY <1>1, <1>2, <1>4 DEF AppendNotify, dataVars, IInv
<1>5. ASSUME NEW th \in Threads, EnterLoop(th) PROVE IInv'
  BY <1>1, <1>2, <1>5 DEF EnterLoop, dataVars, IInv
<1>6. ASSUME NEW th \in Threads, CheckTick(th) PROVE IInv'
  BY <1>1, <1>2, <1>6 DEF CheckTick, dataVars, IInv
<1>7. ASSUME NEW th \in Threads, NEW g \in Groups, CheckAll(th, g) PROVE IInv'
  BY <1>1, <1>7, CheckAllKeeps DEF IInv
<1>8. ASSUME NEW th \in Threads, NEW p \in pairs[th], CallBack(th, p) PROVE IInv'
  BY <1>1, <1>8, CallBackKeeps DEF IInv
<1>9. CASE UNCHANGED vars
  BY <1>1, <1>2, <1>9 DEF vars, dataVars, IInv
<1> QED
  BY <1>3, <1>4, <1>5, <1>6, <1>7, <1>8, <1>9 DEF Next, Poll

\* The inductive invariant holds in every reachable state.
THEOREM Invariance == Spec => []IInv
<1>1. Init => IInv
  BY Start
<1>2. IInv /\ [Next]_vars => IInv'
  BY Step
<1> QED
  BY <1>1, <1>2, PTL DEF Spec

\* Every variable of SharedData keeps its type.
THEOREM TypeCorrect == Spec => []TypeOK
<1>1. IInv => TypeOK
  BY DEF IInv
<1> QED
  BY <1>1, Invariance, PTL

\* A change that SetData accepted is flagged, collected or already delivered,
\* wherever it falls among the polls, the collections and the callbacks.
THEOREM NothingLost == Spec => []NoLostChange
<1>1. IInv => NoLostChange
  BY DEF IInv
<1> QED
  BY <1>1, Invariance, PTL

\* Polls, flags and pairs are invisible from outside: a step of SharedData is a
\* step of ObservedValues or changes nothing that it has.
LEMMA Maps ==
    ASSUME IInv, [Next]_vars
    PROVE  [Observed!Next]_(Observed!vars)
<1> USE DEF Observed!vars
<1>1. ASSUME NEW t \in Types, SetData(t) PROVE Observed!Next
  <2>1. Observed!Offer(t)
    BY <1>1 DEF SetData, Observed!Offer
  <2> QED
    BY <2>1 DEF Observed!Next
<1>2. ASSUME NEW th \in Threads, NEW p \in pairs[th], CallBack(th, p) PROVE Observed!Next
  <2>1. p.type \in Types /\ p.version \in Nat
    BY PairFields DEF IInv
  <2>2. seen[p.type] < p.version /\ p.version <= version[p.type]
    BY DEF IInv, Waiting
  <2>3. seen[p.type] \in Nat /\ version[p.type] \in Nat
    BY <2>1 DEF IInv, TypeOK
  <2>4. p.version \in seen[p.type] + 1 .. version[p.type]
    BY <2>1, <2>2, <2>3
  <2>5. Observed!Notify(p.type)
    BY <1>2, <2>4 DEF CallBack, dataVars, Observed!Notify
  <2> QED
    BY <2>1, <2>5 DEF Observed!Next
<1>3. \/ UNCHANGED <<version, seen>>
      \/ \E t \in Types : SetData(t)
      \/ \E th \in Threads : \E p \in pairs[th] : CallBack(th, p)
  BY DEF Next, Poll, AppendNotify, EnterLoop, CheckTick, CheckAll, vars, dataVars
<1> QED
  BY <1>1, <1>2, <1>3

\* SharedData implements ObservedValues: the application is told of values that
\* were set, each newer than the one before.
THEOREM Implements == Spec => KeepsWatchersInformed
<1>1. Init => Observed!Init
  BY DEF Init, Observed!Init
<1>2. IInv /\ [Next]_vars => [Observed!Next]_(Observed!vars)
  BY Maps
<1> QED
  BY <1>1, <1>2, Invariance, PTL DEF Spec, KeepsWatchersInformed, Observed!Spec

-----------------------------------------------------------------------------
\* Pacing.  The gap counts with the ticks from the multiple of the period at
\* which a type was collected, until it says that a period has passed.
Counts ==
    \A t \in Types : /\ ticks[t] < Wrap
                     /\ gap[t] = Period[t] \/ gap[t] = ticks[t] % Period[t]

\* The counter of a type with a period that does not divide the wrap is not
\* about to wrap.  In the code 50, of the heart rate, does not divide 2^32.
EvenWrap == \A t \in Types : Wrap % Period[t] = 0 \/ ticks[t] + 1 < Wrap

\* A number has one remainder.
LEMMA OneRemainder ==
    ASSUME NEW n \in Nat \ {0}, NEW q \in Int, NEW k \in Int,
           NEW r \in 0 .. n - 1, NEW s \in 0 .. n - 1, q * n + r = k * n + s
    PROVE  r = s
<1>1. CASE q > k
  <2>1. (q - k) * n = s - r
    OBVIOUS
  <2>2. q - k >= 1
    BY <1>1
  <2>3. (q - k) * n >= n
    BY <2>2
  <2> QED
    BY <2>1, <2>3
<1>2. CASE q < k
  <2>1. (k - q) * n = r - s
    OBVIOUS
  <2>2. k - q >= 1
    BY <1>2
  <2>3. (k - q) * n >= n
    BY <2>2
  <2> QED
    BY <2>1, <2>3
<1> QED
  BY <1>1, <1>2

\* The remainder of the next number.
LEMMA NextRemainder ==
    ASSUME NEW n \in Nat \ {0}, NEW a \in Nat
    PROVE  /\ a % n \in 0 .. n - 1
           /\ (a % n) + 1 = n => (a + 1) % n = 0
           /\ (a % n) + 1 # n => (a + 1) % n = (a % n) + 1
<1> DEFINE q == a \div n
           k == (a + 1) \div n
           r == a % n
           s == (a + 1) % n
<1>1. r \in 0 .. n - 1 /\ s \in 0 .. n - 1
  OBVIOUS
<1>2. q \in Int /\ k \in Int /\ a = q * n + r /\ a + 1 = k * n + s
  OBVIOUS
<1> HIDE DEF q, k, r, s
<1>3. CASE r + 1 = n
  <2>1. (q + 1) * n + 0 = k * n + s
    BY <1>1, <1>2, <1>3
  <2>2. q + 1 \in Int /\ 0 \in 0 .. n - 1
    BY <1>2
  <2>3. s = 0
    BY <1>1, <1>2, <2>1, <2>2, OneRemainder
  <2> QED
    BY <1>1, <1>3, <2>3 DEF r, s
<1>4. CASE r + 1 # n
  <2>1. q * n + (r + 1) = k * n + s /\ r + 1 \in 0 .. n - 1
    BY <1>1, <1>2, <1>4
  <2>2. s = r + 1
    BY <1>1, <1>2, <2>1, OneRemainder
  <2> QED
    BY <1>1, <1>4, <2>2 DEF r, s
<1> QED
  BY <1>3, <1>4

\* Unless it wraps unevenly, the counter goes on to the next remainder.
LEMMA NextPace ==
    ASSUME TypeOK, Counts, EvenWrap, NEW t \in Types
    PROVE  /\ NextTick(t) \in Nat /\ NextTick(t) < Wrap
           /\ ticks[t] % Period[t] \in 0 .. Period[t] - 1
           /\ (ticks[t] % Period[t]) + 1 = Period[t] => NextTick(t) % Period[t] = 0
           /\ (ticks[t] % Period[t]) + 1 # Period[t] =>
                  NextTick(t) % Period[t] = (ticks[t] % Period[t]) + 1
<1> DEFINE a == ticks[t]
           n == Period[t]
<1>1. a \in Nat /\ a < Wrap /\ n \in Nat \ {0} /\ Wrap \in Nat \ {0}
  BY MapsAssumption, BoundsAssumption DEF TypeOK, Counts
<1>2. Wrap % n = 0 \/ a + 1 < Wrap
  BY DEF EvenWrap
<1>3. NextTick(t) = (a + 1) % Wrap
  BY DEF NextTick
<1> HIDE DEF a, n
<1>4. /\ a % n \in 0 .. n - 1
      /\ (a % n) + 1 = n => (a + 1) % n = 0
      /\ (a % n) + 1 # n => (a + 1) % n = (a % n) + 1
  BY <1>1, NextRemainder
<1>5. CASE a + 1 < Wrap
  <2>1. (a + 1) % Wrap = a + 1
    BY <1>1, <1>5
  <2> QED
    BY <1>1, <1>3, <1>4, <1>5, <2>1 DEF a, n
<1>6. CASE a + 1 = Wrap
  <2>1. (a + 1) % Wrap = 0
    BY <1>1, <1>6
  <2>2. 0 % n = 0
    BY <1>1
  <2>3. (a + 1) % n = 0
    BY <1>1, <1>2, <1>6
  <2>4. (a % n) + 1 = n
    BY <1>1, <1>4, <2>3
  <2> QED
    BY <1>1, <1>3, <1>4, <2>1, <2>2, <2>4 DEF a, n
<1> QED
  BY <1>1, <1>5, <1>6

\* A type is collected when the gap is one poll short of a period at least, and
\* counting goes on from there.
LEMMA CheckAllCounts ==
    ASSUME TypeOK, Counts, EvenWrap, NEW th \in Threads, NEW g \in Groups, CheckAll(th, g)
    PROVE  /\ Counts'
           /\ \A t \in Collected(th, g) : gap[t] + 1 >= Period[t]
<1> DEFINE C == Collected(th, g)
<1>1. ticks' = [t \in Types |-> IF t \in Polls(th, g) THEN NextTick(t) ELSE ticks[t]]
  BY DEF CheckAll
<1>2. gap' = [t \in Types |->
                 IF t \in C THEN 0
                 ELSE IF t \in Polls(th, g) /\ gap[t] < Period[t] THEN gap[t] + 1 ELSE gap[t]]
  BY DEF CheckAll, Collected
<1>3. C \subseteq Polls(th, g) /\ C \subseteq Types /\ \A t \in C : NextTick(t) % Period[t] = 0
  BY DEF Collected, Collects, Polls
<1> HIDE DEF C
<1>4. ASSUME NEW t \in Types
      PROVE  /\ ticks'[t] < Wrap
             /\ gap'[t] = Period[t] \/ gap'[t] = ticks'[t] % Period[t]
             /\ t \in C => gap[t] + 1 >= Period[t]
  <2> DEFINE n == Period[t]
             r == ticks[t] % Period[t]
             next == NextTick(t)
  <2>1. n \in Nat \ {0} /\ gap[t] \in Nat /\ (gap[t] = n \/ gap[t] = r) /\ ticks[t] < Wrap
    BY MapsAssumption DEF TypeOK, Counts
  <2>2. /\ next \in Nat /\ next < Wrap /\ r \in 0 .. n - 1
        /\ r + 1 = n => next % n = 0
        /\ r + 1 # n => next % n = r + 1
    BY NextPace
  <2>3. /\ ticks'[t] = IF t \in Polls(th, g) THEN next ELSE ticks[t]
        /\ gap'[t] = IF t \in C THEN 0
                     ELSE IF t \in Polls(th, g) /\ gap[t] < n THEN gap[t] + 1 ELSE gap[t]
    BY <1>1, <1>2
  <2>4. t \in C => t \in Polls(th, g) /\ next % n = 0
    BY <1>3
  <2> HIDE DEF r, next
  <2>5. CASE t \in C
    <3>1. gap'[t] = 0 /\ ticks'[t] = next /\ next % n = 0
      BY <2>3, <2>4, <2>5
    <3>2. r + 1 = n
      BY <2>1, <2>2, <3>1
    <3>3. gap[t] + 1 >= n
      BY <2>1, <2>2, <3>2
    <3> QED
      BY <2>2, <3>1, <3>3
  <2>6. CASE t \notin C /\ t \in Polls(th, g)
    <3>1. ticks'[t] = next /\ gap'[t] = IF gap[t] < n THEN gap[t] + 1 ELSE gap[t]
      BY <2>3, <2>6
    <3>2. CASE gap[t] = n
      BY <2>1, <2>2, <2>6, <3>1, <3>2
    <3>3. CASE gap[t] # n
      <4>1. gap[t] = r /\ gap'[t] = r + 1
        BY <2>1, <2>2, <3>1, <3>3
      <4> QED
        BY <2>1, <2>2, <2>6, <3>1, <4>1
    <3> QED
      BY <3>2, <3>3
  <2>7. CASE t \notin Polls(th, g)
    BY <2>1, <2>3, <2>4, <2>7 DEF r
  <2> QED
    BY <2>5, <2>6, <2>7
<1>5. \A t \in Types : ticks'[t] < Wrap /\ (gap'[t] = Period[t] \/ gap'[t] = ticks'[t] % Period[t])
  BY <1>4
<1> QED
  BY <1>3, <1>4, <1>5 DEF Counts, C

\* What is new in a thread's hand has been collected by it.
PacedStep ==
    \A t \in Types : (\E p \in pairs'[Consumer[t]] \ pairs[Consumer[t]] : p.type = t)
                         => gap[t] + 1 >= Period[t]

\* A consumer is not called back twice within its period, whatever the changes
\* and polls, as long as no counter wraps in the middle of a period.
THEOREM Pacing == Spec /\ []EvenWrap => Paced
<1>1. Init => Counts
  <2> SUFFICES ASSUME Init
               PROVE  Counts
    OBVIOUS
  <2>1. ASSUME NEW t \in Types
        PROVE  ticks[t] < Wrap /\ gap[t] = Period[t]
    BY BoundsAssumption, MapsAssumption DEF Init
  <2> QED
    BY <2>1 DEF Counts
<1>2. IInv /\ EvenWrap /\ Counts /\ [Next]_vars => Counts' /\ PacedStep
  <2> SUFFICES ASSUME IInv, EvenWrap, Counts, [Next]_vars
               PROVE  Counts' /\ PacedStep
    OBVIOUS
  <2>1. TypeOK
    BY DEF IInv
  <2>2. ASSUME NEW th \in Threads, NEW g \in Groups, CheckAll(th, g)
        PROVE  Counts' /\ PacedStep
    <3>1. Counts' /\ \A t \in Collected(th, g) : gap[t] + 1 >= Period[t]
      BY <2>1, <2>2, CheckAllCounts
    <3>2. pairs' = [pairs EXCEPT ![th] =
                       {[type |-> t, version |-> version[t]] : t \in Collected(th, g)}]
      BY <2>2 DEF CheckAll, Collected
    <3>3. ASSUME NEW t \in Types, NEW p \in pairs'[Consumer[t]] \ pairs[Consumer[t]], p.type = t
          PROVE  t \in Collected(th, g)
      <4>1. Consumer[t] \in Threads
        BY MapsAssumption
      <4>2. Consumer[t] = th
        BY <2>1, <3>2, <3>3, <4>1 DEF TypeOK
      <4>3. p \in {[type |-> u, version |-> version[u]] : u \in Collected(th, g)}
        BY <2>1, <3>2, <3>3, <4>2 DEF TypeOK
      <4> QED
        BY <3>3, <4>3
    <3> QED
      BY <3>1, <3>3 DEF PacedStep
  <2>3. ASSUME UNCHANGED pollVars, \A th \in Threads : pairs'[th] \subseteq pairs[th]
        PROVE  Counts' /\ PacedStep
    <3>1. \A t \in Types : Consumer[t] \in Threads
      BY MapsAssumption
    <3> QED
      BY <2>3, <3>1 DEF Counts, PacedStep, pollVars
  <2>4. ASSUME NEW th \in Threads, NEW p \in pairs[th], CallBack(th, p)
        PROVE  Counts' /\ PacedStep
    <3>1. \A o \in Threads : pairs'[o] \subseteq pairs[o]
      BY <2>1, <2>4 DEF CallBack, TypeOK
    <3> QED
      BY <2>3, <2>4, <3>1 DEF CallBack
  <2>5. CASE UNCHANGED <<pollVars, pairs>>
    BY <2>3, <2>5
  <2> QED
    BY <2>2, <2>4, <2>5
       DEF Next, Poll, SetData, AppendNotify, EnterLoop, CheckTick, vars
<1>3. PacedStep => [PacedStep]_vars
  OBVIOUS
<1> QED
  BY <1>1, <1>2, <1>3, Invariance, PTL DEF Spec, Paced, PacedStep
=============================================================================
