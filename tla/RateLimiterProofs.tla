--------------------------- MODULE RateLimiterProofs ---------------------------
(***************************************************************************)
(* The sliding window never lets more than MaxCalls calls into any interval of *)
(* PerSeconds, for every number of callers, rule and set of timeouts.           *)
(***************************************************************************)
EXTENDS RateLimiter, FiniteSetTheorems, WellFoundedInduction, TLAPS

USE RuleAssumption DEF None

\* The places of a list of grants are finitely many, and so is what the limiter holds.
LEMMA HeldIsFinite ==
    ASSUME TypeOK
    PROVE  /\ IsFiniteSet(calls) /\ IsFiniteSet(Pruned)
           /\ Pruned \subseteq 1..Len(granted)
           /\ Cardinality(Pruned) \in Nat
  <1>1. IsFiniteSet(1..Len(granted))
    BY FS_Interval DEF TypeOK
  <1>2. calls \in SUBSET (1..Len(granted)) /\ Pruned \in SUBSET (1..Len(granted))
    BY DEF TypeOK, Pruned
  <1>3. IsFiniteSet(calls) /\ IsFiniteSet(Pruned)
    BY <1>1, <1>2, FS_Subset
  <1>4. QED
    BY <1>2, <1>3, FS_CardinalityType

\* A set of places that is not empty has a first one.
LEMMA OldestExists ==
    ASSUME NEW n \in Nat, NEW places \in SUBSET (1..n), places # {}
    PROVE  Oldest(places) \in places
  <1> DEFINE less == OpToRel(<, Nat)
  <1>1. places \subseteq Nat
    OBVIOUS
  <1>2. IsWellFoundedOn(less, Nat)
    BY NatLessThanWellFounded
  <1> HIDE DEF less
  <1>3. PICK i \in places : \A j \in places : ~(<<j, i>> \in less)
    BY <1>1, <1>2, WFMin
  <1>4. ASSUME NEW j \in places PROVE i <= j
    <2>1. i \in Nat /\ j \in Nat
      BY <1>1
    <2>2. j < i => <<j, i>> \in less
      BY <2>1 DEF less, OpToRel
    <2>3. QED
      BY <2>1, <2>2, <1>3
  <1>5. QED
    BY <1>3, <1>4 DEF Oldest

\* MaxCalls consecutive places are more than a window with room can hold.
LEMMA RoomMeansOneIsOut ==
    ASSUME TypeOK, GrantsInOrder, NothingForgotten,
           Cardinality(Pruned) < MaxCalls,
           NEW k \in 1..Len(granted), k + MaxCalls = Len(granted) + 1
    PROVE  granted[k] <= now - PerSeconds
  <1> SUFFICES ASSUME ~(granted[k] <= now - PerSeconds) PROVE FALSE
    OBVIOUS
  <1> DEFINE recent == k..Len(granted)
  <1>0. Len(granted) \in Nat /\ DOMAIN granted = 1..Len(granted) /\ now \in Nat
    BY DEF TypeOK
  <1>1. \A i \in 1..Len(granted) : granted[i] \in Nat
    BY DEF TypeOK
  <1>2. ASSUME NEW i \in recent PROVE i \in Pruned
    <2>1. i \in 1..Len(granted) /\ k <= i
      BY <1>0
    <2>2. granted[k] <= granted[i]
      BY <2>1, <1>0 DEF GrantsInOrder
    <2>3. granted[i] > now - PerSeconds
      BY <2>1, <2>2, <1>0, <1>1
    <2>4. QED
      BY <2>1, <2>3, <1>0 DEF NothingForgotten, Pruned
  <1>3. recent \in SUBSET Pruned
    BY <1>2
  <1>4. Cardinality(recent) = MaxCalls
    BY <1>0, FS_Interval
  <1>5. Cardinality(recent) <= Cardinality(Pruned)
    BY <1>3, HeldIsFinite, FS_Subset
  <1>6. QED
    BY <1>4, <1>5, HeldIsFinite

--------------------------------------------------------------------------------
\* A step that grants nothing: time passes, or a caller moves.
LEMMA OtherSteps ==
    ASSUME WindowInv,
           granted' = granted,
           now' = now \/ now' = now + 1,
           calls' = calls \/ (calls' = Pruned /\ now' = now),
           caller' \in [Callers -> {"idle", "acquire", "asleep"}],
           deadline' \in [Callers -> Nat \cup {None}],
           wait_until' \in [Callers -> Nat]
    PROVE  WindowInv'
  <1>0. TypeOK /\ GrantsInOrder /\ NothingForgotten /\ NeverOverLimit
    BY DEF WindowInv
  <1>1. now' \in Nat /\ now' >= now
    BY <1>0 DEF TypeOK
  <1>2. TypeOK'
    BY <1>0, <1>1 DEF TypeOK, Pruned
  <1>3. \A i \in DOMAIN granted : granted[i] \in Nat
    BY <1>0 DEF TypeOK
  <1>4. GrantsInOrder'
    BY <1>0, <1>1, <1>3 DEF GrantsInOrder, TypeOK
  <1>5. NothingForgotten'
    BY <1>0, <1>1, <1>3 DEF NothingForgotten, TypeOK, Pruned
  <1>6. NeverOverLimit'
    BY <1>0 DEF NeverOverLimit
  <1>7. QED
    BY <1>2, <1>4, <1>5, <1>6 DEF WindowInv

LEMMA GrantStep ==
    ASSUME WindowInv, NEW c \in Callers, Grant(c)
    PROVE  WindowInv'
  <1> DEFINE n == Len(granted)
  <1>0. /\ TypeOK /\ GrantsInOrder /\ NothingForgotten /\ NeverOverLimit
        /\ granted \in Seq(Nat) /\ n \in Nat /\ DOMAIN granted = 1..n /\ now \in Nat
    BY DEF WindowInv, TypeOK
  <1>1. /\ granted' \in Seq(Nat) /\ Len(granted') = n + 1 /\ DOMAIN granted' = 1..(n + 1)
        /\ granted'[n + 1] = now
        /\ \A i \in 1..n : granted'[i] = granted[i]
        /\ now' = now /\ calls' = Pruned \cup {n + 1}
    BY <1>0 DEF Grant
  <1>2. \A i \in 1..n : granted[i] \in Nat /\ granted[i] <= now
    BY <1>0 DEF GrantsInOrder
  <1>3. TypeOK'
    <2>1. calls' \in SUBSET (1..Len(granted'))
      BY <1>0, <1>1, HeldIsFinite
    <2>2. QED
      BY <1>0, <1>1, <2>1 DEF TypeOK, Grant, Leave
  <1>4. GrantsInOrder'
    <2>1. \A i \in 1..(n + 1) : granted'[i] <= now
      BY <1>0, <1>1, <1>2
    <2>2. ASSUME NEW i \in 1..(n + 1), NEW j \in 1..(n + 1), i <= j
          PROVE  granted'[i] <= granted'[j]
      <3>1. CASE j = n + 1
        BY <3>1, <2>1, <1>1
      <3>2. CASE j # n + 1
        <4>1. i \in 1..n /\ j \in 1..n
          BY <3>2, <2>2, <1>0
        <4>2. QED
          BY <4>1, <2>2, <1>0, <1>1 DEF GrantsInOrder
      <3>3. QED
        BY <3>1, <3>2
    <2>3. QED
      BY <2>1, <2>2, <1>1 DEF GrantsInOrder
  <1>5. NothingForgotten'
    <2>1. ASSUME NEW i \in 1..(n + 1), granted'[i] > now - PerSeconds
          PROVE  i \in calls'
      BY <2>1, <1>0, <1>1 DEF NothingForgotten, Pruned
    <2>2. QED
      BY <2>1, <1>1 DEF NothingForgotten
  <1>6. NeverOverLimit'
    <2>1. ASSUME NEW i \in 1..(n + 1), i + MaxCalls \in 1..(n + 1)
          PROVE  granted'[i + MaxCalls] - granted'[i] >= PerSeconds
      <3>1. i \in 1..n
        BY <2>1, <1>0
      <3>2. CASE i + MaxCalls = n + 1
        <4>1. granted[i] <= now - PerSeconds
          BY <3>1, <3>2, <1>0, RoomMeansOneIsOut DEF Grant
        <4>2. QED
          BY <4>1, <3>1, <3>2, <1>0, <1>1, <1>2
      <3>3. CASE i + MaxCalls # n + 1
        <4>1. i + MaxCalls \in 1..n
          BY <3>3, <2>1, <1>0
        <4>2. QED
          BY <4>1, <3>1, <1>0, <1>1 DEF NeverOverLimit
      <3>4. QED
        BY <3>2, <3>3
    <2>2. QED
      BY <2>1, <1>1 DEF NeverOverLimit
  <1>7. QED
    BY <1>3, <1>4, <1>5, <1>6 DEF WindowInv

LEMMA WindowInit == Init => WindowInv
  BY DEF Init, WindowInv, TypeOK, GrantsInOrder, NothingForgotten, NeverOverLimit

LEMMA WindowStep == WindowInv /\ [Next]_vars => WindowInv'
  <1> SUFFICES ASSUME WindowInv, [Next]_vars PROVE WindowInv'
    OBVIOUS
  <1>0. TypeOK
    BY DEF WindowInv
  <1>1. CASE TimePasses
    BY <1>0, <1>1, OtherSteps DEF TimePasses, mine, TypeOK
  <1>2. ASSUME NEW c \in Callers, Throttle(c) PROVE WindowInv'
    <2>1. PICK timeout \in Timeouts :
            deadline' = [deadline EXCEPT ![c] = IF timeout = None THEN None ELSE now + timeout]
      BY <1>2 DEF Throttle
    <2>2. deadline' \in [Callers -> Nat \cup {None}]
      BY <2>1, <1>0 DEF TypeOK
    <2>3. QED
      BY <1>0, <1>2, <2>2, OtherSteps DEF Throttle, TypeOK
  <1>3. ASSUME NEW c \in Callers, Grant(c) PROVE WindowInv'
    BY <1>3, GrantStep
  <1>4. ASSUME NEW c \in Callers, Refuse(c) PROVE WindowInv'
    BY <1>0, <1>4, OtherSteps DEF Refuse, Full, Leave, TypeOK
  <1>5. ASSUME NEW c \in Callers, Sleep(c) PROVE WindowInv'
    <2>1. Cardinality(Pruned) # 0
      BY <1>5, <1>0, HeldIsFinite DEF Sleep, Full
    <2>2. Pruned # {}
      BY <2>1, FS_EmptySet
    <2>3. FreesAt \in Nat
      <3>0. Len(granted) \in Nat /\ Pruned \in SUBSET (1..Len(granted))
        BY <1>0, HeldIsFinite DEF TypeOK
      <3>1. Oldest(Pruned) \in Pruned
        BY <3>0, <2>2, OldestExists
      <3>2. Oldest(Pruned) \in 1..Len(granted)
        BY <3>0, <3>1
      <3>3. granted[Oldest(Pruned)] \in Nat
        BY <3>2, <1>0 DEF TypeOK
      <3>4. QED
        BY <3>3 DEF FreesAt
    <2>4. QED
      BY <1>0, <1>5, <2>3, OtherSteps DEF Sleep, Full, TypeOK
  <1>6. ASSUME NEW c \in Callers, Wake(c) PROVE WindowInv'
    BY <1>0, <1>6, OtherSteps DEF Wake, TypeOK
  <1>7. CASE UNCHANGED vars
    BY <1>0, <1>7, OtherSteps DEF vars, TypeOK
  <1>8. QED
    BY <1>1, <1>2, <1>3, <1>4, <1>5, <1>6, <1>7 DEF Next, Acquires

\* What the clock and the list hold keeps its type and its order, and what is still
\* in the window is never forgotten (_TokenBucket.acquire).
THEOREM WindowIsKept == Spec => []WindowInv
  BY WindowInit, WindowStep, PTL DEF Spec

\* The list of calls only ever names calls that went out, and a caller sleeps or waits
\* for the lock, or is gone (_TokenBucket.acquire).
THEOREM LimiterTypes == Spec => []TypeOK
  <1>1. WindowInv => TypeOK BY DEF WindowInv
  <1>2. QED BY <1>1, WindowIsKept, PTL

\* At most max_calls calls go out in any window of per_seconds (RateLimitRule).
THEOREM LimitIsKept == Spec => []NeverOverLimit
  <1>1. WindowInv => NeverOverLimit
    BY DEF WindowInv
  <1>2. QED
    BY <1>1, WindowIsKept, PTL
================================================================================
