------------------------- MODULE TokenBudgetProofs -------------------------
(***************************************************************************)
(* What TokenBudget promises, for any callers, budget and sizes of calls:  *)
(* the counter passes the budget by no more than what is in flight, and    *)
(* what the provider counts passes it by no more than what was lost.       *)
(*                                                                         *)
(* Both are sums over callers.  The proofs count sets instead: Pending has *)
(* the calls that were let through, Owed one pair for each token that was  *)
(* spent and is not in the counter yet.                                    *)
(***************************************************************************)
EXTENDS TokenBudget, FiniteSetTheorems, TLAPS

-----------------------------------------------------------------------------
(* Tokens in flight, counted.                                                *)

\* A pair for each token of each call that waits for its INCRBY.
Owed ==
  {x \in Callers \X (1 .. MaxTokens) : call[x[1]].pc = "incrby" /\ x[2] <= call[x[1]].tokens}

PendingCalls == Cardinality(Pending)

OwedTokens == Cardinality(Owed)

\* One budget and one call of every caller: what a counter that starts at 0 can reach.
Allowance == (Budget - 1) + Cardinality(Callers) * MaxTokens

\* What the provider may have counted in a day.
Bound == (resets + 1) * Allowance + (failOpens + unrecorded) * MaxTokens

\* Today, with f of the checks that failed open since the counter was at 0: what is
\* pending is reserved in the counter, and what was spent is in the counter, owed
\* to it, gone with one of its resets, or nobody's.
Charged(f) ==
  /\ used[day] + PendingCalls * MaxTokens <= Allowance + f * MaxTokens
  /\ spent[day] <= used[day] + OwedTokens + resets * Allowance
                     + (unrecorded + (failOpens - f)) * MaxTokens

SpendInv ==
  Budget > 0 =>
    /\ \E f \in 0 .. failOpens : Charged(f)
    /\ \A d \in Days :
         /\ d < day => spent[d] <= Bound
         /\ d > day => used[d] = 0 /\ spent[d] = 0

-----------------------------------------------------------------------------
(* Types.                                                                    *)

\* What TypeOK says of one caller.
Calls == [pc : {"idle", "post", "incrby", "expire"}, tokens : 0 .. MaxTokens]

\* A caller that has nothing under way is one the types know.
LEMMA IdleIsCall == Idle \in Calls
BY BudgetAssumption DEF Idle, Calls

\* A caller moves to another line of its call.
LEMMA CallTyped ==
  ASSUME TypeOK, NEW c \in Callers, NEW x \in Calls, call' = [call EXCEPT ![c] = x]
  PROVE  call' \in [Callers -> Calls]
BY DEF TypeOK, Calls

\* ... and so does one that keeps the tokens of its call.
LEMMA PcTyped ==
  ASSUME TypeOK, NEW c \in Callers,
         NEW pc \in {"idle", "post", "incrby", "expire"},
         call' = [call EXCEPT ![c].pc = pc]
  PROVE  call' \in [Callers -> Calls]
<1> DEFINE x == [call[c] EXCEPT !.pc = pc]
<1>1. x \in Calls
  BY DEF TypeOK, Calls
<1>2. call' = [call EXCEPT ![c] = x]
  BY DEF TypeOK
<1> QED  BY <1>1, <1>2 DEF TypeOK, Calls

\* Tokens are counted, at the provider or in Redis.
LEMMA CounterTyped ==
  ASSUME NEW f \in [Days -> Nat], NEW d \in Days, NEW n \in Nat
  PROVE  /\ [f EXCEPT ![d] = @ + n] \in [Days -> Nat]
         /\ [f EXCEPT ![d] = @ + n][d] = f[d] + n
         /\ \A e \in Days : e # d => [f EXCEPT ![d] = @ + n][e] = f[e]
OBVIOUS

\* Types, after each step.
LEMMA TypeStep ==
  ASSUME TypeOK, [Next]_vars
  PROVE  TypeOK'
<1>0. MaxTokens \in Nat /\ LastDay \in Nat
  BY BudgetAssumption
<1>1. ASSUME NEW c \in Callers, Check(c)  PROVE TypeOK'
  <2>1. call' \in [Callers -> Calls]
    BY <1>1, PcTyped DEF Check
  <2> QED  BY <1>1, <2>1 DEF Check, TypeOK, Calls
<1>2. ASSUME NEW c \in Callers, CheckFails(c)  PROVE TypeOK'
  <2>1. call' \in [Callers -> Calls]
    BY <1>2, PcTyped DEF CheckFails
  <2> QED  BY <1>2, <2>1 DEF CheckFails, TypeOK, Calls
<1>3. ASSUME NEW c \in Callers, Post(c)  PROVE TypeOK'
  <2>1. PICK n \in 0 .. MaxTokens :
          /\ spent' = [spent EXCEPT ![day] = @ + n]
          /\ call' = [call EXCEPT ![c] = IF n > 0 THEN [pc |-> "incrby", tokens |-> n] ELSE Idle]
    BY <1>3 DEF Post
  <2>2. (IF n > 0 THEN [pc |-> "incrby", tokens |-> n] ELSE Idle) \in Calls
    BY IdleIsCall DEF Calls
  <2>3. call' \in [Callers -> Calls]
    BY <2>1, <2>2, CallTyped
  <2>4. spent' \in [Days -> Nat]
    BY <1>0, <2>1, CounterTyped DEF TypeOK
  <2> QED  BY <1>3, <2>3, <2>4 DEF Post, TypeOK, Calls
<1>4. ASSUME NEW c \in Callers, PostFails(c)  PROVE TypeOK'
  <2>1. PICK n \in 0 .. MaxTokens : spent' = [spent EXCEPT ![day] = @ + n]
    BY <1>4 DEF PostFails
  <2>2. spent' \in [Days -> Nat]
    BY <1>0, <2>1, CounterTyped DEF TypeOK
  <2>3. call' \in [Callers -> Calls]
    BY <1>4, IdleIsCall, CallTyped DEF PostFails
  <2> QED  BY <1>4, <2>2, <2>3 DEF PostFails, TypeOK, Calls
<1>5. ASSUME NEW c \in Callers, IncrBy(c)  PROVE TypeOK'
  <2>1. used' \in [Days -> Nat]
    BY <1>0, <1>5, CounterTyped DEF IncrBy, TypeOK
  <2>2. [pc |-> "expire", tokens |-> 0] \in Calls
    BY <1>0 DEF Calls
  <2>3. call' \in [Callers -> Calls]
    BY <1>5, <2>2, CallTyped DEF IncrBy
  <2> QED  BY <1>5, <2>1, <2>3 DEF IncrBy, TypeOK, Calls
<1>6. ASSUME NEW c \in Callers, Expire(c)  PROVE TypeOK'
  <2>1. call' \in [Callers -> Calls]
    BY <1>6, IdleIsCall, CallTyped DEF Expire
  <2> QED  BY <1>6, <2>1 DEF Expire, TypeOK, Calls
<1>7. ASSUME NEW c \in Callers, RecordFails(c)  PROVE TypeOK'
  <2>1. call' \in [Callers -> Calls]
    BY <1>7, IdleIsCall, CallTyped DEF RecordFails
  <2>2. used' \in [Days -> Nat]
    BY <1>0, <1>7, CounterTyped DEF RecordFails, TypeOK
  <2>3. unrecorded' \in Nat
    BY <1>7 DEF RecordFails, TypeOK
  <2> QED  BY <1>7, <2>1, <2>2, <2>3 DEF RecordFails, TypeOK, Calls
<1>8. CASE Midnight
  BY <1>0, <1>8 DEF Midnight, TypeOK, Days
<1>9. CASE RedisRecreated
  BY <1>9 DEF RedisRecreated, TypeOK
<1>10. CASE UNCHANGED vars
  BY <1>10 DEF vars, TypeOK
<1> QED  BY <1>1, <1>2, <1>3, <1>4, <1>5, <1>6, <1>7, <1>8, <1>9, <1>10 DEF Next

\* Every variable of the budget stays in its type: the counters, the expiries and
\* the calls of budget.py and together.py, for any callers, budget and bounds.
THEOREM TokenBudgetTypeCorrect == Spec => []TypeOK
<1>1. Init => TypeOK
  BY BudgetAssumption, IdleIsCall DEF Init, TypeOK, Days, Calls
<1>2. TypeOK /\ [Next]_vars => TypeOK'
  BY TypeStep
<1> QED  BY <1>1, <1>2, PTL DEF Spec

-----------------------------------------------------------------------------
(* Calls in flight, and the tokens they owe.                                 *)

\* Both counts are counts of finite sets; there are no more calls in flight than
\* callers, and none of them owes more than one call can take.
LEMMA CountsTyped ==
  ASSUME TypeOK
  PROVE  /\ IsFiniteSet(Pending) /\ PendingCalls \in Nat
         /\ IsFiniteSet(Owed) /\ OwedTokens \in Nat
         /\ Cardinality(Callers) \in Nat
         /\ PendingCalls <= Cardinality(Callers)
         /\ OwedTokens <= PendingCalls * MaxTokens
<1>0. MaxTokens \in Nat /\ IsFiniteSet(Callers)
  BY BudgetAssumption
<1>1. Pending \in SUBSET Callers
  BY DEF Pending
<1>2. /\ IsFiniteSet(Pending) /\ PendingCalls \in Nat
      /\ PendingCalls <= Cardinality(Callers) /\ Cardinality(Callers) \in Nat
  BY <1>0, <1>1, FS_Subset, FS_CardinalityType DEF PendingCalls
<1>3. IsFiniteSet(1 .. MaxTokens) /\ Cardinality(1 .. MaxTokens) = MaxTokens
  BY <1>0, FS_Interval
<1>4. /\ IsFiniteSet(Pending \X (1 .. MaxTokens))
      /\ Cardinality(Pending \X (1 .. MaxTokens)) = PendingCalls * MaxTokens
  <2>1. /\ IsFiniteSet(Pending \X (1 .. MaxTokens))
        /\ Cardinality(Pending \X (1 .. MaxTokens))
             = Cardinality(Pending) * Cardinality(1 .. MaxTokens)
    BY <1>2, <1>3, FS_Product, Zenon
  <2> QED  BY <1>3, <2>1 DEF PendingCalls
<1>5. Owed \in SUBSET (Pending \X (1 .. MaxTokens))
  BY DEF Owed, Pending
<1>6. IsFiniteSet(Owed) /\ Cardinality(Owed) <= Cardinality(Pending \X (1 .. MaxTokens))
  BY <1>4, <1>5, FS_Subset, Zenon
<1>7. Cardinality(Owed) \in Nat
  BY <1>6, FS_CardinalityType, Zenon
<1> QED  BY <1>2, <1>4, <1>6, <1>7 DEF OwedTokens

\* A caller's tokens are as many pairs.
LEMMA PairsOfCall ==
  ASSUME NEW S, IsFiniteSet(S), NEW c, NEW n \in Nat, \A i \in 1 .. n : <<c, i>> \notin S
  PROVE  Cardinality(S \cup ({c} \X (1 .. n))) = Cardinality(S) + n
<1> DEFINE pairs == {c} \X (1 .. n)
<1>1. IsFiniteSet({c}) /\ Cardinality({c}) = 1
  BY FS_Singleton
<1>2. IsFiniteSet(1 .. n) /\ Cardinality(1 .. n) = n
  BY FS_Interval
<1>3. IsFiniteSet(pairs) /\ Cardinality(pairs) = Cardinality({c}) * Cardinality(1 .. n)
  BY <1>1, <1>2, FS_Product, Zenon
<1>4. S \cap pairs = {}
  OBVIOUS
<1>5. Cardinality(S \cap pairs) = 0
  BY <1>4, FS_EmptySet
<1> HIDE DEF pairs
<1>6. /\ Cardinality(S \cup pairs) = Cardinality(S) + Cardinality(pairs) - Cardinality(S \cap pairs)
      /\ Cardinality(S) \in Nat
  BY <1>3, FS_Union, FS_CardinalityType
<1>7. Cardinality(pairs) = n
  BY <1>1, <1>2, <1>3
<1> QED  BY <1>5, <1>6, <1>7 DEF pairs

\* A call that no step moves is pending, and owes its tokens, as before.
LEMMA SameCalls ==
  ASSUME UNCHANGED call
  PROVE  PendingCalls' = PendingCalls /\ OwedTokens' = OwedTokens
BY DEF PendingCalls, OwedTokens, Pending, Owed

\* A check lets a call through: one more is pending, and it owes nothing yet.
LEMMA LetThrough ==
  ASSUME TypeOK, NEW c \in Callers, call[c].pc = "idle",
         call' = [call EXCEPT ![c].pc = "post"]
  PROVE  /\ PendingCalls' = PendingCalls + 1
         /\ PendingCalls + 1 <= Cardinality(Callers)
         /\ OwedTokens' = OwedTokens
<1>1. /\ call'[c].pc = "post"
      /\ \A b \in Callers : b # c => call'[b] = call[b]
  BY DEF TypeOK
<1>2. Pending' = Pending \cup {c} /\ c \notin Pending
  BY <1>1 DEF Pending
<1>3. Owed' = Owed
  BY <1>1 DEF Owed
<1>4. PendingCalls' = PendingCalls + 1
  BY <1>2, CountsTyped, FS_AddElement DEF PendingCalls
<1>5. Pending' \in SUBSET Callers
  BY DEF Pending
<1>6. PendingCalls' <= Cardinality(Callers)
  BY <1>5, BudgetAssumption, FS_Subset DEF PendingCalls
<1> QED  BY <1>3, <1>4, <1>6 DEF OwedTokens

\* A call that is answered stays pending, and owes its tokens.
LEMMA Answered ==
  ASSUME TypeOK, NEW c \in Callers, call[c].pc = "post", NEW n \in 1 .. MaxTokens,
         call' = [call EXCEPT ![c] = [pc |-> "incrby", tokens |-> n]]
  PROVE  /\ PendingCalls' = PendingCalls
         /\ OwedTokens' = OwedTokens + n
<1>1. /\ call'[c] = [pc |-> "incrby", tokens |-> n]
      /\ \A b \in Callers : b # c => call'[b] = call[b]
  BY DEF TypeOK
<1>2. Pending' = Pending
  BY <1>1 DEF Pending
<1>3. Owed' = Owed \cup ({c} \X (1 .. n))
  <2>1. ASSUME NEW x \in Callers \X (1 .. MaxTokens)
        PROVE  x \in Owed' <=> x \in Owed \cup ({c} \X (1 .. n))
    <3>1. CASE x[1] = c
      BY <1>1, <3>1 DEF Owed
    <3>2. CASE x[1] # c
      BY <1>1, <3>2 DEF Owed
    <3> QED  BY <3>1, <3>2
  <2>2. Owed' \subseteq Callers \X (1 .. MaxTokens)
    BY DEF Owed
  <2>3. Owed \cup ({c} \X (1 .. n)) \subseteq Callers \X (1 .. MaxTokens)
    BY BudgetAssumption DEF Owed
  <2> QED  BY <2>1, <2>2, <2>3
<1>4. \A i \in 1 .. n : <<c, i>> \notin Owed
  BY DEF Owed
<1>5. n \in Nat /\ IsFiniteSet(Owed)
  BY CountsTyped, BudgetAssumption
<1>6. Cardinality(Owed \cup ({c} \X (1 .. n))) = Cardinality(Owed) + n
  BY <1>4, <1>5, PairsOfCall, Zenon
<1> QED  BY <1>2, <1>3, <1>6 DEF PendingCalls, OwedTokens

\* A pending call that ends, or has its tokens in the counter, owes them no more.
LEMMA Settled ==
  ASSUME TypeOK, NEW c \in Callers, call[c].pc \in {"post", "incrby"},
         NEW x \in {Idle, [pc |-> "expire", tokens |-> 0]}, call' = [call EXCEPT ![c] = x]
  PROVE  /\ PendingCalls' = PendingCalls - 1
         /\ OwedTokens' = IF call[c].pc = "incrby" THEN OwedTokens - call[c].tokens
                                                   ELSE OwedTokens
<1> DEFINE n == call[c].tokens
<1>0. n \in 0 .. MaxTokens /\ MaxTokens \in Nat
  BY BudgetAssumption DEF TypeOK
<1>1. /\ call'[c].pc \in {"idle", "expire"}
      /\ \A b \in Callers : b # c => call'[b] = call[b]
  BY DEF TypeOK, Idle
<1>2. Pending' = Pending \ {c} /\ c \in Pending
  BY <1>1 DEF Pending
<1>3. PendingCalls' = PendingCalls - 1
  BY <1>2, CountsTyped, FS_RemoveElement DEF PendingCalls
<1>4. CASE call[c].pc = "post"
  <2>1. Owed' = Owed
    BY <1>1, <1>4 DEF Owed
  <2> QED  BY <1>3, <1>4, <2>1 DEF OwedTokens
<1>5. CASE call[c].pc = "incrby"
  <2>1. Owed = Owed' \cup ({c} \X (1 .. n))
    <3>1. ASSUME NEW y \in Callers \X (1 .. MaxTokens)
          PROVE  y \in Owed <=> y \in Owed' \cup ({c} \X (1 .. n))
      <4>1. CASE y[1] = c
        BY <1>1, <1>5, <4>1 DEF Owed
      <4>2. CASE y[1] # c
        BY <1>1, <4>2 DEF Owed
      <4> QED  BY <4>1, <4>2
    <3>2. Owed \subseteq Callers \X (1 .. MaxTokens)
      BY DEF Owed
    <3>3. Owed' \cup ({c} \X (1 .. n)) \subseteq Callers \X (1 .. MaxTokens)
      BY <1>0 DEF Owed
    <3> QED  BY <3>1, <3>2, <3>3
  <2>2. \A i \in 1 .. n : <<c, i>> \notin Owed'
    BY <1>1 DEF Owed
  <2>3. Owed' \in SUBSET Owed
    BY <2>1
  <2>4. IsFiniteSet(Owed') /\ Cardinality(Owed') \in Nat
    BY <2>3, CountsTyped, FS_Subset, FS_CardinalityType
  <2>5. n \in Nat
    BY <1>0
  <2> HIDE DEF n
  <2>6. Cardinality(Owed' \cup ({c} \X (1 .. n))) = Cardinality(Owed') + n
    BY <2>2, <2>4, <2>5, PairsOfCall, Zenon
  <2>7. OwedTokens = OwedTokens' + n
    BY <2>1, <2>6 DEF OwedTokens
  <2> QED  BY <1>3, <1>5, <2>4, <2>5, <2>7 DEF OwedTokens, n
<1> QED  BY <1>4, <1>5

\* After its INCRBY a call neither is pending nor owes anything.
LEMMA Expired ==
  ASSUME TypeOK, NEW c \in Callers, call[c].pc = "expire", call' = [call EXCEPT ![c] = Idle]
  PROVE  PendingCalls' = PendingCalls /\ OwedTokens' = OwedTokens
<1>1. /\ call'[c].pc = "idle"
      /\ \A b \in Callers : b # c => call'[b] = call[b]
  BY DEF TypeOK, Idle
<1>2. Pending' = Pending
  BY <1>1 DEF Pending
<1>3. Owed' = Owed
  BY <1>1 DEF Owed
<1> QED  BY <1>2, <1>3 DEF PendingCalls, OwedTokens

-----------------------------------------------------------------------------
(* The counter.                                                              *)

\* Sums distribute over a factor that is a natural number: the solver is told so, as it
\* loses track of products of two variables.
LEMMA Times ==
  ASSUME NEW a \in Nat, NEW b \in Nat, NEW m \in Nat
  PROVE  /\ a * m \in Nat
         /\ (a + b) * m = a * m + b * m
         /\ (a + 1) * m = a * m + m
         /\ (a - 1) * m = a * m - m
         /\ a <= b => a * m <= b * m
BY SMT

\* A budget, and the calls of N callers and f failed checks: the right side of
\* Reserved, taken apart.
LEMMA ReservedSum ==
  ASSUME TypeOK
  PROVE  /\ (Cardinality(Callers) + failOpens) * MaxTokens
               = Cardinality(Callers) * MaxTokens + failOpens * MaxTokens
         /\ Cardinality(Callers) * MaxTokens \in Nat
         /\ failOpens * MaxTokens \in Nat
         /\ PendingCalls * MaxTokens \in Nat
         /\ PendingCalls * MaxTokens <= Cardinality(Callers) * MaxTokens
         /\ (failOpens + 1) * MaxTokens = failOpens * MaxTokens + MaxTokens
         /\ (PendingCalls + 1) * MaxTokens = PendingCalls * MaxTokens + MaxTokens
         /\ (PendingCalls - 1) * MaxTokens = PendingCalls * MaxTokens - MaxTokens
<1>1. /\ MaxTokens \in Nat /\ failOpens \in Nat /\ PendingCalls \in Nat
      /\ Cardinality(Callers) \in Nat /\ PendingCalls <= Cardinality(Callers)
  BY BudgetAssumption, CountsTyped DEF TypeOK
<1> QED  BY <1>1, Times

\* What a day's counter may hold, with what is reserved of it.
Room(d) ==
  /\ d < day => used[d] <= (Budget - 1) + (Cardinality(Callers) + failOpens) * MaxTokens
  /\ d = day => used[d] + PendingCalls * MaxTokens
                  <= (Budget - 1) + (Cardinality(Callers) + failOpens) * MaxTokens
  /\ d > day => used[d] = 0

\* Reserved, day by day.
LEMMA ReservedRoom == Reserved <=> (Budget > 0 => \A d \in Days : Room(d))
BY DEF Reserved, Room, PendingCalls

\* A step that leaves the day, the counters and the failed checks alone, and moves
\* no call in, leaves the room.
LEMMA RoomKept ==
  ASSUME TypeOK, NEW d \in Days, Room(d), UNCHANGED <<day, used, failOpens>>,
         PendingCalls' \in {PendingCalls, PendingCalls - 1}
  PROVE  Room(d)'
<1>1. PendingCalls' * MaxTokens \in {PendingCalls * MaxTokens, PendingCalls * MaxTokens - MaxTokens}
  BY ReservedSum
<1>2. MaxTokens \in Nat /\ Budget \in Nat
  BY BudgetAssumption
<1>3. d \in Int /\ day \in Int /\ used[d] \in Nat
  BY BudgetAssumption DEF TypeOK, Days
<1> QED  BY <1>1, <1>2, <1>3, ReservedSum DEF Room

\* A counter is made up for by a reservation of its call.
LEMMA RoomSpent ==
  ASSUME TypeOK, NEW d \in Days, Room(d), NEW n \in 0 .. MaxTokens,
         used' = [used EXCEPT ![day] = @ + n], UNCHANGED <<day, failOpens>>,
         PendingCalls' = PendingCalls - 1
  PROVE  Room(d)'
<1>1. PendingCalls' * MaxTokens = PendingCalls * MaxTokens - MaxTokens
  BY ReservedSum
<1>2. MaxTokens \in Nat /\ Budget \in Nat /\ n \in Nat /\ n <= MaxTokens
  BY BudgetAssumption
<1>3. d \in Int /\ day \in Days /\ day \in Int /\ used[d] \in Nat
  BY BudgetAssumption DEF TypeOK, Days
<1>4. used'[d] = IF d = day THEN used[d] + n ELSE used[d]
  BY DEF TypeOK
<1> QED  BY <1>1, <1>2, <1>3, <1>4, ReservedSum DEF Room

\* No step breaks Reserved: a check lets a call in only while the counter is below the
\* budget, or fails open, and an INCRBY turns what was pending into what is counted.
LEMMA ReservedStep ==
  ASSUME TypeOK, Reserved, [Next]_vars
  PROVE  Reserved'
<1> SUFFICES ASSUME Budget > 0, NEW d \in Days  PROVE Room(d)'
  BY DEF Reserved, Room, PendingCalls
<1>0. /\ MaxTokens \in Nat /\ Budget \in Nat
      /\ d \in Int /\ day \in Int /\ day \in Days /\ used[d] \in Nat
      /\ PendingCalls \in Nat
  BY BudgetAssumption, CountsTyped DEF TypeOK, Days
<1>1. Room(d)
  BY ReservedRoom
<1>2. ASSUME NEW c \in Callers, Check(c)  PROVE Room(d)'
  <2>0. used[day] \in Nat /\ used[day] <= Budget - 1
    BY <1>0, <1>2 DEF Check, TypeOK
  <2>1. PendingCalls' = PendingCalls + 1 /\ PendingCalls + 1 <= Cardinality(Callers)
    BY <1>2, LetThrough DEF Check
  <2>2. (PendingCalls + 1) * MaxTokens <= Cardinality(Callers) * MaxTokens
    BY <1>0, <2>1, CountsTyped, Times
  <2> QED  BY <1>0, <1>1, <1>2, <2>0, <2>1, <2>2, ReservedSum DEF Check, Room
<1>3. ASSUME NEW c \in Callers, CheckFails(c)  PROVE Room(d)'
  <2>1. PendingCalls' = PendingCalls + 1
    BY <1>3, LetThrough DEF CheckFails
  <2>2. (Cardinality(Callers) + (failOpens + 1)) * MaxTokens
          = (Cardinality(Callers) + failOpens) * MaxTokens + MaxTokens
    BY <1>0, CountsTyped, Times DEF TypeOK
  <2> QED  BY <1>0, <1>1, <1>3, <2>1, <2>2, ReservedSum DEF CheckFails, Room
<1>4. ASSUME NEW c \in Callers, Post(c)  PROVE Room(d)'
  <2>1. PICK n \in 0 .. MaxTokens :
          call' = [call EXCEPT ![c] = IF n > 0 THEN [pc |-> "incrby", tokens |-> n] ELSE Idle]
    BY <1>4 DEF Post
  <2>2. CASE n > 0
    <3>1. n \in 1 .. MaxTokens /\ call' = [call EXCEPT ![c] = [pc |-> "incrby", tokens |-> n]]
      BY <2>1, <2>2
    <3>2. PendingCalls' = PendingCalls
      BY <1>4, <3>1, Answered DEF Post
    <3> QED  BY <1>1, <1>4, <3>2, RoomKept DEF Post
  <2>3. CASE ~(n > 0)
    <3>1. PendingCalls' = PendingCalls - 1
      BY <1>4, <2>1, <2>3, Settled DEF Post
    <3> QED  BY <1>1, <1>4, <3>1, RoomKept DEF Post
  <2> QED  BY <2>2, <2>3
<1>5. ASSUME NEW c \in Callers, PostFails(c)  PROVE Room(d)'
  <2>1. PendingCalls' = PendingCalls - 1
    BY <1>5, Settled DEF PostFails
  <2> QED  BY <1>1, <1>5, <2>1, RoomKept DEF PostFails
<1>6. ASSUME NEW c \in Callers, IncrBy(c)  PROVE Room(d)'
  <2>1. PendingCalls' = PendingCalls - 1
    BY <1>6, Settled DEF IncrBy
  <2>2. call[c].tokens \in 0 .. MaxTokens
    BY DEF TypeOK
  <2> QED  BY <1>1, <1>6, <2>1, <2>2, RoomSpent DEF IncrBy
<1>7. ASSUME NEW c \in Callers, Expire(c)  PROVE Room(d)'
  <2>1. PendingCalls' = PendingCalls
    BY <1>7, Expired DEF Expire
  <2> QED  BY <1>1, <1>7, <2>1, RoomKept DEF Expire
<1>8. ASSUME NEW c \in Callers, RecordFails(c)  PROVE Room(d)'
  <2>1. CASE call[c].pc = "expire"
    <3>1. PendingCalls' = PendingCalls
      BY <1>8, <2>1, Expired DEF RecordFails
    <3> QED  BY <1>1, <1>8, <2>1, <3>1, RoomKept DEF RecordFails
  <2>2. CASE call[c].pc = "incrby"
    <3>1. PendingCalls' = PendingCalls - 1
      BY <1>8, <2>2, Settled DEF RecordFails
    <3>2. CASE UNCHANGED used
      BY <1>1, <1>8, <3>1, <3>2, RoomKept DEF RecordFails
    <3>3. CASE used' = [used EXCEPT ![day] = @ + call[c].tokens]
      <4>1. call[c].tokens \in 0 .. MaxTokens
        BY DEF TypeOK
      <4> QED  BY <1>1, <1>8, <3>1, <3>3, <4>1, RoomSpent DEF RecordFails
    <3> QED  BY <1>8, <2>2, <3>2, <3>3 DEF RecordFails
  <2> QED  BY <1>8, <2>1, <2>2 DEF RecordFails
<1>9. CASE Midnight
  <2>1. PendingCalls' = PendingCalls
    BY <1>9, SameCalls DEF Midnight
  <2> QED  BY <1>0, <1>1, <1>9, <2>1, ReservedSum DEF Midnight, Room
<1>10. CASE RedisRecreated
  <2>1. PendingCalls' = PendingCalls
    BY <1>10, SameCalls DEF RedisRecreated
  <2> QED  BY <1>0, <1>10, <2>1, ReservedSum DEF RedisRecreated, Room
<1>11. CASE UNCHANGED vars
  <2>1. PendingCalls' = PendingCalls
    BY <1>11, SameCalls DEF vars
  <2> QED  BY <1>1, <1>11, <2>1, RoomKept DEF vars
<1> QED  BY <1>2, <1>3, <1>4, <1>5, <1>6, <1>7, <1>8, <1>9, <1>10, <1>11 DEF Next

\* The counter of a day passes the budget by less than one call of every caller and
\* one of each check that failed open ("a small overshoot", budget.py:3-5): a check
\* and its record are two steps, and what the calls between them will record is
\* already accounted for.
THEOREM CounterReserved == Spec => []Reserved
<1>1. Init => Reserved
  <2> SUFFICES ASSUME Init, Budget > 0, NEW d \in Days  PROVE Room(d)
    BY DEF Reserved, Room, PendingCalls
  <2>1. Pending = {}
    BY DEF Init, Pending, Idle
  <2>2. PendingCalls = 0
    BY <2>1, FS_EmptySet DEF PendingCalls
  <2>3. TypeOK
    BY BudgetAssumption, IdleIsCall DEF Init, TypeOK, Days, Calls
  <2> QED  BY <2>2, <2>3, ReservedSum, BudgetAssumption DEF Init, Room, Days
<1>2. TypeOK /\ Reserved /\ [Next]_vars => Reserved'
  BY ReservedStep
<1> QED  BY <1>1, <1>2, TokenBudgetTypeCorrect, PTL DEF Spec

-----------------------------------------------------------------------------
(* The spend.                                                                *)

\* The products of Charged and Bound, taken apart.
LEMMA ChargedSum ==
  ASSUME TypeOK, Budget > 0, NEW f \in 0 .. failOpens
  PROVE  /\ Allowance \in Nat /\ Cardinality(Callers) * MaxTokens <= Allowance
         /\ resets * Allowance \in Nat
         /\ (resets + 1) * Allowance = resets * Allowance + Allowance
         /\ (resets + 1 + 1) * Allowance = (resets + 1) * Allowance + Allowance
         /\ f * MaxTokens \in Nat
         /\ (f + 1) * MaxTokens = f * MaxTokens + MaxTokens
         /\ (unrecorded + (failOpens - f)) * MaxTokens \in Nat
         /\ (failOpens + unrecorded) * MaxTokens
              = (unrecorded + (failOpens - f)) * MaxTokens + f * MaxTokens
         /\ (unrecorded + 1 + (failOpens - f)) * MaxTokens
              = (unrecorded + (failOpens - f)) * MaxTokens + MaxTokens
         /\ (failOpens + 1 + unrecorded) * MaxTokens
              = (failOpens + unrecorded) * MaxTokens + MaxTokens
         /\ (failOpens + (unrecorded + 1)) * MaxTokens
              = (failOpens + unrecorded) * MaxTokens + MaxTokens
<1>1. /\ MaxTokens \in Nat /\ Budget \in Nat /\ failOpens \in Nat /\ unrecorded \in Nat
      /\ resets \in Nat /\ f \in Nat /\ f <= failOpens /\ Cardinality(Callers) \in Nat
  BY BudgetAssumption, CountsTyped DEF TypeOK
<1>2. Cardinality(Callers) * MaxTokens \in Nat
  BY <1>1, Times
<1>3. Allowance \in Nat /\ Cardinality(Callers) * MaxTokens <= Allowance
  BY <1>1, <1>2 DEF Allowance
<1>4. /\ resets * Allowance \in Nat
      /\ (resets + 1) * Allowance = resets * Allowance + Allowance
      /\ (resets + 1 + 1) * Allowance = (resets + 1) * Allowance + Allowance
  BY <1>1, <1>3, Times
<1> DEFINE e == unrecorded + (failOpens - f)
<1>5. e \in Nat
  BY <1>1
<1>6. /\ f * MaxTokens \in Nat
      /\ (f + 1) * MaxTokens = f * MaxTokens + MaxTokens
      /\ e * MaxTokens \in Nat
      /\ (e + f) * MaxTokens = e * MaxTokens + f * MaxTokens
      /\ (e + 1) * MaxTokens = e * MaxTokens + MaxTokens
      /\ (failOpens + unrecorded + 1) * MaxTokens
           = (failOpens + unrecorded) * MaxTokens + MaxTokens
  <2> HIDE DEF e
  <2>1. failOpens + unrecorded \in Nat
    BY <1>1
  <2> QED  BY <1>1, <1>5, <2>1, Times
<1>7. /\ e + f = failOpens + unrecorded
      /\ e + 1 = unrecorded + 1 + (failOpens - f)
      /\ failOpens + unrecorded + 1 = failOpens + 1 + unrecorded
      /\ failOpens + unrecorded + 1 = failOpens + (unrecorded + 1)
  BY <1>1
<1> QED  BY <1>3, <1>4, <1>6, <1>7

\* What the provider may have counted is a number.
LEMMA BoundIsNat ==
  ASSUME TypeOK, Budget > 0
  PROVE  Bound \in Nat
<1>1. 0 \in 0 .. failOpens
  BY DEF TypeOK
<1> QED  BY <1>1, ChargedSum DEF Bound

\* What the provider may have counted does not shrink.
LEMMA BoundGrows ==
  ASSUME TypeOK, Budget > 0, resets' \in {resets, resets + 1},
         \/ failOpens' \in {failOpens, failOpens + 1} /\ unrecorded' = unrecorded
         \/ failOpens' = failOpens /\ unrecorded' = unrecorded + 1
  PROVE  Bound \in Nat /\ Bound' \in Nat /\ Bound <= Bound'
<1>1. 0 \in 0 .. failOpens /\ MaxTokens \in Nat
  BY BudgetAssumption DEF TypeOK
<1>2. Allowance' = Allowance
  BY DEF Allowance
<1> QED  BY <1>1, <1>2, ChargedSum DEF Bound

\* A day that is charged is a day that is bounded.
LEMMA ChargedBounded ==
  ASSUME TypeOK, Budget > 0, NEW f \in 0 .. failOpens, Charged(f)
  PROVE  spent[day] <= Bound
<1>1. spent[day] \in Nat /\ used[day] \in Nat
  BY DEF TypeOK
<1> QED  BY <1>1, ChargedSum, CountsTyped, ReservedSum DEF Charged, Bound

\* A step of today leaves the days before, and those to come.
LEMMA SameDay ==
  ASSUME TypeOK, SpendInv, Budget > 0, day' = day, Bound \in Nat, Bound' \in Nat, Bound <= Bound',
         \A d \in Days : d # day => spent'[d] = spent[d] /\ used'[d] \in {used[d], 0},
         \E f \in 0 .. failOpens' : Charged(f)'
  PROVE  SpendInv'
<1>1. \A d \in Days : d \in Int /\ spent[d] \in Nat
  BY BudgetAssumption DEF TypeOK, Days
<1>2. day \in Int
  BY <1>1 DEF TypeOK
<1> QED  BY <1>1, <1>2 DEF SpendInv, Days

\* No step breaks the invariant of the meter.
LEMMA SpendStep ==
  ASSUME TypeOK, SpendInv, [Next]_vars
  PROVE  SpendInv'
<1> SUFFICES ASSUME Budget > 0  PROVE SpendInv'
  BY DEF SpendInv
<1>0. /\ MaxTokens \in Nat /\ Budget \in Nat
      /\ day \in Days /\ used[day] \in Nat /\ spent[day] \in Nat
      /\ PendingCalls \in Nat /\ OwedTokens \in Nat /\ failOpens \in Nat
  BY BudgetAssumption, CountsTyped DEF TypeOK
<1>1. PICK f \in 0 .. failOpens : Charged(f)
  BY DEF SpendInv
<1> DEFINE lost == (unrecorded + (failOpens - f)) * MaxTokens
           gone == resets * Allowance
<1>2. /\ used[day] + PendingCalls * MaxTokens <= Allowance + f * MaxTokens
      /\ spent[day] <= used[day] + OwedTokens + gone + lost
      /\ gone \in Nat /\ lost \in Nat /\ Allowance \in Nat /\ f * MaxTokens \in Nat
  BY <1>1, ChargedSum DEF Charged
<1>3. /\ PendingCalls * MaxTokens \in Nat
      /\ PendingCalls * MaxTokens <= Cardinality(Callers) * MaxTokens
      /\ (PendingCalls + 1) * MaxTokens = PendingCalls * MaxTokens + MaxTokens
      /\ (PendingCalls - 1) * MaxTokens = PendingCalls * MaxTokens - MaxTokens
      /\ Cardinality(Callers) * MaxTokens \in Nat
      /\ Cardinality(Callers) * MaxTokens <= Allowance
  BY <1>1, ReservedSum, ChargedSum
\* All that follows of a step that moves no day and loses no counter.
<1>4. ASSUME UNCHANGED <<day, resets>>,
             \/ failOpens' \in {failOpens, failOpens + 1} /\ unrecorded' = unrecorded
             \/ failOpens' = failOpens /\ unrecorded' = unrecorded + 1,
             \A d \in Days : d # day => spent'[d] = spent[d] /\ used'[d] = used[d],
             \E g \in 0 .. failOpens' : Charged(g)'
      PROVE  SpendInv'
  BY <1>4, BoundGrows, SameDay
<1>5. Allowance' = Allowance
  BY DEF Allowance
<1>6. ASSUME NEW c \in Callers, Check(c)  PROVE SpendInv'
  <2>1. /\ PendingCalls' = PendingCalls + 1 /\ PendingCalls + 1 <= Cardinality(Callers)
        /\ OwedTokens' = OwedTokens
    BY <1>6, LetThrough DEF Check
  <2>2. used[day] <= Budget - 1
    BY <1>0, <1>6 DEF Check
  <2>3. (PendingCalls + 1) * MaxTokens <= Cardinality(Callers) * MaxTokens
    BY <1>0, <2>1, CountsTyped, Times
  <2>4. used[day] + (PendingCalls + 1) * MaxTokens <= Allowance
    BY <1>0, <1>3, <2>2, <2>3 DEF Allowance
  <2>5. Charged(f)'
    BY <1>0, <1>2, <1>3, <1>5, <1>6, <2>1, <2>4 DEF Charged, Check
  <2> QED  BY <1>4, <1>6, <2>5 DEF Check
<1>7. ASSUME NEW c \in Callers, CheckFails(c)  PROVE SpendInv'
  <2>1. PendingCalls' = PendingCalls + 1 /\ OwedTokens' = OwedTokens
    BY <1>7, LetThrough DEF CheckFails
  <2>2. (f + 1) * MaxTokens = f * MaxTokens + MaxTokens
    BY <1>1, ChargedSum
  <2>3. failOpens' - (f + 1) = failOpens - f
    BY <1>0, <1>7 DEF CheckFails
  <2>4. Charged(f + 1)'
    BY <1>0, <1>2, <1>3, <1>5, <1>7, <2>1, <2>2, <2>3 DEF Charged, CheckFails
  <2>5. f + 1 \in 0 .. failOpens'
    BY <1>0, <1>7 DEF CheckFails
  <2> QED  BY <1>4, <1>7, <2>4, <2>5 DEF CheckFails
<1>8. ASSUME NEW c \in Callers, Post(c)  PROVE SpendInv'
  <2>1. PICK n \in 0 .. MaxTokens :
          /\ spent' = [spent EXCEPT ![day] = @ + n]
          /\ call' = [call EXCEPT ![c] = IF n > 0 THEN [pc |-> "incrby", tokens |-> n] ELSE Idle]
    BY <1>8 DEF Post
  <2>2. /\ spent'[day] = spent[day] + n /\ n \in Nat
        /\ \A d \in Days : d # day => spent'[d] = spent[d]
    BY <1>0, <2>1 DEF TypeOK
  <2>3. /\ OwedTokens' = OwedTokens + n
        /\ PendingCalls' \in {PendingCalls, PendingCalls - 1}
    <3>1. CASE n > 0
      <4>1. n \in 1 .. MaxTokens /\ call' = [call EXCEPT ![c] = [pc |-> "incrby", tokens |-> n]]
        BY <2>1, <3>1
      <4> QED  BY <1>8, <4>1, Answered DEF Post
    <3>2. CASE n = 0
      <4>1. call' = [call EXCEPT ![c] = Idle]
        BY <2>1, <3>2
      <4>2. PendingCalls' = PendingCalls - 1 /\ OwedTokens' = OwedTokens
        BY <1>8, <4>1, Settled DEF Post
      <4> QED  BY <1>0, <3>2, <4>2
    <3> QED  BY <2>2, <3>1, <3>2
  <2>4. /\ PendingCalls' * MaxTokens <= PendingCalls * MaxTokens
        /\ PendingCalls' * MaxTokens \in Int
    <3>1. CASE PendingCalls' = PendingCalls
      BY <1>3, <3>1
    <3>2. CASE PendingCalls' = PendingCalls - 1
      BY <1>0, <1>3, <3>2
    <3> QED  BY <2>3, <3>1, <3>2
  <2>5. Charged(f)'
    BY <1>0, <1>2, <1>3, <1>5, <1>8, <2>2, <2>3, <2>4 DEF Charged, Post
  <2> QED  BY <1>4, <1>8, <2>2, <2>5 DEF Post
<1>9. ASSUME NEW c \in Callers, PostFails(c)  PROVE SpendInv'
  <2>1. PICK n \in 0 .. MaxTokens : spent' = [spent EXCEPT ![day] = @ + n]
    BY <1>9 DEF PostFails
  <2>2. /\ spent'[day] = spent[day] + n /\ n \in Nat /\ n <= MaxTokens
        /\ \A d \in Days : d # day => spent'[d] = spent[d]
    BY <1>0, <2>1 DEF TypeOK
  <2>3. PendingCalls' = PendingCalls - 1 /\ OwedTokens' = OwedTokens
    BY <1>9, Settled DEF PostFails
  <2>4. (unrecorded' + (failOpens' - f)) * MaxTokens = lost + MaxTokens
    BY <1>1, <1>9, ChargedSum DEF PostFails
  <2>5. Charged(f)'
    BY <1>0, <1>2, <1>3, <1>5, <1>9, <2>2, <2>3, <2>4 DEF Charged, PostFails
  <2> QED  BY <1>4, <1>9, <2>2, <2>5 DEF PostFails
\* The tokens of a call reach the counter.
<1>10. ASSUME NEW c \in Callers, call[c].pc = "incrby",
              PendingCalls' = PendingCalls - 1, OwedTokens' = OwedTokens - call[c].tokens,
              used' = [used EXCEPT ![day] = @ + call[c].tokens],
              UNCHANGED <<day, spent, failOpens, unrecorded, resets>>
       PROVE  SpendInv'
  <2> DEFINE n == call[c].tokens
  <2>1. n \in Nat /\ n <= MaxTokens
    BY <1>0 DEF TypeOK
  <2>2. /\ used'[day] = used[day] + n
        /\ \A d \in Days : d # day => used'[d] = used[d]
    BY <1>0, <1>10 DEF TypeOK
  <2>3. Charged(f)'
    <3>1. OwedTokens' = OwedTokens - n
      BY <1>10
    <3> HIDE DEF n
    <3> QED  BY <1>0, <1>2, <1>3, <1>5, <1>10, <2>1, <2>2, <3>1 DEF Charged
  <2> QED  BY <1>4, <1>10, <2>2, <2>3
<1>11. ASSUME NEW c \in Callers, IncrBy(c)  PROVE SpendInv'
  <2>1. PendingCalls' = PendingCalls - 1 /\ OwedTokens' = OwedTokens - call[c].tokens
    BY <1>11, Settled DEF IncrBy
  <2> QED  BY <1>10, <1>11, <2>1 DEF IncrBy
\* Nothing that is counted changes.
<1>12. ASSUME PendingCalls' = PendingCalls, OwedTokens' = OwedTokens,
              UNCHANGED <<day, used, spent, failOpens, unrecorded, resets>>
       PROVE  SpendInv'
  <2>1. Charged(f)'
    BY <1>1, <1>5, <1>12 DEF Charged
  <2> QED  BY <1>4, <1>12, <2>1
<1>13. ASSUME NEW c \in Callers, Expire(c)  PROVE SpendInv'
  <2>1. PendingCalls' = PendingCalls /\ OwedTokens' = OwedTokens
    BY <1>13, Expired DEF Expire
  <2> QED  BY <1>12, <1>13, <2>1 DEF Expire
<1>14. ASSUME NEW c \in Callers, RecordFails(c)  PROVE SpendInv'
  <2>1. CASE call[c].pc = "expire"
    <3>1. PendingCalls' = PendingCalls /\ OwedTokens' = OwedTokens
      BY <1>14, <2>1, Expired DEF RecordFails
    <3> QED  BY <1>12, <1>14, <2>1, <3>1 DEF RecordFails
  <2>2. CASE call[c].pc = "incrby"
    <3>1. PendingCalls' = PendingCalls - 1 /\ OwedTokens' = OwedTokens - call[c].tokens
      BY <1>14, <2>2, Settled DEF RecordFails
    <3>2. CASE unrecorded' = unrecorded + 1 /\ UNCHANGED used
      <4>1. (unrecorded' + (failOpens' - f)) * MaxTokens = lost + MaxTokens
        BY <1>1, <1>14, <3>2, ChargedSum DEF RecordFails
      <4>2. call[c].tokens \in Nat /\ call[c].tokens <= MaxTokens
        BY <1>0 DEF TypeOK
      <4>3. Charged(f)'
        BY <1>0, <1>2, <1>3, <1>5, <1>14, <3>1, <3>2, <4>1, <4>2 DEF Charged, RecordFails
      <4> QED  BY <1>4, <1>14, <3>2, <4>3 DEF RecordFails
    <3>3. CASE used' = [used EXCEPT ![day] = @ + call[c].tokens] /\ UNCHANGED unrecorded
      BY <1>10, <1>14, <2>2, <3>1, <3>3 DEF RecordFails
    <3> QED  BY <1>14, <2>2, <3>2, <3>3 DEF RecordFails
  <2> QED  BY <1>14, <2>1, <2>2 DEF RecordFails
\* A fresh counter, with what is pending reserved in it.
<1>15. /\ 0 \in 0 .. failOpens
       /\ 0 * MaxTokens = 0
       /\ (unrecorded + (failOpens - 0)) * MaxTokens = lost + f * MaxTokens
  <2>1. unrecorded + (failOpens - 0) = failOpens + unrecorded
    BY <1>0 DEF TypeOK
  <2> QED  BY <1>0, <1>1, <2>1, ChargedSum
<1>16. CASE Midnight
  <2>1. PendingCalls' = PendingCalls /\ OwedTokens' = OwedTokens
    BY <1>16, SameCalls DEF Midnight
  <2>2. /\ day' \in Days /\ day' > day /\ day \in Int /\ day' \in Int
        /\ \A d \in Days : d \in Int /\ (d < day' <=> d < day \/ d = day)
    BY <1>0, <1>16, BudgetAssumption DEF Midnight, Days
  <2>3. used[day'] = 0 /\ spent[day'] = 0
    BY <2>2 DEF SpendInv
  <2>4. Charged(0)'
    BY <1>0, <1>2, <1>3, <1>5, <1>15, <1>16, <2>1, <2>3 DEF Charged, Midnight
  <2>5. Bound' = Bound
    BY <1>16 DEF Bound, Allowance, Midnight
  <2>6. spent[day] <= Bound
    BY <1>1, ChargedBounded
  <2>7. \A d \in Days : d < day' => spent'[d] <= Bound'
    BY <1>16, <2>2, <2>5, <2>6 DEF SpendInv, Midnight
  <2>8. \A d \in Days : d > day' => used'[d] = 0 /\ spent'[d] = 0
    BY <1>16, <2>2 DEF SpendInv, Midnight
  <2>9. \E g \in 0 .. failOpens' : Charged(g)'
    BY <1>15, <1>16, <2>4 DEF Midnight
  <2> QED  BY <2>7, <2>8, <2>9 DEF SpendInv, Days
<1>17. CASE RedisRecreated
  <2>1. PendingCalls' = PendingCalls /\ OwedTokens' = OwedTokens
    BY <1>17, SameCalls DEF RedisRecreated
  <2>2. (resets + 1) * Allowance = gone + Allowance
    BY <1>1, ChargedSum
  <2>3. used' = [d \in Days |-> 0]
    BY <1>17 DEF RedisRecreated
  <2>4. Charged(0)'
    BY <1>0, <1>2, <1>3, <1>5, <1>15, <1>17, <2>1, <2>2, <2>3 DEF Charged, RedisRecreated
  <2>5. Bound \in Nat /\ Bound' \in Nat /\ Bound <= Bound'
    BY <1>17, BoundGrows DEF RedisRecreated
  <2>6. \E g \in 0 .. failOpens' : Charged(g)'
    BY <1>15, <1>17, <2>4 DEF RedisRecreated
  <2>7. day' = day /\ \A d \in Days : spent'[d] = spent[d] /\ used'[d] = 0
    BY <1>17, <2>3 DEF RedisRecreated
  <2> QED  BY <2>5, <2>6, <2>7, SameDay
<1>18. CASE UNCHANGED vars
  <2>1. PendingCalls' = PendingCalls /\ OwedTokens' = OwedTokens
    BY <1>18, SameCalls DEF vars
  <2> QED  BY <1>12, <1>18, <2>1 DEF vars
<1> QED  BY <1>6, <1>7, <1>8, <1>9, <1>11, <1>13, <1>14, <1>16, <1>17, <1>18 DEF Next

\* The invariant bounds the meter: today by what is charged, earlier days by what was
\* charged when they ended.
LEMMA SpendInvBounds ==
  ASSUME TypeOK, SpendInv
  PROVE  SpendBound
<1> SUFFICES ASSUME Budget > 0, NEW d \in Days  PROVE spent[d] <= Bound
  BY DEF SpendBound, Bound, Allowance
<1>1. d \in Int /\ day \in Int
  BY BudgetAssumption DEF TypeOK, Days
<1>2. CASE d < day
  BY <1>2 DEF SpendInv
<1>3. CASE d = day
  BY <1>3, ChargedBounded DEF SpendInv
<1>4. CASE d > day
  <2>1. Bound \in Nat
    BY BoundIsNat
  <2> QED  BY <1>4, <2>1 DEF SpendInv
<1> QED  BY <1>1, <1>2, <1>3, <1>4

\* TOGETHER_DAILY_TOKEN_BUDGET bounds the spend, and not only the counter that
\* check_budget() reads: whatever fails open, is never recorded, is recorded a day
\* late or goes with Redis' memory, what the provider counts in a day stays within
\* the budget, a call of each caller, and what those events can take.
THEOREM SpendBounded == Spec => []SpendBound
<1>1. Init => SpendInv
  <2> SUFFICES ASSUME Init, Budget > 0  PROVE SpendInv
    BY DEF SpendInv
  <2>1. TypeOK
    BY BudgetAssumption, IdleIsCall DEF Init, TypeOK, Days, Calls
  <2>2. Pending = {} /\ Owed = {}
    BY DEF Init, Pending, Owed, Idle
  <2>3. PendingCalls = 0 /\ OwedTokens = 0
    BY <2>2, FS_EmptySet DEF PendingCalls, OwedTokens
  <2>4. 0 \in 0 .. failOpens /\ day \in Days /\ MaxTokens \in Nat
    BY <2>1, BudgetAssumption DEF TypeOK
  <2>5. used[day] = 0 /\ spent[day] = 0
    BY <2>4 DEF Init
  <2>6. Charged(0)
    BY <2>1, <2>3, <2>4, <2>5, ChargedSum DEF Charged
  <2> QED  BY <2>4, <2>6, BudgetAssumption DEF SpendInv, Init, Days
<1>2. TypeOK /\ SpendInv /\ [Next]_vars => SpendInv'
  BY SpendStep
<1>3. TypeOK /\ SpendInv => SpendBound
  BY SpendInvBounds
<1> QED  BY <1>1, <1>2, <1>3, TokenBudgetTypeCorrect, PTL DEF Spec
=============================================================================
