---------------------------- MODULE TokenBudget ----------------------------
(***************************************************************************)
(* The daily token budget: backend/llm/budget.py around the LLM calls of   *)
(* backend/llm/together.py (_chat).  A caller is a task that makes one LLM *)
(* call after another; callers of all processes share the counters, one    *)
(* Redis key a UTC day.  The provider's own meter (spent) is external: the *)
(* code never sees it, and it is what the budget is meant to bound.        *)
(***************************************************************************)
EXTENDS Naturals, FiniteSets

CONSTANTS Callers,
          Budget,           \* TOGETHER_DAILY_TOKEN_BUDGET; 0: unlimited
          MaxTokens,        \* bound: tokens of one call (prompt and max_tokens)
          LastDay,          \* bound: days 0 .. LastDay
          MaxRedisErrors,   \* bound: failing Redis commands
          MaxPostErrors,    \* bound: failing LLM calls
          MaxResets         \* bound: times Redis loses the counters

ASSUME BudgetAssumption ==
  /\ IsFiniteSet(Callers)
  /\ {Budget, MaxTokens, LastDay, MaxRedisErrors, MaxPostErrors, MaxResets} \subseteq Nat

VARIABLES day,          \* the UTC date
          used,         \* the counter of each day
          ttl,          \* days whose key has an expiry
          call,         \* the LLM call each caller is in
          spent,        \* tokens the provider counted, a day
          failOpens,    \* checks that Redis failed, and so allowed
          unrecorded,   \* calls whose tokens were spent and not recorded
          redisErrors, postErrors,
          resets        \* times the counters were lost

vars == <<day, used, ttl, call, spent, failOpens, unrecorded, redisErrors, postErrors, resets>>

Days == 0 .. LastDay

TypeOK ==
  /\ day \in Days
  /\ used \in [Days -> Nat]
  /\ ttl \in SUBSET Days
  /\ call \in [Callers -> [pc : {"idle", "post", "incrby", "expire"}, tokens : 0 .. MaxTokens]]
  /\ spent \in [Days -> Nat]
  /\ failOpens \in Nat
  /\ unrecorded \in Nat
  /\ redisErrors \in Nat
  /\ postErrors \in Nat
  /\ resets \in Nat

Idle == [pc |-> "idle", tokens |-> 0]

Init ==
  /\ day = 0
  /\ used = [d \in Days |-> 0]
  /\ ttl = {}
  /\ call = [c \in Callers |-> Idle]
  /\ spent = [d \in Days |-> 0]
  /\ failOpens = 0
  /\ unrecorded = 0
  /\ redisErrors = 0
  /\ postErrors = 0
  /\ resets = 0

\* Mutant: the budget is passed by one token.
Check_Inclusive(c) ==
  /\ call[c].pc = "idle"
  /\ Budget > 0 => used[day] <= Budget
  /\ call' = [call EXCEPT ![c].pc = "post"]
  /\ UNCHANGED <<day, used, ttl, spent, failOpens, unrecorded, redisErrors, postErrors, resets>>

\* check_budget() lets the call go on; otherwise it raises BudgetExceeded and
\* the caller does not call.
Check(c) ==
  /\ call[c].pc = "idle"
  /\ Budget > 0 => used[day] < Budget
  /\ call' = [call EXCEPT ![c].pc = "post"]
  /\ UNCHANGED <<day, used, ttl, spent, failOpens, unrecorded, redisErrors, postErrors, resets>>

\* "fail open on Redis trouble"
CheckFails(c) ==
  /\ call[c].pc = "idle"
  /\ Budget > 0
  /\ redisErrors < MaxRedisErrors
  /\ redisErrors' = redisErrors + 1
  /\ failOpens' = failOpens + 1
  /\ call' = [call EXCEPT ![c].pc = "post"]
  /\ UNCHANGED <<day, used, ttl, spent, unrecorded, postErrors, resets>>

\* Mutant: one token of each call (its prompt, say) is not counted.
Post_Undercounts(c) ==
  /\ call[c].pc = "post"
  /\ \E n \in 1 .. MaxTokens :
       /\ spent' = [spent EXCEPT ![day] = @ + n]
       /\ call' = [call EXCEPT ![c] = IF n > 1 THEN [pc |-> "incrby", tokens |-> n - 1] ELSE Idle]
  /\ UNCHANGED <<day, used, ttl, failOpens, unrecorded, redisErrors, postErrors, resets>>

\* The provider answers; record_usage() does nothing for 0 tokens.
Post(c) ==
  /\ call[c].pc = "post"
  /\ \E n \in 0 .. MaxTokens :
       /\ spent' = [spent EXCEPT ![day] = @ + n]
       /\ call' = [call EXCEPT ![c] = IF n > 0 THEN [pc |-> "incrby", tokens |-> n] ELSE Idle]
  /\ UNCHANGED <<day, used, ttl, failOpens, unrecorded, redisErrors, postErrors, resets>>

\* An error status, a time-out after 180 s, an answer that is not JSON: the tokens
\* may have been spent, and nothing is recorded.
PostFails(c) ==
  /\ call[c].pc = "post"
  /\ postErrors < MaxPostErrors
  /\ postErrors' = postErrors + 1
  /\ unrecorded' = unrecorded + 1
  /\ \E n \in 0 .. MaxTokens : spent' = [spent EXCEPT ![day] = @ + n]
  /\ call' = [call EXCEPT ![c] = Idle]
  /\ UNCHANGED <<day, used, ttl, failOpens, redisErrors, resets>>

\* INCRBY of the key of the day it is by now, ...
IncrBy(c) ==
  /\ call[c].pc = "incrby"
  /\ used' = [used EXCEPT ![day] = @ + call[c].tokens]
  /\ call' = [call EXCEPT ![c] = [pc |-> "expire", tokens |-> 0]]
  /\ UNCHANGED <<day, ttl, spent, failOpens, unrecorded, redisErrors, postErrors, resets>>

\* ... then EXPIRE of the key of the day it is by then, if there is such a key.
Expire(c) ==
  /\ call[c].pc = "expire"
  /\ ttl' = IF used[day] > 0 THEN ttl \cup {day} ELSE ttl
  /\ call' = [call EXCEPT ![c] = Idle]
  /\ UNCHANGED <<day, used, spent, failOpens, unrecorded, redisErrors, postErrors, resets>>

\* "LLM budget record failed": the INCRBY is lost, or applied all the same, and
\* the EXPIRE after it is not sent; or the EXPIRE is lost.
RecordFails(c) ==
  /\ call[c].pc \in {"incrby", "expire"}
  /\ redisErrors < MaxRedisErrors
  /\ redisErrors' = redisErrors + 1
  /\ \/ call[c].pc = "incrby" /\ unrecorded' = unrecorded + 1 /\ UNCHANGED used
     \/ /\ call[c].pc = "incrby"
        /\ used' = [used EXCEPT ![day] = @ + call[c].tokens]
        /\ UNCHANGED unrecorded
     \/ call[c].pc = "expire" /\ UNCHANGED <<used, unrecorded>>
  /\ call' = [call EXCEPT ![c] = Idle]
  /\ UNCHANGED <<day, ttl, spent, failOpens, postErrors, resets>>

Midnight ==
  /\ day < LastDay
  /\ day' = day + 1
  /\ UNCHANGED <<used, ttl, call, spent, failOpens, unrecorded, redisErrors, postErrors, resets>>

\* The Redis container is recreated: it has no volume, so the counters are gone.
RedisRecreated ==
  /\ resets < MaxResets
  /\ \E d \in Days : used[d] > 0
  /\ resets' = resets + 1
  /\ used' = [d \in Days |-> 0]
  /\ ttl' = {}
  /\ UNCHANGED <<day, call, spent, failOpens, unrecorded, redisErrors, postErrors>>

Next ==
  \/ \E c \in Callers :
       \/ Check(c) \/ CheckFails(c)
       \/ Post(c) \/ PostFails(c)
       \/ IncrBy(c) \/ Expire(c) \/ RecordFails(c)
  \/ Midnight
  \/ RedisRecreated

Spec == Init /\ [][Next]_vars

-----------------------------------------------------------------------------
\* Calls that were let through and are not recorded yet.
Pending == {c \in Callers : call[c].pc \in {"post", "incrby"}}

\* The counter of a day passes the budget by less than one call of every caller and
\* one of every check that failed open (budget.py:3-5: "a small overshoot"): what is
\* pending is reserved in the counter of today.  The inductive form.
Reserved ==
  Budget > 0 =>
    \A d \in Days :
      /\ d < day => used[d] <= (Budget - 1) + (Cardinality(Callers) + failOpens) * MaxTokens
      /\ d = day => used[d] + Cardinality(Pending) * MaxTokens
                      <= (Budget - 1) + (Cardinality(Callers) + failOpens) * MaxTokens
      /\ d > day => used[d] = 0

\* The spend cap bounds the spend, not only its own counter: what the provider
\* really counts in a day passes the budget by no more, but for the calls nobody
\* recorded, and each loss of the counters grants the budget once more.
SpendBound ==
  Budget > 0 =>
    \A d \in Days :
      spent[d] <= (resets + 1) * ((Budget - 1) + Cardinality(Callers) * MaxTokens)
                    + (failOpens + unrecorded) * MaxTokens
=============================================================================
