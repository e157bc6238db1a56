----------------------------- MODULE RateLimiter -----------------------------
(***************************************************************************)
(* The rate limiter: fixed windows counted by Redis for all instances of   *)
(* the program, and by each instance in its own memory while Redis fails.  *)
(*                                                                         *)
(* A request that reaches Redis waits for two answers, that of INCR and,   *)
(* if the counter was new, that of EXPIRE; whatever an instance does       *)
(* without waiting is one step.  Redis may be down, restart empty, or do   *)
(* what it was told and lose the answer, after which the client gives up   *)
(* or sends the command again.  Instances may be restarted.                *)
(*                                                                         *)
(* All keys are of one tier, so that they have the same limit and window   *)
(* and the oldest bucket is the one that ends first.  Counters above the   *)
(* limit are alike.  Left out: the response headers, logging, and the      *)
(* failure of both backends, as the memory does not fail.                  *)
(***************************************************************************)
EXTENDS Naturals, FiniteSets

CONSTANTS
  Instance,
  Request, InstanceOf,   \* requests in progress, and the instances they are at
  Key,                   \* clients, by address or identity
  Limit, Window,         \* of the tier; a window is measured in ticks
  MinimumTtl,            \* rateLimitFallbackMemoryTtlSeconds
  MaxEntries,            \* rateLimitFallbackMemoryMaxEntries
  Cooldown,              \* rateLimitFallbackProbeCooldownMs
  Observed,              \* bound: the counters whose grants are counted
  MaxFaults              \* bound: outages, lost answers, failures, restarts

ASSUME InstanceAssumption == "redis" \notin Instance
ASSUME InstanceOfAssumption == InstanceOf \in [Request -> Instance]
ASSUME KeyAssumption == IsFiniteSet(Key)
ASSUME TierAssumption ==
  Limit \in Nat \ {0} /\ Window \in Nat \ {0} /\ MinimumTtl \in Nat
ASSUME MemoryAssumption == MaxEntries \in Nat \ {0} /\ Cooldown \in Nat
ASSUME BoundAssumption ==
  MaxFaults \in Nat /\ Observed \subseteq (Instance \cup {"redis"}) \X Key

VARIABLES
  driver,     \* configuration: RATE_LIMIT_DRIVER and whether fallback is enabled
  redis,      \* "up" or "down"
  counter,    \* counter[k]: of the key in Redis, 0 if there is none
  ttl,        \* ttl[k]: its ticks to live, 0 if it has none
  mode,       \* mode[i]: memory_fallback, or else the primary mode of i
  wait,       \* wait[i]: ticks until nextProbeAt, 0 when it has passed
  probing,    \* probing[i]: probeInProgress
  used, left, \* used[i][k], left[i][k]: the bucket in memory, ended if left is 0
  at,         \* at[r]: idle, or the command whose answer r waits for
  key,        \* key[r]: the key of a request in progress
  probe,      \* probe[r]: whether r is a probe
  age,        \* age[r]: ticks since a probe has read the clock
  watched, slots, seen,   \* history: grants of one counter within one window
  faults

redisVars == <<redis, counter, ttl>>
instanceVars == <<mode, wait, probing>>
memoryVars == <<used, left>>
requestVars == <<at, key, probe, age>>
watchVars == <<watched, slots, seen>>
vars == <<driver, redisVars, instanceVars, memoryVars, requestVars, watchVars, faults>>

Driver == {"memory", "redis", "redis without fallback"}
NoKey == "none"
NoWatch == <<>>

(* effectiveWindowSeconds                                                  *)
MemoryWindow == IF Window >= MinimumTtl THEN Window ELSE MinimumTtl

Held(i) == {k \in Key : left[i][k] > 0}

(* Every variable stays in its range, and no instance remembers more than  *)
(* its limit of grants, or more keys than it has room for.                 *)
TypeOK ==
  /\ driver \in Driver
  /\ redis \in {"up", "down"}
  /\ counter \in [Key -> 0 .. Limit + 1]
  /\ ttl \in [Key -> 0 .. Window]
  /\ mode \in [Instance -> {"primary", "fallback"}]
  /\ wait \in [Instance -> 0 .. Cooldown]
  /\ probing \in [Instance -> BOOLEAN]
  /\ used \in [Instance -> [Key -> 0 .. Limit]]
  /\ left \in [Instance -> [Key -> 0 .. MemoryWindow]]
  /\ \A i \in Instance : Cardinality(Held(i)) <= MaxEntries
  /\ at \in [Request -> {"idle", "incr", "expire"}]
  /\ key \in [Request -> Key \cup {NoKey}]
  /\ probe \in [Request -> BOOLEAN]
  /\ age \in [Request -> 0 .. Cooldown]
  /\ watched \in Observed \cup {NoWatch}
  /\ slots \in 0 .. Window /\ seen \in Nat
  /\ faults \in 0 .. MaxFaults

(* onModuleInit: an instance that finds Redis down starts in fallback.     *)
StartsInFallback == driver = "redis" /\ redis = "down"

Init ==
  /\ driver \in Driver
  /\ redis \in {"up", "down"}
  /\ counter = [k \in Key |-> 0] /\ ttl = [k \in Key |-> 0]
  /\ mode = [i \in Instance |-> IF StartsInFallback THEN "fallback" ELSE "primary"]
  /\ wait = [i \in Instance |-> IF StartsInFallback THEN Cooldown ELSE 0]
  /\ probing = [i \in Instance |-> FALSE]
  /\ used = [i \in Instance |-> [k \in Key |-> 0]]
  /\ left = [i \in Instance |-> [k \in Key |-> 0]]
  /\ at = [r \in Request |-> "idle"]
  /\ key = [r \in Request |-> NoKey]
  /\ probe = [r \in Request |-> FALSE]
  /\ age = [r \in Request |-> 0]
  /\ watched = NoWatch /\ slots = 0 /\ seen = 0
  /\ faults = 0

Fault == faults < MaxFaults /\ faults' = faults + 1

-----------------------------------------------------------------------------
(* What the observer sees: a grant of counter c, or counters forgotten     *)
(* before their time, which ends the observation.                          *)
Observe(c, granted, forgotten) ==
  IF watched \in forgotten
    THEN watched' = NoWatch /\ slots' = 0 /\ seen' = 0
    ELSE /\ seen' = IF granted /\ watched = c THEN seen + 1 ELSE seen
         /\ UNCHANGED <<watched, slots>>

(* The buckets dropped to make room for a new one of k: the oldest, if     *)
(* there is no room.                                                       *)
ensureCapacity(i, k) ==
  IF left[i][k] > 0 \/ Cardinality(Held(i)) < MaxEntries THEN {{}}
  ELSE {{o} : o \in {h \in Held(i) : \A g \in Held(i) : left[i][h] <= left[i][g]}}

(* MUTANT of memoryConsume: one request too many is let in.                *)
memoryConsumeOneMore(i, k) ==
  \E gone \in ensureCapacity(i, k) :
    /\ left' = [left EXCEPT ![i] = [j \in Key |->
         IF j \in gone THEN 0 ELSE IF j = k /\ @[k] = 0 THEN MemoryWindow ELSE @[j]]]
    /\ used' = [used EXCEPT ![i] = [j \in Key |->
         IF j \in gone THEN 0 ELSE IF j = k THEN @[k] + 1 ELSE @[j]]]
    /\ Observe(<<i, k>>, used[i][k] <= Limit, {<<i, j>> : j \in gone})

(* consume of MemoryRateLimiter.                                           *)
memoryConsume(i, k) ==
  \E gone \in ensureCapacity(i, k) :
    /\ left' = [left EXCEPT ![i] = [j \in Key |->
         IF j \in gone THEN 0 ELSE IF j = k /\ @[k] = 0 THEN MemoryWindow ELSE @[j]]]
    /\ used' = [used EXCEPT ![i] = [j \in Key |->
         IF j \in gone THEN 0
         ELSE IF j = k /\ @[k] < Limit THEN @[k] + 1 ELSE @[j]]]
    /\ Observe(<<i, k>>, used[i][k] < Limit, {<<i, j>> : j \in gone})

-----------------------------------------------------------------------------
Send(r, k, isProbe) ==
  /\ at' = [at EXCEPT ![r] = "incr"]
  /\ key' = [key EXCEPT ![r] = k]
  /\ probe' = [probe EXCEPT ![r] = isProbe]
  /\ UNCHANGED age

End(r) ==
  /\ at' = [at EXCEPT ![r] = "idle"]
  /\ key' = [key EXCEPT ![r] = NoKey]
  /\ probe' = [probe EXCEPT ![r] = FALSE]
  /\ age' = [age EXCEPT ![r] = 0]

(* A request arrives.  In fallback it is the probe if the cooldown has     *)
(* passed and there is no probe yet; the others are counted in memory.     *)
consumeInMemory(r, k) ==
  LET i == InstanceOf[r] IN
  /\ at[r] = "idle"
  /\ \/ driver = "memory"
     \/ mode[i] = "fallback" /\ (wait[i] > 0 \/ probing[i])
  /\ memoryConsume(i, k)
  /\ UNCHANGED <<driver, redisVars, instanceVars, requestVars, faults>>

consumeWithRedis(r, k) ==
  /\ at[r] = "idle"
  /\ driver # "memory" /\ mode[InstanceOf[r]] = "primary"
  /\ Send(r, k, FALSE)
  /\ UNCHANGED <<driver, redisVars, instanceVars, memoryVars, watchVars, faults>>

(* MUTANT of tryProbe: a probe in progress does not keep others away.      *)
tryEveryProbe(r, k) ==
  LET i == InstanceOf[r] IN
  /\ at[r] = "idle"
  /\ mode[i] = "fallback" /\ wait[i] = 0
  /\ probing' = [probing EXCEPT ![i] = TRUE]
  /\ Send(r, k, TRUE)
  /\ UNCHANGED <<driver, redisVars, mode, wait, memoryVars, watchVars, faults>>

tryProbe(r, k) ==
  LET i == InstanceOf[r] IN
  /\ at[r] = "idle"
  /\ mode[i] = "fallback" /\ wait[i] = 0 /\ ~ probing[i]
  /\ probing' = [probing EXCEPT ![i] = TRUE]
  /\ Send(r, k, TRUE)
  /\ UNCHANGED <<driver, redisVars, mode, wait, memoryVars, watchVars, faults>>

(* Redis has answered; a probe ends the fallback.                          *)
Answered(r) ==
  LET i == InstanceOf[r] IN
  /\ IF probe[r]
       THEN /\ mode' = [mode EXCEPT ![i] = "primary"]
            /\ wait' = [wait EXCEPT ![i] = 0]
            /\ probing' = [probing EXCEPT ![i] = FALSE]
       ELSE UNCHANGED instanceVars
  /\ End(r)

(* MUTANT of incr: each request starts the window anew.                    *)
incrAndExpire(r) ==
  LET k == key[r]
      count == counter[k] + 1
  IN
  /\ at[r] = "incr" /\ redis = "up"
  /\ counter' = [counter EXCEPT ![k] = IF count <= Limit THEN count ELSE Limit + 1]
  /\ ttl' = [ttl EXCEPT ![k] = Window]
  /\ Answered(r)
  /\ Observe(<<"redis", k>>, count <= Limit, {})
  /\ UNCHANGED <<driver, redis, memoryVars, faults>>

(* INCR, and its answer: a new counter must still be given its TTL.        *)
incr(r) ==
  LET k == key[r]
      count == counter[k] + 1
  IN
  /\ at[r] = "incr" /\ redis = "up"
  /\ counter' = [counter EXCEPT ![k] = IF count <= Limit THEN count ELSE Limit + 1]
  /\ IF count = 1
       THEN /\ at' = [at EXCEPT ![r] = "expire"]
            /\ UNCHANGED <<instanceVars, key, probe, age>>
       ELSE Answered(r)
  /\ Observe(<<"redis", k>>, count <= Limit, {})
  /\ UNCHANGED <<driver, redis, ttl, memoryVars, faults>>

expire(r) ==
  LET k == key[r] IN
  /\ at[r] = "expire" /\ redis = "up"
  /\ ttl' = [ttl EXCEPT ![k] = IF counter[k] > 0 THEN Window ELSE 0]
  /\ Answered(r)
  /\ UNCHANGED <<driver, redis, counter, memoryVars, watchVars, faults>>

CommandFails ==
  \/ redis = "down" /\ UNCHANGED faults
  \/ redis = "up" /\ Fault

(* MUTANT of consumeFailed: a failed probe stays in progress.              *)
consumeFailedProbe(r) ==
  LET i == InstanceOf[r] IN
  /\ at[r] # "idle"
  /\ CommandFails
  /\ IF driver = "redis without fallback"
       THEN UNCHANGED <<instanceVars, memoryVars, watchVars>>
       ELSE /\ IF probe[r]
                 THEN /\ wait' = [wait EXCEPT ![i] = Cooldown - age[r]]
                      /\ UNCHANGED <<mode, probing>>
                 ELSE /\ wait' = [wait EXCEPT ![i] = Cooldown]
                      /\ mode' = [mode EXCEPT ![i] = "fallback"]
                      /\ UNCHANGED probing
            /\ memoryConsume(i, key[r])
  /\ End(r)
  /\ UNCHANGED <<driver, redisVars>>

(* The command has failed: the request is denied, or fallback begins, or   *)
(* goes on until a cooldown has passed from when the probe had read the    *)
(* clock; the request is then counted in memory.                           *)
consumeFailed(r) ==
  LET i == InstanceOf[r] IN
  /\ at[r] # "idle"
  /\ CommandFails
  /\ IF driver = "redis without fallback"
       THEN UNCHANGED <<instanceVars, memoryVars, watchVars>>
       ELSE /\ IF probe[r]
                 THEN /\ wait' = [wait EXCEPT ![i] = Cooldown - age[r]]
                      /\ probing' = [probing EXCEPT ![i] = FALSE]
                      /\ UNCHANGED mode
                 ELSE /\ wait' = [wait EXCEPT ![i] = Cooldown]
                      /\ mode' = [mode EXCEPT ![i] = "fallback"]
                      /\ UNCHANGED probing
            /\ memoryConsume(i, key[r])
  /\ End(r)
  /\ UNCHANGED <<driver, redisVars>>

-----------------------------------------------------------------------------
(* Redis does what it is told, but the answer is lost: the command is sent *)
(* again or fails.                                                         *)
AnswerLost(r) ==
  LET k == key[r] IN
  /\ at[r] # "idle" /\ redis = "up"
  /\ Fault
  /\ IF at[r] = "incr"
       THEN /\ counter' = [counter EXCEPT ![k] = IF @ < Limit THEN @ + 1 ELSE Limit + 1]
            /\ UNCHANGED ttl
       ELSE /\ ttl' = [ttl EXCEPT ![k] = IF counter[k] > 0 THEN Window ELSE 0]
            /\ UNCHANGED counter
  /\ UNCHANGED <<driver, redis, instanceVars, memoryVars, requestVars, watchVars>>

RedisGoesDown ==
  /\ redis = "up"
  /\ Fault
  /\ redis' = "down"
  /\ UNCHANGED <<driver, counter, ttl, instanceVars, memoryVars, requestVars, watchVars>>

RedisComesBack ==
  /\ redis = "down" /\ redis' = "up"
  /\ \/ UNCHANGED <<counter, ttl, watchVars>>
     \/ /\ counter' = [k \in Key |-> 0] /\ ttl' = [k \in Key |-> 0]
        /\ Observe(NoWatch, FALSE, {"redis"} \X Key)
  /\ UNCHANGED <<driver, instanceVars, memoryVars, requestVars, faults>>

(* A crash and restart: all the instance had in memory is gone.            *)
Restart(i) ==
  /\ Fault
  /\ mode' = [mode EXCEPT ![i] = IF StartsInFallback THEN "fallback" ELSE "primary"]
  /\ wait' = [wait EXCEPT ![i] = IF StartsInFallback THEN Cooldown ELSE 0]
  /\ probing' = [probing EXCEPT ![i] = FALSE]
  /\ used' = [used EXCEPT ![i] = [k \in Key |-> 0]]
  /\ left' = [left EXCEPT ![i] = [k \in Key |-> 0]]
  /\ at' = [r \in Request |-> IF InstanceOf[r] = i THEN "idle" ELSE at[r]]
  /\ key' = [r \in Request |-> IF InstanceOf[r] = i THEN NoKey ELSE key[r]]
  /\ probe' = [r \in Request |-> probe[r] /\ InstanceOf[r] # i]
  /\ age' = [r \in Request |-> IF InstanceOf[r] = i THEN 0 ELSE age[r]]
  /\ Observe(NoWatch, FALSE, {i} \X Key)
  /\ UNCHANGED <<driver, redisVars>>

Watch(c) ==
  /\ watched = NoWatch
  /\ watched' = c /\ slots' = Window /\ seen' = 0
  /\ UNCHANGED <<driver, redisVars, instanceVars, memoryVars, requestVars, faults>>

Less(n) == IF n > 0 THEN n - 1 ELSE 0

(* Time passes; what has come to its end is gone.                          *)
Tick ==
  /\ ttl' = [k \in Key |-> Less(ttl[k])]
  /\ counter' = [k \in Key |-> IF ttl[k] = 1 THEN 0 ELSE counter[k]]
  /\ left' = [i \in Instance |-> [k \in Key |-> Less(left[i][k])]]
  /\ used' = [i \in Instance |-> [k \in Key |-> IF left[i][k] = 1 THEN 0 ELSE used[i][k]]]
  /\ wait' = [i \in Instance |-> Less(wait[i])]
  /\ age' = [r \in Request |-> IF probe[r] /\ age[r] < Cooldown THEN age[r] + 1 ELSE age[r]]
  /\ slots' = Less(slots)
  /\ IF slots = 1 THEN watched' = NoWatch /\ seen' = 0 ELSE UNCHANGED <<watched, seen>>
  /\ UNCHANGED <<driver, redis, mode, probing, at, key, probe, faults>>

consume(r, k) == consumeInMemory(r, k) \/ consumeWithRedis(r, k) \/ tryProbe(r, k)

Next ==
  \/ \E r \in Request :
       \/ \E k \in Key : consume(r, k)
       \/ incr(r) \/ expire(r) \/ consumeFailed(r) \/ AnswerLost(r)
  \/ RedisGoesDown \/ RedisComesBack
  \/ \E i \in Instance : Restart(i)
  \/ \E c \in Observed : Watch(c)
  \/ Tick

Spec == Init /\ [][Next]_vars

(* Commands are answered or fail, Redis comes back, time passes, and each  *)
(* instance keeps receiving requests.                                      *)
Fairness ==
  /\ \A r \in Request : WF_vars(incr(r) \/ expire(r) \/ consumeFailed(r))
  /\ WF_vars(RedisComesBack)
  /\ WF_vars(Tick)
  /\ \A i \in Instance :
       WF_vars(\E r \in Request, k \in Key : InstanceOf[r] = i /\ consume(r, k))

FairSpec == Spec /\ Fairness

-----------------------------------------------------------------------------
(* "A single probe is allowed at a time": probeInProgress says so exactly  *)
(* while a request waits for the answer to its probe, however the          *)
(* failures of other requests and the recovery interleave with it.         *)
SingleProbe ==
  \A i \in Instance :
    /\ probing[i] <=> \E r \in Request : InstanceOf[r] = i /\ probe[r]
    /\ \A r, s \in Request :
         InstanceOf[r] = i /\ InstanceOf[s] = i /\ probe[r] /\ probe[s] => r = s

(* Within any time as long as a window a counter grants at most twice the  *)
(* limit, whatever the modes of the instances go through, as long as it is *)
(* not evicted or lost in a restart.                                       *)
AtMostTwoWindows == seen <= 2 * Limit

(* A window that has begun to run ends, however many requests keep coming. *)
WindowsEnd == \A k \in Key : ttl[k] > 0 ~> counter[k] = 0

(* "Restore distributed enforcement when Redis is healthy again."          *)
FallbackEnds == \A i \in Instance : mode[i] = "fallback" ~> mode[i] = "primary"

(* "Counter auto-expires when TTL elapses."                                *)
CountersExpire == \A k \in Key : counter[k] > 0 ~> counter[k] = 0
=============================================================================
