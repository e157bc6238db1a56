------------------------- MODULE RateLimiter_proofs -------------------------
(***************************************************************************)
(* Proofs about RateLimiter for any number of instances, requests and      *)
(* keys, and any limits.                                                   *)
(***************************************************************************)
EXTENDS RateLimiter, FiniteSetTheorems, TLAPS

(* A request that waits for nothing is not a probe.                        *)
ProbesWait == \A r \in Request : at[r] = "idle" => ~ probe[r]

(* A request that waits has a key, and no fallback begins or ends unless   *)
(* the configuration has one.                                              *)
Configured ==
  /\ \A r \in Request : at[r] # "idle" => key[r] \in Key /\ driver # "memory"
  /\ \A r \in Request : probe[r] => driver = "redis"
  /\ \A i \in Instance : mode[i] = "fallback" => driver = "redis"

IInv == TypeOK /\ ProbesWait /\ SingleProbe /\ Configured

MemoryOK ==
  /\ used \in [Instance -> [Key -> 0 .. Limit]]
  /\ left \in [Instance -> [Key -> 0 .. MemoryWindow]]
  /\ \A i \in Instance : Cardinality(Held(i)) <= MaxEntries

WatchOK ==
  /\ watched \in Observed \cup {NoWatch}
  /\ slots \in 0 .. Window /\ seen \in Nat

RequestsOK ==
  /\ at \in [Request -> {"idle", "incr", "expire"}]
  /\ key \in [Request -> Key \cup {NoKey}]
  /\ probe \in [Request -> BOOLEAN]
  /\ age \in [Request -> 0 .. Cooldown]

ModesOK ==
  /\ mode \in [Instance -> {"primary", "fallback"}]
  /\ wait \in [Instance -> 0 .. Cooldown]
  /\ probing \in [Instance -> BOOLEAN]

RedisOK ==
  /\ redis \in {"up", "down"}
  /\ counter \in [Key -> 0 .. Limit + 1]
  /\ ttl \in [Key -> 0 .. Window]

ConfigOK == driver \in Driver /\ faults \in 0 .. MaxFaults

LEMMA TypeOKParts ==
  TypeOK <=> MemoryOK /\ WatchOK /\ RequestsOK /\ ModesOK /\ RedisOK /\ ConfigOK
BY DEF TypeOK, MemoryOK, WatchOK, RequestsOK, ModesOK, RedisOK, ConfigOK

-----------------------------------------------------------------------------
(* Ranges of the constants and of what is computed from them.              *)
LEMMA Constants ==
  /\ Limit \in Nat /\ Limit >= 1 /\ Window \in Nat /\ Window >= 1
  /\ MemoryWindow \in Nat /\ MemoryWindow >= 1
  /\ MaxEntries \in Nat /\ MaxEntries >= 1 /\ Cooldown \in Nat /\ MaxFaults \in Nat
BY TierAssumption, MemoryAssumption, BoundAssumption DEF MemoryWindow

LEMMA LessInRange ==
  ASSUME NEW m \in Nat, NEW n \in 0 .. m
  PROVE  Less(n) \in 0 .. m /\ (Less(n) > 0 => n > 0)
BY DEF Less

LEMMA FaultStep == ConfigOK /\ (Fault \/ UNCHANGED faults) /\ UNCHANGED driver => ConfigOK'
BY Constants DEF ConfigOK, Fault

LEMMA HeldFinite ==
  ASSUME NEW i
  PROVE  IsFiniteSet(Held(i)) /\ Cardinality(Held(i)) \in Nat
<1>1. Held(i) \subseteq Key
  BY DEF Held
<1>2. QED
  BY <1>1, KeyAssumption, FS_Subset, FS_CardinalityType

(* Fewer buckets fit as well.                                              *)
LEMMA HeldShrinks ==
  ASSUME NEW i, Held(i)' \subseteq Held(i), Cardinality(Held(i)) <= MaxEntries
  PROVE  Cardinality(Held(i)') <= MaxEntries
<1>1. /\ IsFiniteSet(Held(i)') /\ Cardinality(Held(i)') \in Nat
      /\ Cardinality(Held(i)') <= Cardinality(Held(i))
  BY HeldFinite, FS_Subset, FS_CardinalityType
<1>2. QED
  BY <1>1, HeldFinite, Constants

(* A bucket more fits if there is room for it, or room is made for it.     *)
LEMMA HeldReplaces ==
  ASSUME NEW S, IsFiniteSet(S), Cardinality(S) <= MaxEntries, NEW k,
         NEW gone \in SUBSET S,
         \/ k \in S /\ gone = {}
         \/ Cardinality(S) < MaxEntries /\ gone = {}
         \/ k \notin S /\ \E o \in S : gone = {o}
  PROVE  Cardinality((S \ gone) \cup {k}) <= MaxEntries
<1>1. Cardinality(S) \in Nat
  BY FS_CardinalityType
<1>2. CASE k \in S /\ gone = {}
  <2>1. (S \ gone) \cup {k} = S
    BY <1>2
  <2>2. QED
    BY <2>1
<1>3. CASE Cardinality(S) < MaxEntries /\ gone = {} /\ k \notin S
  <2>1. (S \ gone) \cup {k} = S \cup {k}
    BY <1>3
  <2>2. Cardinality(S \cup {k}) = Cardinality(S) + 1
    BY <1>3, FS_AddElement
  <2>3. QED
    BY <1>1, <1>3, <2>1, <2>2, Constants
<1>4. CASE k \notin S /\ \E o \in S : gone = {o}
  <2>1. PICK o \in S : gone = {o}
    BY <1>4
  <2>2. IsFiniteSet(S \ {o}) /\ Cardinality(S \ {o}) = Cardinality(S) - 1
    BY FS_RemoveElement
  <2>3. Cardinality((S \ {o}) \cup {k}) = Cardinality(S \ {o}) + 1
    BY <1>4, <2>2, FS_AddElement
  <2>4. QED
    BY <1>1, <2>1, <2>2, <2>3, Constants
<1>5. QED
  BY <1>2, <1>3, <1>4

-----------------------------------------------------------------------------
LEMMA ObserveStep ==
  ASSUME WatchOK, NEW c, NEW granted, NEW forgotten, Observe(c, granted, forgotten)
  PROVE  WatchOK'
<1>1. CASE watched \in forgotten
  BY <1>1, Constants DEF WatchOK, Observe
<1>2. CASE watched \notin forgotten
  BY <1>2 DEF WatchOK, Observe
<1>3. QED
  BY <1>1, <1>2

(* A request counted in memory leaves the buckets within their bounds.     *)
LEMMA memoryConsumeStep ==
  ASSUME MemoryOK, WatchOK, NEW i \in Instance, NEW k \in Key, memoryConsume(i, k)
  PROVE  MemoryOK' /\ WatchOK'
<1>1. PICK gone \in ensureCapacity(i, k) :
        /\ left' = [left EXCEPT ![i] = [j \in Key |->
             IF j \in gone THEN 0 ELSE IF j = k /\ @[k] = 0 THEN MemoryWindow ELSE @[j]]]
        /\ used' = [used EXCEPT ![i] = [j \in Key |->
             IF j \in gone THEN 0
             ELSE IF j = k /\ @[k] < Limit THEN @[k] + 1 ELSE @[j]]]
        /\ Observe(<<i, k>>, used[i][k] < Limit, {<<i, j>> : j \in gone})
  BY DEF memoryConsume
<1>2. WatchOK'
  BY <1>1, ObserveStep
<1>3. used' \in [Instance -> [Key -> 0 .. Limit]]
  <2> DEFINE u == [j \in Key |-> IF j \in gone THEN 0
                    ELSE IF j = k /\ used[i][k] < Limit THEN used[i][k] + 1
                    ELSE used[i][j]]
  <2>1. ASSUME NEW j \in Key
        PROVE  u[j] \in 0 .. Limit
    <3>1. used[i][k] \in 0 .. Limit /\ used[i][j] \in 0 .. Limit
      BY DEF MemoryOK
    <3>2. QED
      BY <3>1, Constants
  <2>2. u \in [Key -> 0 .. Limit]
    BY <2>1
  <2>3. used' = [used EXCEPT ![i] = u]
    BY <1>1
  <2> HIDE DEF u
  <2>4. QED
    BY <2>2, <2>3 DEF MemoryOK
<1> DEFINE l == [j \in Key |-> IF j \in gone THEN 0
                  ELSE IF j = k /\ left[i][k] = 0 THEN MemoryWindow ELSE left[i][j]]
<1>4. l \in [Key -> 0 .. MemoryWindow]
  <2>1. ASSUME NEW j \in Key
        PROVE  l[j] \in 0 .. MemoryWindow
    <3>1. left[i][j] \in 0 .. MemoryWindow
      BY DEF MemoryOK
    <3>2. QED
      BY <3>1, Constants
  <2>2. QED
    BY <2>1
<1>5. left' = [left EXCEPT ![i] = l]
  BY <1>1
<1>6. left' \in [Instance -> [Key -> 0 .. MemoryWindow]]
  <2> HIDE DEF l
  <2>1. QED
    BY <1>4, <1>5 DEF MemoryOK
<1>7. Held(i)' \subseteq (Held(i) \ gone) \cup {k}
  <2>1. left'[i] = l
    <3> HIDE DEF l
    <3>1. QED
      BY <1>5 DEF MemoryOK
  <2>2. ASSUME NEW j \in Key, l[j] > 0, j # k
        PROVE  left[i][j] > 0 /\ j \notin gone
    BY <2>2, Constants
  <2>3. QED
    BY <2>1, <2>2 DEF Held
<1>8. /\ gone \in SUBSET Held(i)
      /\ \/ k \in Held(i) /\ gone = {}
         \/ Cardinality(Held(i)) < MaxEntries /\ gone = {}
         \/ k \notin Held(i) /\ \E o \in Held(i) : gone = {o}
  BY DEF ensureCapacity, Held
<1>9. Cardinality((Held(i) \ gone) \cup {k}) <= MaxEntries
  BY <1>8, HeldReplaces, HeldFinite DEF MemoryOK
<1>10. Cardinality(Held(i)') <= MaxEntries
  <2> DEFINE T == (Held(i) \ gone) \cup {k}
  <2>1. IsFiniteSet(T)
    <3>1. T \subseteq Key
      BY DEF Held
    <3>2. QED
      BY <3>1, KeyAssumption, FS_Subset
  <2>2. Cardinality(Held(i)') <= Cardinality(T) /\ Cardinality(T) \in Nat
    BY <1>7, <2>1, FS_Subset, FS_CardinalityType
  <2>3. Cardinality(Held(i)') \in Nat
    BY <1>7, <2>1, FS_Subset, FS_CardinalityType
  <2>4. QED
    BY <1>9, <2>2, <2>3, Constants
<1>11. ASSUME NEW j \in Instance, j # i
       PROVE  Cardinality(Held(j)') <= MaxEntries
  <2>1. left'[j] = left[j]
    <3> HIDE DEF l
    <3>1. QED
      BY <1>5, <1>11 DEF MemoryOK
  <2>2. Held(j)' = Held(j)
    BY <2>1 DEF Held
  <2>3. QED
    BY <2>2 DEF MemoryOK
<1>12. QED
  BY <1>2, <1>3, <1>6, <1>10, <1>11 DEF MemoryOK

-----------------------------------------------------------------------------
(* What no step of an instance other than the requests' own changes.       *)
LEMMA RequestsStay ==
  ASSUME IInv, UNCHANGED <<probing, probe, at>>
  PROVE  ProbesWait' /\ SingleProbe'
BY DEF IInv, ProbesWait, SingleProbe

LEMMA MemoryStays ==
  ASSUME MemoryOK, WatchOK, UNCHANGED memoryVars
  PROVE  MemoryOK'
BY DEF MemoryOK, memoryVars, Held

LEMMA IInvInit == Init => IInv
<1> SUFFICES ASSUME Init
             PROVE  IInv
  OBVIOUS
<1>1. MemoryOK
  <2>1. ASSUME NEW i \in Instance
        PROVE  Cardinality(Held(i)) <= MaxEntries
    <3>1. Held(i) = {}
      BY <2>1 DEF Init, Held
    <3>2. QED
      BY <3>1, FS_EmptySet, Constants
  <2>2. QED
    BY <2>1, Constants DEF Init, MemoryOK
<1>2. WatchOK
  BY Constants DEF Init, WatchOK
<1>3. RequestsOK
  BY Constants DEF Init, RequestsOK
<1>4. ModesOK
  BY Constants DEF Init, ModesOK
<1>5. RedisOK
  BY Constants DEF Init, RedisOK
<1>6. ConfigOK
  BY Constants DEF Init, ConfigOK
<1>7. ProbesWait /\ SingleProbe /\ Configured
  BY DEF Init, ProbesWait, SingleProbe, Configured, StartsInFallback
<1>8. QED
  BY <1>1, <1>2, <1>3, <1>4, <1>5, <1>6, <1>7, TypeOKParts DEF IInv

(* The end of a request that was no probe, or was its instance's probe.    *)
LEMMA EndStep ==
  ASSUME IInv, NEW r \in Request, End(r),
         probing' = IF probe[r] THEN [probing EXCEPT ![InstanceOf[r]] = FALSE]
                                ELSE probing
  PROVE  RequestsOK' /\ ProbesWait' /\ SingleProbe'
<1> USE InstanceOfAssumption
<1>0. TypeOK /\ RequestsOK /\ ModesOK
  BY TypeOKParts DEF IInv
<1>1. RequestsOK'
  BY <1>0, Constants DEF RequestsOK, End
<1>2. \A s \in Request : probe'[s] <=> probe[s] /\ s # r
  BY <1>0 DEF RequestsOK, End
<1>3. ProbesWait'
  BY <1>0, <1>2 DEF RequestsOK, End, IInv, ProbesWait
<1>4. ASSUME NEW i \in Instance
      PROVE  probing'[i] <=> \E s \in Request : InstanceOf[s] = i /\ probe'[s]
  <2>1. CASE i = InstanceOf[r] /\ probe[r]
    <3>1. ~ probing'[i]
      BY <1>0, <2>1 DEF ModesOK
    <3>2. \A s \in Request : InstanceOf[s] = i /\ probe[s] => s = r
      BY <2>1 DEF IInv, SingleProbe
    <3>3. QED
      BY <1>2, <3>1, <3>2
  <2>2. CASE ~ (i = InstanceOf[r] /\ probe[r])
    <3>1. probing'[i] = probing[i]
      BY <1>0, <2>2 DEF ModesOK
    <3>2. \A s \in Request : InstanceOf[s] = i => (probe'[s] <=> probe[s])
      BY <1>2, <2>2
    <3>3. QED
      BY <3>1, <3>2 DEF IInv, SingleProbe
  <2>3. QED
    BY <2>1, <2>2
<1>5. SingleProbe'
  BY <1>2, <1>4 DEF IInv, SingleProbe
<1>6. QED
  BY <1>1, <1>3, <1>5

LEMMA SendStep ==
  ASSUME IInv, NEW r \in Request, NEW k \in Key, at[r] = "idle",
         Send(r, k, FALSE), UNCHANGED probing
  PROVE  RequestsOK' /\ ProbesWait' /\ SingleProbe'
<1>0. RequestsOK
  BY TypeOKParts DEF IInv
<1>1. RequestsOK'
  BY <1>0 DEF RequestsOK, Send
<1>2. \A s \in Request : probe'[s] <=> probe[s]
  BY <1>0 DEF RequestsOK, Send, IInv, ProbesWait
<1>3. ProbesWait'
  BY <1>0, <1>2 DEF RequestsOK, Send, IInv, ProbesWait
<1>4. SingleProbe'
  BY <1>2 DEF IInv, SingleProbe
<1>5. QED
  BY <1>1, <1>3, <1>4

LEMMA ProbeStep ==
  ASSUME IInv, NEW r \in Request, NEW k \in Key, at[r] = "idle",
         Send(r, k, TRUE), ~ probing[InstanceOf[r]],
         probing' = [probing EXCEPT ![InstanceOf[r]] = TRUE]
  PROVE  RequestsOK' /\ ProbesWait' /\ SingleProbe'
<1> USE InstanceOfAssumption
<1>0. RequestsOK /\ ModesOK
  BY TypeOKParts DEF IInv
<1>1. RequestsOK'
  BY <1>0 DEF RequestsOK, Send
<1>2. \A s \in Request : probe'[s] <=> probe[s] \/ s = r
  BY <1>0 DEF RequestsOK, Send
<1>3. ProbesWait'
  BY <1>0, <1>2 DEF RequestsOK, Send, IInv, ProbesWait
<1>4. \A s \in Request : InstanceOf[s] = InstanceOf[r] => ~ probe[s]
  BY DEF IInv, SingleProbe
<1>5. \A i \in Instance : probing'[i] <=> probing[i] \/ i = InstanceOf[r]
  BY <1>0 DEF ModesOK
<1>6. SingleProbe'
  BY <1>2, <1>4, <1>5 DEF IInv, SingleProbe
<1>7. QED
  BY <1>1, <1>3, <1>6

(* The probe that is answered puts its instance back in its primary mode.  *)
LEMMA AnsweredStep ==
  ASSUME IInv, NEW r \in Request, Answered(r)
  PROVE  ModesOK' /\ RequestsOK' /\ ProbesWait' /\ SingleProbe'
<1>0. TypeOK /\ RequestsOK /\ ModesOK
  BY TypeOKParts DEF IInv
<1>1. ModesOK'
  <2>1. CASE probe[r]
    <3>1. /\ mode' = [mode EXCEPT ![InstanceOf[r]] = "primary"]
          /\ wait' = [wait EXCEPT ![InstanceOf[r]] = 0]
          /\ probing' = [probing EXCEPT ![InstanceOf[r]] = FALSE]
      BY <2>1 DEF Answered
    <3>2. 0 \in 0 .. Cooldown
      BY Constants
    <3>3. QED
      BY <1>0, <3>1, <3>2 DEF ModesOK
  <2>2. CASE ~ probe[r]
    BY <1>0, <2>2 DEF ModesOK, Answered, instanceVars
  <2>3. QED
    BY <2>1, <2>2
<1>2. End(r) /\ probing' = IF probe[r] THEN [probing EXCEPT ![InstanceOf[r]] = FALSE]
                                       ELSE probing
  BY DEF Answered, instanceVars
<1>3. QED
  BY <1>1, <1>2, EndStep

-----------------------------------------------------------------------------
(* The steps, one by one.                                                  *)
LEMMA KeptParts ==
  ASSUME MemoryOK', WatchOK', RequestsOK', ModesOK', RedisOK', ConfigOK',
         ProbesWait', SingleProbe', Configured'
  PROVE  IInv'
BY DEF IInv, TypeOK, MemoryOK, WatchOK, RequestsOK, ModesOK, RedisOK, ConfigOK

LEMMA Parts ==
  ASSUME IInv
  PROVE  MemoryOK /\ WatchOK /\ RequestsOK /\ ModesOK /\ RedisOK /\ ConfigOK
BY TypeOKParts DEF IInv

(* No step of a request leaves what the configuration allows.              *)
LEMMA ConfiguredStep ==
  ASSUME IInv, UNCHANGED driver, NEW r \in Request
  PROVE  /\ UNCHANGED <<instanceVars, requestVars>> => Configured'
         /\ \A k \in Key :
              /\ Send(r, k, FALSE) /\ driver # "memory" /\ UNCHANGED instanceVars
              => Configured'
         /\ \A k \in Key :
              Send(r, k, TRUE) /\ driver = "redis" /\ UNCHANGED mode => Configured'
         /\ Answered(r) => Configured'
         /\ End(r) /\ (\A i \in Instance : mode'[i] = "fallback" => driver = "redis")
              => Configured'
<1> USE Parts DEF RequestsOK, ModesOK, IInv, Configured, Send, End, instanceVars, requestVars
<1>1. ASSUME UNCHANGED <<instanceVars, requestVars>>
      PROVE  Configured'
  BY <1>1
<1>2. ASSUME NEW k \in Key, Send(r, k, FALSE), driver # "memory", UNCHANGED instanceVars
      PROVE  Configured'
  BY <1>2
<1>3. ASSUME NEW k \in Key, Send(r, k, TRUE), driver = "redis", UNCHANGED mode
      PROVE  Configured'
  BY <1>3
<1>4. ASSUME End(r), \A i \in Instance : mode'[i] = "fallback" => driver = "redis"
      PROVE  Configured'
  BY <1>4
<1>5. ASSUME Answered(r)
      PROVE  Configured'
  <2>1. End(r) /\ \A i \in Instance : mode'[i] = "fallback" => mode[i] = "fallback"
    BY <1>5 DEF Answered
  <2>2. QED
    BY <1>4, <2>1
<1>6. QED
  BY <1>1, <1>2, <1>3, <1>4, <1>5

LEMMA consumeInMemoryStep ==
  ASSUME IInv, NEW r \in Request, NEW k \in Key, consumeInMemory(r, k)
  PROVE  IInv'
<1>1. InstanceOf[r] \in Instance
  BY InstanceOfAssumption
<1>2. MemoryOK' /\ WatchOK'
  BY <1>1, Parts, memoryConsumeStep DEF consumeInMemory
<1>3. RequestsOK' /\ ModesOK' /\ RedisOK' /\ ConfigOK'
  BY Parts DEF consumeInMemory, requestVars, instanceVars, redisVars,
     RequestsOK, ModesOK, RedisOK, ConfigOK
<1>4. ProbesWait' /\ SingleProbe'
  BY RequestsStay DEF consumeInMemory, requestVars, instanceVars
<1>5. Configured'
  BY ConfiguredStep DEF consumeInMemory
<1>6. QED
  BY <1>2, <1>3, <1>4, <1>5, KeptParts

LEMMA consumeWithRedisStep ==
  ASSUME IInv, NEW r \in Request, NEW k \in Key, consumeWithRedis(r, k)
  PROVE  IInv'
<1>1. RequestsOK' /\ ProbesWait' /\ SingleProbe'
  BY SendStep DEF consumeWithRedis, instanceVars
<1>2. MemoryOK' /\ WatchOK'
  BY Parts, MemoryStays DEF consumeWithRedis, watchVars, WatchOK
<1>3. ModesOK' /\ RedisOK' /\ ConfigOK'
  BY Parts DEF consumeWithRedis, instanceVars, redisVars, ModesOK, RedisOK, ConfigOK
<1>4. Configured'
  BY ConfiguredStep DEF consumeWithRedis
<1>5. QED
  BY <1>1, <1>2, <1>3, <1>4, KeptParts

LEMMA tryProbeStep ==
  ASSUME IInv, NEW r \in Request, NEW k \in Key, tryProbe(r, k)
  PROVE  IInv'
<1>1. RequestsOK' /\ ProbesWait' /\ SingleProbe'
  BY ProbeStep DEF tryProbe
<1>2. MemoryOK' /\ WatchOK'
  BY Parts, MemoryStays DEF tryProbe, watchVars, WatchOK
<1>3. ModesOK' /\ RedisOK' /\ ConfigOK'
  BY Parts DEF tryProbe, redisVars, ModesOK, RedisOK, ConfigOK
<1>4. Configured'
  <2>1. driver = "redis"
    BY InstanceOfAssumption DEF tryProbe, IInv, Configured
  <2>2. QED
    BY <2>1, ConfiguredStep DEF tryProbe
<1>5. QED
  BY <1>1, <1>2, <1>3, <1>4, KeptParts

LEMMA incrStep ==
  ASSUME IInv, NEW r \in Request, incr(r)
  PROVE  IInv'
<1>1. MemoryOK' /\ ConfigOK'
  BY Parts, MemoryStays DEF incr, ConfigOK
<1>2. WatchOK'
  BY Parts, ObserveStep DEF incr
<1>3. RedisOK'
  <2>1. counter' \in [Key -> 0 .. Limit + 1]
    <3> DEFINE n == IF counter[key[r]] + 1 <= Limit THEN counter[key[r]] + 1 ELSE Limit + 1
    <3>1. counter' = [counter EXCEPT ![key[r]] = n]
      BY DEF incr
    <3>2. key[r] \in Key => n \in 0 .. Limit + 1
      <4>1. key[r] \in Key => counter[key[r]] \in 0 .. Limit + 1
        BY Parts DEF RedisOK
      <4>2. QED
        BY <4>1, Constants
    <3> HIDE DEF n
    <3>3. QED
      BY <3>1, <3>2, Parts DEF RedisOK
  <2>2. QED
    BY <2>1, Parts DEF incr, RedisOK
<1>4. ModesOK' /\ RequestsOK' /\ ProbesWait' /\ SingleProbe'
  <2>1. CASE Answered(r)
    BY <2>1, AnsweredStep
  <2>2. CASE /\ at' = [at EXCEPT ![r] = "expire"]
             /\ UNCHANGED <<instanceVars, key, probe, age>>
    <3>1. RequestsOK' /\ ModesOK'
      BY <2>2, Parts DEF RequestsOK, ModesOK, instanceVars
    <3>2. ProbesWait'
      BY <2>2, Parts DEF IInv, ProbesWait, RequestsOK
    <3>3. SingleProbe'
      BY <2>2 DEF IInv, SingleProbe, instanceVars
    <3>4. QED
      BY <3>1, <3>2, <3>3
  <2>3. QED
    BY <2>1, <2>2 DEF incr
<1>5. Configured'
  <2>1. CASE Answered(r)
    BY <2>1, ConfiguredStep DEF incr
  <2>2. CASE /\ at' = [at EXCEPT ![r] = "expire"]
             /\ UNCHANGED <<instanceVars, key, probe, age>>
    BY <2>2, Parts DEF incr, IInv, Configured, RequestsOK, instanceVars
  <2>3. QED
    BY <2>1, <2>2 DEF incr
<1>6. QED
  BY <1>1, <1>2, <1>3, <1>4, <1>5, KeptParts

LEMMA expireStep ==
  ASSUME IInv, NEW r \in Request, expire(r)
  PROVE  IInv'
<1>1. MemoryOK' /\ ConfigOK' /\ WatchOK'
  BY Parts, MemoryStays DEF expire, ConfigOK, WatchOK, watchVars
<1>2. RedisOK'
  <2>1. Window \in 0 .. Window /\ 0 \in 0 .. Window
    BY Constants
  <2>2. QED
    BY <2>1, Parts DEF expire, RedisOK
<1>3. ModesOK' /\ RequestsOK' /\ ProbesWait' /\ SingleProbe'
  BY AnsweredStep DEF expire
<1>4. Configured'
  BY ConfiguredStep DEF expire
<1>5. QED
  BY <1>1, <1>2, <1>3, <1>4, KeptParts

LEMMA consumeFailedStep ==
  ASSUME IInv, NEW r \in Request, consumeFailed(r)
  PROVE  IInv'
<1> USE InstanceOfAssumption
<1> DEFINE i == InstanceOf[r]
<1>0. i \in Instance /\ End(r) /\ RedisOK' /\ UNCHANGED driver
  BY Parts DEF consumeFailed, redisVars, RedisOK
<1>1. ConfigOK'
  BY <1>0, Parts, FaultStep DEF consumeFailed, CommandFails
<1>2. CASE driver = "redis without fallback" /\ ~ probe[r]
  <2>1. UNCHANGED <<instanceVars, memoryVars, watchVars>>
    BY <1>2 DEF consumeFailed
  <2>2. MemoryOK' /\ WatchOK' /\ ModesOK'
    BY <2>1, Parts, MemoryStays DEF WatchOK, watchVars, ModesOK, instanceVars
  <2>3. RequestsOK' /\ ProbesWait' /\ SingleProbe'
    BY <1>0, <1>2, <2>1, EndStep DEF instanceVars
  <2>4. Configured'
    BY <1>0, <2>1, ConfiguredStep DEF IInv, Configured, instanceVars
  <2>5. QED
    BY <1>0, <1>1, <2>2, <2>3, <2>4, KeptParts
<1>3. CASE driver # "redis without fallback"
  <2>0. key[r] \in Key
    BY DEF consumeFailed, IInv, Configured
  <2>1. MemoryOK' /\ WatchOK'
    BY <1>0, <1>3, <2>0, Parts, memoryConsumeStep DEF consumeFailed
  <2>2. probing' = IF probe[r] THEN [probing EXCEPT ![i] = FALSE] ELSE probing
    BY <1>3 DEF consumeFailed
  <2>3. RequestsOK' /\ ProbesWait' /\ SingleProbe'
    BY <1>0, <2>2, EndStep
  <2>4. ModesOK'
    <3>1. Cooldown - age[r] \in 0 .. Cooldown /\ Cooldown \in 0 .. Cooldown
      BY Parts, Constants DEF RequestsOK
    <3>2. wait' \in [Instance -> 0 .. Cooldown]
      BY <1>3, <3>1, Parts DEF consumeFailed, ModesOK
    <3>3. QED
      BY <1>3, <3>2, Parts DEF consumeFailed, ModesOK
  <2>5. driver = "redis"
    BY <1>3, Parts DEF consumeFailed, IInv, Configured, ConfigOK, Driver
  <2>6. Configured'
    BY <1>0, <2>5, ConfiguredStep
  <2>7. QED
    BY <1>0, <1>1, <2>1, <2>3, <2>4, <2>6, KeptParts
<1>4. driver = "redis without fallback" => ~ probe[r]
  BY DEF IInv, Configured
<1>5. QED
  BY <1>2, <1>3, <1>4

LEMMA AnswerLostStep ==
  ASSUME IInv, NEW r \in Request, AnswerLost(r)
  PROVE  IInv'
<1>1. MemoryOK' /\ WatchOK' /\ RequestsOK' /\ ModesOK'
  BY Parts, MemoryStays DEF AnswerLost, WatchOK, watchVars, RequestsOK, requestVars,
     ModesOK, instanceVars
<1>2. ConfigOK'
  BY Parts, FaultStep DEF AnswerLost
<1>3. RedisOK'
  <2>1. counter' \in [Key -> 0 .. Limit + 1]
    <3>1. \A n \in 0 .. Limit + 1 :
            (IF n < Limit THEN n + 1 ELSE Limit + 1) \in 0 .. Limit + 1
      BY Constants
    <3>2. CASE at[r] = "incr"
      BY <3>1, <3>2, Parts DEF AnswerLost, RedisOK
    <3>3. CASE at[r] # "incr"
      BY <3>3, Parts DEF AnswerLost, RedisOK
    <3>4. QED
      BY <3>2, <3>3
  <2>2. Window \in 0 .. Window /\ 0 \in 0 .. Window
    BY Constants
  <2>3. QED
    BY <2>1, <2>2, Parts DEF AnswerLost, RedisOK
<1>4. ProbesWait' /\ SingleProbe'
  BY RequestsStay DEF AnswerLost, requestVars, instanceVars
<1>5. Configured'
  BY ConfiguredStep DEF AnswerLost
<1>6. QED
  BY <1>1, <1>2, <1>3, <1>4, <1>5, KeptParts

(* The steps of Redis and of the observer.                                 *)
LEMMA OtherStep ==
  ASSUME IInv,
         \/ RedisGoesDown \/ RedisComesBack
         \/ \E c \in Observed : Watch(c)
         \/ UNCHANGED vars
  PROVE  IInv'
<1>0. /\ UNCHANGED <<driver, instanceVars, memoryVars, requestVars>>
      /\ Fault \/ UNCHANGED faults
  BY DEF RedisGoesDown, RedisComesBack, Watch, vars
<1>1. MemoryOK' /\ RequestsOK' /\ ModesOK'
  BY <1>0, Parts, MemoryStays DEF RequestsOK, requestVars, ModesOK, instanceVars
<1>2. ConfigOK'
  BY <1>0, Parts, FaultStep
<1>3. RedisOK'
  <2>1. 0 \in 0 .. Limit + 1 /\ 0 \in 0 .. Window
    BY Constants
  <2>2. QED
    BY <2>1, Parts DEF RedisOK, RedisGoesDown, RedisComesBack, Watch, vars, redisVars
<1>4. WatchOK'
  <2>1. CASE UNCHANGED watchVars
    BY <2>1, Parts DEF WatchOK, watchVars
  <2>2. CASE Observe(NoWatch, FALSE, {"redis"} \X Key)
    BY <2>2, Parts, ObserveStep
  <2>3. CASE \E c \in Observed : Watch(c)
    BY <2>3, Parts, Constants DEF Watch, WatchOK
  <2>4. QED
    BY <2>1, <2>2, <2>3 DEF RedisGoesDown, RedisComesBack, vars
<1>5. ProbesWait' /\ SingleProbe'
  BY <1>0, RequestsStay DEF requestVars, instanceVars
<1>6. Configured'
  BY <1>0 DEF IInv, Configured, requestVars, instanceVars
<1>7. QED
  BY <1>1, <1>2, <1>3, <1>4, <1>5, <1>6, KeptParts

LEMMA RestartStep ==
  ASSUME IInv, NEW i \in Instance, Restart(i)
  PROVE  IInv'
<1> USE InstanceOfAssumption
<1>1. MemoryOK'
  <2>1. [k \in Key |-> 0] \in [Key -> 0 .. Limit] /\ [k \in Key |-> 0] \in [Key -> 0 .. MemoryWindow]
    BY Constants
  <2>2. /\ used' \in [Instance -> [Key -> 0 .. Limit]]
        /\ left' \in [Instance -> [Key -> 0 .. MemoryWindow]]
    BY <2>1, Parts DEF Restart, MemoryOK
  <2>3. ASSUME NEW j \in Instance
        PROVE  Cardinality(Held(j)') <= MaxEntries
    <3>1. left'[j] = left[j] \/ left'[j] = [k \in Key |-> 0]
      BY Parts DEF Restart, MemoryOK
    <3>2. Held(j)' \subseteq Held(j)
      BY <3>1 DEF Held
    <3>3. QED
      BY <3>2, Parts, HeldShrinks DEF MemoryOK
  <2>4. QED
    BY <2>2, <2>3 DEF MemoryOK
<1>2. WatchOK' /\ ConfigOK' /\ RedisOK'
  BY Parts, ObserveStep, FaultStep DEF Restart, RedisOK, redisVars
<1>3. RequestsOK'
  <2>1. 0 \in 0 .. Cooldown
    BY Constants
  <2>2. QED
    BY <2>1, Parts DEF Restart, RequestsOK
<1>4. ModesOK'
  <2>1. 0 \in 0 .. Cooldown /\ Cooldown \in 0 .. Cooldown
    BY Constants
  <2>2. QED
    BY <2>1, Parts DEF Restart, ModesOK
<1>5. \A r \in Request : probe'[r] <=> probe[r] /\ InstanceOf[r] # i
  BY DEF Restart
<1>6. ProbesWait'
  BY <1>5 DEF Restart, IInv, ProbesWait
<1>7. SingleProbe'
  <2>1. \A j \in Instance : probing'[j] <=> probing[j] /\ j # i
    BY Parts DEF Restart, ModesOK
  <2>2. QED
    BY <1>5, <2>1 DEF IInv, SingleProbe
<1>8. Configured'
  <2>1. \A j \in Instance : mode'[j] = "fallback" => mode[j] = "fallback" \/ driver = "redis"
    BY Parts DEF Restart, ModesOK, StartsInFallback
  <2>2. QED
    BY <1>5, <2>1 DEF Restart, IInv, Configured
<1>9. QED
  BY <1>1, <1>2, <1>3, <1>4, <1>6, <1>7, <1>8, KeptParts

LEMMA TickStep ==
  ASSUME IInv, Tick
  PROVE  IInv'
<1>1. MemoryOK'
  <2>1. left' \in [Instance -> [Key -> 0 .. MemoryWindow]]
    <3>1. \A j \in Instance, k \in Key : Less(left[j][k]) \in 0 .. MemoryWindow
      BY Parts, LessInRange, Constants DEF MemoryOK
    <3>2. QED
      BY <3>1 DEF Tick
  <2>2. used' \in [Instance -> [Key -> 0 .. Limit]]
    <3>1. \A j \in Instance, k \in Key :
            (IF left[j][k] = 1 THEN 0 ELSE used[j][k]) \in 0 .. Limit
      BY Parts, Constants DEF MemoryOK
    <3>2. QED
      BY <3>1 DEF Tick
  <2>3. ASSUME NEW j \in Instance
        PROVE  Cardinality(Held(j)') <= MaxEntries
    <3>1. \A k \in Key : left'[j][k] = Less(left[j][k]) /\ left[j][k] \in 0 .. MemoryWindow
      BY Parts DEF Tick, MemoryOK
    <3>2. \A k \in Key : left'[j][k] > 0 => left[j][k] > 0
      BY <3>1, LessInRange, Constants
    <3>3. Held(j)' \subseteq Held(j)
      BY <3>2 DEF Held
    <3>4. QED
      BY <3>3, Parts, HeldShrinks DEF MemoryOK
  <2>4. QED
    BY <2>1, <2>2, <2>3 DEF MemoryOK
<1>2. WatchOK'
  <2>1. slots' \in 0 .. Window
    BY Parts, LessInRange, Constants DEF Tick, WatchOK
  <2>2. QED
    BY <2>1, Parts DEF Tick, WatchOK
<1>3. RequestsOK'
  <2>1. \A r \in Request : (IF probe[r] /\ age[r] < Cooldown THEN age[r] + 1 ELSE age[r])
                             \in 0 .. Cooldown
    BY Parts, Constants DEF RequestsOK
  <2>2. age' \in [Request -> 0 .. Cooldown]
    BY <2>1 DEF Tick
  <2>3. QED
    BY <2>2, Parts DEF Tick, RequestsOK
<1>4. ModesOK'
  <2>1. \A j \in Instance : Less(wait[j]) \in 0 .. Cooldown
    BY Parts, LessInRange, Constants DEF ModesOK
  <2>2. wait' \in [Instance -> 0 .. Cooldown]
    BY <2>1 DEF Tick
  <2>3. QED
    BY <2>2, Parts DEF Tick, ModesOK
<1>5. RedisOK'
  <2>1. \A k \in Key : /\ Less(ttl[k]) \in 0 .. Window
                       /\ (IF ttl[k] = 1 THEN 0 ELSE counter[k]) \in 0 .. Limit + 1
    BY Parts, LessInRange, Constants DEF RedisOK
  <2>2. ttl' \in [Key -> 0 .. Window] /\ counter' \in [Key -> 0 .. Limit + 1]
    BY <2>1 DEF Tick
  <2>3. QED
    BY <2>2, Parts DEF Tick, RedisOK
<1>6. ConfigOK'
  BY Parts DEF Tick, ConfigOK
<1>7. ProbesWait' /\ SingleProbe'
  BY RequestsStay DEF Tick
<1>8. Configured'
  BY DEF Tick, IInv, Configured
<1>9. QED
  BY <1>1, <1>2, <1>3, <1>4, <1>5, <1>6, <1>7, <1>8, KeptParts

LEMMA IInvStep == IInv /\ [Next]_vars => IInv'
BY consumeInMemoryStep, consumeWithRedisStep, tryProbeStep, incrStep, expireStep,
   consumeFailedStep, AnswerLostStep, OtherStep, RestartStep, TickStep
   DEF Next, consume

LEMMA Invariance == Spec => []IInv
BY IInvInit, IInvStep, PTL DEF Spec

(* Every variable stays in its range, and no instance remembers more       *)
(* grants of a key than its limit, or more keys than MaxEntries.           *)
THEOREM LimiterTypes == Spec => []TypeOK
<1>1. IInv => TypeOK
  BY DEF IInv
<1>2. QED
  BY <1>1, Invariance, PTL

(* Each instance has at most one probe waiting for Redis, and knows it.    *)
THEOREM OneProbeAtATime == Spec => []SingleProbe
<1>1. IInv => SingleProbe
  BY DEF IInv
<1>2. QED
  BY <1>1, Invariance, PTL

-----------------------------------------------------------------------------
(* The tokens taken from a counter in its present window, and the time     *)
(* that is left of it.                                                     *)
Taken(c) ==
  IF c[1] = "redis" THEN IF counter[c[2]] < Limit THEN counter[c[2]] ELSE Limit
                    ELSE used[c[1]][c[2]]
Rest(c) == IF c[1] = "redis" THEN ttl[c[2]] ELSE left[c[1]][c[2]]

(* What was seen was granted in the present window; or also in one before, *)
(* and then the present one does not end before the observation does.      *)
Explained(c) ==
  \/ seen <= Taken(c)
  \/ seen <= Limit + Taken(c) /\ (Rest(c) = 0 \/ Rest(c) >= slots)

WatchInv ==
  /\ watched = NoWatch => seen = 0
  /\ watched # NoWatch => slots > 0
  /\ \A c \in Observed : watched = c => Explained(c)

LEMMA TakenInRange ==
  ASSUME IInv, NEW c \in Observed
  PROVE  Taken(c) \in 0 .. Limit /\ Rest(c) \in Nat
<1>1. c[2] \in Key /\ (c[1] # "redis" => c[1] \in Instance)
  BY BoundAssumption
<1>2. CASE c[1] = "redis"
  <2>1. counter[c[2]] \in 0 .. Limit + 1 /\ ttl[c[2]] \in 0 .. Window
    BY <1>1, Parts DEF RedisOK
  <2>2. QED
    BY <1>2, <2>1, Constants DEF Taken, Rest
<1>3. CASE c[1] # "redis"
  <2>1. used[c[1]][c[2]] \in 0 .. Limit /\ left[c[1]][c[2]] \in 0 .. MemoryWindow
    BY <1>1, <1>3, Parts DEF MemoryOK
  <2>2. QED
    BY <1>3, <2>1, Constants DEF Taken, Rest
<1>4. QED
  BY <1>2, <1>3

LEMMA TakenStaysInRange ==
  ASSUME MemoryOK', RedisOK', NEW c \in Observed
  PROVE  Taken(c)' \in 0 .. Limit /\ Rest(c)' \in Nat
<1>1. c[2] \in Key /\ (c[1] # "redis" => c[1] \in Instance)
  BY BoundAssumption
<1>2. CASE c[1] = "redis"
  <2>1. counter'[c[2]] \in 0 .. Limit + 1 /\ ttl'[c[2]] \in 0 .. Window
    BY <1>1 DEF RedisOK
  <2>2. QED
    BY <1>2, <2>1, Constants DEF Taken, Rest
<1>3. CASE c[1] # "redis"
  <2>1. used'[c[1]][c[2]] \in 0 .. Limit /\ left'[c[1]][c[2]] \in 0 .. MemoryWindow
    BY <1>1, <1>3 DEF MemoryOK, MemoryWindow
  <2>2. QED
    BY <1>3, <2>1, Constants DEF Taken, Rest
<1>4. QED
  BY <1>2, <1>3

(* Between two ticks an observation goes on when the grants are taken from *)
(* the counter and its window is not cut short.                            *)
LEMMA ExplainedStays ==
  ASSUME IInv, MemoryOK', RedisOK', NEW c \in Observed, Explained(c), slots' = slots,
         \/ Taken(c)' >= Taken(c) /\ seen' = seen
         \/ Taken(c)' >= Taken(c) + 1 /\ seen' = seen + 1,
         Rest(c)' = Rest(c) \/ Rest(c)' = 0 \/ Rest(c)' >= Window
  PROVE  Explained(c)'
<1>1. Taken(c) \in 0 .. Limit /\ Taken(c)' \in 0 .. Limit /\ Rest(c) \in Nat /\ Rest(c)' \in Nat
  BY TakenInRange, TakenStaysInRange
<1>2. seen \in Nat /\ slots \in 0 .. Window
  BY Parts DEF WatchOK
<1> DEFINE t == Taken(c)  tt == Taken(c)'  q == Rest(c)  qq == Rest(c)'
<1>3. \/ tt >= t /\ seen' = seen
      \/ tt >= t + 1 /\ seen' = seen + 1
  OBVIOUS
<1>4. seen <= t \/ (seen <= Limit + t /\ (q = 0 \/ q >= slots))
  BY DEF Explained
<1>5. qq = q \/ qq = 0 \/ qq >= slots
  <2> HIDE DEF q, qq
  <2>1. Rest(c)' >= Window => qq >= slots
    BY <1>1, <1>2, Constants DEF qq
  <2>2. QED
    BY <2>1 DEF q, qq
<1>6. t \in 0 .. Limit /\ tt \in 0 .. Limit /\ q \in Nat /\ qq \in Nat
  BY <1>1
<1>7. seen' <= tt \/ (seen' <= Limit + tt /\ (qq = 0 \/ qq >= slots'))
  <2> HIDE DEF t, tt, q, qq
  <2>1. CASE seen <= t
    BY <2>1, <1>2, <1>3, <1>6, Constants
  <2>2. CASE seen <= Limit + t /\ (q = 0 \/ q >= slots)
    BY <2>2, <1>2, <1>3, <1>5, <1>6, Constants
  <2>3. QED
    BY <1>4, <2>1, <2>2
<1>8. QED
  BY <1>7 DEF Explained

LEMMA ObserveWatch ==
  ASSUME WatchInv, NEW c, NEW granted, NEW forgotten, Observe(c, granted, forgotten),
         granted => c # NoWatch,
         \A o \in Observed :
           watched = o /\ o \notin forgotten /\ Explained(o) => Explained(o)'
  PROVE  WatchInv'
<1>1. CASE watched \in forgotten
  <2>1. \A o \in Observed : o # NoWatch
    BY BoundAssumption DEF NoWatch
  <2>2. QED
    BY <1>1, <2>1 DEF Observe, WatchInv
<1>2. CASE watched \notin forgotten
  BY <1>2 DEF Observe, WatchInv
<1>3. QED
  BY <1>1, <1>2

(* A counter that the step leaves alone.                                   *)
LEMMA ExplainedSame ==
  ASSUME NEW c, Explained(c), seen' = seen, slots' = slots, Taken(c)' = Taken(c),
         Rest(c)' = Rest(c)
  PROVE  Explained(c)'
BY DEF Explained

LEMMA ObservedCounters ==
  ASSUME NEW c \in Observed
  PROVE  /\ c[1] \in Instance \cup {"redis"} /\ c[2] \in Key /\ c = <<c[1], c[2]>>
         /\ c # NoWatch
BY BoundAssumption DEF NoWatch

LEMMA memoryConsumeWatch ==
  ASSUME IInv, MemoryOK', WatchInv, NEW i \in Instance, NEW k \in Key,
         memoryConsume(i, k), UNCHANGED redisVars
  PROVE  WatchInv'
<1>1. PICK gone \in ensureCapacity(i, k) :
        /\ left' = [left EXCEPT ![i] = [j \in Key |->
             IF j \in gone THEN 0 ELSE IF j = k /\ @[k] = 0 THEN MemoryWindow ELSE @[j]]]
        /\ used' = [used EXCEPT ![i] = [j \in Key |->
             IF j \in gone THEN 0
             ELSE IF j = k /\ @[k] < Limit THEN @[k] + 1 ELSE @[j]]]
        /\ Observe(<<i, k>>, used[i][k] < Limit, {<<i, j>> : j \in gone})
  BY DEF memoryConsume
<1>2. RedisOK'
  BY Parts DEF RedisOK, redisVars
<1>3. ASSUME NEW o \in Observed, watched = o, o \notin {<<i, j>> : j \in gone}, Explained(o)
      PROVE  Explained(o)'
  <2>1. /\ slots' = slots
        /\ seen' = IF used[i][k] < Limit /\ o = <<i, k>> THEN seen + 1 ELSE seen
    BY <1>1, <1>3 DEF Observe
  <2>2. o[1] \in Instance \cup {"redis"} /\ o[2] \in Key /\ o = <<o[1], o[2]>>
    BY ObservedCounters
  <2>3. CASE o[1] # i
    <3>1. seen' = seen
      BY <2>1, <2>3
    <3>2. Taken(o)' = Taken(o) /\ Rest(o)' = Rest(o)
      <4>1. CASE o[1] = "redis"
        BY <4>1 DEF Taken, Rest, redisVars
      <4>2. CASE o[1] # "redis"
        <5>1. used'[o[1]] = used[o[1]] /\ left'[o[1]] = left[o[1]]
          BY <1>1, <2>2, <2>3, <4>2, Parts DEF MemoryOK
        <5>2. QED
          BY <4>2, <5>1 DEF Taken, Rest
      <4>3. QED
        BY <4>1, <4>2
    <3>3. QED
      BY <1>3, <2>1, <3>1, <3>2, ExplainedSame
  <2>4. CASE o[1] = i
    <3>0. i # "redis" /\ o[2] \notin gone
      BY <1>3, <2>2, <2>4, InstanceAssumption
    <3>1. /\ Taken(o) = used[i][o[2]] /\ Rest(o) = left[i][o[2]]
          /\ Taken(o)' = used'[i][o[2]] /\ Rest(o)' = left'[i][o[2]]
      BY <2>4, <3>0 DEF Taken, Rest
    <3>2. /\ used'[i][o[2]] = IF o[2] = k /\ used[i][k] < Limit
                                THEN used[i][k] + 1 ELSE used[i][o[2]]
          /\ left'[i][o[2]] = IF o[2] = k /\ left[i][k] = 0
                                THEN MemoryWindow ELSE left[i][o[2]]
      BY <1>1, <2>2, <3>0, Parts DEF MemoryOK
    <3>3. used[i][o[2]] \in Nat /\ used[i][k] \in Nat /\ seen \in Nat
      BY <2>2, Parts, Constants DEF MemoryOK, WatchOK
    <3>4. \/ Taken(o)' >= Taken(o) /\ seen' = seen
          \/ Taken(o)' >= Taken(o) + 1 /\ seen' = seen + 1
      <4>1. CASE o[2] = k /\ used[i][k] < Limit
        <5>1. seen' = seen + 1
          BY <2>1, <2>2, <2>4, <4>1
        <5>2. Taken(o)' = Taken(o) + 1 /\ Taken(o) \in Nat
          BY <3>1, <3>2, <3>3, <4>1
        <5>3. QED
          BY <5>1, <5>2
      <4>2. CASE ~ (o[2] = k /\ used[i][k] < Limit)
        <5>1. seen' = seen
          BY <2>1, <2>2, <2>4, <4>2
        <5>2. Taken(o)' = Taken(o) /\ Taken(o) \in Nat
          BY <3>1, <3>2, <3>3, <4>2
        <5>3. QED
          BY <5>1, <5>2
      <4>3. QED
        BY <4>1, <4>2
    <3>5. Rest(o)' = Rest(o) \/ Rest(o)' >= Window
      <4>1. MemoryWindow >= Window
        BY Constants, TierAssumption DEF MemoryWindow
      <4>2. QED
        BY <3>1, <3>2, <4>1
    <3>6. QED
      BY <1>2, <1>3, <2>1, <3>4, <3>5, ExplainedStays
  <2>5. QED
    BY <2>3, <2>4
<1>4. <<i, k>> # NoWatch
  BY DEF NoWatch
<1>5. QED
  BY <1>1, <1>3, <1>4, ObserveWatch

LEMMA incrWatch ==
  ASSUME IInv, RedisOK', WatchInv, NEW r \in Request, incr(r)
  PROVE  WatchInv'
<1> DEFINE k == key[r]  count == counter[k] + 1
<1>1. /\ counter' = [counter EXCEPT ![k] = IF count <= Limit THEN count ELSE Limit + 1]
      /\ Observe(<<"redis", k>>, count <= Limit, {})
      /\ UNCHANGED <<ttl, used, left>>
  BY DEF incr, memoryVars
<1>2. k \in Key /\ MemoryOK'
  BY Parts, MemoryStays DEF incr, IInv, Configured
<1>3. ASSUME NEW o \in Observed, watched = o, Explained(o)
      PROVE  Explained(o)'
  <2>1. /\ slots' = slots
        /\ seen' = IF count <= Limit /\ o = <<"redis", k>> THEN seen + 1 ELSE seen
    BY <1>1, <1>3 DEF Observe
  <2>2. o[1] \in Instance \cup {"redis"} /\ o[2] \in Key /\ o = <<o[1], o[2]>>
    BY ObservedCounters
  <2>3. Rest(o)' = Rest(o)
    BY <1>1 DEF Rest
  <2>4. CASE o # <<"redis", k>>
    <3>1. Taken(o)' = Taken(o)
      BY <1>1, <2>2, <2>4, Parts DEF Taken, RedisOK
    <3>2. QED
      BY <1>3, <2>1, <2>3, <2>4, <3>1, ExplainedSame
  <2>5. CASE o = <<"redis", k>>
    <3>1. /\ counter[k] \in Nat /\ seen \in Nat
          /\ counter'[k] = IF count <= Limit THEN count ELSE Limit + 1
      BY <1>1, <1>2, Parts, Constants DEF RedisOK, WatchOK
    <3>2. /\ Taken(o) = IF counter[k] < Limit THEN counter[k] ELSE Limit
          /\ Taken(o)' = IF counter'[k] < Limit THEN counter'[k] ELSE Limit
      BY <2>5 DEF Taken
    <3>3. \/ Taken(o)' >= Taken(o) /\ seen' = seen
          \/ Taken(o)' >= Taken(o) + 1 /\ seen' = seen + 1
      <4>1. CASE count <= Limit
        <5>1. Taken(o) = counter[k] /\ Taken(o)' = counter[k] + 1 /\ seen' = seen + 1
          BY <2>1, <2>5, <3>1, <3>2, <4>1, Constants
        <5>2. QED
          BY <3>1, <5>1
      <4>2. CASE ~ (count <= Limit)
        <5>1. Taken(o) = Limit /\ Taken(o)' = Limit /\ seen' = seen
          BY <2>1, <2>5, <3>1, <3>2, <4>2, Constants
        <5>2. QED
          BY <5>1, Constants
      <4>3. QED
        BY <4>1, <4>2
    <3>4. QED
      BY <1>2, <1>3, <2>1, <2>3, <3>3, ExplainedStays
  <2>6. QED
    BY <2>4, <2>5
<1>4. <<"redis", k>> # NoWatch
  BY DEF NoWatch
<1>5. QED
  BY <1>1, <1>3, <1>4, ObserveWatch

(* EXPIRE, whether or not it is answered, and an INCR that is not.         *)
LEMMA CommandWatch ==
  ASSUME IInv, RedisOK', WatchInv, NEW k \in Key, UNCHANGED <<memoryVars, watchVars>>,
         \/ UNCHANGED counter
            /\ ttl' = [ttl EXCEPT ![k] = IF counter[k] > 0 THEN Window ELSE 0]
         \/ UNCHANGED ttl
            /\ counter' = [counter EXCEPT ![k] = IF @ < Limit THEN @ + 1 ELSE Limit + 1]
  PROVE  WatchInv'
<1>1. MemoryOK' /\ UNCHANGED <<used, left, watched, slots, seen>>
  BY Parts, MemoryStays DEF memoryVars, watchVars
<1>2. ASSUME NEW o \in Observed, Explained(o)
      PROVE  Explained(o)'
  <2>1. o[1] \in Instance \cup {"redis"} /\ o[2] \in Key
    BY ObservedCounters
  <2>2. Taken(o)' >= Taken(o)
    <3>1. CASE o[1] # "redis"
      <4>1. Taken(o)' = Taken(o) /\ Taken(o) \in Nat
        BY <1>1, <3>1, TakenInRange, Constants DEF Taken
      <4>2. QED
        BY <4>1
    <3>2. CASE o[1] = "redis"
      <4>1. counter[o[2]] \in Nat
        BY <2>1, Parts, Constants DEF RedisOK
      <4>2. counter'[o[2]] = counter[o[2]] \/ counter'[o[2]] = counter[o[2]] + 1
                                           \/ counter'[o[2]] = Limit + 1
        BY <2>1, Parts DEF RedisOK
      <4>3. QED
        BY <3>2, <4>1, <4>2, Constants DEF Taken
    <3>3. QED
      BY <3>1, <3>2
  <2>3. Rest(o)' = Rest(o) \/ Rest(o)' = 0 \/ Rest(o)' >= Window
    <3>1. CASE o[1] # "redis"
      BY <1>1, <3>1 DEF Rest
    <3>2. CASE o[1] = "redis"
      <4>1. ttl'[o[2]] = ttl[o[2]] \/ ttl'[o[2]] = 0 \/ ttl'[o[2]] = Window
        BY <2>1, Parts DEF RedisOK
      <4>2. QED
        BY <3>2, <4>1, Constants DEF Rest
    <3>3. QED
      BY <3>1, <3>2
  <2>4. QED
    BY <1>1, <1>2, <2>2, <2>3, ExplainedStays
<1>3. QED
  BY <1>1, <1>2 DEF WatchInv

(* Steps that leave the observation and what it observes alone.            *)
LEMMA IdleWatch ==
  ASSUME WatchInv, UNCHANGED <<counter, ttl, memoryVars, watchVars>>
  PROVE  WatchInv'
<1>1. UNCHANGED <<watched, slots, seen>> /\ \A o \in Observed : Explained(o) => Explained(o)'
  BY DEF Explained, Taken, Rest, memoryVars, watchVars
<1>2. QED
  BY <1>1 DEF WatchInv

LEMMA ComesBackWatch ==
  ASSUME IInv, WatchInv, RedisComesBack
  PROVE  WatchInv'
<1>1. CASE UNCHANGED <<counter, ttl, watchVars>>
  BY <1>1, IdleWatch DEF RedisComesBack
<1>2. CASE Observe(NoWatch, FALSE, {"redis"} \X Key)
  <2>1. ASSUME NEW o \in Observed, watched = o, o \notin {"redis"} \X Key, Explained(o)
        PROVE  Explained(o)'
    <3>1. o[1] # "redis"
      BY <2>1, ObservedCounters
    <3>2. seen' = seen /\ slots' = slots
      BY <1>2, <2>1 DEF Observe
    <3>3. Taken(o)' = Taken(o) /\ Rest(o)' = Rest(o)
      BY <3>1 DEF Taken, Rest, RedisComesBack, memoryVars
    <3>4. QED
      BY <2>1, <3>2, <3>3, ExplainedSame
  <2>2. QED
    BY <1>2, <2>1, ObserveWatch
<1>3. QED
  BY <1>1, <1>2 DEF RedisComesBack

LEMMA RestartWatch ==
  ASSUME IInv, WatchInv, NEW i \in Instance, Restart(i)
  PROVE  WatchInv'
<1>1. ASSUME NEW o \in Observed, watched = o, o \notin {i} \X Key, Explained(o)
      PROVE  Explained(o)'
  <2>1. o[1] # i /\ o[1] \in Instance \cup {"redis"}
    BY <1>1, ObservedCounters
  <2>2. seen' = seen /\ slots' = slots
    BY <1>1 DEF Restart, Observe
  <2>3. Taken(o)' = Taken(o) /\ Rest(o)' = Rest(o)
    <3>1. CASE o[1] = "redis"
      BY <3>1 DEF Taken, Rest, Restart, redisVars
    <3>2. CASE o[1] # "redis"
      <4>1. used'[o[1]] = used[o[1]] /\ left'[o[1]] = left[o[1]]
        BY <2>1, <3>2, Parts DEF Restart, MemoryOK
      <4>2. QED
        BY <3>2, <4>1 DEF Taken, Rest
    <3>3. QED
      BY <3>1, <3>2
  <2>4. QED
    BY <1>1, <2>2, <2>3, ExplainedSame
<1>2. QED
  BY <1>1, ObserveWatch DEF Restart

LEMMA WatchBegins ==
  ASSUME IInv, WatchOK', WatchInv, NEW c \in Observed, Watch(c)
  PROVE  WatchInv'
<1>1. \A o \in Observed : Taken(o)' = Taken(o) /\ Taken(o) \in 0 .. Limit
  BY TakenInRange DEF Watch, Taken, redisVars, memoryVars
<1>2. \A o \in Observed : Explained(o)'
  BY <1>1, Constants DEF Watch, Explained
<1>3. c # NoWatch
  BY ObservedCounters
<1>4. QED
  BY <1>2, <1>3, Constants DEF Watch, WatchInv

(* When the window seen first ends, the next one begins later than the     *)
(* observation did, and lasts longer.                                      *)
LEMMA TickWatch ==
  ASSUME IInv, WatchInv, Tick
  PROVE  WatchInv'
<1>0. seen \in Nat /\ slots \in Nat
  BY Parts, Constants DEF WatchOK
<1>1. CASE watched = NoWatch \/ slots = 1
  <2>1. \A o \in Observed : o # NoWatch
    BY ObservedCounters
  <2>2. QED
    BY <1>1, <2>1 DEF Tick, WatchInv
<1>2. CASE watched # NoWatch /\ slots # 1
  <2>1. watched' = watched /\ seen' = seen /\ slots > 1 /\ slots' = slots - 1
    BY <1>0, <1>2 DEF Tick, Less, WatchInv
  <2>2. ASSUME NEW o \in Observed, watched = o
        PROVE  Explained(o)'
    <3>1. o[1] \in Instance \cup {"redis"} /\ o[2] \in Key
      BY ObservedCounters
    <3> DEFINE t == Taken(o)  q == Rest(o)
    <3>2. t \in 0 .. Limit /\ q \in Nat
      BY TakenInRange
    <3>3. /\ Taken(o)' = IF q = 1 THEN 0 ELSE t
          /\ Rest(o)' = Less(q)
      <4>1. CASE o[1] = "redis"
        <5>1. /\ counter'[o[2]] = IF ttl[o[2]] = 1 THEN 0 ELSE counter[o[2]]
              /\ ttl'[o[2]] = Less(ttl[o[2]])
          BY <3>1 DEF Tick
        <5>2. QED
          BY <4>1, <5>1, Constants DEF Taken, Rest
      <4>2. CASE o[1] # "redis"
        <5>1. /\ used'[o[1]][o[2]] = IF left[o[1]][o[2]] = 1 THEN 0 ELSE used[o[1]][o[2]]
              /\ left'[o[1]][o[2]] = Less(left[o[1]][o[2]])
          BY <3>1, <4>2 DEF Tick
        <5>2. QED
          BY <4>2, <5>1 DEF Taken, Rest
      <4>3. QED
        BY <4>1, <4>2
    <3>4. seen <= t \/ (seen <= Limit + t /\ (q = 0 \/ q >= slots))
      BY <2>2 DEF WatchInv, Explained
    <3> HIDE DEF t, q
    <3>5. CASE q = 1
      <4>1. seen <= Limit /\ Taken(o)' = 0 /\ Rest(o)' = 0
        BY <1>0, <2>1, <3>2, <3>3, <3>4, <3>5, Constants DEF Less
      <4>2. QED
        BY <1>0, <2>1, <4>1, Constants DEF Explained
    <3>6. CASE q # 1
      <4>1. Taken(o)' = t /\ Rest(o)' = IF q > 0 THEN q - 1 ELSE 0
        BY <3>3, <3>6 DEF Less
      <4>2. q >= slots => q - 1 >= slots - 1 /\ q > 0
        BY <1>0, <2>1, <3>2
      <4>3. QED
        BY <2>1, <3>2, <3>4, <4>1, <4>2 DEF Explained
    <3>7. QED
      BY <3>5, <3>6
  <2>3. QED
    BY <1>0, <1>2, <2>1, <2>2 DEF WatchInv
<1>3. QED
  BY <1>1, <1>2

LEMMA WatchInvStep == IInv /\ IInv' /\ WatchInv /\ [Next]_vars => WatchInv'
<1> SUFFICES ASSUME IInv, IInv', WatchInv, [Next]_vars
             PROVE  WatchInv'
  OBVIOUS
<1>0. MemoryOK' /\ WatchOK' /\ RedisOK'
  BY DEF IInv, TypeOK, MemoryOK, WatchOK, RedisOK
<1> USE InstanceOfAssumption
<1>1. ASSUME NEW r \in Request, NEW k \in Key, consume(r, k)
      PROVE  WatchInv'
  <2>1. CASE consumeInMemory(r, k)
    BY <1>0, <2>1, memoryConsumeWatch DEF consumeInMemory
  <2>2. CASE consumeWithRedis(r, k) \/ tryProbe(r, k)
    BY <2>2, IdleWatch DEF consumeWithRedis, tryProbe, redisVars
  <2>3. QED
    BY <1>1, <2>1, <2>2 DEF consume
<1>2. ASSUME NEW r \in Request, incr(r)
      PROVE  WatchInv'
  BY <1>0, <1>2, incrWatch
<1>3. ASSUME NEW r \in Request, expire(r) \/ AnswerLost(r)
      PROVE  WatchInv'
  <2>1. key[r] \in Key
    BY <1>3 DEF expire, AnswerLost, IInv, Configured
  <2>2. QED
    BY <1>0, <1>3, <2>1, CommandWatch DEF expire, AnswerLost
<1>4. ASSUME NEW r \in Request, consumeFailed(r)
      PROVE  WatchInv'
  <2>1. key[r] \in Key /\ UNCHANGED redisVars
    BY <1>4 DEF consumeFailed, IInv, Configured
  <2>2. CASE UNCHANGED <<memoryVars, watchVars>>
    BY <2>1, <2>2, IdleWatch DEF redisVars
  <2>3. CASE memoryConsume(InstanceOf[r], key[r])
    BY <1>0, <2>1, <2>3, memoryConsumeWatch
  <2>4. QED
    BY <1>4, <2>2, <2>3 DEF consumeFailed
<1>5. CASE RedisGoesDown \/ UNCHANGED vars
  BY <1>5, IdleWatch DEF RedisGoesDown, vars, redisVars
<1>6. CASE RedisComesBack
  BY <1>6, ComesBackWatch
<1>7. ASSUME NEW i \in Instance, Restart(i)
      PROVE  WatchInv'
  BY <1>7, RestartWatch
<1>8. ASSUME NEW c \in Observed, Watch(c)
      PROVE  WatchInv'
  BY <1>0, <1>8, WatchBegins
<1>9. CASE Tick
  BY <1>9, TickWatch
<1>10. QED
  BY <1>1, <1>2, <1>3, <1>4, <1>5, <1>6, <1>7, <1>8, <1>9 DEF Next

(* Within any time as long as a window a counter grants at most twice the  *)
(* limit, in Redis or in memory, through every failure and recovery.       *)
THEOREM GrantsAreBounded == Spec => []AtMostTwoWindows
<1>1. Init => WatchInv
  <2>1. \A o \in Observed : o # NoWatch
    BY ObservedCounters
  <2>2. QED
    BY <2>1 DEF Init, WatchInv
<1>2. IInv /\ WatchInv => AtMostTwoWindows
  <2> SUFFICES ASSUME IInv, WatchInv
               PROVE  AtMostTwoWindows
    OBVIOUS
  <2>1. watched \in Observed \cup {NoWatch} /\ seen \in Nat
    BY Parts DEF WatchOK
  <2>2. CASE watched = NoWatch
    BY <2>2, Constants DEF WatchInv, AtMostTwoWindows
  <2>3. ASSUME NEW o \in Observed, watched = o
        PROVE  AtMostTwoWindows
    <3>1. Taken(o) \in 0 .. Limit
      BY TakenInRange
    <3>2. seen <= Limit + Taken(o)
      BY <2>1, <2>3, <3>1, Constants DEF WatchInv, Explained
    <3>3. QED
      BY <2>1, <3>1, <3>2, Constants DEF AtMostTwoWindows
  <2>4. QED
    BY <2>1, <2>2, <2>3
<1>3. QED
  BY <1>1, <1>2, Invariance, WatchInvStep, PTL DEF Spec
=============================================================================
