------------------------- MODULE Performance_proofs -------------------------
(***************************************************************************)
(* Theorems about the performance package's helpers, for any number of     *)
(* keys, threads, connections and queries.                                 *)
(*                                                                         *)
(* The argument for the pool: although its lock is never taken, pop and    *)
(* append hand a connection over in one step, so it is always in one       *)
(* place; a thread that makes a new one found the pool empty and counts as *)
(* a user from then on; what a clear() has passed in the list is closed or *)
(* was appended since.  For the caches: as long as the clock only grows,   *)
(* access times order the keys as their uses do.                           *)
(***************************************************************************)
EXTENDS Performance, FiniteSetTheorems, TLAPS

LEMMA Assumptions ==
  /\ IsFiniteSet(Threads) /\ PoolSize \in Nat /\ None \notin Conns
  /\ MaxQueries \in Nat /\ CacheSize \in Nat /\ MaxClock \in Nat
  BY PoolAssumption, BatchAssumption, LruAssumption

-----------------------------------------------------------------------------
(* Lists of connections *)

LEMMA AppendToSet ==
  ASSUME NEW S, NEW s \in Seq(S), NEW e
  PROVE  ToSet(Append(s, e)) = ToSet(s) \cup {e}
  <1>1. /\ Len(s) \in Nat /\ DOMAIN s = 1 .. Len(s)
        /\ DOMAIN Append(s, e) = 1 .. Len(s) + 1
        /\ \A i \in 1 .. Len(s) : Append(s, e)[i] = s[i]
        /\ Append(s, e)[Len(s) + 1] = e
    OBVIOUS
  <1>2. 1 .. Len(s) + 1 = (1 .. Len(s)) \cup {Len(s) + 1}
    BY <1>1
  <1> QED
    BY <1>1, <1>2 DEF ToSet

\* A connection that is not in the list can be appended without repetition.
LEMMA AppendOther ==
  ASSUME NEW S, NEW s \in Seq(S), NEW e, e \notin ToSet(s), IsInjective(s)
  PROVE  IsInjective(Append(s, e))
  <1> DEFINE f == Append(s, e)
  <1>1. /\ Len(s) \in Nat /\ DOMAIN s = 1 .. Len(s)
        /\ DOMAIN f = 1 .. Len(s) + 1
        /\ \A i \in 1 .. Len(s) : f[i] = s[i]
        /\ f[Len(s) + 1] = e
    OBVIOUS
  <1>2. \A i \in 1 .. Len(s) : s[i] # e
    BY <1>1 DEF ToSet
  <1>3. \A i, j \in 1 .. Len(s) : s[i] = s[j] => i = j
    BY <1>1 DEF IsInjective
  <1> HIDE DEF f
  <1>4. \A i \in DOMAIN f : i \in 1 .. Len(s) \/ i = Len(s) + 1
    BY <1>1
  <1>5. \A i, j \in DOMAIN f : f[i] = f[j] => i = j
    BY <1>1, <1>2, <1>3, <1>4
  <1>6. IsInjective(f)
    BY <1>5, Zenon DEF IsInjective
  <1> QED
    BY <1>6 DEF f

\* pop() takes the last element out, and only that one.
LEMMA PopLast ==
  ASSUME NEW S, NEW s \in Seq(S), s # <<>>
  PROVE  /\ Last(s) \in ToSet(s) /\ Last(s) \in S
         /\ Front(s) \in Seq(S) /\ Len(Front(s)) = Len(s) - 1
         /\ ToSet(Front(s)) \subseteq ToSet(s)
         /\ IsInjective(s) => IsInjective(Front(s)) /\ Last(s) \notin ToSet(Front(s))
  <1>1. /\ Len(s) \in Nat /\ Len(s) > 0 /\ DOMAIN s = 1 .. Len(s)
        /\ \A i \in 1 .. Len(s) : s[i] \in S
    OBVIOUS
  <1>2. Last(s) = s[Len(s)] /\ Front(s) = SubSeq(s, 1, Len(s) - 1)
    BY DEF Last, Front
  <1>3. /\ SubSeq(s, 1, Len(s) - 1) \in Seq(S)
        /\ Len(SubSeq(s, 1, Len(s) - 1)) = Len(s) - 1
        /\ DOMAIN SubSeq(s, 1, Len(s) - 1) = 1 .. Len(s) - 1
        /\ \A i \in 1 .. Len(s) - 1 : SubSeq(s, 1, Len(s) - 1)[i] = s[i]
    BY <1>1
  <1>4. /\ Front(s) \in Seq(S) /\ Len(Front(s)) = Len(s) - 1
        /\ DOMAIN Front(s) = 1 .. Len(s) - 1
        /\ \A i \in 1 .. Len(s) - 1 : Front(s)[i] = s[i]
    BY <1>2, <1>3
  <1>5. Last(s) \in ToSet(s) /\ Last(s) \in S
    BY <1>1, <1>2 DEF ToSet
  <1>6. ToSet(Front(s)) \subseteq ToSet(s)
    BY <1>1, <1>4 DEF ToSet
  <1>7. IsInjective(s) => IsInjective(Front(s)) /\ Last(s) \notin ToSet(Front(s))
    BY <1>1, <1>2, <1>4 DEF ToSet, IsInjective
  <1> QED
    BY <1>4, <1>5, <1>6, <1>7

LEMMA EmptyList == ToSet(<<>>) = {} /\ IsInjective(<<>>) /\ Len(<<>>) = 0
  BY DEF ToSet, IsInjective

-----------------------------------------------------------------------------
(* Types *)

\* A thread in the middle of giving back has something to give back, one in
\* the middle of getting has nothing yet, and a clear() that is about to close
\* has a connection in its hand; it begins with the first.
AtInv == \A t \in Threads :
  /\ at[t] \in {"add", "remove", "room", "append"} => held[t] # None
  /\ at[t] \in {"create", "pop"} => held[t] = None
  /\ at[t] = "close" => hand[t] # None
  /\ at[t] \notin {"fetch", "close"} => pos[t] = 0

CacheInv == CacheBounded /\ IsFiniteSet(cached)

\* The two dictionaries of a cache have the same keys, and no more than fit.
LEMMA LruKept ==
  ASSUME LruTypeOK, CacheBounded, IsFiniteSet(cached), LruStep
  PROVE  CacheBounded' /\ IsFiniteSet(cached)'
  <1>1. ASSUME NEW k \in Keys, Hit(k)
        PROVE  CacheBounded' /\ IsFiniteSet(cached)'
    BY <1>1 DEF Hit, CacheBounded
  <1>2. ASSUME NEW k \in Keys, Put(k)
        PROVE  CacheBounded' /\ IsFiniteSet(cached)'
    <2>0. Cardinality(cached) \in Nat
      BY FS_CardinalityType
    <2>1. ASSUME NEW ev, Stored(k, ev)
          PROVE  DOMAIN accessed' = cached' /\ cached' = (cached \ ev) \cup {k}
      BY <2>1 DEF Stored, With, Restrict
    <2>2. CASE ~(Cardinality(cached) >= CacheSize)
      <3>1. cached' = cached \cup {k} /\ DOMAIN accessed' = cached'
        BY <1>2, <2>1, <2>2 DEF Put
      <3>2. IsFiniteSet(cached') /\ Cardinality(cached') <= Cardinality(cached) + 1
        BY <2>0, <3>1, FS_AddElement
      <3> QED
        BY <2>0, <2>2, <3>1, <3>2, Assumptions, FS_CardinalityType DEF CacheBounded
    <2>3. CASE Cardinality(cached) >= CacheSize
      <3>1. PICK l \in LruKeys : Stored(k, {l})
        BY <1>2, <2>3 DEF Put
      <3>2. l \in cached
        BY <3>1 DEF LruKeys, CacheBounded
      <3>3. IsFiniteSet(cached \ {l}) /\ Cardinality(cached \ {l}) = Cardinality(cached) - 1
        BY <3>2, FS_RemoveElement
      <3>4. cached' = (cached \ {l}) \cup {k} /\ DOMAIN accessed' = cached'
        BY <2>1, <3>1
      <3>5. IsFiniteSet(cached') /\ Cardinality(cached') <= Cardinality(cached \ {l}) + 1
        <4> DEFINE rest == cached \ {l}
        <4>1. IsFiniteSet(rest) /\ Cardinality(rest) \in Nat
          BY <3>3, FS_CardinalityType
        <4> HIDE DEF rest
        <4>2. IsFiniteSet(rest \cup {k}) /\ Cardinality(rest \cup {k}) <= Cardinality(rest) + 1
          <5>1. /\ IsFiniteSet(rest \cup {k})
                /\ Cardinality(rest \cup {k})
                     = IF k \in rest THEN Cardinality(rest) ELSE Cardinality(rest) + 1
            BY <4>1, FS_AddElement, Zenon
          <5> QED
            BY <4>1, <5>1
        <4> QED
          BY <3>4, <4>2 DEF rest
      <3> QED
        BY <2>0, <3>3, <3>4, <3>5, Assumptions, FS_CardinalityType DEF CacheBounded
    <2> QED
      BY <2>2, <2>3
  <1>3. CASE Clear
    <2>1. cached' = {} /\ DOMAIN accessed' = {}
      BY <1>3 DEF Clear
    <2> QED
      BY <2>1, FS_EmptySet, Assumptions DEF CacheBounded
  <1>4. CASE ClockBack
    BY <1>4 DEF ClockBack, CacheBounded
  <1> QED
    BY <1>1, <1>2, <1>3, <1>4 DEF LruStep

LEMMA LruType ==
  ASSUME LruTypeOK, CacheBounded, LruStep
  PROVE  LruTypeOK'
  <1>1. ASSUME NEW k \in Keys, Hit(k)
        PROVE  LruTypeOK'
    <2>1. clock \in 0 .. MaxClock /\ clock' \in 0 .. MaxClock
      BY <1>1, Assumptions DEF Hit, Ticks, LruTypeOK
    <2>2. accessed' \in [DOMAIN accessed' -> 0 .. MaxClock]
      BY <1>1, <2>1 DEF Hit, LruTypeOK
    <2>3. older' \subseteq Keys \X Keys
      BY <1>1 DEF Hit, Uses, LruTypeOK
    <2> QED
      BY <1>1, <2>1, <2>2, <2>3 DEF Hit, LruTypeOK
  <1>2. ASSUME NEW k \in Keys, Put(k)
        PROVE  LruTypeOK'
    <2>1. PICK ev : Stored(k, ev)
      BY <1>2 DEF Put
    <2>2. cached' \subseteq Keys
      BY <2>1 DEF Stored, LruTypeOK
    <2>3. accessed' \in [DOMAIN accessed' -> 0 .. MaxClock]
      <3>1. /\ accessed' = With(Restrict(accessed, cached \ ev), k, clock)
            /\ \A x \in cached : accessed[x] \in 0 .. MaxClock
            /\ clock \in 0 .. MaxClock
        BY <2>1 DEF Stored, LruTypeOK, CacheBounded
      <3>2. accessed' = [x \in (cached \ ev) \cup {k} |->
                           IF x = k THEN clock ELSE Restrict(accessed, cached \ ev)[x]]
        BY <3>1 DEF With, Restrict
      <3>3. \A x \in cached \ ev : Restrict(accessed, cached \ ev)[x] = accessed[x]
        BY DEF Restrict
      <3> QED
        BY <3>1, <3>2, <3>3
    <2>4. older' \subseteq Keys \X Keys
      BY <2>1 DEF Stored, Uses, LruTypeOK
    <2> QED
      BY <1>2, <2>2, <2>3, <2>4, Assumptions DEF Put, Ticks, LruTypeOK
  <1>3. CASE Clear
    BY <1>3 DEF Clear, LruTypeOK
  <1>4. CASE ClockBack
    BY <1>4, Assumptions DEF ClockBack, LruTypeOK
  <1> QED
    BY <1>1, <1>2, <1>3, <1>4 DEF LruStep

LEMMA PoolType ==
  ASSUME PoolTypeOK, AtInv, PoolStep
  PROVE  PoolTypeOK' /\ AtInv'
  <1> PICK t \in Threads : Gets(t) \/ Returns(t) \/ Clears(t)
    BY DEF PoolStep
  <1> USE Assumptions DEF PoolTypeOK, AtInv, Moves, Holds, At, Clearing, clearVars, history
  <1>1. CASE GetTests(t)
    BY <1>1 DEF GetTests
  <1>2. CASE GetCreates(t)
    BY <1>2 DEF GetCreates
  <1>3. CASE GetFails(t)
    BY <1>3 DEF GetFails
  <1>4. CASE GetPops(t)
    <2>1. available # <<>> /\ Last(available) \in Conns /\ Front(available) \in Seq(Conns)
      BY <1>4, PopLast DEF GetPops
    <2> QED
      BY <1>4, <2>1 DEF GetPops
  <1>5. CASE GetFindsNone(t)
    BY <1>5 DEF GetFindsNone
  <1>6. CASE GetAdds(t)
    BY <1>6 DEF GetAdds
  <1>7. CASE ReturnTests(t)
    BY <1>7 DEF ReturnTests
  <1>8. CASE ReturnRemoves(t)
    BY <1>8 DEF ReturnRemoves
  <1>9. CASE ReturnSeesRoom(t)
    BY <1>9 DEF ReturnSeesRoom
  <1>10. CASE ReturnAppends(t)
    <2>1. held[t] \in Conns
      BY <1>10 DEF ReturnAppends
    <2>2. available' \in Seq(Conns)
      BY <1>10, <2>1 DEF ReturnAppends
    <2>3. late' \subseteq Conns
      BY <1>10, <2>1 DEF ReturnAppends
    <2> QED
      BY <1>10, <2>2, <2>3 DEF ReturnAppends
  <1>11. CASE ReturnCloses(t)
    BY <1>11 DEF ReturnCloses
  <1>12. CASE ClearBegins(t)
    BY <1>12 DEF ClearBegins
  <1>13. CASE ClearFetches(t)
    <2>1. pos[t] + 1 \in 1 .. Len(available)
      BY <1>13 DEF ClearFetches
    <2>2. available[pos[t] + 1] \in Conns
      BY <2>1
    <2>3. /\ pos' = [pos EXCEPT ![t] = pos[t] + 1] /\ pos'[t] = pos[t] + 1
          /\ hand' = [hand EXCEPT ![t] = available[pos[t] + 1]]
          /\ hand'[t] = available[pos[t] + 1]
          /\ doomed' = doomed \cup {hand'[t]}
          /\ at' = [at EXCEPT ![t] = "close"]
          /\ UNCHANGED <<available, inUse, open, held, history>>
      BY <1>13 DEF ClearFetches
    <2>4. available[pos[t] + 1] # None
      BY <2>2
    <2> QED
      BY <2>1, <2>2, <2>3, <2>4
  <1>14. CASE ClearCloses(t)
    BY <1>14 DEF ClearCloses
  <1>15. CASE ClearLoopEnds(t)
    BY <1>15 DEF ClearLoopEnds
  <1>16. CASE ClearEmpties(t)
    BY <1>16 DEF ClearEmpties
  <1>17. CASE ClearForgets(t)
    BY <1>17 DEF ClearForgets
  <1> QED
    BY <1>1, <1>2, <1>3, <1>4, <1>5, <1>6, <1>7, <1>8, <1>9, <1>10, <1>11, <1>12, <1>13,
       <1>14, <1>15, <1>16, <1>17 DEF Gets, Returns, Clears

LEMMA Wider ==
  ASSUME NEW S, NEW T, S \subseteq T
  PROVE  Seq(S) \subseteq Seq(T)
  OBVIOUS

LEMMA Elements ==
  ASSUME NEW S, NEW s \in Seq(S)
  PROVE  \A i \in DOMAIN s : s[i] \in S
  OBVIOUS

LEMMA BatchType ==
  ASSUME BatchTypeOK, BatchStep
  PROVE  BatchTypeOK'
  <1> USE DEF BatchTypeOK
  <1>1. CASE AddQuery
    <2>1. added' \in 1 .. added' /\ 1 .. added \subseteq 1 .. added' /\ added' \in 0 .. MaxQueries
      BY <1>1, Assumptions DEF AddQuery
    <2>2. pending \in Seq(1 .. added') /\ executed \in Seq(1 .. added')
      BY <2>1, Wider
    <2> QED
      BY <1>1, <2>1, <2>2 DEF AddQuery
  <1>2. CASE ExecuteBatch
    BY <1>2 DEF ExecuteBatch
  <1>3. CASE BatchFails
    <2>1. PICK n \in 0 .. Len(pending) - 1 : executed' = executed \o SubSeq(pending, 1, n)
      BY <1>3 DEF BatchFails
    <2>2. SubSeq(pending, 1, n) \in Seq(1 .. added)
      OBVIOUS
    <2> QED
      BY <1>3, <2>1, <2>2 DEF BatchFails
  <1>4. CASE ClearPending
    BY <1>4 DEF ClearPending
  <1> QED
    BY <1>1, <1>2, <1>3, <1>4 DEF BatchStep

LEMMA TypeInit ==
  ASSUME Init
  PROVE  TypeOK /\ AtInv /\ CacheInv
  <1>1. LruTypeOK /\ CacheBounded /\ IsFiniteSet(cached)
    <2>1. DOMAIN accessed = {} /\ accessed \in [{} -> 0 .. MaxClock] /\ cached = {}
      BY DEF Init, LruInit
    <2>2. clock \in 0 .. MaxClock
      BY Assumptions DEF Init, LruInit
    <2>3. stepped \in BOOLEAN /\ older = {}
      BY DEF Init, LruInit
    <2> QED
      BY <2>1, <2>2, <2>3, FS_EmptySet, Assumptions DEF LruTypeOK, CacheBounded
  <1>2. PoolTypeOK /\ AtInv
    BY Assumptions DEF Init, PoolInit, PoolTypeOK, AtInv, At, Clearing
  <1>3. BatchTypeOK
    BY Assumptions DEF Init, BatchInit, BatchTypeOK
  <1> QED
    BY <1>1, <1>2, <1>3 DEF Init, TypeOK, CacheInv

LEMMA TypeStep ==
  ASSUME TypeOK, AtInv, CacheInv, [Next]_vars
  PROVE  TypeOK' /\ AtInv' /\ CacheInv'
  <1>1. (LruStep \/ UNCHANGED lruVars) => LruTypeOK' /\ CacheInv'
    BY LruType, LruKept DEF TypeOK, LruTypeOK, lruVars, CacheInv, CacheBounded
  <1>2. (PoolStep \/ UNCHANGED poolVars) => PoolTypeOK' /\ AtInv'
    BY PoolType DEF TypeOK, PoolTypeOK, AtInv, poolVars, clearVars, history
  <1>3. (BatchStep \/ UNCHANGED batchVars) => BatchTypeOK'
    BY BatchType DEF TypeOK, BatchTypeOK, batchVars
  <1>4. part' \in Parts
    BY DEF Next, CacheUsed, PoolUsed, BatchUsed, vars, TypeOK
  <1> QED
    BY <1>1, <1>2, <1>3, <1>4 DEF Next, CacheUsed, PoolUsed, BatchUsed, vars, TypeOK

IInv == TypeOK /\ AtInv /\ CacheInv

LEMMA Inductive == Spec => []IInv
  <1>1. Init => IInv
    BY TypeInit DEF IInv
  <1>2. IInv /\ [Next]_vars => IInv'
    BY TypeStep DEF IInv
  <1> QED
    BY <1>1, <1>2, PTL DEF Spec

\* TypeOK: a thread holds one connection or none, and nothing but connections
\* and queries that were made gets into the lists.
THEOREM TypeCorrect == Spec => []TypeOK
  <1>1. IInv => TypeOK
    BY DEF IInv
  <1> QED
    BY <1>1, Inductive, PTL

\* CacheBounded: a full cache evicts before it stores, and the contents and
\* the access times of a cache keep the same keys.
THEOREM CachesAreBounded == Spec => []CacheBounded
  <1>1. IInv => CacheBounded
    BY DEF IInv, CacheInv
  <1> QED
    BY <1>1, Inductive, PTL

-----------------------------------------------------------------------------
(* The caches *)

\* While the clock has only gone forward, the access times are past and order
\* the keys as their uses did.
AgeInv ==
  ~stepped =>
    /\ \A k \in cached : accessed[k] < clock
    /\ \A a, b \in cached : a # b /\ accessed[a] <= accessed[b] => <<a, b>> \in older

\* A use makes its key the youngest.
LEMMA AgeUsed ==
  ASSUME LruTypeOK, CacheBounded, AgeInv, Ticks, UNCHANGED stepped, NEW k, NEW others,
         others \subseteq cached \ {k}, Uses(k, others),
         cached' = others \cup {k}, accessed'[k] = clock,
         \A o \in others : accessed'[o] = accessed[o]
  PROVE  AgeInv'
  <1> SUFFICES ASSUME ~stepped
               PROVE  /\ \A o \in cached' : accessed'[o] < clock'
                      /\ \A a, b \in cached' : a # b /\ accessed'[a] <= accessed'[b]
                           => <<a, b>> \in older'
    BY DEF AgeInv
  <1>1. /\ clock \in Int /\ clock' = clock + 1
        /\ \A o \in others : accessed[o] \in Int /\ accessed[o] < clock
    BY DEF LruTypeOK, CacheBounded, AgeInv, Ticks
  <1>2. \A o \in cached' : accessed'[o] < clock'
    BY <1>1
  <1>3. ASSUME NEW a \in cached', NEW b \in cached', a # b, accessed'[a] <= accessed'[b]
        PROVE  <<a, b>> \in older'
    <2>1. a # k
      BY <1>1, <1>3
    <2>2. CASE b = k
      BY <1>3, <2>1, <2>2 DEF Uses
    <2>3. CASE b # k
      BY <1>3, <2>1, <2>3 DEF Uses, AgeInv
    <2> QED
      BY <2>2, <2>3
  <1> QED
    BY <1>2, <1>3

LEMMA AgeStep ==
  ASSUME LruTypeOK, CacheBounded, AgeInv, LruStep
  PROVE  AgeInv'
  <1>1. ASSUME NEW k \in Keys, Hit(k)
        PROVE  AgeInv'
    <2>1. /\ accessed'[k] = clock
          /\ \A o \in cached \ {k} : accessed'[o] = accessed[o]
          /\ cached' = (cached \ {k}) \cup {k}
      BY <1>1 DEF Hit, LruTypeOK, CacheBounded
    <2> QED
      BY <1>1, <2>1, AgeUsed DEF Hit
  <1>2. ASSUME NEW k \in Keys, NEW ev, Stored(k, ev), Ticks, UNCHANGED stepped
        PROVE  AgeInv'
    <2> DEFINE others == cached \ (ev \cup {k})
    <2>1. accessed' = [x \in (cached \ ev) \cup {k} |->
                         IF x = k THEN clock ELSE Restrict(accessed, cached \ ev)[x]]
      BY <1>2 DEF Stored, With, Restrict
    <2>2. /\ accessed'[k] = clock
          /\ \A o \in others : accessed'[o] = accessed[o]
      BY <2>1 DEF Restrict
    <2>3. cached' = others \cup {k} /\ Uses(k, others) /\ others \subseteq cached \ {k}
      BY <1>2 DEF Stored
    <2> QED
      BY <1>2, <2>2, <2>3, AgeUsed
  <1>3. ASSUME NEW k \in Keys, Put(k)
        PROVE  AgeInv'
    BY <1>2, <1>3 DEF Put
  <1>4. CASE Clear
    BY <1>4 DEF Clear, AgeInv
  <1>5. CASE ClockBack
    BY <1>5 DEF ClockBack, AgeInv
  <1> QED
    BY <1>1, <1>3, <1>4, <1>5 DEF LruStep

\* Only a put into a full cache evicts, and it takes the least access time.
LEMMA EvictionOldest ==
  ASSUME LruTypeOK, CacheBounded, AgeInv, LruStep, ~stepped',
         NEW k \in cached, k \notin cached', cached' # {}, NEW o \in cached \ {k}
  PROVE  <<k, o>> \in older
  <1>1. PICK n \in Keys : Put(n)
    BY DEF LruStep, Hit, Clear, ClockBack
  <1>2. PICK ev : Stored(n, ev) /\ (ev = {} \/ \E l \in LruKeys : ev = {l})
    BY <1>1 DEF Put
  <1>3. k \in LruKeys
    BY <1>2 DEF Stored
  <1>4. accessed[k] <= accessed[o] /\ ~stepped
    BY <1>1, <1>3 DEF LruKeys, CacheBounded, Put
  <1> QED
    BY <1>4 DEF AgeInv

\* EvictsOldest: as long as the wall clock is not stepped back, what a full
\* cache gives up is its least recently used entry.
THEOREM OldestEvicted == Spec => EvictsOldest
  <1>1. Init => AgeInv
    BY DEF Init, LruInit, AgeInv
  <1>2. IInv /\ AgeInv /\ [Next]_vars => AgeInv'
    <2> SUFFICES ASSUME IInv, AgeInv, [Next]_vars PROVE AgeInv'
      OBVIOUS
    <2>1. CASE LruStep
      BY <2>1, AgeStep DEF IInv, TypeOK, CacheInv
    <2>2. CASE UNCHANGED lruVars
      BY <2>2 DEF lruVars, AgeInv
    <2> QED
      BY <2>1, <2>2 DEF Next, CacheUsed, PoolUsed, BatchUsed, vars
  <1>3. IInv /\ AgeInv /\ [Next]_vars =>
          [\A k \in cached : (~stepped' /\ k \notin cached' /\ cached' # {}) =>
             \A o \in cached \ {k} : <<k, o>> \in older]_lruVars
    <2> SUFFICES ASSUME IInv, AgeInv, [Next]_vars, ~UNCHANGED lruVars,
                        NEW k \in cached, ~stepped', k \notin cached', cached' # {},
                        NEW o \in cached \ {k}
                 PROVE  <<k, o>> \in older
      OBVIOUS
    <2>1. LruStep
      BY DEF Next, CacheUsed, PoolUsed, BatchUsed, vars
    <2> QED
      BY <2>1, EvictionOldest DEF IInv, TypeOK, CacheInv
  <1> QED
    BY <1>1, <1>2, <1>3, Inductive, PTL DEF Spec, EvictsOldest

-----------------------------------------------------------------------------
(* The pool *)

\* What is closed and in the list was fetched by a clear() that has not emptied
\* it yet, or has once been taken away from under one.
ListOpen == ToSet(available) \subseteq open \cup doomed \cup escaped

\* So is what a clear() is about to close, while it is in the list; in a
\* thread's hands it has been taken away from under the clear().
HandsDoomed ==
  \A t \in Threads : at[t] = "close" =>
    /\ hand[t] \in ToSet(available) => hand[t] \in doomed \cup escaped
    /\ \A u \in Threads : held[u] = hand[t] => hand[t] \in escaped

SharedInv == NotShared /\ HeldIsOpen /\ ListOpen /\ HandsDoomed

\* The steps that leave the connections where they are and as they are.
LEMMA SharedKept ==
  ASSUME PoolTypeOK, AtInv, SharedInv, NEW t \in Threads,
         \/ GetTests(t) \/ GetFails(t) \/ GetFindsNone(t) \/ GetAdds(t) \/ ReturnTests(t)
         \/ ReturnRemoves(t) \/ ReturnSeesRoom(t) \/ ClearBegins(t) \/ ClearLoopEnds(t)
         \/ ClearForgets(t)
  PROVE  SharedInv'
  <1>1. UNCHANGED <<available, open, held, hand, doomed, escaped>>
    BY DEF GetTests, GetFails, GetFindsNone, GetAdds, ReturnTests, ReturnRemoves,
           ReturnSeesRoom, ClearBegins, ClearLoopEnds, ClearForgets, clearVars, history
  <1>2. \A u \in Threads : at'[u] = "close" => at[u] = "close"
    BY DEF GetTests, GetFails, GetFindsNone, GetAdds, ReturnTests, ReturnRemoves,
           ReturnSeesRoom, ClearBegins, ClearLoopEnds, ClearForgets, Moves, PoolTypeOK
  <1> QED
    BY <1>1, <1>2 DEF SharedInv, NotShared, HeldIsOpen, ListOpen, HandsDoomed

LEMMA SharedStep ==
  ASSUME PoolTypeOK, AtInv, SharedInv, PoolStep
  PROVE  SharedInv'
  <1> PICK t \in Threads : Gets(t) \/ Returns(t) \/ Clears(t)
    BY DEF PoolStep
  <1> USE DEF SharedInv, NotShared, HeldIsOpen, ListOpen, HandsDoomed
  <1>0. /\ available \in Seq(Conns) /\ held \in [Threads -> Conns \cup {None}]
        /\ hand \in [Threads -> Conns \cup {None}] /\ at \in [Threads -> At]
        /\ ToSet(available) \subseteq Conns /\ None \notin Conns
    BY Assumptions DEF PoolTypeOK, ToSet
  <1>1. CASE GetCreates(t)
    <2>1. PICK c \in Conns \ Known :
            /\ held' = [held EXCEPT ![t] = c] /\ open' = open \cup {c}
            /\ doomed' = doomed \ {c} /\ escaped' = escaped \ {c}
      BY <1>1 DEF GetCreates, Holds
    <2>2. /\ c \notin ToSet(available) /\ \A u \in Threads : held[u] # c /\ hand[u] # c
          /\ c # None
      BY <1>0 DEF Known
    <2>3. available' = available /\ hand' = hand /\ at' = [at EXCEPT ![t] = "add"]
      BY <1>1 DEF GetCreates, Moves
    <2>4. NotShared'
      BY <1>0, <2>1, <2>2, <2>3
    <2>5. HeldIsOpen' /\ ListOpen'
      BY <1>0, <2>1, <2>2, <2>3
    <2>6. HandsDoomed'
      BY <1>0, <2>1, <2>2, <2>3
    <2> QED
      BY <2>4, <2>5, <2>6
  <1>2. CASE GetPops(t)
    <2> DEFINE l == Last(available)
    <2>1. /\ available # <<>>
          /\ held' = [held EXCEPT ![t] = l] /\ available' = Front(available)
          /\ escaped' = escaped \cup ({l} \cap doomed)
          /\ at' = [at EXCEPT ![t] = "add"] /\ UNCHANGED <<open, hand, doomed>>
      BY <1>2 DEF GetPops, Holds, Moves, clearVars
    <2>2. /\ l \in ToSet(available) /\ ToSet(available') \subseteq ToSet(available)
          /\ IsInjective(available') /\ l \notin ToSet(available')
      BY <1>0, <2>1, PopLast
    <2> HIDE DEF l
    <2>3. \A u \in Threads : held[u] # l
      BY <2>2
    <2>4. NotShared'
      BY <1>0, <2>1, <2>2, <2>3
    <2>5. HeldIsOpen' /\ ListOpen'
      BY <1>0, <2>1, <2>2, <2>3
    <2>6. HandsDoomed'
      BY <1>0, <2>1, <2>2, <2>3
    <2> QED
      BY <2>4, <2>5, <2>6
  <1>3. CASE ReturnAppends(t)
    <2>1. /\ available' = Append(available, held[t]) /\ held' = [held EXCEPT ![t] = None]
          /\ at' = [at EXCEPT ![t] = "out"]
          /\ UNCHANGED <<open, hand, doomed, escaped>> /\ held[t] # None
      BY <1>3 DEF ReturnAppends, Holds, Moves, AtInv, clearVars
    <2>2. /\ ToSet(available') = ToSet(available) \cup {held[t]} /\ IsInjective(available')
      BY <1>0, <2>1, AppendToSet, AppendOther
    <2>3. \A u \in Threads \ {t} : held[u] # held[t]
      BY <2>1
    <2>4. NotShared'
      BY <1>0, <2>1, <2>2, <2>3
    <2>5. HeldIsOpen' /\ ListOpen'
      BY <1>0, <2>1, <2>2, <2>3
    <2>6. HandsDoomed'
      <3> SUFFICES ASSUME NEW u \in Threads, at'[u] = "close"
                   PROVE  /\ hand[u] \in ToSet(available') => hand[u] \in doomed \cup escaped
                          /\ \A v \in Threads : held'[v] = hand[u] => hand[u] \in escaped
        BY <2>1
      <3>1. at[u] = "close" /\ hand[u] # None
        BY <1>0, <2>1 DEF AtInv
      <3> QED
        BY <1>0, <2>1, <2>2, <3>1
    <2> QED
      BY <2>4, <2>5, <2>6
  <1>4. CASE ReturnCloses(t)
    <2>1. /\ held' = [held EXCEPT ![t] = None] /\ open' = open \ {held[t]}
          /\ at' = [at EXCEPT ![t] = "out"]
          /\ UNCHANGED <<available, hand, doomed, escaped>> /\ held[t] # None
      BY <1>4 DEF ReturnCloses, Holds, Moves, AtInv, clearVars, history
    <2>2. \A u \in Threads \ {t} : held[u] # held[t]
      BY <2>1
    <2>3. NotShared' /\ HeldIsOpen' /\ ListOpen'
      BY <1>0, <2>1, <2>2
    <2>4. HandsDoomed'
      <3> SUFFICES ASSUME NEW u \in Threads, at'[u] = "close"
                   PROVE  /\ hand[u] \in ToSet(available) => hand[u] \in doomed \cup escaped
                          /\ \A v \in Threads : held'[v] = hand[u] => hand[u] \in escaped
        BY <2>1
      <3>1. at[u] = "close" /\ hand[u] # None
        BY <1>0, <2>1 DEF AtInv
      <3> QED
        BY <1>0, <2>1, <3>1
    <2> QED
      BY <2>3, <2>4
  <1>5. CASE ClearFetches(t)
    <2> DEFINE c == available[pos[t] + 1]
    <2>1. /\ pos[t] + 1 \in 1 .. Len(available) /\ pos'[t] = pos[t] + 1
      BY <1>5 DEF ClearFetches, PoolTypeOK
    <2>2. c \in ToSet(available)
      BY <1>0, <2>1 DEF ToSet
    <2>3. /\ hand' = [hand EXCEPT ![t] = c] /\ doomed' = doomed \cup {c}
          /\ at' = [at EXCEPT ![t] = "close"]
          /\ UNCHANGED <<available, open, held, escaped>>
      BY <1>0, <1>5, <2>1 DEF ClearFetches, Moves, history
    <2> HIDE DEF c
    <2>4. \A u \in Threads : held[u] # c
      BY <2>2
    <2>5. NotShared' /\ HeldIsOpen' /\ ListOpen'
      BY <2>3
    <2>6. HandsDoomed'
      BY <1>0, <2>3, <2>4
    <2> QED
      BY <2>5, <2>6
  <1>6. CASE ClearCloses(t)
    <2>1. /\ at[t] = "close" /\ at' = [at EXCEPT ![t] = "fetch"]
          /\ open' = open \ {hand[t]} /\ hand' = [hand EXCEPT ![t] = None]
          /\ UNCHANGED <<available, held, doomed, escaped>>
      BY <1>6 DEF ClearCloses, Moves, history
    <2>2. NotShared' /\ HeldIsOpen' /\ ListOpen'
      BY <1>0, <2>1
    <2>3. HandsDoomed'
      BY <1>0, <2>1
    <2> QED
      BY <2>2, <2>3
  <1>7. CASE ClearEmpties(t)
    <2>1. /\ available' = <<>> /\ at' = [at EXCEPT ![t] = "forget"]
          /\ UNCHANGED <<open, held, hand, escaped>>
      BY <1>7 DEF ClearEmpties, Moves, history
    <2>2. NotShared' /\ HeldIsOpen' /\ ListOpen'
      BY <2>1, EmptyList
    <2>3. HandsDoomed'
      BY <1>0, <2>1, EmptyList
    <2> QED
      BY <2>2, <2>3
  <1> QED
    BY <1>1, <1>2, <1>3, <1>4, <1>5, <1>6, <1>7, SharedKept DEF Gets, Returns, Clears

LEMMA SharedInit ==
  ASSUME Init
  PROVE  SharedInv
  BY EmptyList, Assumptions
     DEF Init, PoolInit, SharedInv, NotShared, HeldIsOpen, ListOpen, HandsDoomed

LEMMA SharedCorrect == Spec => []SharedInv
  <1>1. Init => SharedInv
    BY SharedInit
  <1>2. IInv /\ SharedInv /\ [Next]_vars => SharedInv'
    <2> SUFFICES ASSUME IInv, SharedInv, [Next]_vars PROVE SharedInv'
      OBVIOUS
    <2>1. CASE PoolStep
      BY <2>1, SharedStep DEF IInv, TypeOK
    <2>2. CASE UNCHANGED poolVars
      BY <2>2 DEF poolVars, clearVars, history, SharedInv, NotShared, HeldIsOpen, ListOpen,
                  HandsDoomed
    <2> QED
      BY <2>1, <2>2 DEF Next, CacheUsed, PoolUsed, BatchUsed, vars
  <1> QED
    BY <1>1, <1>2, Inductive, PTL DEF Spec

\* NotShared: however the calls interleave without the lock, no connection is
\* with two threads, with a thread and in the pool, or in the pool twice.
THEOREM ConnectionsNotShared == Spec => []NotShared
  <1>1. SharedInv => NotShared
    BY DEF SharedInv
  <1> QED
    BY <1>1, SharedCorrect, PTL

\* HeldIsOpen: what makes a thread have a closed connection is that it was taken
\* out of the list between a clear()'s fetching it and its emptying the list.
THEOREM HeldConnectionsOpen == Spec => []HeldIsOpen
  <1>1. SharedInv => HeldIsOpen
    BY DEF SharedInv
  <1> QED
    BY <1>1, SharedCorrect, PTL

\* Those that have a connection, or have found none and are making one.
Users == {t \in Threads : held[t] # None \/ at[t] = "create"}

\* A call changes at most whether its own thread is one of them.
LEMMA UsersChange ==
  ASSUME PoolTypeOK, NEW t \in Threads, Users' \ {t} = Users \ {t}
  PROVE  /\ Cardinality(Users) \in Nat /\ Cardinality(Users') \in Nat
         /\ Cardinality(Threads) \in Nat /\ Cardinality(Users') <= Cardinality(Threads)
         /\ t \in Users /\ t \in Users' => Cardinality(Users') = Cardinality(Users)
         /\ t \notin Users /\ t \notin Users' => Cardinality(Users') = Cardinality(Users)
         /\ t \notin Users /\ t \in Users' => Cardinality(Users') = Cardinality(Users) + 1
         /\ t \in Users /\ t \notin Users' => Cardinality(Users') = Cardinality(Users) - 1
  <1>1. Users \in SUBSET Threads /\ Users' \in SUBSET Threads
    BY DEF Users
  <1>2. /\ IsFiniteSet(Users) /\ IsFiniteSet(Users')
        /\ Cardinality(Users') <= Cardinality(Threads)
    BY <1>1, Assumptions, FS_Subset
  <1>3. ASSUME t \notin Users, t \in Users'
        PROVE  Cardinality(Users') = Cardinality(Users) + 1
    <2>1. Users' = Users \cup {t}
      BY <1>3
    <2> QED
      BY <1>2, <1>3, <2>1, FS_AddElement
  <1>4. ASSUME t \in Users, t \notin Users'
        PROVE  Cardinality(Users') = Cardinality(Users) - 1
    <2>1. Users' = Users \ {t}
      BY <1>4
    <2> QED
      BY <1>2, <1>4, <2>1, FS_RemoveElement
  <1>5. /\ t \in Users /\ t \in Users' => Users' = Users
        /\ t \notin Users /\ t \notin Users' => Users' = Users
    OBVIOUS
  <1> QED
    BY <1>2, <1>3, <1>4, <1>5, Assumptions, FS_CardinalityType

UsersInv == Len(available) + Cardinality(Users) <= Cardinality(Threads)

LEMMA UsersStep ==
  ASSUME PoolTypeOK, AtInv, UsersInv, PoolStep
  PROVE  UsersInv'
  <1> PICK t \in Threads : Gets(t) \/ Returns(t) \/ Clears(t)
    BY DEF PoolStep
  <1>0. /\ available \in Seq(Conns) /\ Len(available) \in Nat
        /\ held \in [Threads -> Conns \cup {None}] /\ at \in [Threads -> At]
        /\ None \notin Conns /\ UNCHANGED Threads
    BY Assumptions DEF PoolTypeOK
  <1> DEFINE same == Users' \ {t} = Users \ {t}
  <1>1. ASSUME NEW to, at' = [at EXCEPT ![t] = to],
               held' = held \/ \E c : held' = [held EXCEPT ![t] = c]
        PROVE  same
    BY <1>0, <1>1 DEF Users
  <1> HIDE DEF same
  <1>2. CASE GetTests(t)
    <2>1. same /\ t \notin Users
      <3>1. same
        BY <1>1, <1>2 DEF GetTests, Moves
      <3> QED
        BY <1>2, <3>1 DEF GetTests, Moves, Users
    <2>2. available' = available
      BY <1>2 DEF GetTests
    <2>3. CASE available = <<>>
      BY <2>1, <2>2, <2>3, UsersChange, EmptyList DEF UsersInv, same
    <2>4. CASE available # <<>>
      <3>1. at' = [at EXCEPT ![t] = "pop"] /\ held' = held /\ held[t] = None
        BY <1>2, <2>4 DEF GetTests, Moves
      <3>2. t \notin Users'
        BY <1>0, <3>1 DEF Users
      <3> QED
        BY <1>0, <2>1, <2>2, <3>2, UsersChange DEF UsersInv, same
    <2> QED
      BY <2>3, <2>4
  <1>3. CASE GetCreates(t)
    <2>1. PICK c \in Conns : held' = [held EXCEPT ![t] = c]
      BY <1>3 DEF GetCreates, Holds
    <2>2. at[t] = "create" /\ at' = [at EXCEPT ![t] = "add"] /\ available' = available
      BY <1>3 DEF GetCreates, Moves
    <2>3. t \in Users /\ t \in Users' /\ same
      BY <1>0, <1>1, <2>1, <2>2 DEF Users
    <2> QED
      BY <1>0, <2>2, <2>3, UsersChange DEF UsersInv, same
  <1>4. CASE GetFails(t)
    <2>1. /\ at[t] = "create" /\ at' = [at EXCEPT ![t] = "out"] /\ held[t] = None
          /\ held' = held /\ available' = available
      BY <1>4 DEF GetFails, Moves, AtInv
    <2>2. t \in Users /\ t \notin Users' /\ same
      BY <1>0, <1>1, <2>1 DEF Users
    <2> QED
      BY <1>0, <2>1, <2>2, UsersChange DEF UsersInv, same
  <1>5. CASE GetPops(t)
    <2>1. /\ available # <<>> /\ available' = Front(available)
          /\ held' = [held EXCEPT ![t] = Last(available)]
          /\ at[t] = "pop" /\ at' = [at EXCEPT ![t] = "add"] /\ held[t] = None
      BY <1>5 DEF GetPops, Holds, Moves, AtInv
    <2>2. Last(available) \in Conns /\ Len(available') = Len(available) - 1
      BY <1>0, <2>1, PopLast
    <2>3. t \notin Users /\ t \in Users' /\ same
      BY <1>0, <1>1, <2>1, <2>2 DEF Users
    <2> QED
      BY <1>0, <2>2, <2>3, UsersChange DEF UsersInv, same
  <1>6. CASE ReturnAppends(t)
    <2>1. /\ available' = Append(available, held[t]) /\ held' = [held EXCEPT ![t] = None]
          /\ at' = [at EXCEPT ![t] = "out"] /\ held[t] # None
      BY <1>6 DEF ReturnAppends, Holds, Moves, AtInv
    <2>2. Len(available') = Len(available) + 1
      BY <1>0, <2>1
    <2>3. t \in Users /\ t \notin Users' /\ same
      BY <1>0, <1>1, <2>1 DEF Users
    <2> QED
      BY <1>0, <2>2, <2>3, UsersChange DEF UsersInv, same
  <1>7. CASE ReturnCloses(t)
    <2>1. /\ available' = available /\ held' = [held EXCEPT ![t] = None]
          /\ at' = [at EXCEPT ![t] = "out"] /\ held[t] # None
      BY <1>7 DEF ReturnCloses, Holds, Moves, AtInv
    <2>2. t \in Users /\ t \notin Users' /\ same
      BY <1>0, <1>1, <2>1 DEF Users
    <2> QED
      BY <1>0, <2>1, <2>2, UsersChange DEF UsersInv, same
  <1>8. ASSUME held' = held, \A u \in Threads : at'[u] = "create" <=> at[u] = "create",
               available' = available \/ available' = <<>>
        PROVE  UsersInv'
    <2>1. Users' = Users
      BY <1>8 DEF Users
    <2> QED
      BY <1>0, <1>8, <2>1, UsersChange, EmptyList DEF UsersInv
  <1>9. CASE GetFindsNone(t) \/ GetAdds(t) \/ ReturnTests(t) \/ ReturnRemoves(t)
               \/ ReturnSeesRoom(t) \/ Clears(t)
    <2>1. held' = held /\ (available' = available \/ available' = <<>>)
      BY <1>9 DEF GetFindsNone, GetAdds, ReturnTests, ReturnRemoves, ReturnSeesRoom, Clears,
                  ClearBegins, ClearFetches, ClearCloses, ClearLoopEnds, ClearEmpties,
                  ClearForgets
    <2>2. \A u \in Threads : at'[u] = "create" <=> at[u] = "create"
      BY <1>0, <1>9
         DEF GetFindsNone, GetAdds, ReturnTests, ReturnRemoves, ReturnSeesRoom, Clears,
             ClearBegins, ClearFetches, ClearCloses, ClearLoopEnds, ClearEmpties,
             ClearForgets, Moves
    <2> QED
      BY <1>8, <2>1, <2>2
  <1> QED
    BY <1>2, <1>3, <1>4, <1>5, <1>6, <1>7, <1>9 DEF Gets, Returns

\* NeverMoreThanUsers: the pool and its users together never have more
\* connections than there are users, whoever comes between the test of the
\* list and the creation.
THEOREM PoolIsBounded == Spec => []NeverMoreThanUsers
  <1>1. Init => UsersInv
    <2> SUFFICES ASSUME Init PROVE UsersInv
      OBVIOUS
    <2>1. Users = {} /\ Len(available) = 0
      BY EmptyList DEF Init, PoolInit, Users
    <2> QED
      BY <2>1, Assumptions, FS_EmptySet, FS_CardinalityType DEF UsersInv
  <1>2. IInv /\ UsersInv /\ [Next]_vars => UsersInv'
    <2> SUFFICES ASSUME IInv, UsersInv, [Next]_vars PROVE UsersInv'
      OBVIOUS
    <2>1. CASE PoolStep
      BY <2>1, UsersStep DEF IInv, TypeOK
    <2>2. CASE UNCHANGED poolVars
      BY <2>2 DEF poolVars, UsersInv, Users
    <2> QED
      BY <2>1, <2>2 DEF Next, CacheUsed, PoolUsed, BatchUsed, vars
  <1>3. IInv /\ UsersInv => NeverMoreThanUsers
    <2> DEFINE Holders == {t \in Threads : held[t] # None}
    <2>1. Holders \subseteq Users /\ Users \subseteq Threads
      BY DEF Users
    <2>2. IsFiniteSet(Users) /\ IsFiniteSet(Holders)
          /\ Cardinality(Holders) <= Cardinality(Users)
      BY <2>1, Assumptions, FS_Subset
    <2>3. Cardinality(Holders) \in Nat /\ Cardinality(Users) \in Nat
          /\ Cardinality(Threads) \in Nat
      BY <2>2, Assumptions, FS_CardinalityType
    <2> HIDE DEF Holders
    <2>4. IInv /\ UsersInv => Len(available) + Cardinality(Holders) <= Cardinality(Threads)
      BY <2>2, <2>3 DEF UsersInv, IInv, TypeOK, PoolTypeOK
    <2> QED
      BY <2>4 DEF Holders, NeverMoreThanUsers
  <1> QED
    BY <1>1, <1>2, <1>3, Inductive, PTL DEF Spec

\* A clear() has closed what it has passed in the list, has it in its hand, or
\* it was appended since; before it empties the list it has passed all.
PassedInv ==
  \A t \in Threads :
    /\ at[t] \in {"fetch", "close"} =>
         \A i \in 1 .. Len(available) : i <= pos[t] =>
           \/ available[i] \notin open \/ available[i] \in late
           \/ at[t] = "close" /\ hand[t] = available[i]
    /\ at[t] = "empty" => \A i \in 1 .. Len(available) :
                            available[i] \notin open \/ available[i] \in late

LostInv == NoneLost /\ PassedInv

\* The steps that leave the connections where they are and as they are.
LEMMA LostKept ==
  ASSUME PoolTypeOK, AtInv, LostInv, NEW t \in Threads,
         \/ GetTests(t) \/ GetFails(t) \/ GetFindsNone(t) \/ GetAdds(t) \/ ReturnTests(t)
         \/ ReturnRemoves(t) \/ ReturnSeesRoom(t) \/ ClearForgets(t)
  PROVE  LostInv'
  <1>1. UNCHANGED <<available, open, held, hand, pos, late>>
    BY DEF GetTests, GetFails, GetFindsNone, GetAdds, ReturnTests, ReturnRemoves,
           ReturnSeesRoom, ClearForgets, clearVars, history
  <1>2. \A u \in Threads : at'[u] = at[u] \/ (at'[u] \notin Clearing /\ at[u] # "close")
    BY DEF GetTests, GetFails, GetFindsNone, GetAdds, ReturnTests, ReturnRemoves,
           ReturnSeesRoom, ClearForgets, Moves, PoolTypeOK, Clearing
  <1>3. NoneLost'
    BY <1>1, <1>2 DEF LostInv, NoneLost
  <1>4. PassedInv'
    BY <1>1, <1>2 DEF LostInv, PassedInv, Clearing
  <1> QED
    BY <1>3, <1>4 DEF LostInv

LEMMA LostStep ==
  ASSUME PoolTypeOK, AtInv, SharedInv, LostInv, PoolStep
  PROVE  LostInv'
  <1> PICK t \in Threads : Gets(t) \/ Returns(t) \/ Clears(t)
    BY DEF PoolStep
  <1>0. /\ available \in Seq(Conns) /\ held \in [Threads -> Conns \cup {None}]
        /\ hand \in [Threads -> Conns \cup {None}] /\ at \in [Threads -> At]
        /\ pos \in [Threads -> Nat] /\ None \notin Conns /\ open \subseteq Conns
        /\ DOMAIN available = 1 .. Len(available) /\ Len(available) \in Nat
    BY Assumptions DEF PoolTypeOK
  <1>1. CASE GetCreates(t)
    <2>1. PICK c \in Conns \ Known :
            /\ held' = [held EXCEPT ![t] = c] /\ open' = open \cup {c}
            /\ late' = late \ {c}
      BY <1>1 DEF GetCreates, Holds
    <2>2. c \notin ToSet(available) /\ \A i \in 1 .. Len(available) : available[i] # c
      BY <1>0 DEF Known, ToSet
    <2>3. /\ at[t] = "create" /\ at' = [at EXCEPT ![t] = "add"] /\ held[t] = None
          /\ UNCHANGED <<available, pos, hand>>
      BY <1>1 DEF GetCreates, Moves, AtInv
    <2>4. NoneLost'
      BY <1>0, <2>1, <2>3 DEF LostInv, NoneLost
    <2>5. PassedInv'
      BY <1>0, <2>1, <2>2, <2>3 DEF LostInv, PassedInv
    <2> QED
      BY <2>4, <2>5 DEF LostInv
  <1>2. CASE GetPops(t)
    <2>1. /\ available # <<>> /\ held' = [held EXCEPT ![t] = Last(available)]
          /\ available' = Front(available) /\ held[t] = None
          /\ at[t] = "pop" /\ at' = [at EXCEPT ![t] = "add"]
          /\ UNCHANGED <<open, hand, pos, late>>
      BY <1>2 DEF GetPops, Holds, Moves, clearVars, AtInv
    <2>2. /\ Len(available') = Len(available) - 1
          /\ \A i \in 1 .. Len(available) - 1 : available'[i] = available[i]
          /\ available[Len(available)] = Last(available)
      <3>1. Front(available) = SubSeq(available, 1, Len(available) - 1)
            /\ Last(available) = available[Len(available)]
        BY DEF Front, Last
      <3>2. Len(available) > 0
        BY <1>0, <2>1
      <3> QED
        BY <1>0, <2>1, <3>1, <3>2
    <2>3. ToSet(available) \subseteq ToSet(available') \cup {Last(available)}
      <3>1. \A i \in 1 .. Len(available) : i \in 1 .. Len(available) - 1 \/ i = Len(available)
        <4>1. \A n \in Nat : \A i \in 1 .. n : i \in 1 .. n - 1 \/ i = n
          OBVIOUS
        <4> QED
          BY <1>0, <4>1
      <3>2. DOMAIN available' = 1 .. Len(available')
        <4>1. Front(available) \in Seq(Conns)
          BY <1>0, <2>1, PopLast
        <4> QED
          BY <2>1, <4>1
      <3> QED
        BY <1>0, <2>2, <3>1, <3>2 DEF ToSet
    <2>4. NoneLost'
      BY <1>0, <2>1, <2>3 DEF LostInv, NoneLost
    <2>5. PassedInv'
      BY <1>0, <2>1, <2>2 DEF LostInv, PassedInv
    <2> QED
      BY <2>4, <2>5 DEF LostInv
  <1>3. CASE ReturnAppends(t)
    <2>1. /\ available' = Append(available, held[t]) /\ held' = [held EXCEPT ![t] = None]
          /\ late' = IF \E u \in Threads : at[u] \in Clearing THEN late \cup {held[t]} ELSE late
          /\ at[t] = "append" /\ at' = [at EXCEPT ![t] = "out"]
          /\ UNCHANGED <<open, hand, pos>> /\ held[t] \in Conns
      BY <1>0, <1>3 DEF ReturnAppends, Holds, Moves, AtInv, clearVars
    <2>2. /\ ToSet(available') = ToSet(available) \cup {held[t]}
          /\ Len(available') = Len(available) + 1
          /\ \A i \in 1 .. Len(available) : available'[i] = available[i]
          /\ available'[Len(available) + 1] = held[t]
      BY <1>0, <2>1, AppendToSet
    <2>3. NoneLost'
      BY <1>0, <2>1, <2>2 DEF LostInv, NoneLost
    <2>4. PassedInv'
      <3> SUFFICES ASSUME NEW u \in Threads, at'[u] \in Clearing,
                          NEW i \in 1 .. Len(available')
                   PROVE  /\ at'[u] \in {"fetch", "close"} /\ i <= pos[u] =>
                               \/ available'[i] \notin open \/ available'[i] \in late'
                               \/ at'[u] = "close" /\ hand[u] = available'[i]
                          /\ at'[u] = "empty" => available'[i] \notin open
                                                  \/ available'[i] \in late'
        BY <2>1 DEF PassedInv, Clearing
      <3>1. at[u] = at'[u] /\ at[u] \in Clearing
        BY <1>0, <2>1 DEF Clearing
      <3>2. late' = late \cup {held[t]}
        BY <2>1, <3>1
      <3>3. CASE i = Len(available) + 1
        BY <2>2, <3>2, <3>3
      <3>4. CASE i \in 1 .. Len(available)
        BY <2>2, <3>1, <3>2, <3>4 DEF LostInv, PassedInv
      <3> QED
        BY <1>0, <2>2, <3>3, <3>4
    <2> QED
      BY <2>3, <2>4 DEF LostInv
  <1>4. CASE ReturnCloses(t)
    <2>1. /\ held' = [held EXCEPT ![t] = None] /\ open' = open \ {held[t]}
          /\ at[t] = "room" /\ at' = [at EXCEPT ![t] = "out"]
          /\ UNCHANGED <<available, hand, pos, late>>
      BY <1>4 DEF ReturnCloses, Holds, Moves, clearVars, history
    <2>2. NoneLost'
      BY <1>0, <2>1 DEF LostInv, NoneLost
    <2>3. PassedInv'
      BY <1>0, <2>1 DEF LostInv, PassedInv
    <2> QED
      BY <2>2, <2>3 DEF LostInv
  <1>5. CASE ClearBegins(t)
    <2>1. /\ at[t] = "out" /\ at' = [at EXCEPT ![t] = "fetch"] /\ pos[t] = 0
          /\ UNCHANGED <<available, open, held, hand, pos, late>>
      BY <1>5 DEF ClearBegins, Moves, AtInv, clearVars, history
    <2>2. NoneLost'
      BY <1>0, <2>1 DEF LostInv, NoneLost
    <2>3. PassedInv'
      BY <1>0, <2>1 DEF LostInv, PassedInv
    <2> QED
      BY <2>2, <2>3 DEF LostInv
  <1>6. CASE ClearFetches(t)
    <2>1. /\ at[t] = "fetch" /\ at' = [at EXCEPT ![t] = "close"]
          /\ pos' = [pos EXCEPT ![t] = pos[t] + 1] /\ pos'[t] = pos[t] + 1
          /\ hand' = [hand EXCEPT ![t] = available[pos[t] + 1]]
          /\ UNCHANGED <<available, open, held, late>>
      BY <1>0, <1>6 DEF ClearFetches, Moves, history
    <2>2. NoneLost'
      BY <1>0, <2>1 DEF LostInv, NoneLost
    <2>3. \A u \in Threads \ {t} : at'[u] = at[u] /\ pos'[u] = pos[u] /\ hand'[u] = hand[u]
      BY <1>0, <2>1
    <2>4. /\ at'[t] = "close" /\ hand'[t] = available[pos[t] + 1]
          /\ \A i \in 1 .. Len(available) : i <= pos[t] + 1 => i <= pos[t] \/ i = pos[t] + 1
      BY <1>0, <2>1
    <2>5. PassedInv'
      BY <1>0, <2>1, <2>3, <2>4 DEF LostInv, PassedInv
    <2> QED
      BY <2>2, <2>5 DEF LostInv
  <1>7. CASE ClearCloses(t)
    <2>1. /\ at[t] = "close" /\ at' = [at EXCEPT ![t] = "fetch"]
          /\ open' = open \ {hand[t]} /\ hand' = [hand EXCEPT ![t] = None]
          /\ UNCHANGED <<available, held, pos, late>>
      BY <1>7 DEF ClearCloses, Moves, history
    <2>2. NoneLost'
      BY <1>0, <2>1 DEF LostInv, NoneLost
    <2>3. PassedInv'
      BY <1>0, <2>1 DEF LostInv, PassedInv
    <2> QED
      BY <2>2, <2>3 DEF LostInv
  <1>8. CASE ClearLoopEnds(t)
    <2>1. /\ at[t] = "fetch" /\ at' = [at EXCEPT ![t] = "empty"]
          /\ pos[t] >= Len(available) /\ pos' = [pos EXCEPT ![t] = 0]
          /\ UNCHANGED <<available, open, held, hand, late>>
      BY <1>8 DEF ClearLoopEnds, Moves, history
    <2>2. NoneLost'
      BY <1>0, <2>1 DEF LostInv, NoneLost
    <2>3. \A i \in 1 .. Len(available) : available[i] \notin open \/ available[i] \in late
      BY <1>0, <2>1 DEF LostInv, PassedInv
    <2>4. PassedInv'
      BY <1>0, <2>1, <2>3 DEF LostInv, PassedInv
    <2> QED
      BY <2>2, <2>4 DEF LostInv
  <1>9. CASE ClearEmpties(t)
    <2>1. /\ at[t] = "empty" /\ at' = [at EXCEPT ![t] = "forget"] /\ available' = <<>>
          /\ UNCHANGED <<open, held, hand, pos, late>>
      BY <1>9 DEF ClearEmpties, Moves, history
    <2>2. \A c \in ToSet(available) : c \notin open \/ c \in late
      BY <1>0, <2>1 DEF LostInv, PassedInv, ToSet
    <2>3. NoneLost'
      BY <1>0, <2>1, <2>2 DEF LostInv, NoneLost
    <2>4. PassedInv'
      BY <2>1, EmptyList DEF PassedInv
    <2> QED
      BY <2>3, <2>4 DEF LostInv
  <1> QED
    BY <1>1, <1>2, <1>3, <1>4, <1>5, <1>6, <1>7, <1>8, <1>9, LostKept DEF Gets, Returns, Clears

\* NoneLost: a connection that is neither held, in the list nor in the hand of
\* a clear() is closed, unless it was given back while a clear() was at work.
THEOREM NoConnectionLost == Spec => []NoneLost
  <1>1. Init => LostInv
    BY DEF Init, PoolInit, LostInv, NoneLost, PassedInv
  <1>2. IInv /\ SharedInv /\ LostInv /\ [Next]_vars => LostInv'
    <2> SUFFICES ASSUME IInv, SharedInv, LostInv, [Next]_vars PROVE LostInv'
      OBVIOUS
    <2>1. CASE PoolStep
      BY <2>1, LostStep DEF IInv, TypeOK
    <2>2. CASE UNCHANGED poolVars
      BY <2>2 DEF poolVars, clearVars, history, LostInv, NoneLost, PassedInv
    <2> QED
      BY <2>1, <2>2 DEF Next, CacheUsed, PoolUsed, BatchUsed, vars
  <1>3. LostInv => NoneLost
    BY DEF LostInv
  <1> QED
    BY <1>1, <1>2, <1>3, Inductive, SharedCorrect, PTL DEF Spec

-----------------------------------------------------------------------------
(* The batches *)

Increasing(s) == \A i, j \in DOMAIN s : i < j => s[i] < s[j]

\* A beginning of an increasing sequence is increasing, and so is one with a
\* greater number appended.
LEMMA IncreasingPrefix ==
  ASSUME NEW s \in Seq(Nat), NEW u \in Seq(Nat), Increasing(s \o u),
         NEW n \in 0 .. Len(u)
  PROVE  Increasing(s \o SubSeq(u, 1, n))
  <1> DEFINE all == s \o u
  <1> DEFINE part1 == s \o SubSeq(u, 1, n)
  <1>1. /\ DOMAIN all = 1 .. Len(s) + Len(u) /\ DOMAIN part1 = 1 .. Len(s) + n
        /\ Len(s) \in Nat /\ Len(u) \in Nat
    OBVIOUS
  <1>2. \A i \in 1 .. Len(s) + n : part1[i] = all[i]
    <2> SUFFICES ASSUME NEW i \in 1 .. Len(s) + n PROVE part1[i] = all[i]
      OBVIOUS
    <2>1. CASE i <= Len(s)
      BY <2>1
    <2>2. CASE i > Len(s)
      BY <2>2
    <2> QED
      BY <1>1, <2>1, <2>2
  <1>3. \A i, j \in DOMAIN all : i < j => all[i] < all[j]
    BY DEF Increasing
  <1> HIDE DEF all, part1
  <1>4. \A i, j \in DOMAIN part1 : i < j => part1[i] < part1[j]
    BY <1>1, <1>2, <1>3
  <1> QED
    BY <1>4 DEF Increasing, part1

LEMMA IncreasingAppend ==
  ASSUME NEW s \in Seq(Nat), NEW u \in Seq(Nat), Increasing(s \o u), NEW e \in Nat,
         \A i \in DOMAIN (s \o u) : (s \o u)[i] < e
  PROVE  Increasing(s \o Append(u, e))
  <1> DEFINE all == s \o u
  <1> DEFINE more == s \o Append(u, e)
  <1>1. /\ DOMAIN all = 1 .. Len(s) + Len(u) /\ DOMAIN more = 1 .. Len(s) + Len(u) + 1
        /\ Len(s) \in Nat /\ Len(u) \in Nat
    OBVIOUS
  <1>2. \A i \in 1 .. Len(s) + Len(u) : more[i] = all[i]
    <2> SUFFICES ASSUME NEW i \in 1 .. Len(s) + Len(u) PROVE more[i] = all[i]
      OBVIOUS
    <2>1. CASE i <= Len(s)
      BY <2>1
    <2>2. CASE i > Len(s)
      BY <2>2
    <2> QED
      BY <1>1, <2>1, <2>2
  <1>3. more[Len(s) + Len(u) + 1] = e
    BY <1>1
  <1>4. /\ \A i, j \in DOMAIN all : i < j => all[i] < all[j]
        /\ \A i \in DOMAIN all : all[i] < e
    BY DEF Increasing
  <1> HIDE DEF all, more
  <1> DEFINE k == Len(s) + Len(u)
  <1>5. /\ k \in Nat /\ DOMAIN all = 1 .. k /\ DOMAIN more = 1 .. k + 1
        /\ \A i \in 1 .. k : more[i] = all[i]
        /\ more[k + 1] = e
    BY <1>1, <1>2, <1>3
  <1> HIDE DEF k
  <1>6. ASSUME NEW i \in 1 .. k + 1, NEW j \in 1 .. k + 1, i < j
        PROVE  more[i] < more[j]
    <2>1. i \in 1 .. k
      BY <1>5, <1>6
    <2>2. CASE j \in 1 .. k
      BY <1>4, <1>5, <1>6, <2>1, <2>2
    <2>3. CASE j = k + 1
      BY <1>4, <1>5, <2>1, <2>3
    <2> QED
      BY <1>5, <2>2, <2>3
  <1>7. \A i, j \in DOMAIN more : i < j => more[i] < more[j]
    BY <1>5, <1>6
  <1> QED
    BY <1>7 DEF Increasing, more

LEMMA BatchKept ==
  ASSUME BatchTypeOK, OnceInOrder, BatchStep
  PROVE  OnceInOrder'
  <1>0. /\ executed \in Seq(1 .. added) /\ pending \in Seq(1 .. added) /\ added \in Nat
        /\ Increasing(executed \o pending)
    BY Assumptions DEF BatchTypeOK, OnceInOrder, Increasing
  <1>1. /\ executed \in Seq(Nat) /\ pending \in Seq(Nat)
        /\ executed \o pending \in Seq(1 .. added)
    <2>1. 1 .. added \subseteq Nat
      BY <1>0
    <2> QED
      BY <1>0, <2>1, Wider
  <1>2. SUFFICES Increasing(executed' \o pending')
    BY DEF OnceInOrder, Increasing
  <1>3. CASE AddQuery
    <2>1. executed' = executed /\ pending' = Append(pending, added + 1) /\ added + 1 \in Nat
      BY <1>0, <1>3 DEF AddQuery
    <2>2. \A i \in DOMAIN (executed \o pending) : (executed \o pending)[i] < added + 1
      <3> DEFINE all == executed \o pending
      <3>1. all \in Seq(1 .. added)
        BY <1>1
      <3> HIDE DEF all
      <3>2. \A i \in DOMAIN all : all[i] \in 1 .. added
        BY <3>1, Elements, Zenon
      <3> QED
        BY <1>0, <3>2 DEF all
    <2> QED
      BY <1>0, <1>1, <2>1, <2>2, IncreasingAppend
  <1>4. CASE ExecuteBatch
    <2>1. executed' = executed \o pending /\ pending' = <<>>
      BY <1>4 DEF ExecuteBatch
    <2>2. executed' \o pending' = executed \o pending
      BY <1>1, <2>1
    <2> QED
      BY <1>0, <2>2
  <1>5. CASE BatchFails
    <2>1. PICK n \in 0 .. Len(pending) - 1 : executed' = executed \o SubSeq(pending, 1, n)
      BY <1>5 DEF BatchFails
    <2>2. n \in 0 .. Len(pending) /\ pending' = <<>>
      BY <1>1, <1>5, <2>1 DEF BatchFails
    <2>3. executed' \o pending' = executed \o SubSeq(pending, 1, n)
      BY <1>1, <2>1, <2>2
    <2> QED
      BY <1>0, <1>1, <2>2, <2>3, IncreasingPrefix
  <1>6. CASE ClearPending
    <2>1. executed' \o pending' = executed \o SubSeq(pending, 1, 0)
      BY <1>1, <1>6 DEF ClearPending
    <2> QED
      BY <1>0, <1>1, <2>1, IncreasingPrefix
  <1> QED
    BY <1>3, <1>4, <1>5, <1>6 DEF BatchStep

\* OnceInOrder: whatever batches fail at whatever query, none is executed twice
\* or before one that was added earlier.
THEOREM BatchesInOrder == Spec => []OnceInOrder
  <1>1. Init => OnceInOrder
    BY DEF Init, BatchInit, OnceInOrder
  <1>2. IInv /\ OnceInOrder /\ [Next]_vars => OnceInOrder'
    <2> SUFFICES ASSUME IInv, OnceInOrder, [Next]_vars PROVE OnceInOrder'
      OBVIOUS
    <2>1. CASE BatchStep
      BY <2>1, BatchKept DEF IInv, TypeOK
    <2>2. CASE UNCHANGED batchVars
      BY <2>2 DEF batchVars, OnceInOrder
    <2> QED
      BY <2>1, <2>2 DEF Next, CacheUsed, PoolUsed, BatchUsed, vars
  <1> QED
    BY <1>1, <1>2, Inductive, PTL DEF Spec
=============================================================================
