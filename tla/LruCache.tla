------------------------------ MODULE LruCache ------------------------------
(***************************************************************************)
(* The cache three helpers of the performance package implement in the     *)
(* same way: ProfileCache (acquisition_optimizations.py), TemplateCache    *)
(* and QRCodeGeneratorOptimized (ui_optimizations.py).                     *)
(*                                                                         *)
(*   cached    the keys of _cache; the contents are left out               *)
(*   accessed  _access_times, by the wall clock                            *)
(*   clock     the wall clock                                              *)
(*   older     history: the pairs of cached keys of which the first was    *)
(*             used last before the second was                             *)
(*   stepped   history: the clock has been stepped back                    *)
(***************************************************************************)
EXTENDS Integers, FiniteSets, Functions

CONSTANTS Keys, CacheSize, MaxClock

ASSUME LruAssumption == CacheSize \in Nat \ {0} /\ MaxClock \in Nat

VARIABLES cached, accessed, clock, older, stepped

lruVars == <<cached, accessed, clock, older, stepped>>

LruInit ==
  /\ cached = {} /\ accessed = <<>> /\ clock = 0
  /\ older = {} /\ stepped = FALSE

With(f, k, v) == [x \in DOMAIN f \cup {k} |-> IF x = k THEN v ELSE f[x]]

\* k is used, when the other keys in the cache are these.
Uses(k, others) == older' = (older \cap (others \X others)) \cup (others \X {k})

Ticks == clock < MaxClock /\ clock' = clock + 1

\* Mutant of Hit: a hit does not count as a use.
HitUncounted(k) ==
  /\ k \in cached /\ Ticks
  /\ Uses(k, cached \ {k})
  /\ UNCHANGED <<cached, accessed, stepped>>

\* get(), or generate() of what is cached.
Hit(k) ==
  /\ k \in cached /\ Ticks
  /\ accessed' = [accessed EXCEPT ![k] = clock]
  /\ Uses(k, cached \ {k})
  /\ UNCHANGED <<cached, stepped>>

\* min() of the access times; the first of equal ones.
LruKeys == {k \in DOMAIN accessed : \A o \in DOMAIN accessed : accessed[k] <= accessed[o]}

\* put(): a full cache evicts even when the key is in it already.
Stored(k, evicted) ==
  /\ cached' = (cached \ evicted) \cup {k}
  /\ accessed' = With(Restrict(accessed, cached \ evicted), k, clock)
  /\ Uses(k, cached \ (evicted \cup {k}))

\* Mutant of Put: the cache is allowed to grow by one.
PutOneMore(k) ==
  /\ Ticks
  /\ IF Cardinality(cached) > CacheSize
     THEN \E l \in LruKeys : Stored(k, {l})
     ELSE Stored(k, {})
  /\ UNCHANGED stepped

Put(k) ==
  /\ Ticks
  /\ IF Cardinality(cached) >= CacheSize
     THEN \E l \in LruKeys : Stored(k, {l})
     ELSE Stored(k, {})
  /\ UNCHANGED stepped

Clear ==
  /\ cached' = {} /\ accessed' = <<>> /\ older' = {}
  /\ UNCHANGED <<clock, stepped>>

\* NTP: utcnow() goes back.
ClockBack ==
  /\ clock' \in 0 .. clock - 1 /\ stepped' = TRUE
  /\ UNCHANGED <<cached, accessed, older>>

LruStep ==
  \/ \E k \in Keys : Hit(k) \/ Put(k)
  \/ Clear \/ ClockBack

LruTypeOK ==
  /\ cached \subseteq Keys
  /\ accessed \in [DOMAIN accessed -> 0 .. MaxClock]
  /\ clock \in 0 .. MaxClock /\ stepped \in BOOLEAN
  /\ older \subseteq Keys \X Keys

\* The cache never outgrows its size, and _cache and _access_times, which
\* every operation changes one after the other, keep the same keys.
CacheBounded ==
  /\ Cardinality(cached) <= CacheSize
  /\ DOMAIN accessed = cached

\* What a full cache evicts for another key is the least recently used entry
\* (acquisition_optimizations.py:61), as long as the wall clock it goes by
\* was never stepped back.
EvictsOldest ==
  [][ \A k \in cached :
        (~stepped' /\ k \notin cached' /\ cached' # {}) =>
          \A o \in cached \ {k} : <<k, o>> \in older ]_lruVars
=============================================================================
