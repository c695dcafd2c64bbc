--------------------------- MODULE ConnectionPool ---------------------------
(***************************************************************************)
(* SQLiteConnectionPool (performance/acquisition_optimizations.py).  Its   *)
(* connections may cross threads (check_same_thread=False) and the lock it *)
(* creates is never taken, so calls interleave between any two operations  *)
(* on the list and the set, of which each alone is atomic.  Callers give   *)
(* back what they got, once.                                               *)
(*                                                                         *)
(*   available  _available, a stack                                        *)
(*   inUse      _in_use                                                    *)
(*   open       the connections that are not closed                        *)
(*   held       the connection a thread has, or None                       *)
(*   at         what a thread is about to do, "out" between calls          *)
(*   pos        how far the thread's clear() is in the list, from 0        *)
(*   hand       the connection it has fetched from there                   *)
(*   doomed     history: fetched by a clear() since the list was emptied   *)
(*   escaped    history: taken out of the list while doomed                *)
(*   late       history: appended while a clear() was at work              *)
(***************************************************************************)
EXTENDS Integers, Sequences, FiniteSets, SequencesExt

CONSTANTS
  Threads, PoolSize, None,
  Conns,      \* what id() makes of the connections there are at a time
  MaxClears   \* bound: calls of clear() at the same time

ASSUME PoolAssumption ==
  IsFiniteSet(Threads) /\ PoolSize \in Nat /\ MaxClears \in Nat /\ None \notin Conns

VARIABLES available, inUse, open, held, at, pos, hand, doomed, escaped, late

clearVars == <<pos, hand, doomed>>
history == <<escaped, late>>
poolVars == <<available, inUse, open, held, at, clearVars, history>>

Clearing == {"fetch", "close", "empty"}
At == {"out", "create", "pop", "add", "remove", "room", "append", "forget"} \cup Clearing

PoolInit ==
  /\ available = <<>> /\ inUse = {} /\ open = {}
  /\ held = [t \in Threads |-> None] /\ at = [t \in Threads |-> "out"]
  /\ pos = [t \in Threads |-> 0] /\ hand = [t \in Threads |-> None]
  /\ doomed = {} /\ escaped = {} /\ late = {}

Moves(t, from, to) == at[t] = from /\ at' = [at EXCEPT ![t] = to]
Holds(t, c) == held' = [held EXCEPT ![t] = c]

-----------------------------------------------------------------------------
(* get_connection *)

\* Mutant of GetTests: a new connection while few are in use.
GetTestsInUse(t) ==
  /\ held[t] = None
  /\ Moves(t, "out", IF Cardinality(inUse) < PoolSize THEN "create" ELSE "pop")
  /\ UNCHANGED <<available, inUse, open, held, clearVars, history>>

\* `if not self._available'
GetTests(t) ==
  /\ held[t] = None
  /\ Moves(t, "out", IF available = <<>> THEN "create" ELSE "pop")
  /\ UNCHANGED <<available, inUse, open, held, clearVars, history>>

\* Those that somebody refers to: the id of any other may be given again.
Known == ToSet(available) \cup {held[t] : t \in Threads} \cup {hand[t] : t \in Threads}

\* sqlite3.connect, which lets other threads run and may raise.
GetCreates(t) ==
  /\ Moves(t, "create", "add")
  /\ \E c \in Conns \ Known :
       /\ Holds(t, c) /\ open' = open \cup {c}
       /\ doomed' = doomed \ {c} /\ escaped' = escaped \ {c} /\ late' = late \ {c}
  /\ UNCHANGED <<available, inUse, pos, hand>>

GetFails(t) ==
  /\ Moves(t, "create", "out")
  /\ UNCHANGED <<available, inUse, open, held, clearVars, history>>

\* Mutant of GetPops: the last connection is taken and left in the list.
GetPeeks(t) ==
  /\ available # <<>> /\ Moves(t, "pop", "add")
  /\ Holds(t, Last(available))
  /\ escaped' = escaped \cup ({held'[t]} \cap doomed)
  /\ UNCHANGED <<available, inUse, open, clearVars, late>>

GetPops(t) ==
  /\ available # <<>> /\ Moves(t, "pop", "add")
  /\ available' = Front(available) /\ Holds(t, Last(available))
  /\ escaped' = escaped \cup ({Last(available)} \cap doomed)
  /\ UNCHANGED <<inUse, open, clearVars, late>>

\* IndexError: another thread was faster.
GetFindsNone(t) ==
  /\ available = <<>> /\ Moves(t, "pop", "out")
  /\ UNCHANGED <<available, inUse, open, held, clearVars, history>>

GetAdds(t) ==
  /\ Moves(t, "add", "out")
  /\ inUse' = inUse \cup {held[t]}
  /\ UNCHANGED <<available, open, held, clearVars, history>>

-----------------------------------------------------------------------------
(* return_connection *)

ReturnTests(t) ==
  /\ held[t] # None
  /\ Moves(t, "out", IF held[t] \in inUse THEN "remove" ELSE "room")
  /\ UNCHANGED <<available, inUse, open, held, clearVars, history>>

\* KeyError when a clear() came between, and the caller keeps what it has.
ReturnRemoves(t) ==
  /\ Moves(t, "remove", IF held[t] \in inUse THEN "room" ELSE "out")
  /\ inUse' = inUse \ {held[t]}
  /\ UNCHANGED <<available, open, held, clearVars, history>>

HasRoom == Len(available) < PoolSize

ReturnSeesRoom(t) ==
  /\ HasRoom /\ Moves(t, "room", "append")
  /\ UNCHANGED <<available, inUse, open, held, clearVars, history>>

\* Mutant of ReturnAppends: the caller's reference is dropped first.
ReturnAppendsLate(t) ==
  /\ Moves(t, "append", "out") /\ Holds(t, None)
  /\ available' = Append(available, held'[t])
  /\ UNCHANGED <<inUse, open, clearVars, history>>

ReturnAppends(t) ==
  /\ Moves(t, "append", "out")
  /\ available' = Append(available, held[t]) /\ Holds(t, None)
  /\ late' = IF \E u \in Threads : at[u] \in Clearing THEN late \cup {held[t]} ELSE late
  /\ UNCHANGED <<inUse, open, clearVars, escaped>>

\* Mutant of ReturnCloses: a connection the pool has no room for is dropped.
ReturnDrops(t) ==
  /\ ~HasRoom /\ Moves(t, "room", "out")
  /\ Holds(t, None)
  /\ UNCHANGED <<available, inUse, open, clearVars, history>>

ReturnCloses(t) ==
  /\ ~HasRoom /\ Moves(t, "room", "out")
  /\ open' = open \ {held[t]} /\ Holds(t, None)
  /\ UNCHANGED <<available, inUse, clearVars, history>>

-----------------------------------------------------------------------------
(* clear: a Python list is iterated by index, whatever becomes of it *)

ClearBegins(t) ==
  /\ Cardinality({u \in Threads : at[u] \in Clearing}) < MaxClears
  /\ Moves(t, "out", "fetch")
  /\ UNCHANGED <<available, inUse, open, held, clearVars, history>>

ClearFetches(t) ==
  /\ pos[t] < Len(available) /\ Moves(t, "fetch", "close")
  /\ pos' = [pos EXCEPT ![t] = @ + 1]
  /\ hand' = [hand EXCEPT ![t] = available[pos'[t]]]
  /\ doomed' = doomed \cup {hand'[t]}
  /\ UNCHANGED <<available, inUse, open, held, history>>

ClearCloses(t) ==
  /\ Moves(t, "close", "fetch")
  /\ open' = open \ {hand[t]}
  /\ hand' = [hand EXCEPT ![t] = None]
  /\ UNCHANGED <<available, inUse, held, pos, doomed, history>>

ClearLoopEnds(t) ==
  /\ pos[t] >= Len(available) /\ Moves(t, "fetch", "empty")
  /\ pos' = [pos EXCEPT ![t] = 0]
  /\ UNCHANGED <<available, inUse, open, held, hand, doomed, history>>

\* Mutant of ClearEmpties: the closed connections stay in the list.
ClearKeeps(t) ==
  /\ Moves(t, "empty", "forget")
  /\ doomed' = {}
  /\ UNCHANGED <<available, inUse, open, held, pos, hand, history>>

ClearEmpties(t) ==
  /\ Moves(t, "empty", "forget")
  /\ available' = <<>> /\ doomed' = {}
  /\ UNCHANGED <<inUse, open, held, pos, hand, history>>

ClearForgets(t) ==
  /\ Moves(t, "forget", "out")
  /\ inUse' = {}
  /\ UNCHANGED <<available, open, held, clearVars, history>>

Gets(t) == GetTests(t) \/ GetCreates(t) \/ GetFails(t) \/ GetPops(t)
             \/ GetFindsNone(t) \/ GetAdds(t)
Returns(t) == ReturnTests(t) \/ ReturnRemoves(t) \/ ReturnSeesRoom(t)
                \/ ReturnAppends(t) \/ ReturnCloses(t)
Clears(t) == ClearBegins(t) \/ ClearFetches(t) \/ ClearCloses(t)
               \/ ClearLoopEnds(t) \/ ClearEmpties(t) \/ ClearForgets(t)

PoolStep == \E t \in Threads : Gets(t) \/ Returns(t) \/ Clears(t)

-----------------------------------------------------------------------------
(* Properties *)

PoolTypeOK ==
  /\ available \in Seq(Conns)
  /\ inUse \subseteq Conns /\ open \subseteq Conns
  /\ held \in [Threads -> Conns \cup {None}]
  /\ at \in [Threads -> At]
  /\ pos \in [Threads -> Nat] /\ hand \in [Threads -> Conns \cup {None}]
  /\ doomed \subseteq Conns /\ escaped \subseteq Conns /\ late \subseteq Conns

\* No connection is with two threads, or with a thread and in the pool, or
\* in the pool twice, however get, return and clear interleave without the
\* lock.
NotShared ==
  /\ \A t, u \in Threads : t # u /\ held[t] # None => held[t] # held[u]
  /\ \A t \in Threads : held[t] \notin ToSet(available)
  /\ IsInjective(available)

\* The pool and its users never have more connections than there are users,
\* though others may give connections back between the test that finds none
\* and the creation (acquisition_optimizations.py:208-210), and the room that
\* was seen may be gone when one is appended, so that the pool outgrows
\* pool_size.
NeverMoreThanUsers ==
  Len(available) + Cardinality({t \in Threads : held[t] # None})
    <= Cardinality(Threads)

\* What makes a thread have a closed connection is one window only: it was
\* taken out of the list after a clear() had fetched it from there and before
\* a clear() emptied the list (acquisition_optimizations.py:234-239).  Such a
\* connection stays closed in the pool when it is given back.
HeldIsOpen == \A t \in Threads : held[t] \in Conns \ open => held[t] \in escaped

\* A connection is never lost while it is open, except one that was given
\* back while a clear() was at work, which may drop it without closing it:
\* somebody has it, the pool has it, or a clear() is about to close it.
NoneLost ==
  \A c \in open :
    \/ c \in ToSet(available) \/ c \in late
    \/ \E t \in Threads : held[t] = c \/ (at[t] = "close" /\ hand[t] = c)
=============================================================================
