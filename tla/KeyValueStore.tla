---------------------------- MODULE KeyValueStore ----------------------------
(***************************************************************************)
(* wait_and_get and put of one KeyValueStore, with the listeners that      *)
(* connect them (src/src/application/key_value_store.cpp).  Waiters are    *)
(* application threads in wait_and_get, Putters the threads that deliver   *)
(* values: the network thread, or other nodes' applications when the       *)
(* network is local.                                                       *)
(*                                                                         *)
(* A step is a critical section of kv_lock or listener_lock, or an access  *)
(* made without a lock.  A signal (class Lock of inc/utility/thread.h) is  *)
(* a mutex and a condition variable; it is named by the waiter that        *)
(* created it, which has at most one at a time.  A value is the number of  *)
(* the put that stored it.                                                 *)
(***************************************************************************)
EXTENDS Integers, FiniteSets

CONSTANTS
    Keys, Waiters, Putters,
    MaxPuts,           \* bound: times a key is put; 1 in every application
    Absent,            \* no entry, no key, no signal, nobody
    Null               \* nullptr

ASSUME MaxPutsAssumption == MaxPuts \in Nat
ASSUME AbsentAssumption  ==
    /\ Absent \notin Keys \cup Waiters \cup Putters \cup Nat \cup {Null}
    /\ Null \notin Nat

VARIABLES
    kv_map,             \* [key -> value, Null or Absent]
    stale_key,          \* may kv_map hold a Key that was deleted?
    puts,               \* [key -> values put so far]
    waiting_listeners,  \* [key -> signal or Absent]
    listener_lock,      \* the putter that holds it between two steps
    allocated,          \* the signals that exist (new Lock, delete signal)
    mtx,                \* the signals whose mutex is locked
    wpc, wkey, signal,  \* a waiter's position, key and signal
    result,             \* [waiter -> what its last wait_and_get returned]
    ppc, pkey, found,   \* a putter's position, key and the signal it found
    deleted_used,       \* has a deleted signal been used?
    spurious,           \* has a condition variable woken without a notify?
    shared              \* have two waiters waited for the same key?

waiterVars == <<wpc, wkey, signal, result>>
putterVars == <<ppc, pkey, found>>
\* What the environment has done; no step of the code depends on it.
environment == <<spurious, shared>>
vars == <<kv_map, stale_key, puts, waiting_listeners, listener_lock, allocated, mtx,
          waiterVars, putterVars, deleted_used, environment>>

Init ==
    /\ kv_map = [k \in Keys |-> Absent]
    /\ stale_key = FALSE
    /\ puts = [k \in Keys |-> 0]
    /\ waiting_listeners = [k \in Keys |-> Absent]
    /\ listener_lock = Absent
    /\ allocated = {}
    /\ mtx = {}
    /\ wpc = [w \in Waiters |-> "idle"]
    /\ wkey = [w \in Waiters |-> Absent]
    /\ signal = [w \in Waiters |-> Absent]
    /\ result = [w \in Waiters |-> Absent]
    /\ ppc = [p \in Putters |-> "idle"]
    /\ pkey = [p \in Putters |-> Absent]
    /\ found = [p \in Putters |-> Absent]
    /\ deleted_used = FALSE
    /\ spurious = FALSE
    /\ shared = FALSE

-----------------------------------------------------------------------------
\* waiting_listeners.erase runs without listener_lock, so a find may overlap
\* it and miss an entry that is in the map.
ErasePending == \E w \in Waiters : wpc[w] = "erase"

\* Faulty: the listener found may be that of another key.
FindListenerAnyKey(k) == {waiting_listeners[j] : j \in Keys}

FindListener(k) ==
    {waiting_listeners[k]} \cup (IF ErasePending THEN {Absent} ELSE {})

\* find and operator[] of kv_map: the key whose entry is reached, or Absent.
\* With a deleted Key in the tree the comparisons on the way mean nothing: any
\* entry may be reached, or none.
Reached(k, stale) ==
    IF stale THEN {j \in Keys : kv_map[j] # Absent} \cup {Absent}
    ELSE {IF kv_map[k] # Absent THEN k ELSE Absent}

Use(s) == deleted_used' = (deleted_used \/ s \notin allocated)

-----------------------------------------------------------------------------
\* wait_and_get, first part of wait_for_listener: is the key there already?
WaitCheck(w, k) ==
    /\ wpc[w] = "idle"
    /\ \E j \in Reached(k, stale_key) :
          wpc' = [wpc EXCEPT ![w] = IF j # Absent THEN "return" ELSE "register"]
    /\ wkey' = [wkey EXCEPT ![w] = k]
    /\ shared' = (shared \/ \E v \in Waiters \ {w} : wpc[v] # "idle" /\ wkey[v] = k)
    /\ UNCHANGED <<kv_map, stale_key, puts, waiting_listeners, listener_lock, allocated, mtx,
                   signal, result, putterVars, deleted_used, spurious>>

\* Borrow the signal of a listener for the key ...
BorrowSignal(w, s) ==
    /\ s # Absent
    /\ signal' = [signal EXCEPT ![w] = s]
    /\ UNCHANGED <<waiting_listeners, allocated, mtx>>

\* ... or create one.
CreateSignal(w, s) ==
    /\ s = Absent
    /\ signal' = [signal EXCEPT ![w] = w]
    /\ waiting_listeners' = [waiting_listeners EXCEPT ![wkey[w]] = w]
    /\ allocated' = allocated \cup {w}
    /\ mtx' = mtx \ {w}

WaitRegister(w) ==
    /\ wpc[w] = "register"
    /\ listener_lock = Absent
    /\ \E s \in FindListener(wkey[w]) : BorrowSignal(w, s) \/ CreateSignal(w, s)
    /\ wpc' = [wpc EXCEPT ![w] = "wait"]
    /\ UNCHANGED <<kv_map, stale_key, puts, listener_lock, wkey, result, putterVars, deleted_used,
                   environment>>

\* signal->wait(): condition_variable_any unlocks the mutex, whoever holds it,
\* and sleeps; there is no test of a condition around it.
WaitSleep(w) ==
    /\ wpc[w] = "wait"
    /\ wpc' = [wpc EXCEPT ![w] = "asleep"]
    /\ mtx' = mtx \ {signal[w]}
    /\ Use(signal[w])
    /\ UNCHANGED <<kv_map, stale_key, puts, waiting_listeners, listener_lock, allocated,
                   wkey, signal, result, putterVars, environment>>

WaitSpurious(w) ==
    /\ wpc[w] = "asleep"
    /\ wpc' = [wpc EXCEPT ![w] = "notified"]
    /\ spurious' = TRUE
    /\ UNCHANGED <<kv_map, stale_key, puts, waiting_listeners, listener_lock, allocated, mtx,
                   wkey, signal, result, putterVars, deleted_used, shared>>

\* wait() returns with the mutex locked, and nobody unlocks it.
WaitWake(w) ==
    /\ wpc[w] = "notified"
    /\ signal[w] \notin mtx
    /\ mtx' = mtx \cup {signal[w]}
    /\ Use(signal[w])
    /\ wpc' = [wpc EXCEPT ![w] = IF signal[w] = w THEN "erase" ELSE "return"]
    /\ UNCHANGED <<kv_map, stale_key, puts, waiting_listeners, listener_lock, allocated,
                   wkey, signal, result, putterVars, environment>>

\* Faulty: the creator leaves its entry behind.
WaitEraseForgotten(w) ==
    /\ wpc[w] = "erase"
    /\ wpc' = [wpc EXCEPT ![w] = "delete"]
    /\ UNCHANGED <<kv_map, stale_key, puts, waiting_listeners, listener_lock, allocated, mtx,
                   wkey, signal, result, putterVars, deleted_used,
                   environment>>

\* The creator removes the listener, without listener_lock, ...
WaitErase(w) ==
    /\ wpc[w] = "erase"
    /\ wpc' = [wpc EXCEPT ![w] = "delete"]
    /\ waiting_listeners' = [waiting_listeners EXCEPT ![wkey[w]] = Absent]
    /\ UNCHANGED <<kv_map, stale_key, puts, listener_lock, allocated, mtx,
                   wkey, signal, result, putterVars, deleted_used,
                   environment>>

\* ... and deletes the signal.
WaitDelete(w) ==
    /\ wpc[w] = "delete"
    /\ wpc' = [wpc EXCEPT ![w] = "return"]
    /\ allocated' = allocated \ {w}
    /\ mtx' = mtx \ {w}
    /\ UNCHANGED <<kv_map, stale_key, puts, waiting_listeners, listener_lock,
                   wkey, signal, result, putterVars, deleted_used,
                   environment>>

\* wait_and_get returns kv_map[&key]: operator[] stores nullptr under a key
\* that is not there, with the caller's Key, which the caller deletes later.
WaitReturn(w) ==
    /\ wpc[w] = "return"
    /\ wpc' = [wpc EXCEPT ![w] = "idle"]
    /\ \E j \in Reached(wkey[w], stale_key) :
          IF j = Absent
          THEN /\ kv_map' = [kv_map EXCEPT ![wkey[w]] = Null]
               /\ stale_key' = TRUE
               /\ result' = [result EXCEPT ![w] = Null]
          ELSE /\ result' = [result EXCEPT ![w] = kv_map[j]]
               /\ UNCHANGED <<kv_map, stale_key>>
    /\ signal' = [signal EXCEPT ![w] = Absent]
    /\ wkey' = [wkey EXCEPT ![w] = Absent]
    /\ UNCHANGED <<puts, waiting_listeners, listener_lock, allocated, mtx,
                   putterVars, deleted_used, environment>>

-----------------------------------------------------------------------------
\* Faulty: the number of the previous put is stored.
PutInsertStale(p, k) ==
    /\ ppc[p] = "idle"
    /\ puts[k] < MaxPuts
    /\ puts' = [puts EXCEPT ![k] = @ + 1]
    /\ kv_map' = [kv_map EXCEPT ![k] = puts[k]]
    /\ ppc' = [ppc EXCEPT ![p] = "signal"]
    /\ pkey' = [pkey EXCEPT ![p] = k]
    /\ UNCHANGED <<stale_key, waiting_listeners, listener_lock, allocated, mtx, waiterVars,
                   found, deleted_used, environment>>

\* put: replace the value under kv_lock; the Key of an entry that is there is
\* deleted first, and stays in the tree when operator[] looks for the entry ...
PutInsert(p, k) ==
    /\ ppc[p] = "idle"
    /\ puts[k] < MaxPuts
    /\ puts' = [puts EXCEPT ![k] = @ + 1]
    /\ stale_key' = (stale_key \/ kv_map[k] # Absent)
    /\ \E j \in Reached(k, stale_key') :
          kv_map' = [kv_map EXCEPT ![IF j = Absent THEN k ELSE j] = puts[k] + 1]
    /\ ppc' = [ppc EXCEPT ![p] = "signal"]
    /\ pkey' = [pkey EXCEPT ![p] = k]
    /\ UNCHANGED <<waiting_listeners, listener_lock, allocated, mtx, waiterVars,
                   found, deleted_used, environment>>

\* ... then signal_listener: find the listener under listener_lock ...
SignalFind(p) ==
    /\ ppc[p] = "signal"
    /\ listener_lock = Absent
    /\ listener_lock' = p
    /\ \E s \in FindListener(pkey[p]) : found' = [found EXCEPT ![p] = s]
    /\ ppc' = [ppc EXCEPT ![p] = "notify"]
    /\ UNCHANGED <<kv_map, stale_key, puts, waiting_listeners, allocated, mtx, waiterVars,
                   pkey, deleted_used, environment>>

\* Faulty: nobody, or every sleeper whatever its signal, is woken.
NoSleepers(s) == {}
AllSleepers(s) == {w \in Waiters : wpc[w] = "asleep"}

Sleepers(s) == {w \in Waiters : wpc[w] = "asleep" /\ signal[w] = s}

\* ... and wake whoever sleeps on its signal at this moment.
SignalNotify(p) ==
    /\ ppc[p] = "notify"
    /\ IF found[p] = Absent
       THEN UNCHANGED <<wpc, deleted_used>>
       ELSE /\ wpc' = [w \in Waiters |->
                         IF w \in Sleepers(found[p]) THEN "notified" ELSE wpc[w]]
            /\ Use(found[p])
    /\ listener_lock' = Absent
    /\ ppc' = [ppc EXCEPT ![p] = "idle"]
    /\ pkey' = [pkey EXCEPT ![p] = Absent]
    /\ found' = [found EXCEPT ![p] = Absent]
    /\ UNCHANGED <<kv_map, stale_key, puts, waiting_listeners, allocated, mtx, wkey, signal,
                   result, environment>>

-----------------------------------------------------------------------------
\* The steps of a call of wait_and_get after its first one, and of put.
Proceed(w) ==
    \/ WaitRegister(w) \/ WaitSleep(w) \/ WaitWake(w)
    \/ WaitErase(w) \/ WaitDelete(w) \/ WaitReturn(w)
Signal(p) == SignalFind(p) \/ SignalNotify(p)

Next ==
    \/ \E w \in Waiters : Proceed(w) \/ WaitSpurious(w) \/ \E k \in Keys : WaitCheck(w, k)
    \/ \E p \in Putters : Signal(p) \/ \E k \in Keys : PutInsert(p, k)

Spec == Init /\ [][Next]_vars

\* A thread inside put or wait_and_get runs on unless it sleeps or is blocked
\* on a lock; nobody has to call put or wait_and_get.
FairSpec ==
    /\ Spec
    /\ \A w \in Waiters : WF_vars(Proceed(w))
    /\ \A p \in Putters : WF_vars(Signal(p))

-----------------------------------------------------------------------------
Values == 1 .. MaxPuts

TypeOK ==
    /\ kv_map \in [Keys -> Values \cup {Null, Absent}]
    /\ stale_key \in BOOLEAN
    /\ puts \in [Keys -> 0 .. MaxPuts]
    /\ waiting_listeners \in [Keys -> Waiters \cup {Absent}]
    /\ listener_lock \in Putters \cup {Absent}
    /\ allocated \subseteq Waiters
    /\ mtx \subseteq Waiters
    /\ wpc \in [Waiters -> {"idle", "register", "wait", "asleep", "notified",
                            "erase", "delete", "return"}]
    /\ wkey \in [Waiters -> Keys \cup {Absent}]
    /\ signal \in [Waiters -> Waiters \cup {Absent}]
    /\ result \in [Waiters -> Values \cup {Null, Absent}]
    /\ ppc \in [Putters -> {"idle", "signal", "notify"}]
    /\ pkey \in [Putters -> Keys \cup {Absent}]
    /\ found \in [Putters -> Waiters \cup {Absent}]
    /\ deleted_used \in BOOLEAN
    /\ spurious \in BOOLEAN
    /\ shared \in BOOLEAN

PutOnce == \A k \in Keys : puts[k] <= 1

\* wait_and_get returns only when the key has been added, and never nullptr,
\* unless a condition variable has woken spuriously or a key was put again:
\* being woken stands for the put having happened (key_value_store.cpp:48-56,
\* 434-472; key_value_store.h: "wait until the provided key has been added").
ReturnsOnlyWhenAdded == ~ spurious /\ PutOnce => \A w \in Waiters : result[w] # Null

\* A signal is never used after its creator deleted it, although the creator
\* removes it from the map without the lock (key_value_store.cpp:464-471), as
\* long as no condition variable woke spuriously, no two waiters waited for the
\* same key and no key was put again: a putter may then hold a signal whose
\* creator another putter has woken.
NoDeletedSignalUsed == ~ spurious /\ ~ shared /\ PutOnce => ~ deleted_used

\* An entry of waiting_listeners is the signal of a waiter that still waits
\* for that key: a putter that finds one finds memory that exists.
ListenersAreWaiting ==
    \A k \in Keys : waiting_listeners[k] # Absent =>
        LET w == waiting_listeners[k]
        IN  /\ w \in allocated
            /\ wkey[w] = k
            /\ wpc[w] \in {"wait", "asleep", "notified", "erase"}

\* A waiter that sleeps when put has stored its value is woken and returns,
\* unless another waiter's unlocked erase overlaps and hides the listener, or
\* waiters share a key: the one woken first keeps the signal's mutex
\* (key_value_store.cpp:78-79, 420-432, 464-471).
SleeperIsWoken ==
    \A w \in Waiters, p \in Putters :
        (wpc[w] = "asleep" /\ ppc[p] = "signal" /\ pkey[p] = wkey[w])
            ~> (wpc[w] = "idle" \/ shared \/ \E v \in Waiters \ {w} : wpc[v] = "erase")

\* A waiter returns once its key has been put, unless a condition variable
\* woke spuriously.
WaiterReturnsOnceAdded ==
    \A w \in Waiters :
        (wpc[w] # "idle" /\ wkey[w] # Absent /\ kv_map[wkey[w]] # Absent)
            ~> (wpc[w] = "idle" \/ spurious)
=============================================================================
