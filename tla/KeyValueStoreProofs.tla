------------------------- MODULE KeyValueStoreProofs -------------------------
(***************************************************************************)
(* wait_and_get does not return before its key was added, for any number   *)
(* of keys, waiters and putters, whether or not waiters share keys,        *)
(* provided that no condition variable wakes spuriously and no key is put  *)
(* twice; and no signal is used after its deletion as long as, besides,    *)
(* waiters do not share keys.                                              *)
(***************************************************************************)
EXTENDS KeyValueStore, TLAPS

USE MaxPutsAssumption, AbsentAssumption

Added(k) == kv_map[k] \notin {Null, Absent}

\* The waiters that were given signal s and have not been woken.
Listening(w) == wpc[w] \in {"wait", "asleep"}
Listeners(s) == {w \in Waiters : Listening(w) /\ signal[w] = s}

\* A call of wait_and_get or put is for a key; who listens has a signal.
PositionInv ==
    /\ \A w \in Waiters :
          /\ wpc[w] # "idle" => wkey[w] \in Keys
          /\ Listening(w) \/ wpc[w] = "notified" => signal[w] \in Waiters
    /\ \A p \in Putters : ppc[p] # "idle" => pkey[p] \in Keys

\* Whoever was woken, or did not have to wait, finds the key added.
WokenInv ==
    \A w \in Waiters :
        wpc[w] \in {"notified", "erase", "delete", "return"} => Added(wkey[w])

\* Who creates a signal waits for the same key as those who borrow it, as
\* long as one of them waits for a key that was not added.
SharedInv ==
    \A w \in Waiters : Listening(w) /\ ~ Added(wkey[w]) =>
        /\ wkey[signal[w]] = wkey[w]
        /\ wpc[signal[w]] \notin {"idle", "register"}

\* A signal in the map is that of a waiter for that key which still waits.
EntryInv ==
    \A k \in Keys : waiting_listeners[k] # Absent =>
        LET w == waiting_listeners[k]
        IN  /\ w \in allocated
            /\ wkey[w] = k
            /\ wpc[w] \in {"wait", "asleep", "notified", "erase"}
            /\ signal[w] = w

\* A putter has added its key, and those who listen to the signal it found
\* wait for keys that were added.
PutterInv ==
    \A p \in Putters :
        /\ ppc[p] # "idle" => Added(pkey[p])
        /\ ppc[p] = "notify" =>
             /\ listener_lock = p
             /\ \A w \in Listeners(found[p]) : Added(wkey[w])

\* No deleted Key is in the map: what is there was put, once.
KeysLive ==
    /\ ~ stale_key
    /\ \A k \in Keys : kv_map[k] # Absent => puts[k] >= 1

NeverNull ==
    /\ \A k \in Keys : kv_map[k] # Null
    /\ \A w \in Waiters : result[w] # Null

\* The part that holds with spurious wakeups and repeated puts too ...
BaseInv == TypeOK /\ PositionInv /\ EntryInv

\* ... and the part that needs their absence.
WakeInv == WokenInv /\ SharedInv /\ PutterInv /\ KeysLive /\ NeverNull

Calm == ~ spurious /\ PutOnce

Inv == BaseInv /\ (Calm => WakeInv)

-----------------------------------------------------------------------------
\* As long as nothing wakes spuriously, nobody shares a wait and no key is put
\* again, a put meets at most one waiter, and a waiter at most one put.
Single == Calm /\ ~ shared

\* Each waiter waits for a key of its own, on a signal of its own ...
OneWaiter ==
    /\ \A v, w \in Waiters :
          wpc[v] # "idle" /\ wpc[w] # "idle" /\ wkey[v] = wkey[w] => v = w
    /\ \A w \in Waiters : wpc[w] \in {"wait", "asleep", "notified", "erase", "delete"} =>
          signal[w] = w /\ w \in allocated

\* ... each key has one put, and it is over when its waiter has been woken ...
OnePutter ==
    /\ \A p \in Putters : ppc[p] # "idle" => puts[pkey[p]] >= 1
    /\ \A p, q \in Putters :
          ppc[p] # "idle" /\ ppc[q] # "idle" /\ pkey[p] = pkey[q] => p = q
    /\ \A w \in Waiters : wpc[w] \in {"notified", "erase", "delete"} =>
          /\ puts[wkey[w]] >= 1
          /\ \A p \in Putters : ppc[p] # "idle" => pkey[p] # wkey[w]

\* ... so that the signal a putter found is that of a waiter not yet woken.
FoundInv ==
    \A p \in Putters : ppc[p] = "notify" /\ found[p] # Absent =>
        /\ found[p] \in Waiters
        /\ wkey[found[p]] = pkey[p]
        /\ Listening(found[p])

SignalInv == Single => OneWaiter /\ OnePutter /\ FoundInv /\ ~ deleted_used

-----------------------------------------------------------------------------
LEMMA InitInv == Init => Inv
<1> SUFFICES ASSUME Init PROVE Inv
    OBVIOUS
<1>1. TypeOK
    <2>1. 0 \in 0 .. MaxPuts
        OBVIOUS
    <2>2. puts \in [Keys -> 0 .. MaxPuts]
        BY <2>1 DEF Init
    <2>3. /\ wpc \in [Waiters -> {"idle", "register", "wait", "asleep", "notified",
                                  "erase", "delete", "return"}]
          /\ ppc \in [Putters -> {"idle", "signal", "notify"}]
        BY DEF Init
    <2>4. /\ deleted_used \in BOOLEAN /\ stale_key \in BOOLEAN
          /\ spurious \in BOOLEAN /\ shared \in BOOLEAN
        BY DEF Init
    <2> QED
        BY <2>2, <2>3, <2>4 DEF Init, TypeOK
<1>2. PositionInv /\ EntryInv
    BY DEF Init, PositionInv, EntryInv, Listening
<1>3. WokenInv /\ SharedInv
    BY DEF Init, WokenInv, SharedInv, Listening
<1>4. PutterInv /\ KeysLive /\ NeverNull
    BY DEF Init, PutterInv, KeysLive, NeverNull
<1> QED
    BY <1>1, <1>2, <1>3, <1>4 DEF Inv, BaseInv, WakeInv

LEMMA BaseStep == BaseInv /\ [Next]_vars => BaseInv'
<1> SUFFICES ASSUME BaseInv, [Next]_vars PROVE BaseInv'
    OBVIOUS
<1> USE DEF BaseInv, putterVars, waiterVars, environment
<1>1. ASSUME NEW w \in Waiters, NEW k \in Keys, WaitCheck(w, k) PROVE BaseInv'
    <2>1. TypeOK'
        <3>1. wpc' \in [Waiters -> {"idle", "register", "wait", "asleep", "notified",
                                    "erase", "delete", "return"}]
            BY <1>1 DEF TypeOK, WaitCheck
        <3> QED
            BY <1>1, <3>1 DEF TypeOK, WaitCheck
    <2>2. PositionInv'
        BY <1>1 DEF TypeOK, PositionInv, EntryInv, Listening, WaitCheck
    <2>3. EntryInv'
        BY <1>1 DEF TypeOK, EntryInv, WaitCheck
    <2> QED
        BY <2>1, <2>2, <2>3
<1>2. ASSUME NEW w \in Waiters, WaitRegister(w) PROVE BaseInv'
    <2>1. TypeOK'
        <3>1. PICK s \in FindListener(wkey[w]) : BorrowSignal(w, s) \/ CreateSignal(w, s)
            BY <1>2 DEF WaitRegister
        <3>2. wkey[w] \in Keys /\ s \in Waiters \cup {Absent}
            BY <1>2, <3>1 DEF TypeOK, PositionInv, WaitRegister, FindListener
        <3>3. /\ waiting_listeners' \in [Keys -> Waiters \cup {Absent}]
              /\ signal' \in [Waiters -> Waiters \cup {Absent}]
              /\ allocated' \subseteq Waiters
              /\ mtx' \subseteq Waiters
            BY <3>1, <3>2 DEF TypeOK, BorrowSignal, CreateSignal
        <3> QED
            BY <1>2, <3>3 DEF TypeOK, WaitRegister
    <2>2. PositionInv'
        BY <1>2 DEF TypeOK, PositionInv, EntryInv, Listening, WaitRegister, BorrowSignal, CreateSignal, FindListener
    <2>3. EntryInv'
        BY <1>2 DEF TypeOK, EntryInv, WaitRegister, BorrowSignal, CreateSignal, FindListener
    <2> QED
        BY <2>1, <2>2, <2>3
<1>3. ASSUME NEW w \in Waiters, WaitSleep(w) PROVE BaseInv'
    <2>1. TypeOK'
        BY <1>3 DEF TypeOK, WaitSleep, Use
    <2>2. PositionInv'
        BY <1>3 DEF TypeOK, PositionInv, EntryInv, Listening, WaitSleep, Use
    <2>3. EntryInv'
        BY <1>3 DEF TypeOK, EntryInv, WaitSleep, Use
    <2> QED
        BY <2>1, <2>2, <2>3
<1>4. ASSUME NEW w \in Waiters, WaitSpurious(w) PROVE BaseInv'
    <2>1. TypeOK'
        BY <1>4 DEF TypeOK, WaitSpurious
    <2>2. PositionInv'
        BY <1>4 DEF TypeOK, PositionInv, EntryInv, Listening, WaitSpurious
    <2>3. EntryInv'
        BY <1>4 DEF TypeOK, EntryInv, WaitSpurious
    <2> QED
        BY <2>1, <2>2, <2>3
<1>5. ASSUME NEW w \in Waiters, WaitWake(w) PROVE BaseInv'
    <2>1. TypeOK'
        BY <1>5 DEF TypeOK, PositionInv, WaitWake, Use
    <2>2. PositionInv'
        BY <1>5 DEF TypeOK, PositionInv, EntryInv, Listening, WaitWake, Use
    <2>3. EntryInv'
        BY <1>5 DEF TypeOK, EntryInv, WaitWake, Use
    <2> QED
        BY <2>1, <2>2, <2>3
<1>6. ASSUME NEW w \in Waiters, WaitErase(w) PROVE BaseInv'
    <2>1. TypeOK'
        BY <1>6 DEF TypeOK, WaitErase
    <2>2. PositionInv'
        BY <1>6 DEF TypeOK, PositionInv, EntryInv, Listening, WaitErase
    <2>3. EntryInv'
        BY <1>6 DEF TypeOK, EntryInv, WaitErase
    <2> QED
        BY <2>1, <2>2, <2>3
<1>7. ASSUME NEW w \in Waiters, WaitDelete(w) PROVE BaseInv'
    <2>1. TypeOK'
        BY <1>7 DEF TypeOK, WaitDelete
    <2>2. PositionInv'
        BY <1>7 DEF TypeOK, PositionInv, EntryInv, Listening, WaitDelete
    <2>3. EntryInv'
        BY <1>7 DEF TypeOK, EntryInv, WaitDelete
    <2> QED
        BY <2>1, <2>2, <2>3
<1>8. ASSUME NEW w \in Waiters, WaitReturn(w) PROVE BaseInv'
    <2>1. TypeOK'
        <3>1. PICK j \in Reached(wkey[w], stale_key) :
                 IF j = Absent
                 THEN /\ kv_map' = [kv_map EXCEPT ![wkey[w]] = Null]
                      /\ stale_key' = TRUE
                      /\ result' = [result EXCEPT ![w] = Null]
                 ELSE /\ result' = [result EXCEPT ![w] = kv_map[j]]
                      /\ UNCHANGED <<kv_map, stale_key>>
            BY <1>8 DEF WaitReturn
        <3>2. wkey[w] \in Keys
            BY <1>8 DEF PositionInv, WaitReturn
        <3>3. j # Absent => j \in Keys /\ kv_map[j] # Absent
            BY <3>1, <3>2 DEF Reached
        <3>4. /\ kv_map' \in [Keys -> Values \cup {Null, Absent}]
              /\ stale_key' \in BOOLEAN
              /\ result' \in [Waiters -> Values \cup {Null, Absent}]
            <4>1. CASE j = Absent
                BY <3>1, <3>2, <4>1 DEF TypeOK
            <4>2. CASE j # Absent
                <5>1. kv_map[j] \in Values \cup {Null, Absent}
                    BY <3>3, <4>2 DEF TypeOK
                <5> QED
                    BY <3>1, <4>2, <5>1 DEF TypeOK
            <4> QED
                BY <4>1, <4>2
        <3> QED
            BY <1>8, <3>4 DEF TypeOK, WaitReturn
    <2>2. PositionInv'
        BY <1>8 DEF TypeOK, PositionInv, EntryInv, Listening, WaitReturn, Values
    <2>3. EntryInv'
        BY <1>8 DEF TypeOK, EntryInv, WaitReturn, Values
    <2> QED
        BY <2>1, <2>2, <2>3
<1>9. ASSUME NEW p \in Putters, NEW k \in Keys, PutInsert(p, k) PROVE BaseInv'
    <2>1. TypeOK'
        <3>1. puts[k] + 1 \in Values
            BY <1>9 DEF TypeOK, PutInsert, Values
        <3>2. stale_key' \in BOOLEAN
            BY <1>9 DEF TypeOK, PutInsert
        <3>3. PICK j \in Reached(k, stale_key') :
                 kv_map' = [kv_map EXCEPT ![IF j = Absent THEN k ELSE j] = puts[k] + 1]
            BY <1>9 DEF PutInsert
        <3>4. kv_map' \in [Keys -> Values \cup {Null, Absent}]
            BY <3>1, <3>3 DEF TypeOK, Reached
        <3>5. puts' \in [Keys -> 0 .. MaxPuts]
            BY <1>9, <3>1 DEF TypeOK, PutInsert, Values
        <3> QED
            BY <1>9, <3>2, <3>4, <3>5 DEF TypeOK, PutInsert
    <2>2. PositionInv'
        BY <1>9 DEF TypeOK, PositionInv, EntryInv, Listening, PutInsert, Values
    <2>3. EntryInv'
        BY <1>9 DEF TypeOK, EntryInv, PutInsert, Values
    <2> QED
        BY <2>1, <2>2, <2>3
<1>10. ASSUME NEW p \in Putters, SignalFind(p) PROVE BaseInv'
    <2>1. TypeOK'
        BY <1>10 DEF TypeOK, PositionInv, SignalFind, FindListener
    <2>2. PositionInv'
        BY <1>10 DEF TypeOK, PositionInv, EntryInv, Listening, SignalFind, FindListener
    <2>3. EntryInv'
        BY <1>10 DEF TypeOK, EntryInv, SignalFind, FindListener
    <2> QED
        BY <2>1, <2>2, <2>3
<1>11. ASSUME NEW p \in Putters, SignalNotify(p) PROVE BaseInv'
    <2>1. TypeOK'
        <3>1. wpc' \in [Waiters -> {"idle", "register", "wait", "asleep", "notified",
                                     "erase", "delete", "return"}]
            BY <1>11 DEF TypeOK, SignalNotify
        <3>2. deleted_used' \in BOOLEAN
            BY <1>11 DEF TypeOK, SignalNotify, Use
        <3> QED
            BY <1>11, <3>1, <3>2 DEF TypeOK, SignalNotify
    <2>2. PositionInv'
        BY <1>11 DEF TypeOK, PositionInv, EntryInv, Listening, SignalNotify, Sleepers, Use
    <2>3. EntryInv'
        BY <1>11 DEF TypeOK, EntryInv, SignalNotify, Sleepers, Use
    <2> QED
        BY <2>1, <2>2, <2>3
<1>12. CASE UNCHANGED vars
    BY <1>12 DEF vars, TypeOK, PositionInv, EntryInv, Listening
<1> QED
    BY <1>1, <1>2, <1>3, <1>4, <1>5, <1>6, <1>7, <1>8, <1>9, <1>10, <1>11, <1>12 DEF Next, Proceed, Signal

-----------------------------------------------------------------------------
\* What ends the calm ends it for good.
LEMMA CalmStays ==
    ASSUME TypeOK, [Next]_vars, Calm'
    PROVE  Calm
<1> USE DEF TypeOK, Calm, PutOnce, environment
<1>1. ~ spurious
    BY DEF Next, Proceed, Signal, vars, WaitCheck, WaitRegister, WaitSleep, WaitSpurious,
        WaitWake, WaitErase, WaitDelete, WaitReturn, PutInsert, SignalFind, SignalNotify
<1>2. ASSUME NEW k \in Keys PROVE puts[k] <= puts'[k]
    <2>1. puts[k] \in Nat
        OBVIOUS
    <2>2. ASSUME NEW p \in Putters, NEW j \in Keys, PutInsert(p, j)
          PROVE  puts[k] <= puts'[k]
        BY <2>1, <2>2 DEF PutInsert
    <2>3. puts' = puts => puts[k] <= puts'[k]
        BY <2>1
    <2> QED
        BY <2>2, <2>3 DEF Next, Proceed, Signal, vars, WaitCheck, WaitRegister, WaitSleep,
            WaitSpurious, WaitWake, WaitErase, WaitDelete, WaitReturn, SignalFind, SignalNotify
<1>3. \A k \in Keys : puts[k] <= 1
    <2> SUFFICES ASSUME NEW k \in Keys PROVE puts[k] <= 1
        OBVIOUS
    <2>1. puts[k] <= puts'[k] /\ puts'[k] <= 1 /\ puts[k] \in Nat
        BY <1>2
    <2>2. puts'[k] \in Nat
        BY DEF Next, Proceed, Signal, vars, WaitCheck, WaitRegister, WaitSleep,
            WaitSpurious, WaitWake, WaitErase, WaitDelete, WaitReturn, PutInsert,
            SignalFind, SignalNotify
    <2> QED
        BY <2>1, <2>2
<1> QED
    BY <1>1, <1>3

\* With no deleted Key in the map a waiter returns the value of its key ...
LEMMA LiveReturn ==
    ASSUME BaseInv, WakeInv, NEW w \in Waiters, WaitReturn(w)
    PROVE  /\ wkey[w] \in Keys /\ Added(wkey[w])
           /\ UNCHANGED <<kv_map, stale_key>>
           /\ result' = [result EXCEPT ![w] = kv_map[wkey[w]]]
<1>1. wkey[w] \in Keys /\ Added(wkey[w])
    BY DEF BaseInv, WakeInv, PositionInv, WokenInv, WaitReturn
<1>2. Reached(wkey[w], stale_key) = {wkey[w]}
    BY <1>1 DEF WakeInv, KeysLive, Reached, Added
<1> QED
    BY <1>1, <1>2 DEF WaitReturn

\* ... and the first put of a key makes its entry.
LEMMA LivePut ==
    ASSUME BaseInv, WakeInv, PutOnce', NEW p \in Putters, NEW k \in Keys, PutInsert(p, k)
    PROVE  /\ kv_map[k] = Absent
           /\ ~ stale_key'
           /\ kv_map' = [kv_map EXCEPT ![k] = puts[k] + 1]
           /\ puts[k] + 1 \notin {Null, Absent}
<1>1. puts[k] \in Nat /\ puts'[k] = puts[k] + 1
    BY DEF BaseInv, TypeOK, PutInsert
<1>2. puts[k] = 0
    BY <1>1 DEF PutOnce
<1>3. kv_map[k] = Absent
    BY <1>2 DEF WakeInv, KeysLive
<1>4. ~ stale_key'
    BY <1>3 DEF WakeInv, KeysLive, PutInsert
<1>5. Reached(k, stale_key') = {Absent}
    BY <1>3, <1>4 DEF Reached
<1>6. puts[k] + 1 \in Nat
    BY <1>1
<1> QED
    BY <1>3, <1>4, <1>5, <1>6 DEF PutInsert

LEMMA KeysLiveStep ==
    ASSUME BaseInv, WakeInv, PutOnce', [Next]_vars
    PROVE  KeysLive'
<1>1. UNCHANGED <<kv_map, stale_key, puts>> => KeysLive'
    BY DEF WakeInv, KeysLive
<1>2. ASSUME NEW w \in Waiters, WaitReturn(w) PROVE KeysLive'
    BY <1>1, <1>2, LiveReturn DEF WaitReturn
<1>3. ASSUME NEW p \in Putters, NEW j \in Keys, PutInsert(p, j) PROVE KeysLive'
    <2>1. ~ stale_key' /\ kv_map' = [kv_map EXCEPT ![j] = puts[j] + 1]
        BY <1>3, LivePut
    <2>2. puts \in [Keys -> Nat] /\ puts' = [puts EXCEPT ![j] = @ + 1]
        BY <1>3 DEF BaseInv, TypeOK, PutInsert
    <2> QED
        BY <2>1, <2>2 DEF BaseInv, TypeOK, WakeInv, KeysLive
<1> QED
    BY <1>1, <1>2, <1>3 DEF Next, Proceed, Signal, vars, WaitCheck, WaitRegister, WaitSleep,
        WaitSpurious, WaitWake, WaitErase, WaitDelete, SignalFind, SignalNotify

\* An entry of the map of values is never removed.
LEMMA AddedStays ==
    ASSUME BaseInv, WakeInv, PutOnce', [Next]_vars, NEW k \in Keys, Added(k)
    PROVE  Added(k)'
<1>1. kv_map' = kv_map => Added(k)'
    BY DEF Added
<1>2. ASSUME NEW w \in Waiters, WaitReturn(w) PROVE Added(k)'
    BY <1>1, <1>2, LiveReturn
<1>3. ASSUME NEW p \in Putters, NEW j \in Keys, PutInsert(p, j) PROVE Added(k)'
    BY <1>3, LivePut DEF Added, BaseInv, TypeOK
<1> QED
    BY <1>1, <1>2, <1>3 DEF Next, Proceed, Signal, vars, WaitCheck, WaitRegister, WaitSleep,
        WaitSpurious, WaitWake, WaitErase, WaitDelete, SignalFind, SignalNotify

\* Without spurious wakeups a waiter leaves its sleep only by a notify, and
\* then its key has been added.
LEMMA WakeStep ==
    ASSUME Calm', Inv, [Next]_vars
    PROVE  WakeInv'
<1>a. Calm /\ WakeInv
    BY CalmStays DEF Inv, BaseInv
<1>b. PutOnce' /\ ~ spurious'
    BY DEF Calm
<1>c. KeysLive'
    BY <1>a, <1>b, KeysLiveStep DEF Inv
<1>0. \A k \in Keys : Added(k) => Added(k)'
    BY <1>a, <1>b, AddedStays DEF Inv
<1> USE <1>a DEF Inv, BaseInv, WakeInv
<1> USE DEF putterVars, waiterVars, environment
<1>1. ASSUME NEW w \in Waiters, NEW k \in Keys, WaitCheck(w, k) PROVE WakeInv'
    <2>0. wpc' = [wpc EXCEPT ![w] = IF kv_map[k] # Absent THEN "return" ELSE "register"]
        <3>1. Reached(k, stale_key) = {IF kv_map[k] # Absent THEN k ELSE Absent}
            BY DEF KeysLive, Reached
        <3> QED
            BY <1>1, <3>1 DEF WaitCheck
    <2>1. WokenInv'
        BY <1>0, <1>1, <2>0 DEF TypeOK, PositionInv, WokenInv, NeverNull, WaitCheck, Added
    <2>2. SharedInv'
        BY <1>0, <1>1 DEF TypeOK, PositionInv, WokenInv, SharedInv, EntryInv, Listening, WaitCheck, Added
    <2>3. PutterInv'
        BY <1>0, <1>1 DEF TypeOK, PositionInv, PutterInv, SharedInv, EntryInv, Listeners, Listening, WaitCheck, Added
    <2>4. NeverNull'
        BY <1>0, <1>1 DEF TypeOK, NeverNull, PositionInv, WokenInv, WaitCheck, Added
    <2> QED
        BY <1>c, <2>1, <2>2, <2>3, <2>4
<1>2. ASSUME NEW w \in Waiters, WaitRegister(w) PROVE WakeInv'
    <2>1. WokenInv'
        BY <1>0, <1>2 DEF TypeOK, PositionInv, WokenInv, WaitRegister, BorrowSignal, CreateSignal, FindListener
    <2>2. SharedInv'
        BY <1>0, <1>2 DEF TypeOK, PositionInv, WokenInv, SharedInv, EntryInv, Listening, WaitRegister, BorrowSignal, CreateSignal, FindListener
    <2>3. PutterInv'
        BY <1>0, <1>2 DEF TypeOK, PositionInv, PutterInv, SharedInv, EntryInv, Listeners, Listening, WaitRegister, BorrowSignal, CreateSignal, FindListener
    <2>4. NeverNull'
        BY <1>0, <1>2 DEF TypeOK, NeverNull, PositionInv, WokenInv, WaitRegister, BorrowSignal, CreateSignal, FindListener
    <2> QED
        BY <1>c, <2>1, <2>2, <2>3, <2>4
<1>3. ASSUME NEW w \in Waiters, WaitSleep(w) PROVE WakeInv'
    <2>1. WokenInv'
        BY <1>0, <1>3 DEF TypeOK, PositionInv, WokenInv, WaitSleep
    <2>2. SharedInv'
        BY <1>0, <1>3 DEF TypeOK, PositionInv, WokenInv, SharedInv, EntryInv, Listening, WaitSleep
    <2>3. PutterInv'
        BY <1>0, <1>3 DEF TypeOK, PositionInv, PutterInv, SharedInv, EntryInv, Listeners, Listening, WaitSleep
    <2>4. NeverNull'
        BY <1>0, <1>3 DEF TypeOK, NeverNull, PositionInv, WokenInv, WaitSleep
    <2> QED
        BY <1>c, <2>1, <2>2, <2>3, <2>4
<1>4. ASSUME NEW w \in Waiters, WaitWake(w) PROVE WakeInv'
    <2>1. WokenInv'
        BY <1>0, <1>4 DEF TypeOK, PositionInv, WokenInv, WaitWake
    <2>2. SharedInv'
        BY <1>0, <1>4 DEF TypeOK, PositionInv, WokenInv, SharedInv, EntryInv, Listening, WaitWake
    <2>3. PutterInv'
        BY <1>0, <1>4 DEF TypeOK, PositionInv, PutterInv, SharedInv, EntryInv, Listeners, Listening, WaitWake
    <2>4. NeverNull'
        BY <1>0, <1>4 DEF TypeOK, NeverNull, PositionInv, WokenInv, WaitWake
    <2> QED
        BY <1>c, <2>1, <2>2, <2>3, <2>4
<1>5. ASSUME NEW w \in Waiters, WaitErase(w) PROVE WakeInv'
    <2>1. WokenInv'
        BY <1>0, <1>5 DEF TypeOK, PositionInv, WokenInv, WaitErase
    <2>2. SharedInv'
        BY <1>0, <1>5 DEF TypeOK, PositionInv, WokenInv, SharedInv, EntryInv, Listening, WaitErase
    <2>3. PutterInv'
        BY <1>0, <1>5 DEF TypeOK, PositionInv, PutterInv, SharedInv, EntryInv, Listeners, Listening, WaitErase
    <2>4. NeverNull'
        BY <1>0, <1>5 DEF TypeOK, NeverNull, PositionInv, WokenInv, WaitErase
    <2> QED
        BY <1>c, <2>1, <2>2, <2>3, <2>4
<1>6. ASSUME NEW w \in Waiters, WaitDelete(w) PROVE WakeInv'
    <2>1. WokenInv'
        BY <1>0, <1>6 DEF TypeOK, PositionInv, WokenInv, WaitDelete
    <2>2. SharedInv'
        BY <1>0, <1>6 DEF TypeOK, PositionInv, WokenInv, SharedInv, EntryInv, Listening, WaitDelete
    <2>3. PutterInv'
        BY <1>0, <1>6 DEF TypeOK, PositionInv, PutterInv, SharedInv, EntryInv, Listeners, Listening, WaitDelete
    <2>4. NeverNull'
        BY <1>0, <1>6 DEF TypeOK, NeverNull, PositionInv, WokenInv, WaitDelete
    <2> QED
        BY <1>c, <2>1, <2>2, <2>3, <2>4
<1>7. ASSUME NEW w \in Waiters, WaitReturn(w) PROVE WakeInv'
    <2>0. /\ wkey[w] \in Keys /\ Added(wkey[w])
          /\ UNCHANGED <<kv_map, stale_key>>
          /\ result' = [result EXCEPT ![w] = kv_map[wkey[w]]]
        BY <1>a, <1>7, LiveReturn
    <2>1. WokenInv'
        BY <1>0, <1>7, <2>0 DEF TypeOK, PositionInv, WokenInv, WaitReturn, Added
    <2>2. SharedInv'
        BY <1>0, <1>7, <2>0 DEF TypeOK, PositionInv, WokenInv, SharedInv, EntryInv, Listening, WaitReturn, Added
    <2>3. PutterInv'
        BY <1>0, <1>7, <2>0 DEF TypeOK, PositionInv, PutterInv, SharedInv, EntryInv, Listeners, Listening, WaitReturn, Added
    <2>4. NeverNull'
        BY <1>0, <1>7, <2>0 DEF TypeOK, NeverNull, PositionInv, WokenInv, WaitReturn, Added
    <2> QED
        BY <1>c, <2>1, <2>2, <2>3, <2>4
<1>8. ASSUME NEW p \in Putters, NEW k \in Keys, PutInsert(p, k) PROVE WakeInv'
    <2>0. /\ kv_map' = [kv_map EXCEPT ![k] = puts[k] + 1]
          /\ puts[k] + 1 \notin {Null, Absent}
        BY <1>a, <1>b, <1>8, LivePut
    <2>1. WokenInv'
        BY <1>0, <1>8, <2>0 DEF TypeOK, PositionInv, WokenInv, PutInsert, Added
    <2>2. SharedInv'
        BY <1>0, <1>8, <2>0 DEF TypeOK, PositionInv, WokenInv, SharedInv, EntryInv, Listening, PutInsert, Added
    <2>3. PutterInv'
        BY <1>0, <1>8, <2>0 DEF TypeOK, PositionInv, PutterInv, SharedInv, EntryInv, Listeners, Listening, PutInsert, Added
    <2>4. NeverNull'
        BY <1>0, <1>8, <2>0 DEF TypeOK, NeverNull, PositionInv, WokenInv, PutInsert, Added
    <2> QED
        BY <1>c, <2>1, <2>2, <2>3, <2>4
<1>9. ASSUME NEW p \in Putters, SignalFind(p) PROVE WakeInv'
    <2>1. WokenInv'
        BY <1>0, <1>9 DEF TypeOK, PositionInv, WokenInv, SignalFind, FindListener
    <2>2. SharedInv'
        BY <1>0, <1>9 DEF TypeOK, PositionInv, WokenInv, SharedInv, EntryInv, Listening, SignalFind, FindListener
    <2>3. PutterInv'
        BY <1>0, <1>9 DEF TypeOK, PositionInv, PutterInv, SharedInv, EntryInv, Listeners, Listening, SignalFind, FindListener
    <2>4. NeverNull'
        BY <1>0, <1>9 DEF TypeOK, NeverNull, PositionInv, WokenInv, SignalFind, FindListener
    <2> QED
        BY <1>c, <2>1, <2>2, <2>3, <2>4
<1>10. ASSUME NEW p \in Putters, SignalNotify(p) PROVE WakeInv'
    <2>1. WokenInv'
        <3> SUFFICES ASSUME NEW w \in Waiters,
                            wpc'[w] \in {"notified", "erase", "delete", "return"}
                     PROVE  Added(wkey[w])'
            BY DEF WokenInv
        <3>1. wkey' = wkey /\ wkey[w] \in Keys
            BY <1>10 DEF TypeOK, PositionInv, SignalNotify, Sleepers
        <3>2. CASE wpc'[w] = wpc[w]
            BY <1>0, <3>1, <3>2 DEF WokenInv, Added
        <3>3. CASE wpc'[w] # wpc[w]
            <4>1. w \in Listeners(found[p])
                BY <1>10, <3>3 DEF TypeOK, SignalNotify, Sleepers, Listeners, Listening
            <4>2. Added(wkey[w])
                BY <1>10, <4>1 DEF SignalNotify, PutterInv
            <4> QED
                BY <1>0, <3>1, <4>2 DEF Added
        <3> QED
            BY <3>2, <3>3
    <2>2. SharedInv'
        BY <1>0, <1>10 DEF TypeOK, PositionInv, WokenInv, SharedInv, EntryInv, Listening, SignalNotify, Sleepers
    <2>3. PutterInv'
        BY <1>0, <1>10 DEF TypeOK, PositionInv, PutterInv, SharedInv, EntryInv, Listeners, Listening, SignalNotify, Sleepers
    <2>4. NeverNull'
        BY <1>0, <1>10 DEF TypeOK, NeverNull, PositionInv, WokenInv, SignalNotify, Sleepers
    <2> QED
        BY <1>c, <2>1, <2>2, <2>3, <2>4
<1>11. CASE UNCHANGED vars
    BY <1>c, <1>11 DEF vars, WokenInv, SharedInv, PutterInv, NeverNull, Added, Listening, Listeners
<1> QED
    BY <1>b, <1>1, <1>2, <1>3, <1>4, <1>5, <1>6, <1>7, <1>8, <1>9, <1>10, <1>11 DEF Next, Proceed, Signal, WaitSpurious

-----------------------------------------------------------------------------
\* What ends the premise of NoDeletedSignalUsed ends it for good.
LEMMA SingleStays ==
    ASSUME TypeOK, [Next]_vars, Single'
    PROVE  Single
<1>1. Calm
    BY CalmStays DEF Single
<1>2. ~ shared
    BY DEF Single, TypeOK, environment, Next, Proceed, Signal, vars, WaitCheck, WaitRegister,
        WaitSleep, WaitSpurious, WaitWake, WaitErase, WaitDelete, WaitReturn, PutInsert,
        SignalFind, SignalNotify
<1> QED
    BY <1>1, <1>2 DEF Single

\* A waiter never borrows a signal when nobody else waits for its key.
LEMMA NoBorrow ==
    ASSUME BaseInv, OneWaiter, NEW w \in Waiters, WaitRegister(w)
    PROVE  CreateSignal(w, Absent)
<1>1. PICK s \in FindListener(wkey[w]) : BorrowSignal(w, s) \/ CreateSignal(w, s)
    BY DEF WaitRegister
<1>2. wkey[w] \in Keys /\ wpc[w] = "register"
    BY DEF BaseInv, PositionInv, WaitRegister
<1>3. ASSUME s # Absent PROVE FALSE
    <2>1. s = waiting_listeners[wkey[w]]
        BY <1>1, <1>3 DEF FindListener
    <2>2. s \in Waiters /\ wkey[s] = wkey[w] /\ wpc[s] \in {"wait", "asleep", "notified", "erase"}
        BY <1>2, <1>3, <2>1 DEF BaseInv, TypeOK, EntryInv
    <2> QED
        BY <1>2, <2>2 DEF OneWaiter
<1> QED
    BY <1>1, <1>3 DEF BorrowSignal, CreateSignal

LEMMA SignalStep ==
    ASSUME BaseInv, SignalInv, [Next]_vars, Single'
    PROVE  SignalInv'
<1>1. Single /\ OneWaiter /\ OnePutter /\ FoundInv /\ ~ deleted_used
    BY SingleStays DEF BaseInv, SignalInv
<1> SUFFICES (OneWaiter /\ OnePutter /\ FoundInv /\ ~ deleted_used)'
    BY DEF SignalInv
<1> USE DEF putterVars, waiterVars, environment
<1>2. ASSUME NEW w \in Waiters, NEW k \in Keys, WaitCheck(w, k)
      PROVE  (OneWaiter /\ OnePutter /\ FoundInv /\ ~ deleted_used)'
    <2>1. OneWaiter'
        <3>1. \A v \in Waiters \ {w} : wpc[v] = "idle" \/ wkey[v] # k
            BY <1>2 DEF Single, WaitCheck
        <3>2. /\ wpc'[w] \in {"register", "return"} /\ wkey'[w] = k
              /\ \A v \in Waiters \ {w} : wpc'[v] = wpc[v] /\ wkey'[v] = wkey[v]
            BY <1>2 DEF BaseInv, TypeOK, WaitCheck
        <3>3. signal' = signal /\ allocated' = allocated
            BY <1>2 DEF WaitCheck
        <3> QED
            BY <1>1, <3>1, <3>2, <3>3 DEF OneWaiter
    <2>2. OnePutter'
        BY <1>1, <1>2 DEF BaseInv, TypeOK, PositionInv, OnePutter, OneWaiter, WaitCheck
    <2>3. FoundInv'
        BY <1>1, <1>2 DEF BaseInv, TypeOK, PositionInv, FoundInv, OneWaiter, OnePutter, Listening, WaitCheck
    <2>4. ~ deleted_used'
        BY <1>1, <1>2 DEF BaseInv, TypeOK, PositionInv, FoundInv, OneWaiter, Listening, WaitCheck
    <2> QED
        BY <2>1, <2>2, <2>3, <2>4
<1>3. ASSUME NEW w \in Waiters, WaitRegister(w)
      PROVE  (OneWaiter /\ OnePutter /\ FoundInv /\ ~ deleted_used)'
    <2>0. CreateSignal(w, Absent)
        BY <1>1, <1>3, NoBorrow
    <2>1. OneWaiter'
        BY <1>1, <1>3, <2>0 DEF BaseInv, TypeOK, PositionInv, OneWaiter, WaitRegister, CreateSignal
    <2>2. OnePutter'
        BY <1>1, <1>3, <2>0 DEF BaseInv, TypeOK, PositionInv, OnePutter, OneWaiter, WaitRegister, CreateSignal
    <2>3. FoundInv'
        BY <1>1, <1>3, <2>0 DEF BaseInv, TypeOK, PositionInv, FoundInv, OneWaiter, OnePutter, Listening, WaitRegister, CreateSignal
    <2>4. ~ deleted_used'
        BY <1>1, <1>3, <2>0 DEF BaseInv, TypeOK, PositionInv, FoundInv, OneWaiter, Listening, WaitRegister, CreateSignal
    <2> QED
        BY <2>1, <2>2, <2>3, <2>4
<1>4. ASSUME NEW w \in Waiters, WaitSleep(w)
      PROVE  (OneWaiter /\ OnePutter /\ FoundInv /\ ~ deleted_used)'
    <2>1. OneWaiter'
        BY <1>1, <1>4 DEF BaseInv, TypeOK, PositionInv, OneWaiter, WaitSleep, Use
    <2>2. OnePutter'
        BY <1>1, <1>4 DEF BaseInv, TypeOK, PositionInv, OnePutter, OneWaiter, WaitSleep, Use
    <2>3. FoundInv'
        BY <1>1, <1>4 DEF BaseInv, TypeOK, PositionInv, FoundInv, OneWaiter, OnePutter, Listening, WaitSleep, Use
    <2>4. ~ deleted_used'
        BY <1>1, <1>4 DEF BaseInv, TypeOK, PositionInv, FoundInv, OneWaiter, Listening, WaitSleep, Use
    <2> QED
        BY <2>1, <2>2, <2>3, <2>4
<1>5. ASSUME NEW w \in Waiters, WaitWake(w)
      PROVE  (OneWaiter /\ OnePutter /\ FoundInv /\ ~ deleted_used)'
    <2>1. OneWaiter'
        BY <1>1, <1>5 DEF BaseInv, TypeOK, PositionInv, OneWaiter, WaitWake, Use
    <2>2. OnePutter'
        BY <1>1, <1>5 DEF BaseInv, TypeOK, PositionInv, OnePutter, OneWaiter, WaitWake, Use
    <2>3. FoundInv'
        BY <1>1, <1>5 DEF BaseInv, TypeOK, PositionInv, FoundInv, OneWaiter, OnePutter, Listening, WaitWake, Use
    <2>4. ~ deleted_used'
        BY <1>1, <1>5 DEF BaseInv, TypeOK, PositionInv, FoundInv, OneWaiter, Listening, WaitWake, Use
    <2> QED
        BY <2>1, <2>2, <2>3, <2>4
<1>6. ASSUME NEW w \in Waiters, WaitErase(w)
      PROVE  (OneWaiter /\ OnePutter /\ FoundInv /\ ~ deleted_used)'
    <2>1. OneWaiter'
        BY <1>1, <1>6 DEF BaseInv, TypeOK, PositionInv, OneWaiter, WaitErase
    <2>2. OnePutter'
        BY <1>1, <1>6 DEF BaseInv, TypeOK, PositionInv, OnePutter, OneWaiter, WaitErase
    <2>3. FoundInv'
        BY <1>1, <1>6 DEF BaseInv, TypeOK, PositionInv, FoundInv, OneWaiter, OnePutter, Listening, WaitErase
    <2>4. ~ deleted_used'
        BY <1>1, <1>6 DEF BaseInv, TypeOK, PositionInv, FoundInv, OneWaiter, Listening, WaitErase
    <2> QED
        BY <2>1, <2>2, <2>3, <2>4
<1>7. ASSUME NEW w \in Waiters, WaitDelete(w)
      PROVE  (OneWaiter /\ OnePutter /\ FoundInv /\ ~ deleted_used)'
    <2>1. OneWaiter'
        BY <1>1, <1>7 DEF BaseInv, TypeOK, PositionInv, OneWaiter, WaitDelete
    <2>2. OnePutter'
        BY <1>1, <1>7 DEF BaseInv, TypeOK, PositionInv, OnePutter, OneWaiter, WaitDelete
    <2>3. FoundInv'
        BY <1>1, <1>7 DEF BaseInv, TypeOK, PositionInv, FoundInv, OneWaiter, OnePutter, Listening, WaitDelete
    <2>4. ~ deleted_used'
        BY <1>1, <1>7 DEF BaseInv, TypeOK, PositionInv, FoundInv, OneWaiter, Listening, WaitDelete
    <2> QED
        BY <2>1, <2>2, <2>3, <2>4
<1>8. ASSUME NEW w \in Waiters, WaitReturn(w)
      PROVE  (OneWaiter /\ OnePutter /\ FoundInv /\ ~ deleted_used)'
    <2>1. OneWaiter'
        BY <1>1, <1>8 DEF BaseInv, TypeOK, PositionInv, OneWaiter, WaitReturn
    <2>2. OnePutter'
        BY <1>1, <1>8 DEF BaseInv, TypeOK, PositionInv, OnePutter, OneWaiter, WaitReturn
    <2>3. FoundInv'
        BY <1>1, <1>8 DEF BaseInv, TypeOK, PositionInv, FoundInv, OneWaiter, OnePutter, Listening, WaitReturn
    <2>4. ~ deleted_used'
        BY <1>1, <1>8 DEF BaseInv, TypeOK, PositionInv, FoundInv, OneWaiter, Listening, WaitReturn
    <2> QED
        BY <2>1, <2>2, <2>3, <2>4
<1>9. ASSUME NEW p \in Putters, NEW k \in Keys, PutInsert(p, k)
      PROVE  (OneWaiter /\ OnePutter /\ FoundInv /\ ~ deleted_used)'
    <2>1. OneWaiter'
        BY <1>1, <1>9 DEF BaseInv, TypeOK, PositionInv, OneWaiter, PutInsert
    <2>2. OnePutter'
        BY <1>1, <1>9 DEF BaseInv, TypeOK, PositionInv, OnePutter, OneWaiter, Single, Calm, PutOnce, PutInsert
    <2>3. FoundInv'
        BY <1>1, <1>9 DEF BaseInv, TypeOK, PositionInv, FoundInv, OneWaiter, OnePutter, Listening, PutInsert
    <2>4. ~ deleted_used'
        BY <1>1, <1>9 DEF BaseInv, TypeOK, PositionInv, FoundInv, OneWaiter, Listening, PutInsert
    <2> QED
        BY <2>1, <2>2, <2>3, <2>4
<1>10. ASSUME NEW p \in Putters, SignalFind(p)
      PROVE  (OneWaiter /\ OnePutter /\ FoundInv /\ ~ deleted_used)'
    <2>1. OneWaiter'
        BY <1>1, <1>10 DEF BaseInv, TypeOK, PositionInv, OneWaiter, SignalFind, FindListener
    <2>2. OnePutter'
        BY <1>1, <1>10 DEF BaseInv, TypeOK, PositionInv, OnePutter, OneWaiter, SignalFind, FindListener
    <2>3. FoundInv'
        BY <1>1, <1>10 DEF BaseInv, TypeOK, PositionInv, FoundInv, OneWaiter, OnePutter, Listening, EntryInv, SignalFind, FindListener
    <2>4. ~ deleted_used'
        BY <1>1, <1>10 DEF BaseInv, TypeOK, PositionInv, FoundInv, OneWaiter, Listening, SignalFind, FindListener
    <2> QED
        BY <2>1, <2>2, <2>3, <2>4
<1>11. ASSUME NEW p \in Putters, SignalNotify(p)
      PROVE  (OneWaiter /\ OnePutter /\ FoundInv /\ ~ deleted_used)'
    <2>1. OneWaiter'
        BY <1>1, <1>11 DEF BaseInv, TypeOK, PositionInv, OneWaiter, SignalNotify, Sleepers, Use
    <2>2. OnePutter'
        <3>1. ASSUME NEW w \in Waiters, wpc'[w] # wpc[w]
              PROVE  wpc[w] = "asleep" /\ w = found[p] /\ wkey[w] = pkey[p]
            BY <1>1, <1>11, <3>1 DEF BaseInv, TypeOK, OneWaiter, FoundInv, SignalNotify, Sleepers
        <3>2. ASSUME NEW w \in Waiters, wpc'[w] \in {"notified", "erase", "delete"}
              PROVE  /\ puts'[wkey'[w]] >= 1
                     /\ \A q \in Putters : ppc'[q] # "idle" => pkey'[q] # wkey'[w]
            BY <1>1, <1>11, <3>1, <3>2 DEF BaseInv, TypeOK, OnePutter, SignalNotify
        <3>3. /\ \A q \in Putters : ppc'[q] # "idle" => puts'[pkey'[q]] >= 1
              /\ \A q, r \in Putters :
                    ppc'[q] # "idle" /\ ppc'[r] # "idle" /\ pkey'[q] = pkey'[r] => q = r
            BY <1>1, <1>11 DEF BaseInv, TypeOK, OnePutter, SignalNotify
        <3> QED
            BY <3>2, <3>3 DEF OnePutter
    <2>3. FoundInv'
        BY <1>1, <1>11 DEF BaseInv, TypeOK, PositionInv, FoundInv, OneWaiter, OnePutter, Listening, SignalNotify, Sleepers, Use
    <2>4. ~ deleted_used'
        BY <1>1, <1>11 DEF BaseInv, TypeOK, PositionInv, FoundInv, OneWaiter, Listening, SignalNotify, Sleepers, Use
    <2> QED
        BY <2>1, <2>2, <2>3, <2>4
<1>12. CASE UNCHANGED vars
    BY <1>1, <1>12 DEF vars, OneWaiter, OnePutter, FoundInv, Listening
<1>13. ASSUME NEW w \in Waiters PROVE ~ WaitSpurious(w)
    BY DEF WaitSpurious, Single, Calm
<1> QED
    BY <1>2, <1>3, <1>4, <1>5, <1>6, <1>7, <1>8, <1>9, <1>10, <1>11, <1>12, <1>13 DEF Next, Proceed, Signal

-----------------------------------------------------------------------------
LEMMA SpecBase == Spec => []BaseInv
<1>1. Init => BaseInv
    BY InitInv DEF Inv
<1> QED
    BY <1>1, BaseStep, PTL DEF Spec

\* Every variable stays in its range.
THEOREM TypeCorrect == Spec => []TypeOK
<1>1. BaseInv => TypeOK
    BY DEF BaseInv
<1> QED
    BY <1>1, SpecBase, PTL

\* A putter that finds a listener finds a signal that exists and whose creator
\* waits for the key that was put, even with spurious wakeups and shared waits.
THEOREM ListenersWait == Spec => []ListenersAreWaiting
<1>1. BaseInv => ListenersAreWaiting
    BY DEF BaseInv, EntryInv, ListenersAreWaiting
<1> QED
    BY <1>1, SpecBase, PTL

\* wait_and_get never returns before the key was added, for any number of
\* threads and keys, as long as no condition variable has woken spuriously and
\* no key was put again.
THEOREM NoEarlyReturn == Spec => []ReturnsOnlyWhenAdded
<1>1. Inv /\ [Next]_vars => Inv'
    BY BaseStep, WakeStep DEF Inv
<1>2. Inv => ReturnsOnlyWhenAdded
    BY DEF Inv, WakeInv, Calm, NeverNull, ReturnsOnlyWhenAdded
<1> QED
    BY InitInv, <1>1, <1>2, PTL DEF Spec

\* A signal is never used after its creator deleted it, for any number of
\* threads and keys: the creator is woken only by the one put of its key, which
\* has let go of the signal by then.
THEOREM SignalsOutliveTheirUse == Spec => []NoDeletedSignalUsed
<1>1. Init => SignalInv
    BY DEF Init, SignalInv, OneWaiter, OnePutter, FoundInv, Listening
<1>2. BaseInv /\ SignalInv /\ [Next]_vars => SignalInv'
    BY SignalStep DEF SignalInv
<1>3. SignalInv => NoDeletedSignalUsed
    BY DEF SignalInv, Single, Calm, NoDeletedSignalUsed
<1> QED
    BY <1>1, <1>2, <1>3, SpecBase, PTL DEF Spec
=============================================================================
