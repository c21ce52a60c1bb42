------------------------------ MODULE DedupCache ------------------------------
(***************************************************************************)
(* The upload deduplication cache of the server (internal/server/server.go, *)
(* dedupCache): an LRU list of payload keys.  The list is a sequence whose  *)
(* first element is the most recently used key; the map `items` of the code *)
(* is the range of the sequence.  Every operator is one critical section of *)
(* the cache's mutex.                                                       *)
(***************************************************************************)
EXTENDS Integers, Sequences

\* The keys the cache holds.
CachedKeys(lru) == {lru[i] : i \in DOMAIN lru}

\* No key is twice in the list: the list and the map of the code agree.
NoDuplicate(lru) == \A i, j \in DOMAIN lru : lru[i] = lru[j] => i = j

\* container/list MoveToFront: the key moves to position 1, those before it
\* move one place back, those behind it stay.
MoveToFront(lru, key) ==
    LET at == CHOOSE i \in DOMAIN lru : lru[i] = key
    IN  [i \in DOMAIN lru |-> IF i = 1 THEN key
                              ELSE IF i <= at THEN lru[i - 1] ELSE lru[i]]

\* PushFront, then drop the last element if the list is over its capacity.
PushAndEvict(lru, key, capacity) ==
    LET len == IF Len(lru) < capacity THEN Len(lru) + 1 ELSE capacity
    IN  [i \in 1..len |-> IF i = 1 THEN key ELSE lru[i - 1]]

\* dedupCache.exists: the new list, whose hit or miss is key \in CachedKeys(lru).
Exists(lru, key) ==
    IF key \in CachedKeys(lru) THEN MoveToFront(lru, key) ELSE lru

\* Faulty variant of Add: it does not look for the key again.
Add_NoRecheck(lru, key, capacity) == PushAndEvict(lru, key, capacity)

\* dedupCache.add: a key that is present is only moved to the front.
Add(lru, key, capacity) ==
    IF key \in CachedKeys(lru) THEN MoveToFront(lru, key)
    ELSE PushAndEvict(lru, key, capacity)
===============================================================================
