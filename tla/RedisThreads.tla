---------------------------- MODULE RedisThreads ----------------------------
(***************************************************************************)
(* RedisFeatureStore of finguard/redis_store.py inside ONE scoring         *)
(* process, whose worker threads share the inherited dictionaries: what    *)
(* one thread loads, another may fold into, overwrite or evict before the  *)
(* first is done with it.  Nothing locks them (ScoringService has the same *)
(* threads).                                                               *)
(*                                                                         *)
(* Each attribute of an entity goes through the same steps on its own.     *)
(* This module follows one, card_amt_stats, and of it the count.           *)
(***************************************************************************)
EXTENDS Integers

CONSTANTS
    Threads,
    Cards,
    MaxCalls,   \* bound on the calls
    Absent      \* no such key in Redis, no such entry in the dictionary

VARIABLES
    redis,   \* the key of each card in Redis
    local,   \* the shared dictionary's entry of each card
    pc,      \* per thread, the next step
    call,    \* per thread, the card of its call and what it has pickled
    calls

vars == <<redis, local, pc, call, calls>>

NoCall == [kind |-> "none"]

Init ==
    /\ redis = [c \in Cards |-> Absent]
    /\ local = [c \in Cards |-> Absent]
    /\ pc = [w \in Threads |-> "idle"]
    /\ call = [w \in Threads |-> NoCall]
    /\ calls = 0

(* defaultdict(lambda: [0, 0.0])                                           *)
Count(c) == IF local[c] = Absent THEN 0 ELSE local[c]

Goto(w, step) == pc' = [pc EXCEPT ![w] = step]

(* A call begins: features_for and update both load first.                 *)
Call(w, c, method) ==
    /\ pc[w] = "idle"
    /\ calls < MaxCalls
    /\ calls' = calls + 1
    /\ call' = [call EXCEPT ![w] = [card |-> c, method |-> method]]
    /\ Goto(w, "load")
    /\ UNCHANGED <<redis, local>>

(* _load: mget, then the entries that have a value.                        *)
Load(w) ==
    /\ pc[w] = "load"
    /\ LET c == call[w].card
       IN  local' = IF redis[c] = Absent THEN local ELSE [local EXCEPT ![c] = redis[c]]
    /\ Goto(w, call[w].method)
    /\ UNCHANGED <<redis, call, calls>>

(* features_for of the parent: looking an entry up creates it.             *)
ReadFeatures(w) ==
    /\ pc[w] = "features_for"
    /\ local' = [local EXCEPT ![call[w].card] = Count(call[w].card)]
    /\ Goto(w, "pop")
    /\ UNCHANGED <<redis, call, calls>>

(* `finally`: pop what was loaded, whoever loaded it.                      *)
Pop(w) ==
    /\ pc[w] = "pop"
    /\ local' = [local EXCEPT ![call[w].card] = Absent]
    /\ Goto(w, "idle")
    /\ call' = [call EXCEPT ![w] = NoCall]
    /\ UNCHANGED <<redis, calls>>

(* update of the parent.                                                   *)
FoldIn(w) ==
    /\ pc[w] = "update"
    /\ local' = [local EXCEPT ![call[w].card] = Count(call[w].card) + 1]
    /\ Goto(w, "save")
    /\ UNCHANGED <<redis, call, calls>>

(* _save_and_evict queues the entry, if it is still there, and evicts it.  *)
SaveAndEvict(w) ==
    /\ pc[w] = "save"
    /\ LET c == call[w].card
       IN  /\ call' = [call EXCEPT ![w] = [card |-> c, pickled |-> local[c]]]
           /\ local' = [local EXCEPT ![c] = Absent]
    /\ Goto(w, "execute")
    /\ UNCHANGED <<redis, calls>>

(* pipe.execute()                                                          *)
Execute(w) ==
    /\ pc[w] = "execute"
    /\ redis' = IF call[w].pickled = Absent THEN redis
                ELSE [redis EXCEPT ![call[w].card] = call[w].pickled]
    /\ Goto(w, "idle")
    /\ call' = [call EXCEPT ![w] = NoCall]
    /\ UNCHANGED <<local, calls>>

Step(w) ==
    \/ Load(w) \/ ReadFeatures(w) \/ Pop(w)
    \/ FoldIn(w) \/ SaveAndEvict(w) \/ Execute(w)

Finished ==
    /\ calls = MaxCalls
    /\ \A w \in Threads : pc[w] = "idle"
    /\ UNCHANGED vars

Next ==
    \/ \E w \in Threads, c \in Cards, method \in {"features_for", "update"} : Call(w, c, method)
    \/ \E w \in Threads : Step(w)
    \/ Finished

Spec == Init /\ [][Next]_vars

(* What Redis remembers of a card only grows: the stored history is the    *)
(* in-process store's (redis_store.py: "feature values are guaranteed      *)
(* identical to the pilot store"), which never forgets a transaction it    *)
(* has counted.                                                            *)
HistoryNeverShrinks ==
    [][\A c \in Cards :
        redis[c] # Absent => redis'[c] # Absent /\ redis'[c] >= redis[c]]_redis
=============================================================================
