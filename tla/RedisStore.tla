----------------------------- MODULE RedisStore -----------------------------
(***************************************************************************)
(* RedisFeatureStore of finguard/redis_store.py, replayed next to the      *)
(* in-memory store it subclasses (tests/test_redis_store.py, _replay): the *)
(* same rows go to both.  Each call is made by some scoring replica; it    *)
(* loads the entities of the transaction from Redis into the inherited     *)
(* dictionaries, runs the parent's method on them, writes them back (not   *)
(* after features_for) and evicts them.                                    *)
(*                                                                         *)
(* A replica serves one call at a time here; RedisThreads has the threads. *)
(* The keys of one entity are one value per group that the code always     *)
(* touches together: the rolling state and the fraud marks.  mget and      *)
(* execute are atomic, as in Redis.  ttl_seconds is off.                   *)
(***************************************************************************)
EXTENDS FeatureStore

CONSTANTS
    Replicas,
    Absent     \* no such key in Redis, no such entry in a dictionary

VARIABLES
    redis,          \* the keys in Redis
    local,          \* per replica, the inherited dictionaries
    redisFeatures   \* what the latest features_for of a replica returned

twinVars == <<redis, local, redisFeatures>>
allVars == <<vars, twinVars>>

(* Every entry of a store, without a value.                                *)
NoEntries == [f \in DOMAIN EmptyStore |-> [e \in DOMAIN EmptyStore[f] |-> Absent]]

(* What the keys of each group may hold.                                   *)
Values ==
    [card     |-> [window : Seq([ts : Times, amount : Amounts]), devices : SUBSET Devices,
                   merchants : SUBSET Merchants, count : Nat, total : Nat],
     merchant |-> [window : Seq([ts : Times, amount : Amounts]),
                   first : Times \cup {None}, count : Nat],
     device   |-> [window : Seq([ts : Times, card : Cards]),
                   first : Times \cup {None}, cards : SUBSET Cards],
     pair     |-> Times \cup {None},
     marks    |-> Seq(Nat)]

(* mget answers nil for a missing key, which no pickled value is.          *)
ASSUME AbsentAssumption == \A f \in DOMAIN Values : Absent \notin Values[f]

(* What a dictionary yields for a key it does not hold.                    *)
WithDefaults(s) ==
    [f \in DOMAIN s |-> [e \in DOMAIN s[f] |->
        IF s[f][e] = Absent THEN EmptyStore[f][e] ELSE s[f][e]]]

(* The entries `touched` of s that have a value, over those of base.       *)
Over(base, s, touched) ==
    [f \in DOMAIN base |-> [e \in DOMAIN base[f] |->
        IF <<f, e>> \in touched /\ s[f][e] # Absent THEN s[f][e] ELSE base[f][e]]]

(* Mutant of Rolling: a new attribute is missing from _touched.            *)
RollingNoPair(t) == {<<"card", t.card>>, <<"merchant", t.merchant>>, <<"device", t.device>>}

(* _touched, without and with `only`.                                      *)
Rolling(t) ==
    {<<"card", t.card>>, <<"merchant", t.merchant>>, <<"device", t.device>>,
     <<"pair", <<t.device, t.card>>>>}
MarkKeys(t) == {<<"marks", t.card>>, <<"marks", t.merchant>>, <<"marks", t.device>>}
Touched(t) == Rolling(t) \cup MarkKeys(t)

(* Mutant of Load: `if raw is not None` forgets what mget returned of the  *)
(* marks.                                                                  *)
LoadRolling(s, touched) ==
    Over(s, redis, {k \in touched : k[1] # "marks"})

(* _load                                                                   *)
Load(s, touched) == Over(s, redis, touched)

(* Mutant of Evict: the marks stay in the process.                         *)
EvictRolling(s, touched) ==
    [f \in DOMAIN s |-> [e \in DOMAIN s[f] |->
        IF <<f, e>> \in touched /\ f # "marks" THEN Absent ELSE s[f][e]]]

Evict(s, touched) ==
    [f \in DOMAIN s |-> [e \in DOMAIN s[f] |->
        IF <<f, e>> \in touched THEN Absent ELSE s[f][e]]]

(* The entries a method of the parent leaves in the dictionaries: those it *)
(* was given and those it writes or looks up in a defaultdict.             *)
After(loaded, result, created) ==
    [f \in DOMAIN loaded |-> [e \in DOMAIN loaded[f] |->
        IF loaded[f][e] # Absent \/ <<f, e>> \in created THEN result[f][e] ELSE Absent]]

(* _save_and_evict of what the replica r now holds.                        *)
SaveAndEvict(r, s, touched) ==
    /\ redis' = Over(redis, s, touched)
    /\ local' = [local EXCEPT ![r] = Evict(s, touched)]

-----------------------------------------------------------------------------
TwinInit ==
    /\ Init
    /\ redis = NoEntries
    /\ local = [r \in Replicas |-> NoEntries]
    /\ redisFeatures = NoFeatures

(* features_for: what it trimmed is evicted and not written back.          *)
FeaturesForOn(r, t) ==
    LET loaded == Load(local[r], Touched(t))
        filled == WithDefaults(loaded)
    IN  /\ redisFeatures' = FeaturesFor(filled, t)
        /\ local' = [local EXCEPT ![r] =
               Evict(After(loaded, Trimmed(filled, t), Touched(t)), Touched(t))]
        /\ UNCHANGED redis

TwinRead(r, t) == ReplayRead(t) /\ FeaturesForOn(r, t)

(* update loads anew, on whichever replica: pair and first-seen entries    *)
(* appear with setdefault, the marks are saved as they were loaded.        *)
TwinUpdate(r, fraud) ==
    /\ ReplayUpdate(fraud)
    /\ LET t      == pending.txn
           loaded == Load(local[r], Touched(t))
           folded == After(loaded, Updated(WithDefaults(loaded), t), Rolling(t))
       IN  SaveAndEvict(r, folded, Touched(t))
    /\ UNCHANGED redisFeatures

TwinMark(r) ==
    /\ ReplayMark
    /\ LET t      == pending.txn
           m      == [visible |-> t.ts + LabelLatency, card |-> t.card,
                      device |-> t.device, merchant |-> t.merchant]
           loaded == Load(local[r], MarkKeys(t))
           marked == After(loaded, Marked(WithDefaults(loaded), m), MarkKeys(t))
       IN  SaveAndEvict(r, marked, MarkKeys(t))
    /\ UNCHANGED redisFeatures

(* The process dies before `execute`: nothing of the call reaches Redis,   *)
(* and the rest of the row is not replayed.  A new process starts with     *)
(* empty dictionaries.                                                     *)
Crash(r) ==
    /\ pending # Idle
    /\ pending' = Idle
    /\ local' = [local EXCEPT ![r] = NoEntries]
    /\ UNCHANGED <<store, logVars, redis, redisFeatures>>

TwinFinished == Finished /\ UNCHANGED twinVars

TwinNext ==
    \/ \E r \in Replicas :
        \/ \E t \in Txns : TwinRead(r, t)
        \/ \E fraud \in BOOLEAN : TwinUpdate(r, fraud)
        \/ TwinMark(r)
        \/ Crash(r)
    \/ TwinFinished

TwinSpec == TwinInit /\ [][TwinNext]_allVars

-----------------------------------------------------------------------------
(* Every row has the same features from Redis, whichever replicas served   *)
(* the rows before it, as from the in-process store (redis_store.py:       *)
(* "feature values are guaranteed identical to the pilot store").          *)
FeaturesIdentical == redisFeatures = features

(* Between two calls no replica keeps a copy of an entity, which another   *)
(* replica could make stale: all of the state is in Redis.                 *)
NoStaleCopy == \A r \in Replicas : local[r] = NoEntries

(* Redis remembers what the in-process store remembers: the counters,      *)
(* sets, first-seen times and marks of every entity are the same, whichever*)
(* replicas wrote them and whatever crashes came between (redis_store.py:  *)
(* "survives process restart and is shared").  The windows differ: what    *)
(* features_for trims is never written back.                               *)
SameHistory ==
    LET saved == WithDefaults(redis)
    IN  /\ saved.pair = store.pair
        /\ saved.marks = store.marks
        /\ \A c \in Cards : [saved.card[c] EXCEPT !.window = <<>>]
                             = [store.card[c] EXCEPT !.window = <<>>]
        /\ \A m \in Merchants : [saved.merchant[m] EXCEPT !.window = <<>>]
                                 = [store.merchant[m] EXCEPT !.window = <<>>]
        /\ \A d \in Devices : [saved.device[d] EXCEPT !.window = <<>>]
                               = [store.device[d] EXCEPT !.window = <<>>]
=============================================================================
