------------------------- MODULE RedisStore_proofs -------------------------
(***************************************************************************)
(* Proofs about RedisStore: however many replicas serve the rows, whatever *)
(* crashes come between two calls, and for every set of entities, every    *)
(* window length and every frame, the store in Redis and the in-process    *)
(* store agree.                                                            *)
(*                                                                         *)
(* The two do not hold the same windows: features_for trims the window of  *)
(* the in-process store and writes nothing to Redis.  The invariant says   *)
(* how they are related: the one is the other without some entries at its  *)
(* left end, all of them too old for any later call.                       *)
(***************************************************************************)
EXTENDS RedisStore, SequenceTheorems, Induction_proofs

USE TimeAssumption, AmountAssumption

-----------------------------------------------------------------------------
(* Sequences of timed entries and what _trim does to them.                 *)

Timed(W) == \A x \in W : x.ts \in Int

(* short is long without `dropped` entries at the left, all older than     *)
(* cutoff.                                                                 *)
DroppedFrom(short, long, cutoff, dropped) ==
    /\ dropped \in 0 .. Len(long)
    /\ Len(short) = Len(long) - dropped
    /\ \A i \in 1 .. Len(short) : short[i] = long[i + dropped]
    /\ \A i \in 1 .. dropped : long[i].ts < cutoff

Suffix(short, long, cutoff) == \E k \in Nat : DroppedFrom(short, long, cutoff, k)

(* _trim drops the entries before the first young one, and no others.      *)
LEMMA TrimShape ==
    ASSUME NEW W, Timed(W), NEW w \in Seq(W), NEW cutoff \in Int
    PROVE  /\ Trim(w, cutoff) \in Seq(W)
           /\ \E k \in Nat :
                /\ DroppedFrom(Trim(w, cutoff), w, cutoff, k)
                /\ k < Len(w) => w[k + 1].ts >= cutoff
  <1>. DEFINE young == {i \in DOMAIN w : w[i].ts >= cutoff}
  <1>0. /\ DOMAIN w = 1 .. Len(w) /\ Len(w) \in Nat
        /\ \A i \in 1 .. Len(w) : w[i] \in W /\ w[i].ts \in Int
    BY DEF Timed
  <1>1. CASE young = {}
    <2>1. Trim(w, cutoff) = <<>>
      BY <1>1 DEF Trim
    <2>2. DroppedFrom(<<>>, w, cutoff, Len(w))
      BY <1>0, <1>1 DEF DroppedFrom
    <2>. QED  BY <2>1, <2>2, <1>0
  <1>2. CASE young # {}
    <2>. DEFINE m == Min(young)
    <2>1. young \in SUBSET Nat
      BY <1>0
    <2>2. m \in young /\ \A k \in young : m <= k
      BY <1>2, <2>1, MinIsLeast
    <2>3. Trim(w, cutoff) = SubSeq(w, m, Len(w))
      BY <1>2 DEF Trim
    <2>. HIDE DEF m
    <2>4. m \in 1 .. Len(w) /\ w[m].ts >= cutoff
      BY <2>2, <1>0
    <2>5. \A i \in 1 .. m - 1 : w[i].ts < cutoff
      BY <2>2, <2>4, <1>0
    <2>6. /\ SubSeq(w, m, Len(w)) \in Seq(W)
          /\ Len(SubSeq(w, m, Len(w))) = Len(w) - m + 1
          /\ \A i \in 1 .. Len(w) - m + 1 : SubSeq(w, m, Len(w))[i] = w[m + i - 1]
      BY <2>4, <1>0, SubSeqProperties
    <2>7. DroppedFrom(Trim(w, cutoff), w, cutoff, m - 1)
      BY <2>3, <2>4, <2>5, <2>6, <1>0 DEF DroppedFrom
    <2>. QED  BY <2>3, <2>4, <2>6, <2>7
  <1>. QED  BY <1>1, <1>2

(* A window is related to itself, and stays related as time goes on and    *)
(* entries are appended to both.                                           *)
LEMMA SuffixReflexive ==
    ASSUME NEW W, NEW w \in Seq(W), NEW cutoff \in Int
    PROVE  Suffix(w, w, cutoff)
  <1>1. DroppedFrom(w, w, cutoff, 0)
    BY DEF DroppedFrom
  <1>. QED  BY <1>1 DEF Suffix

LEMMA SuffixLater ==
    ASSUME NEW W, Timed(W), NEW short \in Seq(W), NEW long \in Seq(W),
           NEW cutoff \in Int, NEW later \in Int, cutoff <= later,
           Suffix(short, long, cutoff)
    PROVE  Suffix(short, long, later)
  <1>1. PICK k \in Nat : DroppedFrom(short, long, cutoff, k)
    BY DEF Suffix
  <1>2. \A i \in 1 .. k : long[i].ts \in Int
    BY <1>1 DEF DroppedFrom, Timed
  <1>3. DroppedFrom(short, long, later, k)
    BY <1>1, <1>2 DEF DroppedFrom
  <1>. QED  BY <1>3 DEF Suffix

LEMMA SuffixAppend ==
    ASSUME NEW W, NEW short \in Seq(W), NEW long \in Seq(W), NEW x \in W,
           NEW cutoff \in Int, Suffix(short, long, cutoff)
    PROVE  Suffix(Append(short, x), Append(long, x), cutoff)
  <1>1. PICK k \in Nat : DroppedFrom(short, long, cutoff, k)
    BY DEF Suffix
  <1>2. DroppedFrom(Append(short, x), Append(long, x), cutoff, k)
    BY <1>1 DEF DroppedFrom
  <1>. QED  BY <1>2 DEF Suffix

(* Trimmed at a later time, the two windows are the same.                  *)
LEMMA SuffixTrim ==
    ASSUME NEW W, Timed(W), NEW short \in Seq(W), NEW long \in Seq(W),
           NEW cutoff \in Int, NEW later \in Int, cutoff <= later,
           Suffix(short, long, cutoff)
    PROVE  /\ Trim(short, later) = Trim(long, later)
           /\ Suffix(Trim(short, later), long, later)
  <1>1. PICK k \in Nat : DroppedFrom(short, long, cutoff, k)
    BY DEF Suffix
  <1>2. PICK a \in Nat : /\ DroppedFrom(Trim(short, later), short, later, a)
                         /\ a < Len(short) => short[a + 1].ts >= later
    BY TrimShape
  <1>3. PICK b \in Nat : /\ DroppedFrom(Trim(long, later), long, later, b)
                         /\ b < Len(long) => long[b + 1].ts >= later
    BY TrimShape
  <1>4. /\ Trim(short, later) \in Seq(W)
        /\ Trim(long, later) \in Seq(W)
    BY TrimShape
  <1>5. /\ Len(short) \in Nat /\ Len(long) \in Nat
        /\ \A i \in 1 .. Len(short) : short[i].ts \in Int
        /\ \A i \in 1 .. Len(long) : long[i].ts \in Int
    BY DEF Timed
  <1>6. b = a + k
    <2>1. a <= Len(short) /\ b <= Len(long) /\ k <= Len(long) /\ Len(short) = Len(long) - k
      BY <1>1, <1>2, <1>3 DEF DroppedFrom
    <2>2. ASSUME b < k PROVE FALSE
      <3>1. long[b + 1].ts < cutoff
        BY <2>2, <1>1 DEF DroppedFrom
      <3>2. long[b + 1].ts >= later
        BY <2>1, <2>2, <1>3
      <3>. QED  BY <3>1, <3>2, <2>1, <2>2, <1>5
    <2>3. ASSUME b >= k, b - k < a PROVE FALSE
      <3>1. short[b - k + 1].ts < later
        BY <2>3, <1>2 DEF DroppedFrom
      <3>2. short[b - k + 1] = long[b + 1]
        BY <2>1, <2>3, <1>1, <1>5 DEF DroppedFrom
      <3>3. long[b + 1].ts >= later
        BY <2>1, <2>3, <1>3, <1>5
      <3>. QED  BY <3>1, <3>2, <3>3, <2>1, <2>3, <1>5
    <2>4. ASSUME b - k > a PROVE FALSE
      <3>1. long[a + 1 + k].ts < later
        BY <2>4, <1>3 DEF DroppedFrom
      <3>2. short[a + 1] = long[a + 1 + k]
        BY <2>1, <2>4, <1>1, <1>5 DEF DroppedFrom
      <3>3. short[a + 1].ts >= later
        BY <2>1, <2>4, <1>2, <1>5
      <3>. QED  BY <3>1, <3>2, <3>3, <2>1, <2>4, <1>5
    <2>. QED  BY <2>2, <2>3, <2>4
  <1>7. Len(Trim(short, later)) = Len(Trim(long, later))
    BY <1>1, <1>2, <1>3, <1>5, <1>6 DEF DroppedFrom
  <1>8. \A i \in 1 .. Len(Trim(long, later)) : Trim(short, later)[i] = Trim(long, later)[i]
    BY <1>1, <1>2, <1>3, <1>5, <1>6, <1>7 DEF DroppedFrom
  <1>9. Trim(short, later) = Trim(long, later)
    BY <1>4, <1>7, <1>8, SeqEqual
  <1>. QED  BY <1>3, <1>9 DEF Suffix

-----------------------------------------------------------------------------
(* The keys of the two stores.                                             *)

Fields == DOMAIN Values

(* s has the entries of a store, whatever they hold.                       *)
Shaped(s) == s = [f \in Fields |-> [e \in DOMAIN EmptyStore[f] |-> s[f][e]]]

StoreTyped(s) ==
    /\ Shaped(s)
    /\ \A f \in Fields : \A e \in DOMAIN EmptyStore[f] : s[f][e] \in Values[f]

KeysTyped(s) ==
    /\ Shaped(s)
    /\ \A f \in Fields : \A e \in DOMAIN EmptyStore[f] : s[f][e] \in Values[f] \cup {Absent}

LEMMA FieldsAre ==
    /\ Fields = {"card", "merchant", "device", "pair", "marks"}
    /\ DOMAIN EmptyStore = Fields
    /\ EmptyStore = [f \in Fields |-> EmptyStore[f]]
    /\ DOMAIN EmptyStore["card"] = Cards
    /\ DOMAIN EmptyStore["merchant"] = Merchants
    /\ DOMAIN EmptyStore["device"] = Devices
    /\ DOMAIN EmptyStore["pair"] = Devices \X Cards
    /\ DOMAIN EmptyStore["marks"] = Cards \cup Devices \cup Merchants
  BY DEF Fields, Values, EmptyStore

LEMMA EmptyStoreTyped == StoreTyped(EmptyStore)
  <1>1. Shaped(EmptyStore)
    BY FieldsAre DEF Shaped, EmptyStore
  <1>2. EmptyCard \in Values["card"]
    BY DEF EmptyCard, Values
  <1>3. EmptyMerchant \in Values["merchant"]
    BY DEF EmptyMerchant, Values
  <1>4. EmptyDevice \in Values["device"]
    BY DEF EmptyDevice, Values
  <1>5. None \in Values["pair"] /\ <<>> \in Values["marks"]
    BY DEF Values
  <1>6. /\ \A e \in Cards : EmptyStore["card"][e] = EmptyCard
        /\ \A e \in Merchants : EmptyStore["merchant"][e] = EmptyMerchant
        /\ \A e \in Devices : EmptyStore["device"][e] = EmptyDevice
        /\ \A e \in Devices \X Cards : EmptyStore["pair"][e] = None
        /\ \A e \in Cards \cup Devices \cup Merchants : EmptyStore["marks"][e] = <<>>
    BY DEF EmptyStore
  <1>7. \A f \in Fields : \A e \in DOMAIN EmptyStore[f] : EmptyStore[f][e] \in Values[f]
    BY <1>2, <1>3, <1>4, <1>5, <1>6, FieldsAre
  <1>. QED  BY <1>1, <1>7 DEF StoreTyped

(* With the defaults of the dictionaries, what Redis holds is a store.     *)
LEMMA DefaultsTyped ==
    ASSUME NEW s, KeysTyped(s)
    PROVE  StoreTyped(WithDefaults(s))
  <1>1. /\ DOMAIN s = Fields
        /\ \A f \in Fields : DOMAIN s[f] = DOMAIN EmptyStore[f]
    BY DEF KeysTyped, Shaped
  <1>2. WithDefaults(s) = [f \in Fields |-> [e \in DOMAIN EmptyStore[f] |->
            IF s[f][e] = Absent THEN EmptyStore[f][e] ELSE s[f][e]]]
    BY <1>1 DEF WithDefaults
  <1>3. Shaped(WithDefaults(s))
    BY <1>2 DEF Shaped
  <1>4. \A f \in Fields : \A e \in DOMAIN EmptyStore[f] :
            WithDefaults(s)[f][e] \in Values[f]
    BY <1>2, EmptyStoreTyped DEF KeysTyped, StoreTyped
  <1>. QED  BY <1>3, <1>4 DEF StoreTyped

LEMMA NoEntriesTyped ==
    /\ KeysTyped(NoEntries)
    /\ WithDefaults(NoEntries) = EmptyStore
  <1>1. NoEntries = [f \in Fields |-> [e \in DOMAIN EmptyStore[f] |-> Absent]]
    BY FieldsAre DEF NoEntries
  <1>2. KeysTyped(NoEntries)
    BY <1>1 DEF KeysTyped, Shaped
  <1>3. WithDefaults(NoEntries) = [f \in Fields |-> [e \in DOMAIN EmptyStore[f] |-> EmptyStore[f][e]]]
    BY <1>1 DEF WithDefaults
  <1>. QED  BY <1>2, <1>3, EmptyStoreTyped DEF StoreTyped, Shaped

(* What a replica with empty dictionaries works on.                        *)
Loaded(keys, touched) == Over(NoEntries, keys, touched)

LEMMA LoadedIs ==
    ASSUME NEW keys, KeysTyped(keys), NEW touched
    PROVE  /\ Loaded(keys, touched) = [f \in Fields |-> [e \in DOMAIN EmptyStore[f] |->
                 IF <<f, e>> \in touched THEN keys[f][e] ELSE Absent]]
           /\ KeysTyped(Loaded(keys, touched))
           /\ \A f \in Fields : \A e \in DOMAIN EmptyStore[f] :
                 <<f, e>> \in touched =>
                     WithDefaults(Loaded(keys, touched))[f][e] = WithDefaults(keys)[f][e]
  <1>1. NoEntries = [f \in Fields |-> [e \in DOMAIN EmptyStore[f] |-> Absent]]
    BY FieldsAre DEF NoEntries
  <1>2. Loaded(keys, touched) = [f \in Fields |-> [e \in DOMAIN EmptyStore[f] |->
            IF <<f, e>> \in touched THEN keys[f][e] ELSE Absent]]
    BY <1>1 DEF Loaded, Over
  <1>3. keys = [f \in Fields |-> [e \in DOMAIN EmptyStore[f] |-> keys[f][e]]]
    BY DEF KeysTyped, Shaped
  <1>4. WithDefaults(keys) = [f \in Fields |-> [e \in DOMAIN EmptyStore[f] |->
            IF keys[f][e] = Absent THEN EmptyStore[f][e] ELSE keys[f][e]]]
    BY <1>3 DEF WithDefaults
  <1>5. \A f \in Fields : \A e \in DOMAIN EmptyStore[f] :
            <<f, e>> \in touched =>
                WithDefaults(Loaded(keys, touched))[f][e] = WithDefaults(keys)[f][e]
    <2>1. WithDefaults(Loaded(keys, touched)) = [f \in Fields |-> [e \in DOMAIN EmptyStore[f] |->
              IF Loaded(keys, touched)[f][e] = Absent THEN EmptyStore[f][e]
              ELSE Loaded(keys, touched)[f][e]]]
      BY <1>2 DEF WithDefaults
    <2>2. \A f \in Fields : \A e \in DOMAIN EmptyStore[f] :
              <<f, e>> \in touched => Loaded(keys, touched)[f][e] = keys[f][e]
      BY <1>2
    <2>. QED  BY <2>1, <2>2, <1>4
  <1>6. KeysTyped(Loaded(keys, touched))
    <2>1. Shaped(Loaded(keys, touched))
      BY <1>2 DEF Shaped
    <2>2. \A f \in Fields : \A e \in DOMAIN EmptyStore[f] :
              Loaded(keys, touched)[f][e] \in {keys[f][e], Absent}
      BY <1>2
    <2>. QED  BY <2>1, <2>2 DEF KeysTyped
  <1>. QED  BY <1>2, <1>5, <1>6

(* A method of the parent gives a result, from the touched entries, and    *)
(* creates some of them.  All of it is evicted, and all of it reaches      *)
(* Redis: the touched keys are what the method left, the others what they  *)
(* were.  A touched key that was neither given nor created has no value    *)
(* worth keeping.                                                          *)
LEMMA Evicted ==
    ASSUME NEW keys, KeysTyped(keys), NEW touched, NEW created \in SUBSET touched, NEW result
    PROVE  Evict(After(Loaded(keys, touched), result, created), touched) = NoEntries
  <1>. DEFINE loaded == Loaded(keys, touched)
              left   == After(loaded, result, created)
  <1>1. loaded = [f \in Fields |-> [e \in DOMAIN EmptyStore[f] |->
            IF <<f, e>> \in touched THEN keys[f][e] ELSE Absent]]
    BY LoadedIs
  <1>. HIDE DEF loaded
  <1>2. left = [f \in Fields |-> [e \in DOMAIN EmptyStore[f] |->
            IF loaded[f][e] # Absent \/ <<f, e>> \in created THEN result[f][e] ELSE Absent]]
    BY <1>1 DEF After
  <1>. HIDE DEF left
  <1>3. Evict(left, touched) = [f \in Fields |-> [e \in DOMAIN EmptyStore[f] |->
            IF <<f, e>> \in touched THEN Absent ELSE left[f][e]]]
    BY <1>2 DEF Evict
  <1>4. \A f \in Fields : \A e \in DOMAIN EmptyStore[f] :
            <<f, e>> \notin touched => left[f][e] = Absent
    BY <1>1, <1>2
  <1>5. NoEntries = [f \in Fields |-> [e \in DOMAIN EmptyStore[f] |-> Absent]]
    BY FieldsAre DEF NoEntries
  <1>6. Evict(left, touched) = NoEntries
    BY <1>3, <1>4, <1>5
  <1>. QED  BY <1>6 DEF left, loaded

LEMMA Saved ==
    ASSUME NEW keys, KeysTyped(keys), NEW touched, NEW created \in SUBSET touched,
           NEW result, StoreTyped(result),
           \A f \in Fields : \A e \in DOMAIN EmptyStore[f] :
               <<f, e>> \in touched /\ <<f, e>> \notin created /\ keys[f][e] = Absent
                   => result[f][e] = EmptyStore[f][e],
           NEW saved,
           saved = Over(keys, After(Loaded(keys, touched), result, created), touched)
    PROVE  /\ KeysTyped(saved)
           /\ \A f \in Fields : \A e \in DOMAIN EmptyStore[f] : WithDefaults(saved)[f][e]
                 = IF <<f, e>> \in touched THEN result[f][e] ELSE WithDefaults(keys)[f][e]
  <1>. DEFINE loaded == Loaded(keys, touched)
              left   == After(loaded, result, created)
  <1>1. loaded = [f \in Fields |-> [e \in DOMAIN EmptyStore[f] |->
            IF <<f, e>> \in touched THEN keys[f][e] ELSE Absent]]
    BY LoadedIs
  <1>2. saved = Over(keys, left, touched)
    OBVIOUS
  <1>. HIDE DEF loaded
  <1>3. left = [f \in Fields |-> [e \in DOMAIN EmptyStore[f] |->
            IF loaded[f][e] # Absent \/ <<f, e>> \in created THEN result[f][e] ELSE Absent]]
    BY <1>1 DEF After
  <1>. HIDE DEF left
  <1>4. keys = [f \in Fields |-> [e \in DOMAIN EmptyStore[f] |-> keys[f][e]]]
    BY DEF KeysTyped, Shaped
  <1>5. saved = [f \in Fields |-> [e \in DOMAIN EmptyStore[f] |->
            IF <<f, e>> \in touched /\ left[f][e] # Absent THEN left[f][e] ELSE keys[f][e]]]
    BY <1>2, <1>4 DEF Over
  <1>6. \A f \in Fields : \A e \in DOMAIN EmptyStore[f] :
            result[f][e] \in Values[f] /\ result[f][e] # Absent
    BY AbsentAssumption DEF StoreTyped, Fields
  <1>7. \A f \in Fields : \A e \in DOMAIN EmptyStore[f] :
             saved[f][e] = IF <<f, e>> \in touched
                               /\ (keys[f][e] # Absent \/ <<f, e>> \in created)
                           THEN result[f][e] ELSE keys[f][e]
    <2>. SUFFICES ASSUME NEW f \in Fields, NEW e \in DOMAIN EmptyStore[f]
                  PROVE  saved[f][e] = IF <<f, e>> \in touched
                                 /\ (keys[f][e] # Absent \/ <<f, e>> \in created)
                             THEN result[f][e] ELSE keys[f][e]
      OBVIOUS
    <2>1. /\ loaded[f][e] = IF <<f, e>> \in touched THEN keys[f][e] ELSE Absent
          /\ left[f][e] = IF loaded[f][e] # Absent \/ <<f, e>> \in created
                          THEN result[f][e] ELSE Absent
          /\ saved[f][e] = IF <<f, e>> \in touched /\ left[f][e] # Absent
                           THEN left[f][e] ELSE keys[f][e]
          /\ result[f][e] # Absent
      BY <1>1, <1>3, <1>5, <1>6
    <2>2. CASE <<f, e>> \notin touched
      BY <2>1, <2>2
    <2>3. CASE <<f, e>> \in touched /\ (keys[f][e] # Absent \/ <<f, e>> \in created)
      BY <2>1, <2>3
    <2>4. CASE <<f, e>> \in touched /\ keys[f][e] = Absent /\ <<f, e>> \notin created
      BY <2>1, <2>4
    <2>. QED  BY <2>2, <2>3, <2>4
  <1>8. Shaped(saved)
    BY <1>5 DEF Shaped
  <1>9. KeysTyped(saved)
    BY <1>6, <1>7, <1>8 DEF KeysTyped
  <1>10. WithDefaults(keys) = [f \in Fields |-> [e \in DOMAIN EmptyStore[f] |->
            IF keys[f][e] = Absent THEN EmptyStore[f][e] ELSE keys[f][e]]]
    BY <1>4 DEF WithDefaults
  <1>11. WithDefaults(saved) = [f \in Fields |-> [e \in DOMAIN EmptyStore[f] |->
            IF saved[f][e] = Absent THEN EmptyStore[f][e] ELSE saved[f][e]]]
    BY <1>5 DEF WithDefaults
  <1>12. ASSUME NEW f \in Fields, NEW e \in DOMAIN EmptyStore[f]
         PROVE  WithDefaults(saved)[f][e]
                    = IF <<f, e>> \in touched THEN result[f][e] ELSE WithDefaults(keys)[f][e]
    <2>1. /\ WithDefaults(keys)[f][e]
                = IF keys[f][e] = Absent THEN EmptyStore[f][e] ELSE keys[f][e]
          /\ WithDefaults(saved)[f][e]
                = IF saved[f][e] = Absent THEN EmptyStore[f][e] ELSE saved[f][e]
      BY <1>10, <1>11
    <2>2. CASE <<f, e>> \in touched /\ (keys[f][e] # Absent \/ <<f, e>> \in created)
      <3>1. saved[f][e] = result[f][e]
        BY <2>2, <1>7
      <3>. QED  BY <2>1, <2>2, <3>1, <1>6
    <2>3. CASE <<f, e>> \in touched /\ keys[f][e] = Absent /\ <<f, e>> \notin created
      <3>1. saved[f][e] = Absent
        BY <2>3, <1>7
      <3>. QED  BY <2>1, <2>3, <3>1
    <2>4. CASE <<f, e>> \notin touched
      <3>1. saved[f][e] = keys[f][e]
        BY <2>4, <1>7
      <3>. QED  BY <2>1, <2>4, <3>1
    <2>. QED  BY <2>2, <2>3, <2>4
  <1>. QED  BY <1>9, <1>12

-----------------------------------------------------------------------------
(* The three methods of the parent, on a store and on some of its entries. *)

CardOf(s, t) == [window    |-> Append(s.window, [ts |-> t.ts, amount |-> t.amount]),
                 devices   |-> s.devices \cup {t.device},
                 merchants |-> s.merchants \cup {t.merchant},
                 count     |-> s.count + 1,
                 total     |-> s.total + t.amount]

MerchantOf(s, t) == [window |-> Append(s.window, [ts |-> t.ts, amount |-> t.amount]),
                     first  |-> FirstSeen(s.first, t.ts),
                     count  |-> s.count + 1]

DeviceOf(s, t) == [window |-> Append(s.window, [ts |-> t.ts, card |-> t.card]),
                   first  |-> FirstSeen(s.first, t.ts),
                   cards  |-> s.cards \cup {t.card}]

(* update, field by field.                                                 *)
LEMMA UpdatedFields ==
    ASSUME NEW s, StoreTyped(s), NEW t \in Txns
    PROVE  /\ Shaped(Updated(s, t))
           /\ Updated(s, t).card = [s.card EXCEPT ![t.card] = CardOf(@, t)]
           /\ Updated(s, t).merchant = [s.merchant EXCEPT ![t.merchant] = MerchantOf(@, t)]
           /\ Updated(s, t).device = [s.device EXCEPT ![t.device] = DeviceOf(@, t)]
           /\ Updated(s, t).pair = [s.pair EXCEPT ![<<t.device, t.card>>] = FirstSeen(@, t.ts)]
           /\ Updated(s, t).marks = s.marks
  <1>1. s = [f \in Fields |-> [e \in DOMAIN EmptyStore[f] |-> s[f][e]]]
    BY DEF StoreTyped, Shaped
  <1>2. DOMAIN Updated(s, t) = Fields
    BY <1>1 DEF Updated
  <1>3. /\ Updated(s, t).card = [s.card EXCEPT ![t.card] = CardOf(@, t)]
        /\ Updated(s, t).merchant = [s.merchant EXCEPT ![t.merchant] = MerchantOf(@, t)]
        /\ Updated(s, t).device = [s.device EXCEPT ![t.device] = DeviceOf(@, t)]
        /\ Updated(s, t).pair = [s.pair EXCEPT ![<<t.device, t.card>>] = FirstSeen(@, t.ts)]
        /\ Updated(s, t).marks = s.marks
    BY <1>1, FieldsAre DEF Updated, CardOf, MerchantOf, DeviceOf
  <1>4. \A f \in Fields : Updated(s, t)[f] = [e \in DOMAIN EmptyStore[f] |-> Updated(s, t)[f][e]]
    BY <1>1, <1>3, FieldsAre
  <1>5. Updated(s, t) = [f \in Fields |-> Updated(s, t)[f]]
    BY <1>2 DEF Updated
  <1>6. Shaped(Updated(s, t))
    BY <1>4, <1>5 DEF Shaped
  <1>. QED  BY <1>3, <1>6

LEMMA UpdatedTyped ==
    ASSUME NEW s, StoreTyped(s), NEW t \in Txns
    PROVE  StoreTyped(Updated(s, t))
  <1>1. /\ t.card \in Cards /\ t.device \in Devices /\ t.merchant \in Merchants
        /\ t.ts \in Times /\ t.amount \in Amounts /\ t.amount \in Nat
    BY DEF Txns
  <1>2. \A v \in Values["card"] : CardOf(v, t) \in Values["card"]
    BY <1>1 DEF Values, CardOf
  <1>3. \A v \in Values["merchant"] : MerchantOf(v, t) \in Values["merchant"]
    BY <1>1 DEF Values, MerchantOf, FirstSeen
  <1>4. \A v \in Values["device"] : DeviceOf(v, t) \in Values["device"]
    BY <1>1 DEF Values, DeviceOf, FirstSeen
  <1>5. \A v \in Values["pair"] : FirstSeen(v, t.ts) \in Values["pair"]
    BY <1>1 DEF Values, FirstSeen
  <1>6. s = [f \in Fields |-> [e \in DOMAIN EmptyStore[f] |-> s[f][e]]]
    BY DEF StoreTyped, Shaped
  <1>7. /\ \A e \in Cards : s.card[e] \in Values["card"]
        /\ \A e \in Merchants : s.merchant[e] \in Values["merchant"]
        /\ \A e \in Devices : s.device[e] \in Values["device"]
        /\ \A e \in Devices \X Cards : s.pair[e] \in Values["pair"]
        /\ \A e \in Cards \cup Devices \cup Merchants : s.marks[e] \in Values["marks"]
    BY FieldsAre DEF StoreTyped
  <1>8. /\ \A e \in Cards : Updated(s, t).card[e] \in Values["card"]
        /\ \A e \in Merchants : Updated(s, t).merchant[e] \in Values["merchant"]
        /\ \A e \in Devices : Updated(s, t).device[e] \in Values["device"]
        /\ \A e \in Devices \X Cards : Updated(s, t).pair[e] \in Values["pair"]
        /\ \A e \in Cards \cup Devices \cup Merchants : Updated(s, t).marks[e] \in Values["marks"]
    <2>1. /\ DOMAIN s.card = Cards /\ DOMAIN s.merchant = Merchants
          /\ DOMAIN s.device = Devices /\ DOMAIN s.pair = Devices \X Cards
          /\ DOMAIN s.marks = Cards \cup Devices \cup Merchants
      BY <1>6, FieldsAre
    <2>2. \A e \in Cards : Updated(s, t).card[e] \in Values["card"]
      <3>. TAKE e \in Cards
      <3>1. Updated(s, t).card = [s.card EXCEPT ![t.card] = CardOf(@, t)]
        BY UpdatedFields
      <3>2. CASE e = t.card
        BY <2>1, <3>1, <3>2, <1>2, <1>7
      <3>3. CASE e # t.card
        BY <2>1, <3>1, <3>3, <1>7
      <3>. QED  BY <3>2, <3>3
    <2>3. \A e \in Merchants : Updated(s, t).merchant[e] \in Values["merchant"]
      <3>. TAKE e \in Merchants
      <3>1. Updated(s, t).merchant = [s.merchant EXCEPT ![t.merchant] = MerchantOf(@, t)]
        BY UpdatedFields
      <3>2. CASE e = t.merchant
        BY <2>1, <3>1, <3>2, <1>3, <1>7
      <3>3. CASE e # t.merchant
        BY <2>1, <3>1, <3>3, <1>7
      <3>. QED  BY <3>2, <3>3
    <2>4. \A e \in Devices : Updated(s, t).device[e] \in Values["device"]
      <3>. TAKE e \in Devices
      <3>1. Updated(s, t).device = [s.device EXCEPT ![t.device] = DeviceOf(@, t)]
        BY UpdatedFields
      <3>2. CASE e = t.device
        BY <2>1, <3>1, <3>2, <1>4, <1>7
      <3>3. CASE e # t.device
        BY <2>1, <3>1, <3>3, <1>7
      <3>. QED  BY <3>2, <3>3
    <2>5. \A e \in Devices \X Cards : Updated(s, t).pair[e] \in Values["pair"]
      <3>. TAKE e \in Devices \X Cards
      <3>1. Updated(s, t).pair = [s.pair EXCEPT ![<<t.device, t.card>>] = FirstSeen(@, t.ts)]
        BY UpdatedFields
      <3>2. CASE e = <<t.device, t.card>>
        BY <2>1, <3>1, <3>2, <1>5, <1>7
      <3>3. CASE e # <<t.device, t.card>>
        BY <2>1, <3>1, <3>3, <1>7
      <3>. QED  BY <3>2, <3>3
    <2>. QED  BY <2>2, <2>3, <2>4, <2>5, <1>7, UpdatedFields
  <1>9. \A f \in Fields : \A e \in DOMAIN EmptyStore[f] : Updated(s, t)[f][e] \in Values[f]
    BY <1>8, FieldsAre
  <1>. QED  BY <1>9, UpdatedFields DEF StoreTyped

(* mark_confirmed_fraud.                                                   *)
LEMMA MarkLeaves ==
    ASSUME NEW s, StoreTyped(s), NEW m, NEW f \in Fields \ {"marks"}
    PROVE  Marked(s, m)[f] = s[f]
  <1>1. s = [g \in Fields |-> [e \in DOMAIN EmptyStore[g] |-> s[g][e]]]
    BY DEF StoreTyped, Shaped
  <1>. QED  BY <1>1 DEF Marked

LEMMA MarkedFields ==
    ASSUME NEW s, StoreTyped(s), NEW m
    PROVE  /\ Shaped(Marked(s, m))
           /\ \A f \in Fields \ {"marks"} : Marked(s, m)[f] = s[f]
           /\ Marked(s, m).marks = [e \in DOMAIN s.marks |->
                 IF e \in {m.card, m.device, m.merchant} THEN Append(s.marks[e], m.visible)
                 ELSE s.marks[e]]
  <1>1. s = [f \in Fields |-> [e \in DOMAIN EmptyStore[f] |-> s[f][e]]]
    BY DEF StoreTyped, Shaped
  <1>2. /\ \A f \in Fields \ {"marks"} : Marked(s, m)[f] = s[f]
        /\ Marked(s, m).marks = [e \in DOMAIN s.marks |->
                 IF e \in {m.card, m.device, m.merchant} THEN Append(s.marks[e], m.visible)
                 ELSE s.marks[e]]
    BY <1>1, FieldsAre DEF Marked
  <1>3. \A f \in Fields : Marked(s, m)[f] = [e \in DOMAIN EmptyStore[f] |-> Marked(s, m)[f][e]]
    <2>1. ASSUME NEW f \in Fields \ {"marks"}
          PROVE  Marked(s, m)[f] = [e \in DOMAIN EmptyStore[f] |-> Marked(s, m)[f][e]]
      <3>1. s[f] = [e \in DOMAIN EmptyStore[f] |-> s[f][e]]
        BY <1>1
      <3>. QED  BY <3>1, <1>2
    <2>2. Marked(s, m)["marks"]
              = [e \in DOMAIN EmptyStore["marks"] |-> Marked(s, m)["marks"][e]]
      <3>1. DOMAIN s.marks = DOMAIN EmptyStore["marks"]
        BY <1>1, FieldsAre
      <3>. QED  BY <3>1, <1>2
    <2>. QED  BY <2>1, <2>2
  <1>4. Marked(s, m) = [f \in Fields |-> Marked(s, m)[f]]
    BY <1>1 DEF Marked
  <1>5. Shaped(Marked(s, m))
    BY <1>3, <1>4 DEF Shaped
  <1>. QED  BY <1>2, <1>5

LEMMA MarkedTyped ==
    ASSUME NEW s, StoreTyped(s), NEW m, m.visible \in Nat
    PROVE  StoreTyped(Marked(s, m))
  <1>1. \A v \in Values["marks"] : Append(v, m.visible) \in Values["marks"]
    BY DEF Values
  <1>2. s = [f \in Fields |-> [e \in DOMAIN EmptyStore[f] |-> s[f][e]]]
    BY DEF StoreTyped, Shaped
  <1>3. \A f \in Fields : \A e \in DOMAIN EmptyStore[f] : Marked(s, m)[f][e] \in Values[f]
    <2>1. ASSUME NEW f \in Fields \ {"marks"}, NEW e \in DOMAIN EmptyStore[f]
          PROVE  Marked(s, m)[f][e] \in Values[f]
      <3>2. Marked(s, m)[f] = s[f]
        BY MarkLeaves
      <3>3. s[f][e] \in Values[f]
        BY DEF StoreTyped
      <3>. QED  BY <3>2, <3>3
    <2>2. ASSUME NEW e \in DOMAIN EmptyStore["marks"]
          PROVE  Marked(s, m)["marks"][e] \in Values["marks"]
      <3>1. DOMAIN s.marks = DOMAIN EmptyStore["marks"] /\ "marks" \in Fields
        BY <1>2, FieldsAre
      <3>2. s.marks[e] \in Values["marks"]
        BY <3>1 DEF StoreTyped
      <3>3. Marked(s, m)["marks"][e]
                = IF e \in {m.card, m.device, m.merchant} THEN Append(s.marks[e], m.visible)
                  ELSE s.marks[e]
        <4>1. Marked(s, m).marks = [x \in DOMAIN s.marks |->
                  IF x \in {m.card, m.device, m.merchant} THEN Append(s.marks[x], m.visible)
                  ELSE s.marks[x]]
          BY MarkedFields, Zenon
        <4>. QED  BY <3>1, <4>1
      <3>. QED  BY <3>2, <3>3, <1>1
    <2>. QED  BY <2>1, <2>2
  <1>. QED  BY <1>3, MarkedFields DEF StoreTyped


(* The trim of features_for, on one entity.                                *)
TrimmedAt(s, cutoff) == [s EXCEPT !.window = Trim(@, cutoff)]

LEMMA TrimmedFields ==
    ASSUME NEW s, StoreTyped(s), NEW t \in Txns
    PROVE  /\ Shaped(Trimmed(s, t))
           /\ Trimmed(s, t).card = [s.card EXCEPT ![t.card] = TrimmedAt(@, t.ts - Day)]
           /\ Trimmed(s, t).merchant
                = [s.merchant EXCEPT ![t.merchant] = TrimmedAt(@, t.ts - TenMinutes)]
           /\ Trimmed(s, t).device = [s.device EXCEPT ![t.device] = TrimmedAt(@, t.ts - Hour)]
           /\ Trimmed(s, t).pair = s.pair
           /\ Trimmed(s, t).marks = s.marks
  <1>1. s = [f \in Fields |-> [e \in DOMAIN EmptyStore[f] |-> s[f][e]]]
    BY DEF StoreTyped, Shaped
  <1>2. /\ Trimmed(s, t).card = [s.card EXCEPT ![t.card] = TrimmedAt(@, t.ts - Day)]
        /\ Trimmed(s, t).merchant
             = [s.merchant EXCEPT ![t.merchant] = TrimmedAt(@, t.ts - TenMinutes)]
        /\ Trimmed(s, t).device = [s.device EXCEPT ![t.device] = TrimmedAt(@, t.ts - Hour)]
        /\ Trimmed(s, t).pair = s.pair
        /\ Trimmed(s, t).marks = s.marks
    BY <1>1, FieldsAre DEF Trimmed, TrimmedAt
  <1>3. \A f \in Fields : Trimmed(s, t)[f] = [e \in DOMAIN EmptyStore[f] |-> Trimmed(s, t)[f][e]]
    BY <1>1, <1>2, FieldsAre
  <1>4. Trimmed(s, t) = [f \in Fields |-> Trimmed(s, t)[f]]
    BY <1>1 DEF Trimmed
  <1>5. Shaped(Trimmed(s, t))
    BY <1>3, <1>4 DEF Shaped
  <1>. QED  BY <1>2, <1>5

(* Which keys a call touches.                                              *)
LEMMA KeysTouched ==
    ASSUME NEW t
    PROVE  /\ \A e : <<"card", e>> \in Rolling(t) <=> e = t.card
           /\ \A e : <<"merchant", e>> \in Rolling(t) <=> e = t.merchant
           /\ \A e : <<"device", e>> \in Rolling(t) <=> e = t.device
           /\ \A e : <<"pair", e>> \in Rolling(t) <=> e = <<t.device, t.card>>
           /\ \A e : <<"marks", e>> \notin Rolling(t)
           /\ \A e : <<"marks", e>> \in MarkKeys(t) <=> e \in {t.card, t.merchant, t.device}
           /\ \A f, e : f # "marks" => <<f, e>> \notin MarkKeys(t)
           /\ \A e : <<"card", e>> \in Touched(t) <=> e = t.card
           /\ \A e : <<"merchant", e>> \in Touched(t) <=> e = t.merchant
           /\ \A e : <<"device", e>> \in Touched(t) <=> e = t.device
           /\ \A e : <<"pair", e>> \in Touched(t) <=> e = <<t.device, t.card>>
           /\ \A e : <<"marks", e>> \in Touched(t) <=> e \in {t.card, t.merchant, t.device}
  <1>1. /\ \A e : <<"card", e>> \in Rolling(t) <=> e = t.card
        /\ \A e : <<"merchant", e>> \in Rolling(t) <=> e = t.merchant
        /\ \A e : <<"device", e>> \in Rolling(t) <=> e = t.device
        /\ \A e : <<"pair", e>> \in Rolling(t) <=> e = <<t.device, t.card>>
        /\ \A e : <<"marks", e>> \notin Rolling(t)
    BY DEF Rolling
  <1>2. /\ \A e : <<"marks", e>> \in MarkKeys(t) <=> e \in {t.card, t.merchant, t.device}
        /\ \A f, e : f # "marks" => <<f, e>> \notin MarkKeys(t)
    BY DEF MarkKeys
  <1>3. /\ \A e : <<"card", e>> \in Touched(t) <=> e = t.card
        /\ \A e : <<"merchant", e>> \in Touched(t) <=> e = t.merchant
        /\ \A e : <<"device", e>> \in Touched(t) <=> e = t.device
        /\ \A e : <<"pair", e>> \in Touched(t) <=> e = <<t.device, t.card>>
    BY <1>1, <1>2 DEF Touched
  <1>4. \A e : <<"marks", e>> \in Touched(t) <=> e \in {t.card, t.merchant, t.device}
    BY <1>1, <1>2 DEF Touched
  <1>. QED  BY <1>1, <1>2, <1>3, <1>4

(* The features of a transaction depend on the entries it touches, and on  *)
(* their windows only as they are after the trim.                          *)
LEMMA FeaturesDependOn ==
    ASSUME NEW a, NEW b, NEW t,
           Trimmed(a, t).card[t.card] = Trimmed(b, t).card[t.card],
           Trimmed(a, t).merchant[t.merchant] = Trimmed(b, t).merchant[t.merchant],
           Trimmed(a, t).device[t.device] = Trimmed(b, t).device[t.device],
           a.pair[<<t.device, t.card>>] = b.pair[<<t.device, t.card>>],
           a.marks[t.card] = b.marks[t.card],
           a.marks[t.device] = b.marks[t.device],
           a.marks[t.merchant] = b.marks[t.merchant]
    PROVE  FeaturesFor(a, t) = FeaturesFor(b, t)
  BY ZenonT(60) DEF FeaturesFor, MarksUpTo

(* update works on the entries it touches: given those of a store, it does *)
(* to them what it does to that store, and leaves the others as they are.  *)
LEMMA UpdateIsLocal ==
    ASSUME NEW s, StoreTyped(s), NEW part, StoreTyped(part), NEW t \in Txns,
           \A f \in Fields : \A e \in DOMAIN EmptyStore[f] :
               <<f, e>> \in Touched(t) => part[f][e] = s[f][e]
    PROVE  Updated(s, t) = [f \in Fields |-> [e \in DOMAIN EmptyStore[f] |->
               IF <<f, e>> \in Touched(t) THEN Updated(part, t)[f][e] ELSE s[f][e]]]
  <1>. DEFINE whole == Updated(s, t)
              piece == Updated(part, t)
  <1>1. /\ t.card \in Cards /\ t.device \in Devices /\ t.merchant \in Merchants
        /\ <<t.device, t.card>> \in Devices \X Cards
    BY DEF Txns
  <1>2. /\ s = [f \in Fields |-> [e \in DOMAIN EmptyStore[f] |-> s[f][e]]]
        /\ part = [f \in Fields |-> [e \in DOMAIN EmptyStore[f] |-> part[f][e]]]
    BY DEF StoreTyped, Shaped
  <1>3. /\ DOMAIN s.card = Cards /\ DOMAIN part.card = Cards
        /\ DOMAIN s.merchant = Merchants /\ DOMAIN part.merchant = Merchants
        /\ DOMAIN s.device = Devices /\ DOMAIN part.device = Devices
        /\ DOMAIN s.pair = Devices \X Cards /\ DOMAIN part.pair = Devices \X Cards
    BY <1>2, FieldsAre
  <1>4. /\ part.card[t.card] = s.card[t.card]
        /\ part.merchant[t.merchant] = s.merchant[t.merchant]
        /\ part.device[t.device] = s.device[t.device]
        /\ part.pair[<<t.device, t.card>>] = s.pair[<<t.device, t.card>>]
        /\ \A e \in {t.card, t.merchant, t.device} : part.marks[e] = s.marks[e]
    <2>1. /\ <<"card", t.card>> \in Touched(t)
          /\ <<"merchant", t.merchant>> \in Touched(t)
          /\ <<"device", t.device>> \in Touched(t)
          /\ <<"pair", <<t.device, t.card>>>> \in Touched(t)
          /\ \A e \in {t.card, t.merchant, t.device} : <<"marks", e>> \in Touched(t)
      BY KeysTouched
    <2>2. /\ t.card \in DOMAIN EmptyStore["card"]
          /\ t.merchant \in DOMAIN EmptyStore["merchant"]
          /\ t.device \in DOMAIN EmptyStore["device"]
          /\ <<t.device, t.card>> \in DOMAIN EmptyStore["pair"]
          /\ \A e \in {t.card, t.merchant, t.device} : e \in DOMAIN EmptyStore["marks"]
      BY <1>1, FieldsAre
    <2>3. {"card", "merchant", "device", "pair", "marks"} = Fields
      BY FieldsAre
    <2>. QED  BY <2>1, <2>2, <2>3
  <1>5. /\ whole.card = [s.card EXCEPT ![t.card] = CardOf(@, t)]
        /\ whole.merchant = [s.merchant EXCEPT ![t.merchant] = MerchantOf(@, t)]
        /\ whole.device = [s.device EXCEPT ![t.device] = DeviceOf(@, t)]
        /\ whole.pair = [s.pair EXCEPT ![<<t.device, t.card>>] = FirstSeen(@, t.ts)]
        /\ whole.marks = s.marks
        /\ Shaped(whole)
    BY UpdatedFields
  <1>6. /\ piece.card = [part.card EXCEPT ![t.card] = CardOf(@, t)]
        /\ piece.merchant = [part.merchant EXCEPT ![t.merchant] = MerchantOf(@, t)]
        /\ piece.device = [part.device EXCEPT ![t.device] = DeviceOf(@, t)]
        /\ piece.pair = [part.pair EXCEPT ![<<t.device, t.card>>] = FirstSeen(@, t.ts)]
        /\ piece.marks = part.marks
    BY UpdatedFields
  <1>. HIDE DEF whole, piece
  <1>7. \A f \in Fields : \A e \in DOMAIN EmptyStore[f] :
            whole[f][e] = IF <<f, e>> \in Touched(t) THEN piece[f][e] ELSE s[f][e]
    <2>1. \A e \in Cards : whole["card"][e]
              = IF <<"card", e>> \in Touched(t) THEN piece["card"][e] ELSE s["card"][e]
      <3>. TAKE e \in Cards
      <3>1. <<"card", e>> \in Touched(t) <=> e = t.card
        BY KeysTouched
      <3>2. whole["card"][e] = IF e = t.card THEN piece["card"][e] ELSE s["card"][e]
        BY <1>1, <1>3, <1>4, <1>5, <1>6
      <3>. QED  BY <3>1, <3>2
    <2>2. \A e \in Merchants : whole["merchant"][e]
              = IF <<"merchant", e>> \in Touched(t) THEN piece["merchant"][e] ELSE s["merchant"][e]
      <3>. TAKE e \in Merchants
      <3>1. <<"merchant", e>> \in Touched(t) <=> e = t.merchant
        BY KeysTouched
      <3>2. whole["merchant"][e] = IF e = t.merchant THEN piece["merchant"][e] ELSE s["merchant"][e]
        BY <1>1, <1>3, <1>4, <1>5, <1>6
      <3>. QED  BY <3>1, <3>2
    <2>3. \A e \in Devices : whole["device"][e]
              = IF <<"device", e>> \in Touched(t) THEN piece["device"][e] ELSE s["device"][e]
      <3>. TAKE e \in Devices
      <3>1. <<"device", e>> \in Touched(t) <=> e = t.device
        BY KeysTouched
      <3>2. whole["device"][e] = IF e = t.device THEN piece["device"][e] ELSE s["device"][e]
        BY <1>1, <1>3, <1>4, <1>5, <1>6
      <3>. QED  BY <3>1, <3>2
    <2>4. \A e \in Devices \X Cards : whole["pair"][e]
              = IF <<"pair", e>> \in Touched(t) THEN piece["pair"][e] ELSE s["pair"][e]
      <3>. TAKE e \in Devices \X Cards
      <3>1. <<"pair", e>> \in Touched(t) <=> e = <<t.device, t.card>>
        BY KeysTouched
      <3>2. whole["pair"][e] = IF e = <<t.device, t.card>> THEN piece["pair"][e] ELSE s["pair"][e]
        BY <1>1, <1>3, <1>4, <1>5, <1>6, SMTT(30)
      <3>. QED  BY <3>1, <3>2
    <2>5. \A e \in Cards \cup Devices \cup Merchants : whole["marks"][e]
              = IF <<"marks", e>> \in Touched(t) THEN piece["marks"][e] ELSE s["marks"][e]
      <3>. TAKE e \in Cards \cup Devices \cup Merchants
      <3>1. <<"marks", e>> \in Touched(t) <=> e \in {t.card, t.merchant, t.device}
        BY KeysTouched
      <3>. QED  BY <3>1, <1>4, <1>5, <1>6
    <2>. QED  BY <2>1, <2>2, <2>3, <2>4, <2>5, FieldsAre
  <1>8. whole = [f \in Fields |-> [e \in DOMAIN EmptyStore[f] |-> whole[f][e]]]
    BY <1>5 DEF Shaped
  <1>9. whole = [f \in Fields |-> [e \in DOMAIN EmptyStore[f] |->
            IF <<f, e>> \in Touched(t) THEN piece[f][e] ELSE s[f][e]]]
    BY <1>7, <1>8
  <1>. QED  BY <1>9 DEF whole, piece

(* So does mark_confirmed_fraud.                                           *)
LEMMA MarkIsLocal ==
    ASSUME NEW s, StoreTyped(s), NEW part, StoreTyped(part), NEW t \in Txns, NEW m,
           m.card = t.card, m.device = t.device, m.merchant = t.merchant,
           \A f \in Fields : \A e \in DOMAIN EmptyStore[f] :
               <<f, e>> \in MarkKeys(t) => part[f][e] = s[f][e]
    PROVE  Marked(s, m) = [f \in Fields |-> [e \in DOMAIN EmptyStore[f] |->
               IF <<f, e>> \in MarkKeys(t) THEN Marked(part, m)[f][e] ELSE s[f][e]]]
  <1>. DEFINE whole == Marked(s, m)
              piece == Marked(part, m)
              all   == Cards \cup Devices \cup Merchants
  <1>1. t.card \in all /\ t.device \in all /\ t.merchant \in all
    BY DEF Txns
  <1>2. /\ DOMAIN s.marks = all /\ DOMAIN part.marks = all
    BY FieldsAre DEF StoreTyped, Shaped
  <1>3. \A e \in {t.card, t.merchant, t.device} : part.marks[e] = s.marks[e]
    <2>1. \A e \in {t.card, t.merchant, t.device} : <<"marks", e>> \in MarkKeys(t)
      BY KeysTouched
    <2>. QED  BY <2>1, <1>1, FieldsAre
  <1>4. /\ \A f \in Fields \ {"marks"} : whole[f] = s[f]
        /\ whole.marks = [e \in all |->
               IF e \in {m.card, m.device, m.merchant} THEN Append(s.marks[e], m.visible)
               ELSE s.marks[e]]
        /\ Shaped(whole)
    <2>1. \A f \in Fields \ {"marks"} : whole[f] = s[f]
      BY MarkLeaves
    <2>2. whole.marks = [e \in DOMAIN s.marks |->
              IF e \in {m.card, m.device, m.merchant} THEN Append(s.marks[e], m.visible)
              ELSE s.marks[e]]
      BY MarkedFields, ZenonT(60)
    <2>3. Shaped(whole)
      BY MarkedFields
    <2>. QED  BY <2>1, <2>2, <2>3, <1>2
  <1>5. piece.marks = [e \in all |->
               IF e \in {m.card, m.device, m.merchant} THEN Append(part.marks[e], m.visible)
               ELSE part.marks[e]]
    <2>1. piece.marks = [e \in DOMAIN part.marks |->
               IF e \in {m.card, m.device, m.merchant} THEN Append(part.marks[e], m.visible)
               ELSE part.marks[e]]
      BY MarkedFields, ZenonT(60)
    <2>. QED  BY <2>1, <1>2
  <1>. HIDE DEF whole, piece
  <1>6. \A f \in Fields : \A e \in DOMAIN EmptyStore[f] :
            whole[f][e] = IF <<f, e>> \in MarkKeys(t) THEN piece[f][e] ELSE s[f][e]
    <2>1. \A e \in all : whole["marks"][e]
              = IF <<"marks", e>> \in MarkKeys(t) THEN piece["marks"][e] ELSE s["marks"][e]
      <3>. TAKE e \in all
      <3>1. <<"marks", e>> \in MarkKeys(t) <=> e \in {t.card, t.merchant, t.device}
        BY KeysTouched
      <3>2. CASE e \in {t.card, t.merchant, t.device}
        <4>1. e \in {m.card, m.device, m.merchant}
          BY <3>2
        <4>2. whole["marks"][e] = Append(s.marks[e], m.visible)
          BY <4>1, <1>4
        <4>3. piece["marks"][e] = Append(part.marks[e], m.visible)
          BY <4>1, <1>5
        <4>. QED  BY <3>1, <3>2, <4>2, <4>3, <1>3
      <3>3. CASE e \notin {t.card, t.merchant, t.device}
        <4>1. e \notin {m.card, m.device, m.merchant}
          BY <3>3
        <4>2. whole["marks"][e] = s.marks[e]
          BY <4>1, <1>4
        <4>. QED  BY <3>1, <3>3, <4>2
      <3>. QED  BY <3>2, <3>3
    <2>2. \A f \in Fields \ {"marks"} : \A e \in DOMAIN EmptyStore[f] :
              whole[f][e] = s[f][e] /\ <<f, e>> \notin MarkKeys(t)
      BY <1>4, KeysTouched
    <2>. QED  BY <2>1, <2>2, FieldsAre
  <1>7. whole = [f \in Fields |-> [e \in DOMAIN EmptyStore[f] |-> whole[f][e]]]
    BY <1>4 DEF Shaped
  <1>8. whole = [f \in Fields |-> [e \in DOMAIN EmptyStore[f] |->
            IF <<f, e>> \in MarkKeys(t) THEN piece[f][e] ELSE s[f][e]]]
    BY <1>6, <1>7
  <1>. QED  BY <1>8 DEF whole, piece


-----------------------------------------------------------------------------
(* The in-process store and the one in Redis.                              *)

Timing == [card |-> Day, merchant |-> TenMinutes, device |-> Hour]

(* One entity in process and in Redis: the same but for old entries.       *)
Alike(own, kept, cutoff) ==
    /\ own = [kept EXCEPT !.window = own.window]
    /\ Suffix(own.window, kept.window, cutoff)

(* No call looks further back than a window before the latest one.         *)
Horizon == IF asked = Nobody THEN 0 ELSE asked.ts

Twins(own, kept, now) ==
    /\ \A f \in DOMAIN Timing : \A e \in DOMAIN EmptyStore[f] :
           Alike(own[f][e], kept[f][e], now - Timing[f])
    /\ own.pair = kept.pair
    /\ own.marks = kept.marks

(* The inductive invariant.                                                *)
TwinInv ==
    /\ KeysTyped(redis)
    /\ StoreTyped(store)
    /\ local = [r \in Replicas |-> NoEntries]
    /\ redisFeatures = features
    /\ asked \in Txns \cup {Nobody}
    /\ pending \in {Idle} \cup [step : {"update", "mark"}, txn : Txns]
    /\ Twins(store, WithDefaults(redis), Horizon)

(* The entries of the windows are timed.                                   *)
LEMMA WindowTypes ==
    ASSUME NEW f \in DOMAIN Timing
    PROVE  /\ f \in Fields
           /\ Timing[f] \in Nat
           /\ \E W : Timed(W) /\ \A v \in Values[f] : v.window \in Seq(W)
  <1>1. DOMAIN Timing = {"card", "merchant", "device"}
    BY DEF Timing
  <1>2. /\ Timed([ts : Times, amount : Amounts])
        /\ Timed([ts : Times, card : Cards])
    BY DEF Timed, Times
  <1>3. CASE f = "card"
    BY <1>2, <1>3, FieldsAre DEF Values, Timing
  <1>4. CASE f = "merchant"
    BY <1>2, <1>4, FieldsAre DEF Values, Timing
  <1>5. CASE f = "device"
    BY <1>2, <1>5, FieldsAre DEF Values, Timing
  <1>. QED  BY <1>1, <1>3, <1>4, <1>5

LEMMA TrimmedAtTyped ==
    ASSUME NEW f \in DOMAIN Timing, NEW v \in Values[f], NEW cutoff \in Int
    PROVE  TrimmedAt(v, cutoff) \in Values[f]
  <1>1. DOMAIN Timing = {"card", "merchant", "device"}
    BY DEF Timing
  <1>2. /\ Timed([ts : Times, amount : Amounts])
        /\ Timed([ts : Times, card : Cards])
    BY DEF Timed, Times
  <1>3. /\ \A w \in Seq([ts : Times, amount : Amounts]) :
               Trim(w, cutoff) \in Seq([ts : Times, amount : Amounts])
        /\ \A w \in Seq([ts : Times, card : Cards]) :
               Trim(w, cutoff) \in Seq([ts : Times, card : Cards])
    BY <1>2, TrimShape
  <1>4. CASE f = "card"
    BY <1>3, <1>4 DEF Values, TrimmedAt
  <1>5. CASE f = "merchant"
    BY <1>3, <1>5 DEF Values, TrimmedAt
  <1>6. CASE f = "device"
    BY <1>3, <1>6 DEF Values, TrimmedAt
  <1>. QED  BY <1>1, <1>4, <1>5, <1>6

(* A record value is the record of its fields.                             *)
LEMMA WindowField ==
    ASSUME NEW f \in DOMAIN Timing, NEW v \in Values[f], NEW w
    PROVE  /\ [v EXCEPT !.window = w].window = w
           /\ [v EXCEPT !.window = v.window] = v
           /\ \A x : [[v EXCEPT !.window = w] EXCEPT !.window = x] = [v EXCEPT !.window = x]
  <1>1. DOMAIN Timing = {"card", "merchant", "device"}
    BY DEF Timing
  <1>2. CASE f = "card"
    BY <1>2 DEF Values
  <1>3. CASE f = "merchant"
    BY <1>3 DEF Values
  <1>4. CASE f = "device"
    BY <1>4 DEF Values
  <1>. QED  BY <1>1, <1>2, <1>3, <1>4

LEMMA AlikeReflexive ==
    ASSUME NEW f \in DOMAIN Timing, NEW v \in Values[f], NEW cutoff \in Int
    PROVE  Alike(v, v, cutoff)
  <1>1. PICK W : Timed(W) /\ \A x \in Values[f] : x.window \in Seq(W)
    BY WindowTypes
  <1>2. Suffix(v.window, v.window, cutoff)
    BY <1>1, SuffixReflexive
  <1>. QED  BY <1>2, WindowField DEF Alike

LEMMA AlikeLater ==
    ASSUME NEW f \in DOMAIN Timing, NEW own \in Values[f], NEW kept \in Values[f],
           NEW cutoff \in Int, NEW later \in Int, cutoff <= later,
           Alike(own, kept, cutoff)
    PROVE  Alike(own, kept, later)
  <1>1. PICK W : Timed(W) /\ \A x \in Values[f] : x.window \in Seq(W)
    BY WindowTypes
  <1>2. Suffix(own.window, kept.window, later)
    BY <1>1, SuffixLater DEF Alike
  <1>. QED  BY <1>2 DEF Alike

LEMMA AlikeTrim ==
    ASSUME NEW f \in DOMAIN Timing, NEW own \in Values[f], NEW kept \in Values[f],
           NEW cutoff \in Int, NEW later \in Int, cutoff <= later,
           Alike(own, kept, cutoff)
    PROVE  /\ TrimmedAt(own, later) = TrimmedAt(kept, later)
           /\ Alike(TrimmedAt(own, later), kept, later)
  <1>1. PICK W : Timed(W) /\ \A x \in Values[f] : x.window \in Seq(W)
    BY WindowTypes
  <1>2. /\ Trim(own.window, later) = Trim(kept.window, later)
        /\ Suffix(Trim(own.window, later), kept.window, later)
    BY <1>1, SuffixTrim DEF Alike
  <1>3. own = [kept EXCEPT !.window = own.window]
    BY DEF Alike
  <1>4. TrimmedAt(own, later) = [kept EXCEPT !.window = Trim(own.window, later)]
    <2>1. \A w : own = [kept EXCEPT !.window = w] =>
              \A x : [own EXCEPT !.window = x] = [kept EXCEPT !.window = x]
      BY WindowField
    <2>2. \A x : [own EXCEPT !.window = x] = [kept EXCEPT !.window = x]
      BY <2>1, <1>3
    <2>3. TrimmedAt(own, later) = [own EXCEPT !.window = Trim(own.window, later)]
      BY DEF TrimmedAt
    <2>. QED  BY <2>2, <2>3
  <1>5. TrimmedAt(kept, later) = [kept EXCEPT !.window = Trim(kept.window, later)]
    BY DEF TrimmedAt
  <1>6. TrimmedAt(own, later).window = Trim(own.window, later)
    <2>1. \A w : [kept EXCEPT !.window = w].window = w
      BY WindowField
    <2>. QED  BY <2>1, <1>4
  <1>. QED  BY <1>2, <1>4, <1>5, <1>6 DEF Alike

(* update keeps two entities alike.                                        *)
LEMMA AlikeUpdate ==
    ASSUME NEW t \in Txns, NEW cutoff \in Int, NEW own, NEW kept, Alike(own, kept, cutoff)
    PROVE  /\ own \in Values["card"] /\ kept \in Values["card"]
                 => Alike(CardOf(own, t), CardOf(kept, t), cutoff)
           /\ own \in Values["merchant"] /\ kept \in Values["merchant"]
                 => Alike(MerchantOf(own, t), MerchantOf(kept, t), cutoff)
           /\ own \in Values["device"] /\ kept \in Values["device"]
                 => Alike(DeviceOf(own, t), DeviceOf(kept, t), cutoff)
  <1>. DEFINE x == [ts |-> t.ts, amount |-> t.amount]
              y == [ts |-> t.ts, card |-> t.card]
  <1>1. x \in [ts : Times, amount : Amounts] /\ y \in [ts : Times, card : Cards]
    BY DEF Txns
  <1>2. own = [kept EXCEPT !.window = own.window] /\ Suffix(own.window, kept.window, cutoff)
    BY DEF Alike
  <1>3. ASSUME own \in Values["card"], kept \in Values["card"]
        PROVE  Alike(CardOf(own, t), CardOf(kept, t), cutoff)
    <2>1. Suffix(Append(own.window, x), Append(kept.window, x), cutoff)
      BY <1>1, <1>2, <1>3, SuffixAppend DEF Values
    <2>2. /\ own.devices = kept.devices /\ own.merchants = kept.merchants
          /\ own.count = kept.count /\ own.total = kept.total
      BY <1>2, <1>3 DEF Values
    <2>3. CardOf(own, t).window = Append(own.window, x)
          /\ CardOf(kept, t).window = Append(kept.window, x)
      BY DEF CardOf
    <2>4. CardOf(own, t) = [CardOf(kept, t) EXCEPT !.window = CardOf(own, t).window]
      <3>1. \A v, w : [CardOf(v, t) EXCEPT !.window = w]
                = [window |-> w, devices |-> v.devices \cup {t.device},
                   merchants |-> v.merchants \cup {t.merchant},
                   count |-> v.count + 1, total |-> v.total + t.amount]
        <4>. TAKE v, w
        <4>. DEFINE p == Append(v.window, x)
                    q == v.devices \cup {t.device}
                    m == v.merchants \cup {t.merchant}
                    n == v.count + 1
                    k == v.total + t.amount
        <4>1. CardOf(v, t) = [window |-> p, devices |-> q, merchants |-> m,
                              count |-> n, total |-> k]
          BY DEF CardOf
        <4>. HIDE DEF p, q, m, n, k
        <4>2. [CardOf(v, t) EXCEPT !.window = w]
                  = [window |-> w, devices |-> q, merchants |-> m, count |-> n, total |-> k]
          BY <4>1
        <4>. QED  BY <4>2 DEF q, m, n, k
      <3>2. \A w : [CardOf(kept, t) EXCEPT !.window = w]
                    = [CardOf(own, t) EXCEPT !.window = w]
        <4>. TAKE w
        <4>1. [CardOf(kept, t) EXCEPT !.window = w]
                  = [window |-> w, devices |-> kept.devices \cup {t.device},
                     merchants |-> kept.merchants \cup {t.merchant},
                     count |-> kept.count + 1, total |-> kept.total + t.amount]
          BY <3>1, Zenon
        <4>2. [CardOf(own, t) EXCEPT !.window = w]
                  = [window |-> w, devices |-> own.devices \cup {t.device},
                     merchants |-> own.merchants \cup {t.merchant},
                     count |-> own.count + 1, total |-> own.total + t.amount]
          BY <3>1, Zenon
        <4>. QED  BY <4>1, <4>2, <2>2, Zenon
      <3>3. [CardOf(own, t) EXCEPT !.window = CardOf(own, t).window] = CardOf(own, t)
        BY <3>1 DEF CardOf
      <3>. QED  BY <3>2, <3>3
    <2>. QED  BY <2>1, <2>3, <2>4 DEF Alike
  <1>4. ASSUME own \in Values["merchant"], kept \in Values["merchant"]
        PROVE  Alike(MerchantOf(own, t), MerchantOf(kept, t), cutoff)
    <2>1. Suffix(Append(own.window, x), Append(kept.window, x), cutoff)
      BY <1>1, <1>2, <1>4, SuffixAppend DEF Values
    <2>2. own.first = kept.first /\ own.count = kept.count
      BY <1>2, <1>4 DEF Values
    <2>3. MerchantOf(own, t).window = Append(own.window, x)
          /\ MerchantOf(kept, t).window = Append(kept.window, x)
      BY DEF MerchantOf
    <2>4. MerchantOf(own, t) = [MerchantOf(kept, t) EXCEPT !.window = MerchantOf(own, t).window]
      <3>1. \A a, b, c, w :
                [[window |-> a, first |-> b, count |-> c] EXCEPT !.window = w]
                = [window |-> w, first |-> b, count |-> c]
        OBVIOUS
      <3>2. \A w : [MerchantOf(kept, t) EXCEPT !.window = w]
                    = [MerchantOf(own, t) EXCEPT !.window = w]
        <4>. TAKE w
        <4>1. [MerchantOf(kept, t) EXCEPT !.window = w]
                  = [window |-> w, first |-> FirstSeen(kept.first, t.ts), count |-> kept.count + 1]
          BY <3>1 DEF MerchantOf
        <4>2. [MerchantOf(own, t) EXCEPT !.window = w]
                  = [window |-> w, first |-> FirstSeen(own.first, t.ts), count |-> own.count + 1]
          BY <3>1 DEF MerchantOf
        <4>. QED  BY <4>1, <4>2, <2>2
      <3>3. [MerchantOf(own, t) EXCEPT !.window = MerchantOf(own, t).window] = MerchantOf(own, t)
        BY <3>1 DEF MerchantOf
      <3>. QED  BY <3>2, <3>3
    <2>. QED  BY <2>1, <2>3, <2>4 DEF Alike
  <1>5. ASSUME own \in Values["device"], kept \in Values["device"]
        PROVE  Alike(DeviceOf(own, t), DeviceOf(kept, t), cutoff)
    <2>1. Suffix(Append(own.window, y), Append(kept.window, y), cutoff)
      BY <1>1, <1>2, <1>5, SuffixAppend DEF Values
    <2>2. own.first = kept.first /\ own.cards = kept.cards
      BY <1>2, <1>5 DEF Values
    <2>3. DeviceOf(own, t).window = Append(own.window, y)
          /\ DeviceOf(kept, t).window = Append(kept.window, y)
      BY DEF DeviceOf
    <2>4. DeviceOf(own, t) = [DeviceOf(kept, t) EXCEPT !.window = DeviceOf(own, t).window]
      <3>1. \A a, b, c, w :
                [[window |-> a, first |-> b, cards |-> c] EXCEPT !.window = w]
                = [window |-> w, first |-> b, cards |-> c]
        OBVIOUS
      <3>2. \A w : [DeviceOf(kept, t) EXCEPT !.window = w]
                    = [DeviceOf(own, t) EXCEPT !.window = w]
        <4>. TAKE w
        <4>1. [DeviceOf(kept, t) EXCEPT !.window = w]
                  = [window |-> w, first |-> FirstSeen(kept.first, t.ts), cards |-> kept.cards \cup {t.card}]
          BY <3>1, ZenonT(60) DEF DeviceOf
        <4>2. [DeviceOf(own, t) EXCEPT !.window = w]
                  = [window |-> w, first |-> FirstSeen(own.first, t.ts), cards |-> own.cards \cup {t.card}]
          BY <3>1, ZenonT(60) DEF DeviceOf
        <4>. QED  BY <4>1, <4>2, <2>2
      <3>3. [DeviceOf(own, t) EXCEPT !.window = DeviceOf(own, t).window] = DeviceOf(own, t)
        BY <3>1 DEF DeviceOf
      <3>. QED  BY <3>2, <3>3
    <2>. QED  BY <2>1, <2>3, <2>4 DEF Alike
  <1>. QED  BY <1>3, <1>4, <1>5


-----------------------------------------------------------------------------
(* The invariant holds initially and is kept by every step.                *)

LEMMA TwinsSelf ==
    ASSUME NEW s, StoreTyped(s), NEW now \in Int
    PROVE  Twins(s, s, now)
  <1>1. ASSUME NEW f \in DOMAIN Timing, NEW e \in DOMAIN EmptyStore[f]
        PROVE  Alike(s[f][e], s[f][e], now - Timing[f])
    <2>1. s[f][e] \in Values[f] /\ Timing[f] \in Nat
      BY WindowTypes DEF StoreTyped
    <2>. QED  BY <2>1, AlikeReflexive
  <1>. QED  BY <1>1 DEF Twins

LEMMA TwinInitLemma == TwinInit => TwinInv
  <1>. SUFFICES ASSUME TwinInit PROVE TwinInv
    OBVIOUS
  <1>1. asked = Nobody /\ features = NoFeatures /\ store = EmptyStore /\ pending = Idle
    BY DEF TwinInit, Init, LogInit
  <1>2. redis = NoEntries /\ redisFeatures = NoFeatures
        /\ local = [r \in Replicas |-> NoEntries]
    BY DEF TwinInit
  <1>3. Horizon = 0
    BY <1>1 DEF Horizon
  <1>4. Twins(store, WithDefaults(redis), Horizon)
    BY <1>1, <1>2, <1>3, NoEntriesTyped, EmptyStoreTyped, TwinsSelf
  <1>. QED  BY <1>1, <1>2, <1>4, NoEntriesTyped, EmptyStoreTyped DEF TwinInv

(* What a call works on: the entries it touches, as Redis holds them.      *)
LEMMA FilledIs ==
    ASSUME TwinInv, NEW r \in Replicas, NEW touched
    PROVE  /\ Load(local[r], touched) = Loaded(redis, touched)
           /\ StoreTyped(WithDefaults(Load(local[r], touched)))
           /\ \A f \in Fields : \A e \in DOMAIN EmptyStore[f] :
                 <<f, e>> \in touched =>
                     WithDefaults(Load(local[r], touched))[f][e] = WithDefaults(redis)[f][e]
  <1>1. KeysTyped(redis) /\ local[r] = NoEntries
    BY DEF TwinInv
  <1>2. Load(local[r], touched) = Loaded(redis, touched)
    BY <1>1 DEF Load, Loaded
  <1>. QED  BY <1>1, <1>2, LoadedIs, DefaultsTyped

(* Time only goes forward.                                                 *)
LEMMA HorizonGrows ==
    ASSUME TwinInv, NEW t \in Txns, InOrder(t)
    PROVE  /\ Horizon \in Int /\ t.ts \in Int /\ Horizon <= t.ts
           /\ asked' = t => Horizon' = t.ts
  <1>1. t.ts \in 0 .. MaxTime
    BY DEF Txns, Times
  <1>2. CASE asked = Nobody
    BY <1>1, <1>2, NobodyAssumption DEF Horizon
  <1>3. CASE asked # Nobody
    <2>1. asked \in Txns /\ asked.ts <= t.ts
      BY <1>3 DEF TwinInv, InOrder
    <2>2. asked.ts \in 0 .. MaxTime
      BY <2>1 DEF Txns, Times
    <2>. QED  BY <1>1, <1>3, <2>1, <2>2, NobodyAssumption DEF Horizon
  <1>. QED  BY <1>2, <1>3

(* A store and its twin, after features_for has trimmed the one of them:   *)
(* still twins, and what the call reads is the same in both.               *)
LEMMA TwinsTrim ==
    ASSUME NEW own, StoreTyped(own), NEW kept, StoreTyped(kept), NEW t \in Txns,
           NEW now \in Int, now <= t.ts, Twins(own, kept, now)
    PROVE  /\ Twins(Trimmed(own, t), kept, t.ts)
           /\ StoreTyped(Trimmed(own, t))
           /\ TrimmedAt(own.card[t.card], t.ts - Day) = TrimmedAt(kept.card[t.card], t.ts - Day)
           /\ TrimmedAt(own.merchant[t.merchant], t.ts - TenMinutes)
                = TrimmedAt(kept.merchant[t.merchant], t.ts - TenMinutes)
           /\ TrimmedAt(own.device[t.device], t.ts - Hour)
                = TrimmedAt(kept.device[t.device], t.ts - Hour)
  <1>. DEFINE after == Trimmed(own, t)
  <1>1. /\ t.card \in Cards /\ t.device \in Devices /\ t.merchant \in Merchants
        /\ t.ts \in Int
    BY DEF Txns, Times
  <1>2. /\ after.card = [own.card EXCEPT ![t.card] = TrimmedAt(@, t.ts - Day)]
        /\ after.merchant = [own.merchant EXCEPT ![t.merchant] = TrimmedAt(@, t.ts - TenMinutes)]
        /\ after.device = [own.device EXCEPT ![t.device] = TrimmedAt(@, t.ts - Hour)]
        /\ after.pair = own.pair
        /\ after.marks = own.marks
        /\ Shaped(after)
    BY TrimmedFields
  <1>. HIDE DEF after
  <1>3. /\ DOMAIN own.card = Cards /\ DOMAIN own.merchant = Merchants
        /\ DOMAIN own.device = Devices
    BY FieldsAre DEF StoreTyped, Shaped
  <1>4. ASSUME NEW f \in DOMAIN Timing, NEW e \in DOMAIN EmptyStore[f]
        PROVE  /\ own[f][e] \in Values[f] /\ kept[f][e] \in Values[f]
               /\ TrimmedAt(own[f][e], t.ts - Timing[f]) \in Values[f]
               /\ TrimmedAt(own[f][e], t.ts - Timing[f]) = TrimmedAt(kept[f][e], t.ts - Timing[f])
               /\ Alike(TrimmedAt(own[f][e], t.ts - Timing[f]), kept[f][e], t.ts - Timing[f])
               /\ Alike(own[f][e], kept[f][e], t.ts - Timing[f])
    <2>1. f \in Fields /\ Timing[f] \in Nat
      BY WindowTypes
    <2>2. own[f][e] \in Values[f] /\ kept[f][e] \in Values[f]
      BY <2>1 DEF StoreTyped
    <2>3. Alike(own[f][e], kept[f][e], now - Timing[f])
      BY DEF Twins
    <2>4. /\ now - Timing[f] \in Int /\ t.ts - Timing[f] \in Int
          /\ now - Timing[f] <= t.ts - Timing[f]
      BY <1>1, <2>1
    <2>. DEFINE before == now - Timing[f]
                cutoff == t.ts - Timing[f]
    <2>. HIDE DEF before, cutoff
    <2>5. before \in Int /\ cutoff \in Int /\ before <= cutoff
      BY <2>4 DEF before, cutoff
    <2>6. Alike(own[f][e], kept[f][e], before)
      BY <2>3 DEF before
    <2>7. /\ TrimmedAt(own[f][e], cutoff) = TrimmedAt(kept[f][e], cutoff)
          /\ Alike(TrimmedAt(own[f][e], cutoff), kept[f][e], cutoff)
      BY <2>2, <2>5, <2>6, AlikeTrim
    <2>8. Alike(own[f][e], kept[f][e], cutoff)
      BY <2>2, <2>5, <2>6, AlikeLater
    <2>9. TrimmedAt(own[f][e], cutoff) \in Values[f]
      BY <2>2, <2>5, TrimmedAtTyped
    <2>. QED  BY <2>2, <2>7, <2>8, <2>9 DEF cutoff
  <1>5. /\ DOMAIN Timing = {"card", "merchant", "device"}
        /\ Timing["card"] = Day /\ Timing["merchant"] = TenMinutes /\ Timing["device"] = Hour
    BY DEF Timing
  <1>6. ASSUME NEW f \in DOMAIN Timing, NEW e \in DOMAIN EmptyStore[f]
        PROVE  after[f][e] \in {own[f][e], TrimmedAt(own[f][e], t.ts - Timing[f])}
    <2>1. CASE f = "card"
      BY <1>2, <1>3, <1>5, <2>1, FieldsAre
    <2>2. CASE f = "merchant"
      BY <1>2, <1>3, <1>5, <2>2, FieldsAre
    <2>3. CASE f = "device"
      BY <1>2, <1>3, <1>5, <2>3, FieldsAre
    <2>. QED  BY <1>5, <2>1, <2>2, <2>3
  <1>7. Twins(after, kept, t.ts)
    <2>1. \A f \in DOMAIN Timing : \A e \in DOMAIN EmptyStore[f] :
              Alike(after[f][e], kept[f][e], t.ts - Timing[f])
      BY <1>4, <1>6
    <2>2. after.pair = kept.pair /\ after.marks = kept.marks
      BY <1>2 DEF Twins
    <2>. QED  BY <2>1, <2>2 DEF Twins
  <1>8. StoreTyped(after)
    <2>1. \A f \in DOMAIN Timing : \A e \in DOMAIN EmptyStore[f] : after[f][e] \in Values[f]
      BY <1>4, <1>6
    <2>2. \A f \in {"pair", "marks"} : \A e \in DOMAIN EmptyStore[f] : after[f][e] \in Values[f]
      BY <1>2, FieldsAre DEF StoreTyped
    <2>3. Fields = DOMAIN Timing \cup {"pair", "marks"}
      BY <1>5, FieldsAre
    <2>4. \A f \in Fields : \A e \in DOMAIN EmptyStore[f] : after[f][e] \in Values[f]
      BY <2>1, <2>2, <2>3
    <2>. QED  BY <2>4, <1>2 DEF StoreTyped
  <1>9. /\ TrimmedAt(own.card[t.card], t.ts - Day) = TrimmedAt(kept.card[t.card], t.ts - Day)
        /\ TrimmedAt(own.merchant[t.merchant], t.ts - TenMinutes)
                = TrimmedAt(kept.merchant[t.merchant], t.ts - TenMinutes)
        /\ TrimmedAt(own.device[t.device], t.ts - Hour)
                = TrimmedAt(kept.device[t.device], t.ts - Hour)
    BY <1>1, <1>4, <1>5, FieldsAre
  <1>. QED  BY <1>7, <1>8, <1>9 DEF after


(* update does the same to both.                                           *)
LEMMA TwinsUpdate ==
    ASSUME NEW own, StoreTyped(own), NEW kept, StoreTyped(kept), NEW t \in Txns,
           NEW now \in Int, Twins(own, kept, now)
    PROVE  Twins(Updated(own, t), Updated(kept, t), now)
  <1>. DEFINE a == Updated(own, t)
              b == Updated(kept, t)
  <1>1. /\ t.card \in Cards /\ t.device \in Devices /\ t.merchant \in Merchants
    BY DEF Txns
  <1>2. /\ a.card = [own.card EXCEPT ![t.card] = CardOf(@, t)]
        /\ a.merchant = [own.merchant EXCEPT ![t.merchant] = MerchantOf(@, t)]
        /\ a.device = [own.device EXCEPT ![t.device] = DeviceOf(@, t)]
        /\ a.pair = [own.pair EXCEPT ![<<t.device, t.card>>] = FirstSeen(@, t.ts)]
        /\ a.marks = own.marks
    BY UpdatedFields
  <1>3. /\ b.card = [kept.card EXCEPT ![t.card] = CardOf(@, t)]
        /\ b.merchant = [kept.merchant EXCEPT ![t.merchant] = MerchantOf(@, t)]
        /\ b.device = [kept.device EXCEPT ![t.device] = DeviceOf(@, t)]
        /\ b.pair = [kept.pair EXCEPT ![<<t.device, t.card>>] = FirstSeen(@, t.ts)]
        /\ b.marks = kept.marks
    BY UpdatedFields
  <1>. HIDE DEF a, b
  <1>4. /\ DOMAIN own.card = Cards /\ DOMAIN own.merchant = Merchants
        /\ DOMAIN own.device = Devices
        /\ DOMAIN kept.card = Cards /\ DOMAIN kept.merchant = Merchants
        /\ DOMAIN kept.device = Devices
    BY FieldsAre DEF StoreTyped, Shaped
  <1>5. /\ DOMAIN Timing = {"card", "merchant", "device"}
    BY DEF Timing
  <1>6. ASSUME NEW f \in DOMAIN Timing, NEW e \in DOMAIN EmptyStore[f]
        PROVE  Alike(a[f][e], b[f][e], now - Timing[f])
    <2>. DEFINE cutoff == now - Timing[f]
    <2>1. f \in Fields /\ Timing[f] \in Nat
      BY WindowTypes
    <2>2. own[f][e] \in Values[f] /\ kept[f][e] \in Values[f]
      BY <2>1 DEF StoreTyped
    <2>3. Alike(own[f][e], kept[f][e], cutoff) /\ cutoff \in Int
      BY <2>1 DEF Twins
    <2>. HIDE DEF cutoff
    <2>4. CASE f = "card"
      <3>1. Alike(CardOf(own[f][e], t), CardOf(kept[f][e], t), cutoff)
        BY <2>2, <2>3, <2>4, AlikeUpdate
      <3>2. a[f][e] = (IF e = t.card THEN CardOf(own[f][e], t) ELSE own[f][e])
            /\ b[f][e] = (IF e = t.card THEN CardOf(kept[f][e], t) ELSE kept[f][e])
        BY <1>2, <1>3, <1>4, <2>4, FieldsAre
      <3>. QED  BY <3>1, <3>2, <2>3 DEF cutoff
    <2>5. CASE f = "merchant"
      <3>1. Alike(MerchantOf(own[f][e], t), MerchantOf(kept[f][e], t), cutoff)
        BY <2>2, <2>3, <2>5, AlikeUpdate
      <3>2. a[f][e] = (IF e = t.merchant THEN MerchantOf(own[f][e], t) ELSE own[f][e])
            /\ b[f][e] = (IF e = t.merchant THEN MerchantOf(kept[f][e], t) ELSE kept[f][e])
        BY <1>2, <1>3, <1>4, <2>5, FieldsAre
      <3>. QED  BY <3>1, <3>2, <2>3 DEF cutoff
    <2>6. CASE f = "device"
      <3>1. Alike(DeviceOf(own[f][e], t), DeviceOf(kept[f][e], t), cutoff)
        BY <2>2, <2>3, <2>6, AlikeUpdate
      <3>2. a[f][e] = (IF e = t.device THEN DeviceOf(own[f][e], t) ELSE own[f][e])
            /\ b[f][e] = (IF e = t.device THEN DeviceOf(kept[f][e], t) ELSE kept[f][e])
        BY <1>2, <1>3, <1>4, <2>6, FieldsAre
      <3>. QED  BY <3>1, <3>2, <2>3 DEF cutoff
    <2>. QED  BY <1>5, <2>4, <2>5, <2>6
  <1>7. a.pair = b.pair /\ a.marks = b.marks
    BY <1>2, <1>3 DEF Twins
  <1>8. Twins(a, b, now)
    BY <1>6, <1>7 DEF Twins
  <1>. QED  BY <1>8 DEF a, b

(* So does a mark.                                                         *)
LEMMA TwinsMark ==
    ASSUME NEW own, StoreTyped(own), NEW kept, StoreTyped(kept), NEW m,
           NEW now \in Int, Twins(own, kept, now)
    PROVE  Twins(Marked(own, m), Marked(kept, m), now)
  <1>1. own.marks = kept.marks /\ own.pair = kept.pair
    BY DEF Twins
  <1>2. Marked(own, m).marks = Marked(kept, m).marks
    <2>1. Marked(own, m).marks = [e \in DOMAIN own.marks |->
              IF e \in {m.card, m.device, m.merchant} THEN Append(own.marks[e], m.visible)
              ELSE own.marks[e]]
      BY MarkedFields, Zenon
    <2>2. Marked(kept, m).marks = [e \in DOMAIN kept.marks |->
              IF e \in {m.card, m.device, m.merchant} THEN Append(kept.marks[e], m.visible)
              ELSE kept.marks[e]]
      BY MarkedFields, Zenon
    <2>. QED  BY <2>1, <2>2, <1>1
  <1>3. /\ DOMAIN Timing \subseteq Fields \ {"marks"}
        /\ "pair" \in Fields \ {"marks"}
    BY FieldsAre DEF Timing
  <1>4. \A f \in Fields \ {"marks"} : Marked(own, m)[f] = own[f] /\ Marked(kept, m)[f] = kept[f]
    BY MarkLeaves
  <1>5. Marked(own, m).pair = Marked(kept, m).pair
    BY <1>1, <1>3, <1>4
  <1>6. \A f \in DOMAIN Timing : \A e \in DOMAIN EmptyStore[f] :
            Alike(Marked(own, m)[f][e], Marked(kept, m)[f][e], now - Timing[f])
    BY <1>3, <1>4 DEF Twins
  <1>. QED  BY <1>2, <1>5, <1>6 DEF Twins


(* features_for: the replica computes from Redis what the in-process store *)
(* computes, keeps nothing, and leaves Redis as it was.                    *)
LEMMA ReadStep ==
    ASSUME TwinInv, NEW r \in Replicas, NEW t \in Txns, TwinRead(r, t)
    PROVE  TwinInv'
  <1>. DEFINE kept   == WithDefaults(redis)
              filled == WithDefaults(Load(local[r], Touched(t)))
  <1>1. /\ InOrder(t) /\ pending = Idle
        /\ asked' = t /\ features' = FeaturesFor(store, t)
        /\ store' = Trimmed(store, t)
        /\ pending' = [step |-> "update", txn |-> t]
    BY DEF TwinRead, ReplayRead, Read
  <1>2. /\ redisFeatures' = FeaturesFor(filled, t)
        /\ local' = [local EXCEPT ![r] =
               Evict(After(Load(local[r], Touched(t)), Trimmed(filled, t), Touched(t)), Touched(t))]
        /\ redis' = redis
    BY DEF TwinRead, FeaturesForOn
  <1>3. /\ KeysTyped(redis) /\ StoreTyped(store) /\ StoreTyped(kept)
        /\ local = [x \in Replicas |-> NoEntries]
        /\ Twins(store, kept, Horizon)
    BY DefaultsTyped DEF TwinInv
  <1>4. /\ StoreTyped(filled)
        /\ Load(local[r], Touched(t)) = Loaded(redis, Touched(t))
        /\ \A f \in Fields : \A e \in DOMAIN EmptyStore[f] :
               <<f, e>> \in Touched(t) => filled[f][e] = kept[f][e]
    BY FilledIs
  <1>5. /\ Horizon \in Int /\ Horizon <= t.ts /\ Horizon' = t.ts
    BY <1>1, HorizonGrows
  <1>6. local' = local
    <2>1. Evict(After(Loaded(redis, Touched(t)), Trimmed(filled, t), Touched(t)), Touched(t)) = NoEntries
      BY <1>3, Evicted
    <2>. QED  BY <2>1, <1>2, <1>3, <1>4
  <1>. HIDE DEF kept, filled
  <1>7. /\ Twins(Trimmed(store, t), kept, t.ts)
        /\ StoreTyped(Trimmed(store, t))
        /\ TrimmedAt(store.card[t.card], t.ts - Day) = TrimmedAt(kept.card[t.card], t.ts - Day)
        /\ TrimmedAt(store.merchant[t.merchant], t.ts - TenMinutes)
                = TrimmedAt(kept.merchant[t.merchant], t.ts - TenMinutes)
        /\ TrimmedAt(store.device[t.device], t.ts - Hour)
                = TrimmedAt(kept.device[t.device], t.ts - Hour)
    BY <1>3, <1>5, TwinsTrim
  <1>8. /\ t.card \in Cards /\ t.device \in Devices /\ t.merchant \in Merchants
        /\ <<t.device, t.card>> \in Devices \X Cards
    BY DEF Txns
  <1>9. /\ filled.card[t.card] = kept.card[t.card]
        /\ filled.merchant[t.merchant] = kept.merchant[t.merchant]
        /\ filled.device[t.device] = kept.device[t.device]
        /\ filled.pair[<<t.device, t.card>>] = kept.pair[<<t.device, t.card>>]
        /\ \A e \in {t.card, t.merchant, t.device} : filled.marks[e] = kept.marks[e]
    <2>1. /\ <<"card", t.card>> \in Touched(t)
          /\ <<"merchant", t.merchant>> \in Touched(t)
          /\ <<"device", t.device>> \in Touched(t)
          /\ <<"pair", <<t.device, t.card>>>> \in Touched(t)
          /\ \A e \in {t.card, t.merchant, t.device} : <<"marks", e>> \in Touched(t)
      BY KeysTouched
    <2>2. /\ t.card \in DOMAIN EmptyStore["card"]
          /\ t.merchant \in DOMAIN EmptyStore["merchant"]
          /\ t.device \in DOMAIN EmptyStore["device"]
          /\ <<t.device, t.card>> \in DOMAIN EmptyStore["pair"]
          /\ \A e \in {t.card, t.merchant, t.device} : e \in DOMAIN EmptyStore["marks"]
      BY <1>8, FieldsAre
    <2>3. {"card", "merchant", "device", "pair", "marks"} = Fields
      BY FieldsAre
    <2>. QED  BY <2>1, <2>2, <2>3, <1>4
  <1>10. \A s : StoreTyped(s) =>
             /\ Trimmed(s, t).card[t.card] = TrimmedAt(s.card[t.card], t.ts - Day)
             /\ Trimmed(s, t).merchant[t.merchant]
                  = TrimmedAt(s.merchant[t.merchant], t.ts - TenMinutes)
             /\ Trimmed(s, t).device[t.device] = TrimmedAt(s.device[t.device], t.ts - Hour)
    <2>. SUFFICES ASSUME NEW s, StoreTyped(s)
                  PROVE  /\ Trimmed(s, t).card[t.card] = TrimmedAt(s.card[t.card], t.ts - Day)
                         /\ Trimmed(s, t).merchant[t.merchant]
                              = TrimmedAt(s.merchant[t.merchant], t.ts - TenMinutes)
                         /\ Trimmed(s, t).device[t.device]
                              = TrimmedAt(s.device[t.device], t.ts - Hour)
      OBVIOUS
    <2>1. DOMAIN s.card = Cards /\ DOMAIN s.merchant = Merchants /\ DOMAIN s.device = Devices
      BY FieldsAre DEF StoreTyped, Shaped
    <2>2. /\ Trimmed(s, t).card = [s.card EXCEPT ![t.card] = TrimmedAt(@, t.ts - Day)]
          /\ Trimmed(s, t).merchant
               = [s.merchant EXCEPT ![t.merchant] = TrimmedAt(@, t.ts - TenMinutes)]
          /\ Trimmed(s, t).device = [s.device EXCEPT ![t.device] = TrimmedAt(@, t.ts - Hour)]
      BY TrimmedFields
    <2>. QED  BY <2>1, <2>2, <1>8
  <1>11. store.pair = kept.pair /\ store.marks = kept.marks
    BY <1>3 DEF Twins
  <1>12. FeaturesFor(filled, t) = FeaturesFor(store, t)
    <2>1. /\ Trimmed(filled, t).card[t.card] = Trimmed(store, t).card[t.card]
          /\ Trimmed(filled, t).merchant[t.merchant] = Trimmed(store, t).merchant[t.merchant]
          /\ Trimmed(filled, t).device[t.device] = Trimmed(store, t).device[t.device]
      BY <1>3, <1>4, <1>7, <1>9, <1>10
    <2>2. /\ filled.pair[<<t.device, t.card>>] = store.pair[<<t.device, t.card>>]
          /\ filled.marks[t.card] = store.marks[t.card]
          /\ filled.marks[t.device] = store.marks[t.device]
          /\ filled.marks[t.merchant] = store.marks[t.merchant]
      BY <1>9, <1>11
    <2>. QED  BY <2>1, <2>2, FeaturesDependOn
  <1>13. redisFeatures' = features'
    BY <1>1, <1>2, <1>12 DEF filled
  <1>14. KeysTyped(redis)' /\ WithDefaults(redis)' = kept
    BY <1>2, <1>3 DEF kept
  <1>15. Twins(store, WithDefaults(redis), Horizon)'
    BY <1>1, <1>5, <1>7, <1>14
  <1>16. pending' \in [step : {"update", "mark"}, txn : Txns]
    BY <1>1
  <1>. QED  BY <1>1, <1>3, <1>6, <1>7, <1>13, <1>14, <1>15, <1>16 DEF TwinInv

(* update: what reaches Redis is what the in-process store becomes.        *)
LEMMA UpdateStep ==
    ASSUME TwinInv, NEW r \in Replicas, NEW fraud \in BOOLEAN, TwinUpdate(r, fraud)
    PROVE  TwinInv'
  <1>. DEFINE t      == pending.txn
              kept   == WithDefaults(redis)
              filled == WithDefaults(Load(local[r], Touched(t)))
  <1>1. /\ pending.step = "update"
        /\ store' = Updated(store, t)
        /\ pending' = IF fraud THEN [step |-> "mark", txn |-> t] ELSE Idle
        /\ asked' = asked /\ features' = features /\ redisFeatures' = redisFeatures
    BY DEF TwinUpdate, ReplayUpdate
  <1>2. SaveAndEvict(r, After(Load(local[r], Touched(t)), Updated(filled, t), Rolling(t)),
                     Touched(t))
    BY DEF TwinUpdate
  <1>3. /\ KeysTyped(redis) /\ StoreTyped(store) /\ StoreTyped(kept)
        /\ local = [x \in Replicas |-> NoEntries]
        /\ Twins(store, kept, Horizon)
        /\ asked \in Txns \cup {Nobody} /\ redisFeatures = features
    BY DefaultsTyped DEF TwinInv
  <1>4. t \in Txns
    <2>1. pending \in {Idle} \cup [step : {"update", "mark"}, txn : Txns]
      BY DEF TwinInv
    <2>2. pending # Idle
      BY <1>1 DEF Idle
    <2>. QED  BY <2>1, <2>2
  <1>5. /\ StoreTyped(filled)
        /\ \A f \in Fields : \A e \in DOMAIN EmptyStore[f] :
               <<f, e>> \in Touched(t) => filled[f][e] = kept[f][e]
    BY FilledIs
  <1>. HIDE DEF t
  <1>6. StoreTyped(Updated(filled, t)) /\ StoreTyped(Updated(store, t))
    BY <1>3, <1>4, <1>5, UpdatedTyped
  <1>7. \A f \in Fields : \A e \in DOMAIN EmptyStore[f] :
            <<f, e>> \in Touched(t) /\ <<f, e>> \notin Rolling(t) /\ redis[f][e] = Absent
                => Updated(filled, t)[f][e] = EmptyStore[f][e]
    <2>. SUFFICES ASSUME NEW f \in Fields, NEW e \in DOMAIN EmptyStore[f],
                         <<f, e>> \in Touched(t), <<f, e>> \notin Rolling(t),
                         redis[f][e] = Absent
                  PROVE  Updated(filled, t)[f][e] = EmptyStore[f][e]
      OBVIOUS
    <2>1. f = "marks"
      <3>1. <<f, e>> \in MarkKeys(t)
        BY DEF Touched
      <3>. QED  BY <3>1, KeysTouched
    <2>2. Updated(filled, t)[f][e] = filled[f][e]
      BY <2>1, <1>4, <1>5, UpdatedFields
    <2>3. filled[f][e] = kept[f][e]
      BY <1>5
    <2>4. kept[f][e] = EmptyStore[f][e]
      BY <1>3 DEF WithDefaults, KeysTyped, Shaped
    <2>. QED  BY <2>2, <2>3, <2>4
  <1>8. Rolling(t) \in SUBSET Touched(t)
    BY DEF Touched
  <1>9. /\ KeysTyped(redis')
        /\ local' = local
        /\ WithDefaults(redis') = [f \in Fields |-> [e \in DOMAIN EmptyStore[f] |->
              IF <<f, e>> \in Touched(t) THEN Updated(filled, t)[f][e] ELSE kept[f][e]]]
    <2>. DEFINE result  == Updated(filled, t)
                touched == Touched(t)
                created == Rolling(t)
                left    == After(Loaded(redis, touched), result, created)
    <2>1. StoreTyped(result) /\ KeysTyped(redis)
      BY <1>3, <1>6
    <2>2. \A f \in Fields : \A e \in DOMAIN EmptyStore[f] :
              <<f, e>> \in touched /\ <<f, e>> \notin created /\ redis[f][e] = Absent
                  => result[f][e] = EmptyStore[f][e]
      BY <1>7
    <2>3. created \in SUBSET touched
      BY <1>8
    <2>4. /\ redis' = Over(redis, left, touched)
          /\ local' = [local EXCEPT ![r] = Evict(left, touched)]
      BY <1>2, FilledIs DEF SaveAndEvict
    <2>. HIDE DEF result, touched, created, kept
    <2>5. Evict(left, touched) = NoEntries
      BY <2>1, <2>3, Evicted
    <2>6. local' = local
      BY <2>4, <2>5, <1>3
    <2>7. /\ KeysTyped(redis')
          /\ \A f \in Fields : \A e \in DOMAIN EmptyStore[f] : WithDefaults(redis')[f][e]
                = IF <<f, e>> \in touched THEN result[f][e] ELSE WithDefaults(redis)[f][e]
      <3>1. redis' = Over(redis, After(Loaded(redis, touched), result, created), touched)
        BY <2>4
      <3>. QED  BY <2>1, <2>2, <2>3, <3>1, Saved
    <2>8. Shaped(WithDefaults(redis'))
      BY <2>7, DefaultsTyped DEF StoreTyped
    <2>. QED  BY <2>6, <2>7, <2>8 DEF result, touched, kept, Shaped
  <1>10. WithDefaults(redis') = Updated(kept, t)
    BY <1>3, <1>4, <1>5, <1>9, UpdateIsLocal
  <1>11. Horizon \in Int /\ Horizon' = Horizon
    BY <1>1, <1>3 DEF Horizon, Txns, Times
  <1>12. Twins(Updated(store, t), Updated(kept, t), Horizon)
    BY <1>3, <1>4, <1>11, TwinsUpdate
  <1>13. Twins(store, WithDefaults(redis), Horizon)'
    BY <1>1, <1>10, <1>11, <1>12
  <1>14. pending' \in {Idle} \cup [step : {"update", "mark"}, txn : Txns]
    BY <1>1, <1>4
  <1>15. StoreTyped(store') /\ KeysTyped(redis)'
    BY <1>1, <1>6, <1>9
  <1>. QED  BY <1>1, <1>3, <1>9, <1>13, <1>14, <1>15 DEF TwinInv

(* mark_confirmed_fraud, in the same way.                                  *)
LEMMA MarkStep ==
    ASSUME TwinInv, NEW r \in Replicas, TwinMark(r)
    PROVE  TwinInv'
  <1>. DEFINE t      == pending.txn
              m      == [visible |-> t.ts + LabelLatency, card |-> t.card,
                         device |-> t.device, merchant |-> t.merchant]
              kept   == WithDefaults(redis)
              filled == WithDefaults(Load(local[r], MarkKeys(t)))
  <1>1. /\ pending.step = "mark"
        /\ store' = Marked(store, m)
        /\ pending' = Idle
        /\ asked' = asked /\ features' = features /\ redisFeatures' = redisFeatures
    BY DEF TwinMark, ReplayMark
  <1>2. SaveAndEvict(r, After(Load(local[r], MarkKeys(t)), Marked(filled, m), MarkKeys(t)),
                     MarkKeys(t))
    BY DEF TwinMark
  <1>3. /\ KeysTyped(redis) /\ StoreTyped(store) /\ StoreTyped(kept)
        /\ local = [x \in Replicas |-> NoEntries]
        /\ Twins(store, kept, Horizon)
        /\ asked \in Txns \cup {Nobody} /\ redisFeatures = features
    BY DefaultsTyped DEF TwinInv
  <1>4. t \in Txns
    <2>1. pending \in {Idle} \cup [step : {"update", "mark"}, txn : Txns]
      BY DEF TwinInv
    <2>2. pending # Idle
      BY <1>1 DEF Idle
    <2>. QED  BY <2>1, <2>2
  <1>5. /\ StoreTyped(filled)
        /\ \A f \in Fields : \A e \in DOMAIN EmptyStore[f] :
               <<f, e>> \in MarkKeys(t) => filled[f][e] = kept[f][e]
    BY FilledIs
  <1>6. m.visible \in Nat /\ m.card = t.card /\ m.device = t.device /\ m.merchant = t.merchant
    BY <1>4 DEF Txns, Times
  <1>. HIDE DEF t, m
  <1>7. StoreTyped(Marked(filled, m)) /\ StoreTyped(Marked(store, m))
    BY <1>3, <1>5, <1>6, MarkedTyped
  <1>8. /\ KeysTyped(redis')
        /\ local' = local
        /\ WithDefaults(redis') = [f \in Fields |-> [e \in DOMAIN EmptyStore[f] |->
              IF <<f, e>> \in MarkKeys(t) THEN Marked(filled, m)[f][e] ELSE kept[f][e]]]
    <2>. DEFINE result  == Marked(filled, m)
                touched == MarkKeys(t)
                created == MarkKeys(t)
                left    == After(Loaded(redis, touched), result, created)
    <2>1. StoreTyped(result) /\ KeysTyped(redis)
      BY <1>3, <1>7
    <2>2. \A f \in Fields : \A e \in DOMAIN EmptyStore[f] :
              <<f, e>> \in touched /\ <<f, e>> \notin created /\ redis[f][e] = Absent
                  => result[f][e] = EmptyStore[f][e]
      OBVIOUS
    <2>3. created \in SUBSET touched
      OBVIOUS
    <2>4. /\ redis' = Over(redis, left, touched)
          /\ local' = [local EXCEPT ![r] = Evict(left, touched)]
      BY <1>2, FilledIs DEF SaveAndEvict
    <2>. HIDE DEF result, touched, created, kept
    <2>5. Evict(left, touched) = NoEntries
      BY <2>1, <2>3, Evicted
    <2>6. local' = local
      BY <2>4, <2>5, <1>3
    <2>7. /\ KeysTyped(redis')
          /\ \A f \in Fields : \A e \in DOMAIN EmptyStore[f] : WithDefaults(redis')[f][e]
                = IF <<f, e>> \in touched THEN result[f][e] ELSE WithDefaults(redis)[f][e]
      BY <2>1, <2>2, <2>3, <2>4, Saved
    <2>8. Shaped(WithDefaults(redis'))
      BY <2>7, DefaultsTyped DEF StoreTyped
    <2>. QED  BY <2>6, <2>7, <2>8 DEF result, touched, kept, Shaped
  <1>9. WithDefaults(redis') = Marked(kept, m)
    BY <1>3, <1>4, <1>5, <1>6, <1>8, MarkIsLocal, SMTT(30)
  <1>10. Horizon \in Int /\ Horizon' = Horizon
    BY <1>1, <1>3 DEF Horizon, Txns, Times
  <1>11. Twins(Marked(store, m), Marked(kept, m), Horizon)
    BY <1>3, <1>10, TwinsMark
  <1>12. Twins(store, WithDefaults(redis), Horizon)'
    BY <1>1, <1>9, <1>10, <1>11
  <1>13. StoreTyped(store') /\ KeysTyped(redis)'
    BY <1>1, <1>7, <1>8
  <1>. QED  BY <1>1, <1>3, <1>8, <1>12, <1>13 DEF TwinInv

(* A crash loses nothing: there was nothing to lose.                       *)
LEMMA CrashStep ==
    ASSUME TwinInv, NEW r \in Replicas, Crash(r)
    PROVE  TwinInv'
  <1>1. /\ pending' = Idle /\ store' = store /\ redis' = redis
        /\ asked' = asked /\ features' = features /\ redisFeatures' = redisFeatures
        /\ local' = [local EXCEPT ![r] = NoEntries]
    BY DEF Crash, logVars
  <1>2. local' = local
    BY <1>1 DEF TwinInv
  <1>3. Twins(store, WithDefaults(redis), Horizon)'
    BY <1>1 DEF TwinInv, Horizon
  <1>. QED  BY <1>1, <1>2, <1>3 DEF TwinInv

LEMMA TwinStep ==
    ASSUME TwinInv, [TwinNext]_allVars
    PROVE  TwinInv'
  <1>1. CASE UNCHANGED allVars \/ TwinFinished
    <2>1. /\ pending' = pending /\ store' = store /\ redis' = redis /\ local' = local
          /\ asked' = asked /\ features' = features /\ redisFeatures' = redisFeatures
      BY <1>1 DEF TwinFinished, Finished, allVars, twinVars, vars, storeVars, logVars
    <2>2. Twins(store, WithDefaults(redis), Horizon)'
      BY <2>1 DEF TwinInv, Horizon
    <2>. QED  BY <2>1, <2>2 DEF TwinInv
  <1>. QED  BY <1>1, ReadStep, UpdateStep, MarkStep, CrashStep DEF TwinNext

(* In every reachable state the two stores hold the same, but for windows  *)
(* that Redis never trims, and no replica holds anything: RedisFeatureStore*)
(* loads and saves what InMemoryFeatureStore keeps, call by call.          *)
THEOREM TwinInvariant == TwinSpec => []TwinInv
  <1>1. TwinInv /\ [TwinNext]_allVars => TwinInv'
    BY TwinStep
  <1>. QED  BY TwinInitLemma, <1>1, PTL DEF TwinSpec

-----------------------------------------------------------------------------
(* No replica keeps a copy of an entity between two calls: local[r] of     *)
(* RedisFeatureStore is empty again after features_for, update and         *)
(* mark_confirmed_fraud (_save_and_evict and the finally of features_for). *)
THEOREM NothingKeptLocally == TwinSpec => []NoStaleCopy
  <1>1. TwinInv => NoStaleCopy
    BY DEF TwinInv, NoStaleCopy
  <1>. QED  BY <1>1, TwinInvariant, PTL

(* Every call of features_for returns from Redis what the in-process store *)
(* returns for the same rows, whichever replicas served them.              *)
THEOREM RedisFeaturesIdentical == TwinSpec => []FeaturesIdentical
  <1>1. TwinInv => FeaturesIdentical
    BY DEF TwinInv, FeaturesIdentical
  <1>. QED  BY <1>1, TwinInvariant, PTL

(* The counters, sets, first-seen times and marks in Redis are those of    *)
(* the in-process store, across replicas and crashes.                      *)
THEOREM RedisKeepsHistory == TwinSpec => []SameHistory
  <1>1. ASSUME TwinInv PROVE SameHistory
    <2>. DEFINE kept == WithDefaults(redis)
    <2>1. StoreTyped(store) /\ StoreTyped(kept) /\ Twins(store, kept, Horizon)
      BY <1>1, DefaultsTyped DEF TwinInv
    <2>2. DOMAIN Timing = {"card", "merchant", "device"}
      BY DEF Timing
    <2>3. ASSUME NEW f \in DOMAIN Timing, NEW e \in DOMAIN EmptyStore[f]
          PROVE  [kept[f][e] EXCEPT !.window = <<>>] = [store[f][e] EXCEPT !.window = <<>>]
      <3>1. kept[f][e] \in Values[f]
        BY <2>1, WindowTypes DEF StoreTyped
      <3>2. store[f][e] = [kept[f][e] EXCEPT !.window = store[f][e].window]
        BY <2>1 DEF Twins, Alike
      <3>3. \A w, x : [[kept[f][e] EXCEPT !.window = w] EXCEPT !.window = x]
                        = [kept[f][e] EXCEPT !.window = x]
        BY <3>1, WindowField
      <3>. QED  BY <3>2, <3>3
    <2>4. kept.pair = store.pair /\ kept.marks = store.marks
      BY <2>1 DEF Twins
    <2>. QED  BY <2>2, <2>3, <2>4, FieldsAre DEF SameHistory
  <1>2. TwinInv => SameHistory
    BY <1>1
  <1>. QED  BY <1>2, TwinInvariant, PTL
=============================================================================
