--------------------------- MODULE Channels_proofs ---------------------------
(***************************************************************************)
(* Proofs about the wire channel (WireControls) and the P2P channel        *)
(* (P2PTransfers), for any parties, amounts, times and windows, and frames *)
(* of any length: the features of a row are those of the rows before it,   *)
(* and the controls do what they say.                                      *)
(*                                                                         *)
(* Both channels read their rows off lists that are pruned in passing.  A  *)
(* list is related to the rows it stands for by a one-to-one naming of its *)
(* places by row numbers; pruning the list and choosing among the rows     *)
(* then go together, and lengths, sums and sets agree.                     *)
(***************************************************************************)
EXTENDS WireControls, P2PTransfers, Induction_proofs

-----------------------------------------------------------------------------
(* The n-th numbers of a finite set are the set, each once.                *)
LEMMA NthBijection ==
    ASSUME NEW S \in SUBSET Nat, IsFiniteSet(S)
    PROVE  [n \in 1 .. Cardinality(S) |-> Nth(S, n)] \in Bijection(1 .. Cardinality(S), S)
<1> DEFINE upto(i) == {k \in S : k <= i}
           size == Cardinality(S)
           rank == [i \in S |-> Cardinality(upto(i))]
           nth == [n \in 1 .. size |-> Nth(S, n)]
<1>1. size \in Nat /\ \A i \in S : IsFiniteSet(upto(i)) /\ Cardinality(upto(i)) \in 0 .. size
  <2>1. size \in Nat
    BY FS_CardinalityType
  <2>2. ASSUME NEW i \in S PROVE IsFiniteSet(upto(i)) /\ Cardinality(upto(i)) \in 0 .. size
    <3>1. PICK part : part = upto(i)
      OBVIOUS
    <3>2. part \in SUBSET S
      BY <3>1
    <3>3. IsFiniteSet(part) /\ Cardinality(part) <= size
      BY <3>2, FS_Subset
    <3>4. Cardinality(part) \in Nat
      BY <3>3, FS_CardinalityType
    <3>. QED  BY <2>1, <3>1, <3>3, <3>4
  <2>. QED  BY <2>1, <2>2
<1>2. ASSUME NEW i \in S PROVE Cardinality(upto(i)) # 0
  <2>1. i \in upto(i)
    OBVIOUS
  <2>. QED  BY <1>1, <2>1, FS_EmptySet
<1>3. ASSUME NEW i \in S, NEW k \in S, i < k
      PROVE  Cardinality(upto(i)) # Cardinality(upto(k))
  <2>1. \A j \in S : j <= i => j <= k
    <3> SUFFICES ASSUME NEW j \in S, j <= i PROVE j <= k
      OBVIOUS
    <3>1. i \in Nat /\ j \in Nat /\ k \in Nat
      OBVIOUS
    <3>. QED  BY <1>3, <3>1
  <2>2. upto(i) \subseteq upto(k) /\ k \in upto(k)
    <3>1. k \in Nat
      OBVIOUS
    <3>2. k <= k
      BY <3>1
    <3>. QED  BY <2>1, <3>2
  <2>3. k \notin upto(i)
    BY <1>3, <2>1
  <2>4. PICK low, high : low = upto(i) /\ high = upto(k)
    OBVIOUS
  <2>5. IsFiniteSet(high) /\ low \in SUBSET high /\ low # high
    BY <1>1, <2>2, <2>3, <2>4
  <2>. QED  BY <2>4, <2>5, FS_Subset
<1>4. rank \in [S -> 1 .. size]
  BY <1>1, <1>2
<1>5. \A i, k \in S : rank[i] = rank[k] => i = k
  BY <1>3
<1>6. \A i \in S : rank[i] = Cardinality(upto(i))
  OBVIOUS
<1>7. \A n \in 1 .. size : nth[n] = CHOOSE i \in S : rank[i] = n
  BY DEF Nth
<1> HIDE DEF rank, nth, size
<1>8. rank \in Injection(S, 1 .. size)
  BY <1>4, <1>5 DEF Injection, IsInjective
<1>9. IsFiniteSet(1 .. size) /\ Cardinality(1 .. size) = size
  BY <1>1, FS_Interval
<1>10. rank \in Surjection(S, 1 .. size)
  BY <1>8, <1>9, FS_Injection DEF size
<1>11. \A n \in 1 .. size : \E i \in S : rank[i] = n
  BY <1>10, Fun_SurjectionProperties
<1>12. \A n \in 1 .. size : nth[n] \in S /\ rank[nth[n]] = n
  BY <1>7, <1>11
<1>13. ASSUME NEW i \in S PROVE rank[i] \in 1 .. size /\ nth[rank[i]] = i
  <2>1. rank[i] \in 1 .. size
    BY <1>4
  <2>2. nth[rank[i]] \in S /\ rank[nth[rank[i]]] = rank[i]
    BY <1>12, <2>1
  <2>. QED  BY <1>5, <2>1, <2>2
<1>14. nth = [n \in 1 .. size |-> nth[n]]
  BY DEF nth
<1>15. nth \in [1 .. size -> S]
  BY <1>12, <1>14
<1>16. nth \in Bijection(1 .. size, S)
  <2>1. \A x, y \in 1 .. size : nth[x] = nth[y] => x = y
    BY <1>12
  <2>2. \A i \in S : \E n \in 1 .. size : nth[n] = i
    BY <1>13
  <2>. QED  BY <1>15, <2>1, <2>2, MakeBijection
<1>. QED  BY <1>16 DEF nth, size

(* Pruning a list and choosing among the rows go together.                 *)
LEMMA MirrorKept ==
    ASSUME NEW list, NEW T, NEW e, Mirrors(list, T, e),
           NEW places \in SUBSET DOMAIN list, NEW part \in SUBSET T,
           \A j \in DOMAIN list : \A i \in T : list[j] = e[i] => (j \in places <=> i \in part)
    PROVE  Mirrors(At(list, places), part, e)
<1>1. PICK q \in Bijection(places, part) : \A j \in places : list[j] = e[q[j]]
  BY MirrorPart
<1>2. DOMAIN list = 1 .. Len(list) /\ Len(list) \in Nat
  BY MirrorFacts
<1>3. IsFiniteSet(places) /\ Cardinality(places) \in Nat /\ places \in SUBSET Nat
  <2>1. IsFiniteSet(1 .. Len(list)) /\ places \in SUBSET (1 .. Len(list))
    BY <1>2, FS_Interval
  <2>2. IsFiniteSet(places)
    BY <2>1, FS_Subset
  <2>. QED  BY <2>1, <2>2, FS_CardinalityType
<1> DEFINE n == Cardinality(places)
           nth == [m \in 1 .. n |-> Nth(places, m)]
           p == [m \in 1 .. n |-> q[nth[m]]]
<1>4. nth \in Bijection(1 .. n, places)
  BY <1>3, NthBijection
<1>5. \A m \in 1 .. n : nth[m] = Nth(places, m)
  OBVIOUS
<1>6. nth \in [1 .. n -> places]
  <2> HIDE DEF nth, n
  <2>. QED  BY <1>4, Fun_BijectionProperties
<1>7. p \in Bijection(1 .. n, part)
  <2> HIDE DEF nth, n
  <2>. QED  BY <1>1, <1>4, Fun_BijTransitive
<1>8. At(list, places) = [m \in 1 .. n |-> list[nth[m]]]
  BY <1>5 DEF At
<1>9. At(list, places) = [m \in 1 .. n |-> e[p[m]]]
  <2>1. \A m \in 1 .. n : list[nth[m]] = e[p[m]]
    BY <1>1, <1>6
  <2> HIDE DEF nth, n, p
  <2>. QED  BY <1>8, <2>1
<1>10. n \in Nat
  BY <1>3
<1> HIDE DEF n, nth, p
<1>. QED  BY <1>7, <1>9, <1>10 DEF Mirrors

-----------------------------------------------------------------------------
(* Frames of either channel.                                               *)
EntryOf(F) == [i \in DOMAIN F |-> [ts |-> F[i].ts, amount |-> F[i].amount]]
After(F, S, cutoff) == {i \in S : F[i].ts >= cutoff}
LastTime(F) == IF F = <<>> THEN 0 ELSE F[Len(F)].ts

(* What joins the frame.                                                   *)
LEMMA Joined ==
    ASSUME NEW R, NEW F \in Seq(R), NEW x \in R
    PROVE  /\ Append(F, x) \in Seq(R) /\ Len(F) \in Nat /\ DOMAIN F = 1 .. Len(F)
           /\ DOMAIN Append(F, x) = DOMAIN F \cup {Len(F) + 1} /\ Len(F) + 1 \notin DOMAIN F
           /\ \A i \in DOMAIN F : Append(F, x)[i] = F[i] /\ i < Len(F) + 1
           /\ Append(F, x)[Len(F) + 1] = x
           /\ LastTime(Append(F, x)) = x.ts
<1>1. /\ Append(F, x) \in Seq(R) /\ Len(F) \in Nat /\ DOMAIN F = 1 .. Len(F)
      /\ Len(Append(F, x)) = Len(F) + 1 /\ DOMAIN Append(F, x) = 1 .. Len(F) + 1
  OBVIOUS
<1>2. /\ \A i \in DOMAIN F : Append(F, x)[i] = F[i] /\ i < Len(F) + 1
      /\ Append(F, x)[Len(F) + 1] = x
  OBVIOUS
<1>3. 1 .. Len(F) + 1 = 1 .. Len(F) \cup {Len(F) + 1} /\ Len(F) + 1 \notin 1 .. Len(F)
  BY <1>1
<1>4. Append(F, x) # <<>>
  BY <1>1
<1>. QED  BY <1>1, <1>2, <1>3, <1>4 DEF LastTime

-----------------------------------------------------------------------------
(* The P2P channel.  What the dictionaries of build_features hold, as a    *)
(* function of the rows F so far.                                          *)
Variants == {"none", "app_evasive", "app_blatant"}
Payments == [sender : Senders, recipient : Recipients, ts : Nat, amount : Nat,
             label : Labels, variant : Variants, scam : Nat, k : Nat]
Rows == [sender : Senders, recipient : Recipients, ts : Nat, amount : Nat,
         label : Labels, variant : Variants, scam : Nat, k : Nat, first_time : BOOLEAN]

InboundOf(F) ==
    [i \in DOMAIN F |-> [ts |-> F[i].ts, sender |-> F[i].sender, first_time |-> F[i].first_time]]

Sent(F, s) == {i \in DOMAIN F : F[i].sender = s}
Received(F, r) == {i \in DOMAIN F : F[i].recipient = r}
Opening(F, s) == {i \in Sent(F, s) : F[i].first_time}

(* The rows are in time order, and say which is the first of its pair.     *)
InOrder(F) == \A i, j \in DOMAIN F : i <= j => F[i].ts <= F[j].ts
FirstsMarked(F) ==
    \A i \in DOMAIN F : F[i].first_time <=> ~\E j \in 1 .. i - 1 : PairOf(F[j]) = PairOf(F[i])

(* A list that is pruned in passing still holds all of the last 30 days.   *)
Pruned(list, F, S, e) ==
    \E T \in SUBSET S : After(F, S, LastTime(F) - ThirtyDays) \subseteq T /\ Mirrors(list, T, e)

LifeOf(F, r) ==
    [n |-> Cardinality(Received(F, r)),
     first |-> IF Received(F, r) = {} THEN NoTransfer ELSE F[Min(Received(F, r))].ts]

LedgerShape(L) ==
    /\ L = [hist |-> L.hist, recips |-> L.recips, fresh |-> L.fresh,
            inbound |-> L.inbound, life |-> L.life, pair |-> L.pair]
    /\ L.hist = [s \in Senders |-> L.hist[s]]
    /\ L.recips = [s \in Senders |-> L.recips[s]]
    /\ L.fresh = [s \in Senders |-> L.fresh[s]]
    /\ L.inbound = [r \in Recipients |-> L.inbound[r]]
    /\ L.life = [r \in Recipients |-> L.life[r]]
    /\ L.pair = [p \in Senders \X Recipients |-> L.pair[p]]

LedgerOf(L, F) ==
    /\ LedgerShape(L)
    /\ \A s \in Senders :
          /\ Pruned(L.hist[s], F, Sent(F, s), EntryOf(F))
          /\ L.recips[s] = {F[i].recipient : i \in Sent(F, s)}
          /\ Mirrors(L.fresh[s], Opening(F, s), EntryOf(F))
    /\ \A r \in Recipients :
          /\ Pruned(L.inbound[r], F, Received(F, r), InboundOf(F))
          /\ L.life[r] = LifeOf(F, r)
    /\ \A s \in Senders, r \in Recipients :
          Mirrors(L.pair[<<s, r>>], Sent(F, s) \cap Received(F, r), EntryOf(F))

FrameInv ==
    /\ frame \in Seq(Rows) /\ InOrder(frame) /\ FirstsMarked(frame)
    /\ due \subseteq Payments /\ \A d \in due : d.ts >= LastTime(frame)
    /\ scams \in Nat

TransferInv == FrameInv /\ LedgerOf(ledger, frame) /\ TransferRowIsOfHistory

USE TransferAssumption

-----------------------------------------------------------------------------
LEMMA RowOfFields ==
    ASSUME NEW t \in Payments
    PROVE  /\ RowOf(t) \in Rows /\ RowOf(t).first_time = FirstTime(t)
           /\ RowOf(t).sender = t.sender /\ RowOf(t).recipient = t.recipient
           /\ RowOf(t).ts = t.ts /\ RowOf(t).amount = t.amount
           /\ RowOf(t).label = t.label /\ RowOf(t).variant = t.variant
           /\ RowOf(t).scam = t.scam /\ RowOf(t).k = t.k
BY DEF RowOf, Payments, Rows, FirstTime

LEMMA RowFields ==
    ASSUME NEW F \in Seq(Rows), NEW i \in DOMAIN F
    PROVE  /\ i \in Nat /\ F[i] \in Rows
           /\ F[i].sender \in Senders /\ F[i].recipient \in Recipients
           /\ F[i].ts \in Nat /\ F[i].amount \in Nat /\ F[i].first_time \in BOOLEAN
<1>1. F[i] \in Rows /\ i \in Nat
  OBVIOUS
<1>. QED  BY <1>1 DEF Rows

LEMMA LastTimeNat ==
    ASSUME NEW F \in Seq(Rows) PROVE LastTime(F) \in Nat
<1>1. F # <<>> => Len(F) \in DOMAIN F
  OBVIOUS
<1>. QED  BY <1>1, RowFields DEF LastTime

LEMMA JoinedSets ==
    ASSUME NEW F \in Seq(Rows), NEW x \in Rows
    PROVE  LET G == Append(F, x)
               n == Len(F) + 1
           IN  /\ \A s : Sent(G, s) = Sent(F, s) \cup (IF x.sender = s THEN {n} ELSE {})
               /\ \A r : Received(G, r) = Received(F, r) \cup (IF x.recipient = r THEN {n} ELSE {})
               /\ \A s : Opening(G, s) =
                     Opening(F, s) \cup (IF x.sender = s /\ x.first_time THEN {n} ELSE {})
               /\ \A i \in DOMAIN F : EntryOf(G)[i] = EntryOf(F)[i] /\ InboundOf(G)[i] = InboundOf(F)[i]
               /\ EntryOf(G)[n] = [ts |-> x.ts, amount |-> x.amount]
               /\ InboundOf(G)[n] = [ts |-> x.ts, sender |-> x.sender, first_time |-> x.first_time]
<1> DEFINE G == Append(F, x)
           n == Len(F) + 1
<1>1. /\ DOMAIN G = DOMAIN F \cup {n} /\ n \notin DOMAIN F /\ G[n] = x
      /\ \A i \in DOMAIN F : G[i] = F[i]
  BY Joined
<1> HIDE DEF G, n
<1>2. \A s : Sent(G, s) = Sent(F, s) \cup (IF x.sender = s THEN {n} ELSE {})
  BY <1>1 DEF Sent
<1>3. \A r : Received(G, r) = Received(F, r) \cup (IF x.recipient = r THEN {n} ELSE {})
  BY <1>1 DEF Received
<1>4. \A s : Opening(G, s) =
                Opening(F, s) \cup (IF x.sender = s /\ x.first_time THEN {n} ELSE {})
  BY <1>1 DEF Opening, Sent
<1>5. \A i \in DOMAIN F : EntryOf(G)[i] = EntryOf(F)[i] /\ InboundOf(G)[i] = InboundOf(F)[i]
  BY <1>1 DEF EntryOf, InboundOf
<1>6. /\ EntryOf(G)[n] = [ts |-> x.ts, amount |-> x.amount]
      /\ InboundOf(G)[n] = [ts |-> x.ts, sender |-> x.sender, first_time |-> x.first_time]
  BY <1>1 DEF EntryOf, InboundOf
<1>. QED  BY <1>2, <1>3, <1>4, <1>5, <1>6 DEF G, n

(* The young part of a list is that of the rows after the cutoff.          *)
LEMMA YoungMirrors ==
    ASSUME NEW F \in Seq(Rows), NEW T \in SUBSET DOMAIN F, NEW list, NEW e,
           \A i \in DOMAIN F : e[i].ts = F[i].ts, Mirrors(list, T, e), NEW cutoff
    PROVE  Mirrors(Young(list, cutoff), After(F, T, cutoff), e)
<1> DEFINE places == {j \in DOMAIN list : list[j].ts >= cutoff}
           part == After(F, T, cutoff)
<1>1. places \in SUBSET DOMAIN list /\ part \in SUBSET T
  BY DEF After
<1>2. \A j \in DOMAIN list : \A i \in T : list[j] = e[i] => (j \in places <=> i \in part)
  BY DEF After
<1> HIDE DEF places, part
<1>3. Mirrors(At(list, places), part, e)
  BY <1>1, <1>2, MirrorKept
<1>. QED  BY <1>3 DEF Young, places, part

LEMMA PrunedYoung ==
    ASSUME NEW F \in Seq(Rows), NEW S \in SUBSET DOMAIN F, NEW list, NEW e,
           \A i \in DOMAIN F : e[i].ts = F[i].ts, Pruned(list, F, S, e),
           NEW cutoff \in Int, cutoff >= LastTime(F) - ThirtyDays
    PROVE  Mirrors(Young(list, cutoff), After(F, S, cutoff), e)
<1>1. PICK T \in SUBSET S :
          After(F, S, LastTime(F) - ThirtyDays) \subseteq T /\ Mirrors(list, T, e)
  BY DEF Pruned
<1>2. \A i \in S : F[i].ts >= cutoff => F[i].ts >= LastTime(F) - ThirtyDays
  <2> TAKE i \in S
  <2>1. F[i].ts \in Nat /\ LastTime(F) \in Nat /\ ThirtyDays \in Nat
    BY RowFields, LastTimeNat
  <2>. QED  BY <2>1
<1>3. After(F, T, cutoff) = After(F, S, cutoff)
  BY <1>1, <1>2 DEF After
<1>4. Mirrors(Young(list, cutoff), After(F, T, cutoff), e)
  BY <1>1, YoungMirrors
<1>. QED  BY <1>3, <1>4

(* Nothing is lost from a list by pruning it once a row has come.          *)
LEMMA PrunedWhileOthers ==
    ASSUME NEW F \in Seq(Rows), NEW x \in Rows, x.ts >= LastTime(F), NEW S \in SUBSET DOMAIN F,
           NEW list, NEW e, NEW f, \A i \in DOMAIN F : f[i] = e[i], Pruned(list, F, S, e)
    PROVE  Pruned(list, Append(F, x), S, f)
<1> DEFINE G == Append(F, x)
<1>1. LastTime(G) = x.ts /\ \A i \in DOMAIN F : G[i] = F[i]
  BY Joined
<1>2. LastTime(F) \in Nat /\ x.ts \in Nat
  BY LastTimeNat DEF Rows
<1>3. PICK T \in SUBSET S :
          After(F, S, LastTime(F) - ThirtyDays) \subseteq T /\ Mirrors(list, T, e)
  BY DEF Pruned
<1> HIDE DEF G
<1>4. After(G, S, LastTime(G) - ThirtyDays) \subseteq After(F, S, LastTime(F) - ThirtyDays)
  <2> SUFFICES ASSUME NEW i \in S, G[i].ts >= LastTime(G) - ThirtyDays
               PROVE  F[i].ts >= LastTime(F) - ThirtyDays
    BY DEF After
  <2>1. G[i] = F[i] /\ F[i].ts \in Nat /\ ThirtyDays \in Nat
    BY <1>1, RowFields
  <2>. QED  BY <1>1, <1>2, <2>1
<1>5. Mirrors(list, T, f)
  BY <1>3, MirrorAgrees
<1>. QED  BY <1>3, <1>4, <1>5 DEF Pruned, G

LEMMA PrunedAndJoined ==
    ASSUME NEW F \in Seq(Rows), NEW x \in Rows, x.ts >= LastTime(F), NEW S \in SUBSET DOMAIN F,
           NEW list, NEW e, NEW f, \A i \in DOMAIN F : f[i] = e[i] /\ e[i].ts = F[i].ts,
           Pruned(list, F, S, e)
    PROVE  Pruned(Append(Young(list, x.ts - ThirtyDays), f[Len(F) + 1]),
                  Append(F, x), S \cup {Len(F) + 1}, f)
<1> DEFINE G == Append(F, x)
           n == Len(F) + 1
           cutoff == x.ts - ThirtyDays
           young == Young(list, cutoff)
           T == After(F, S, cutoff)
<1>1. /\ LastTime(G) = x.ts /\ \A i \in DOMAIN F : G[i] = F[i]
      /\ n \notin DOMAIN F /\ G[n] = x
  BY Joined
<1>2. LastTime(F) \in Nat /\ x.ts \in Nat /\ ThirtyDays \in Nat
  BY LastTimeNat DEF Rows
<1>3. cutoff \in Int /\ cutoff >= LastTime(F) - ThirtyDays
  BY <1>2
<1>4. Mirrors(young, T, e)
  BY <1>3, PrunedYoung
<1>5. T \subseteq S
  BY DEF After
<1> HIDE DEF young, T, n
<1>6. Mirrors(young, T, f)
  BY <1>4, <1>5, MirrorAgrees
<1>7. Mirrors(Append(young, f[n]), T \cup {n}, f)
  BY <1>1, <1>5, <1>6, MirrorAppend
<1>8. After(G, S \cup {n}, cutoff) \subseteq T \cup {n}
  BY <1>1 DEF After, T
<1>9. T \cup {n} \in SUBSET (S \cup {n})
  BY <1>5
<1>10. LastTime(G) - ThirtyDays = cutoff
  BY <1>1
<1> HIDE DEF cutoff, G
<1>11. Pruned(Append(young, f[n]), G, S \cup {n}, f)
  BY <1>7, <1>8, <1>9, <1>10 DEF Pruned
<1>. QED  BY <1>11 DEF young, n, cutoff, G

-----------------------------------------------------------------------------
(* The dictionaries after a row.                                           *)
LEMMA LedgerAfter ==
    ASSUME LedgerShape(ledger), NEW t \in Payments
    PROVE  LET L == Ledger(t)
               entry == [ts |-> t.ts, amount |-> t.amount]
           IN  /\ LedgerShape(L)
               /\ \A s \in Senders :
                     /\ L.hist[s] = IF s = t.sender
                                    THEN Append(Young(ledger.hist[s], t.ts - ThirtyDays), entry)
                                    ELSE ledger.hist[s]
                     /\ L.recips[s] = ledger.recips[s] \cup
                                      (IF s = t.sender THEN {t.recipient} ELSE {})
                     /\ L.fresh[s] = IF s = t.sender /\ FirstTime(t)
                                     THEN Append(ledger.fresh[s], entry) ELSE ledger.fresh[s]
               /\ \A r \in Recipients :
                     /\ L.inbound[r] =
                           IF r = t.recipient
                           THEN Append(Young(ledger.inbound[r], t.ts - ThirtyDays),
                                       [ts |-> t.ts, sender |-> t.sender, first_time |-> FirstTime(t)])
                           ELSE ledger.inbound[r]
                     /\ L.life[r] =
                           IF r = t.recipient
                           THEN [n |-> ledger.life[r].n + 1,
                                 first |-> IF ledger.life[r].first = NoTransfer THEN t.ts
                                           ELSE ledger.life[r].first]
                           ELSE ledger.life[r]
               /\ \A s \in Senders, r \in Recipients :
                     L.pair[<<s, r>>] =
                        IF s = t.sender /\ r = t.recipient THEN Append(ledger.pair[<<s, r>>], entry)
                        ELSE ledger.pair[<<s, r>>]
<1> DEFINE L == Ledger(t)
           entry == [ts |-> t.ts, amount |-> t.amount]
           arrival == [ts |-> t.ts, sender |-> t.sender, first_time |-> FirstTime(t)]
<1>1. t.sender \in Senders /\ t.recipient \in Recipients
  BY DEF Payments
<1>2. L = [hist |-> [ledger.hist EXCEPT ![t.sender] = Append(Young(@, t.ts - ThirtyDays), entry)],
           recips |-> [ledger.recips EXCEPT ![t.sender] = @ \cup {t.recipient}],
           fresh |-> [ledger.fresh EXCEPT ![t.sender] =
                         IF FirstTime(t) THEN Append(@, entry) ELSE @],
           inbound |-> [ledger.inbound EXCEPT ![t.recipient] =
                           Append(Young(@, t.ts - ThirtyDays), arrival)],
           life |-> [ledger.life EXCEPT ![t.recipient] =
                        [n |-> @.n + 1, first |-> IF @.first = NoTransfer THEN t.ts ELSE @.first]],
           pair |-> [ledger.pair EXCEPT ![PairOf(t)] = Append(@, entry)]]
  <2> DEFINE v1 == Append(Young(ledger.hist[t.sender], t.ts - ThirtyDays), entry)
             v2 == ledger.recips[t.sender] \cup {t.recipient}
             v3 == IF FirstTime(t) THEN Append(ledger.fresh[t.sender], entry)
                   ELSE ledger.fresh[t.sender]
             v4 == Append(Young(ledger.inbound[t.recipient], t.ts - ThirtyDays), arrival)
             v5 == [n |-> ledger.life[t.recipient].n + 1,
                    first |-> IF ledger.life[t.recipient].first = NoTransfer THEN t.ts
                              ELSE ledger.life[t.recipient].first]
             v6 == Append(ledger.pair[PairOf(t)], entry)
  <2>1. PICK h, rc, fr, ib, lf, pr :
            ledger = [hist |-> h, recips |-> rc, fresh |-> fr, inbound |-> ib, life |-> lf, pair |-> pr]
    BY DEF LedgerShape
  <2>2. L = [ledger EXCEPT !.hist[t.sender] = v1, !.recips[t.sender] = v2, !.fresh[t.sender] = v3,
                           !.inbound[t.recipient] = v4, !.life[t.recipient] = v5, !.pair[PairOf(t)] = v6]
    BY DEF Ledger, LedgerKeeping
  <2> HIDE DEF L, entry, arrival, v1, v2, v3, v4, v5, v6
  <2>3. L = [hist |-> [ledger.hist EXCEPT ![t.sender] = v1],
             recips |-> [ledger.recips EXCEPT ![t.sender] = v2],
             fresh |-> [ledger.fresh EXCEPT ![t.sender] = v3],
             inbound |-> [ledger.inbound EXCEPT ![t.recipient] = v4],
             life |-> [ledger.life EXCEPT ![t.recipient] = v5],
             pair |-> [ledger.pair EXCEPT ![PairOf(t)] = v6]]
    BY <2>1, <2>2
  <2>. QED  BY <2>3 DEF v1, v2, v3, v4, v5, v6
<1> HIDE DEF L, entry, arrival
<1>3. /\ L.hist = [s \in Senders |-> IF s = t.sender
                       THEN Append(Young(ledger.hist[s], t.ts - ThirtyDays), entry)
                       ELSE ledger.hist[s]]
      /\ L.recips = [s \in Senders |-> IF s = t.sender THEN ledger.recips[s] \cup {t.recipient}
                                       ELSE ledger.recips[s]]
      /\ L.fresh = [s \in Senders |-> IF s = t.sender /\ FirstTime(t)
                       THEN Append(ledger.fresh[s], entry) ELSE ledger.fresh[s]]
  BY <1>1, <1>2 DEF LedgerShape
<1>4. /\ L.inbound = [r \in Recipients |-> IF r = t.recipient
                          THEN Append(Young(ledger.inbound[r], t.ts - ThirtyDays), arrival)
                          ELSE ledger.inbound[r]]
      /\ L.life = [r \in Recipients |-> IF r = t.recipient
                      THEN [n |-> ledger.life[r].n + 1,
                            first |-> IF ledger.life[r].first = NoTransfer THEN t.ts
                                      ELSE ledger.life[r].first]
                      ELSE ledger.life[r]]
  BY <1>1, <1>2 DEF LedgerShape
<1>5. L.pair = [p \in Senders \X Recipients |-> IF p = PairOf(t)
                   THEN Append(ledger.pair[p], entry) ELSE ledger.pair[p]]
  BY <1>1, <1>2 DEF LedgerShape, PairOf
<1>6. LedgerShape(L)
  <2>1. L = [hist |-> L.hist, recips |-> L.recips, fresh |-> L.fresh,
             inbound |-> L.inbound, life |-> L.life, pair |-> L.pair]
    BY <1>2
  <2>. QED  BY <2>1, <1>3, <1>4, <1>5 DEF LedgerShape
<1>7. \A s \in Senders, r \in Recipients :
         L.pair[<<s, r>>] = IF s = t.sender /\ r = t.recipient
                            THEN Append(ledger.pair[<<s, r>>], entry) ELSE ledger.pair[<<s, r>>]
  BY <1>5 DEF PairOf
<1>8. \A s \in Senders : L.recips[s] = ledger.recips[s] \cup (IF s = t.sender THEN {t.recipient} ELSE {})
  BY <1>3
<1>. QED  BY <1>3, <1>4, <1>6, <1>7, <1>8 DEF L, entry, arrival

LEMMA ReceivedFacts ==
    ASSUME NEW F \in Seq(Rows), NEW r
    PROVE  /\ Received(F, r) \in SUBSET DOMAIN F /\ DOMAIN F \in SUBSET Nat
           /\ IsFiniteSet(DOMAIN F) /\ IsFiniteSet(Received(F, r))
           /\ Cardinality(Received(F, r)) \in Nat
           /\ Received(F, r) # {} =>
                 /\ Min(Received(F, r)) \in Received(F, r)
                 /\ \A i \in Received(F, r) : Min(Received(F, r)) <= i
                 /\ F[Min(Received(F, r))].ts \in Nat
<1>1. Received(F, r) \in SUBSET DOMAIN F /\ DOMAIN F \in SUBSET Nat
  BY DEF Received
<1>2. IsFiniteSet(DOMAIN F)
  <2>1. DOMAIN F = 1 .. Len(F) /\ Len(F) \in Nat
    OBVIOUS
  <2>. QED  BY <2>1, FS_Interval
<1>3. IsFiniteSet(Received(F, r)) /\ Cardinality(Received(F, r)) \in Nat
  BY <1>1, <1>2, FS_Subset, FS_CardinalityType
<1>4. ASSUME Received(F, r) # {}
      PROVE  /\ Min(Received(F, r)) \in Received(F, r)
             /\ \A i \in Received(F, r) : Min(Received(F, r)) <= i
             /\ F[Min(Received(F, r))].ts \in Nat
  <2>1. PICK S : S = Received(F, r)
    OBVIOUS
  <2>2. Min(S) \in S /\ \A i \in S : Min(S) <= i
    BY <1>1, <1>4, <2>1, MinIsLeast
  <2>3. Min(S) \in DOMAIN F
    BY <1>1, <2>1, <2>2
  <2>. QED  BY <2>1, <2>2, <2>3, RowFields
<1>. QED  BY <1>1, <1>2, <1>3, <1>4

(* The age of a recipient and the number of its transfers.                 *)
LEMMA LifeJoined ==
    ASSUME NEW F \in Seq(Rows), NEW x \in Rows, NEW r
    PROVE  LifeOf(Append(F, x), r) =
             IF r = x.recipient
             THEN [n |-> LifeOf(F, r).n + 1,
                   first |-> IF LifeOf(F, r).first = NoTransfer THEN x.ts ELSE LifeOf(F, r).first]
             ELSE LifeOf(F, r)
<1> DEFINE G == Append(F, x)
           n == Len(F) + 1
           S == Received(F, r)
<1>1. /\ n \notin DOMAIN F /\ G[n] = x /\ n \in Nat
      /\ \A i \in DOMAIN F : G[i] = F[i] /\ i < n
  BY Joined
<1>2. Received(G, r) = S \cup (IF x.recipient = r THEN {n} ELSE {})
  <2>1. \A q : Received(G, q) = Received(F, q) \cup (IF x.recipient = q THEN {n} ELSE {})
    BY JoinedSets
  <2>. QED  BY <2>1
<1>3. /\ S \in SUBSET DOMAIN F /\ S \in SUBSET Nat /\ IsFiniteSet(S)
      /\ S # {} => Min(S) \in S /\ F[Min(S)].ts \in Nat
  BY ReceivedFacts
<1>4. LifeOf(F, r) = [n |-> Cardinality(S), first |-> IF S = {} THEN NoTransfer ELSE F[Min(S)].ts]
  BY DEF LifeOf
<1>5. LifeOf(G, r) = [n |-> Cardinality(Received(G, r)),
                      first |-> IF Received(G, r) = {} THEN NoTransfer ELSE G[Min(Received(G, r))].ts]
  BY DEF LifeOf
<1> HIDE DEF G, n, S
<1>6. CASE x.recipient # r
  <2>1. Received(G, r) = S
    BY <1>2, <1>6
  <2>2. S # {} => G[Min(S)] = F[Min(S)]
    BY <1>1, <1>3
  <2>3. LifeOf(G, r) = LifeOf(F, r)
    BY <1>4, <1>5, <2>1, <2>2
  <2>. QED  BY <1>6, <2>3 DEF G
<1>7. CASE x.recipient = r
  <2>1. Received(G, r) = S \cup {n} /\ n \notin S
    BY <1>1, <1>2, <1>3, <1>7
  <2>2. Cardinality(S \cup {n}) = Cardinality(S) + 1
    BY <1>3, <2>1, FS_AddElement
  <2>3. Min(S \cup {n}) = IF S = {} THEN n ELSE Min(S)
    <3>1. \A i \in S : i < n
      BY <1>1, <1>3
    <3>. QED  BY <1>1, <1>3, <3>1, MinJoined
  <2>4. S # {} => G[Min(S)] = F[Min(S)] /\ F[Min(S)].ts # NoTransfer
    BY <1>1, <1>3
  <2>5. G[Min(S \cup {n})].ts =
           IF LifeOf(F, r).first = NoTransfer THEN x.ts ELSE LifeOf(F, r).first
    <3>1. CASE S = {}
      BY <1>1, <1>4, <2>3, <3>1
    <3>2. CASE S # {}
      BY <1>4, <2>3, <2>4, <3>2
    <3>. QED  BY <3>1, <3>2
  <2>6. LifeOf(G, r) = [n |-> Cardinality(S) + 1, first |-> G[Min(S \cup {n})].ts]
    BY <1>5, <2>1, <2>2
  <2>7. LifeOf(F, r).n = Cardinality(S)
    BY <1>4
  <2>. QED  BY <1>7, <2>5, <2>6, <2>7 DEF G
<1>. QED  BY <1>6, <1>7

(* Who has paid whom before: the set that is read, the marks of the rows   *)
(* and the rows themselves say the same.                                   *)
LEMMA FirstTimeIs ==
    ASSUME LedgerOf(ledger, frame), NEW t \in Payments
    PROVE  FirstTime(t) <=> Sent(frame, t.sender) \cap Received(frame, t.recipient) = {}
<1>1. t.sender \in Senders
  BY DEF Payments
<1>2. ledger.recips[t.sender] = {frame[i].recipient : i \in Sent(frame, t.sender)}
  BY <1>1 DEF LedgerOf
<1>. QED  BY <1>2 DEF FirstTime, Sent, Received

LEMMA FirstsStep ==
    ASSUME frame \in Seq(Rows), FirstsMarked(frame), LedgerOf(ledger, frame), NEW t \in Payments
    PROVE  FirstsMarked(Append(frame, RowOf(t)))
<1> DEFINE x == RowOf(t)
           G == Append(frame, x)
           n == Len(frame) + 1
           marked(H, i) == H[i].first_time <=> ~\E j \in 1 .. i - 1 : PairOf(H[j]) = PairOf(H[i])
<1>1. /\ x \in Rows /\ x.first_time = FirstTime(t)
      /\ x.sender = t.sender /\ x.recipient = t.recipient
  BY RowOfFields
<1> HIDE DEF x
<1>2. /\ Len(frame) \in Nat /\ DOMAIN frame = 1 .. Len(frame) /\ DOMAIN G = DOMAIN frame \cup {n}
      /\ G[n] = x /\ \A i \in DOMAIN frame : G[i] = frame[i] /\ i < n
  BY <1>1, Joined
<1> HIDE DEF G, n
<1>3. ASSUME NEW i \in DOMAIN frame PROVE marked(G, i)
  <2>1. \A j \in 1 .. i - 1 : j \in DOMAIN frame /\ G[j] = frame[j]
    BY <1>2
  <2>2. G[i] = frame[i] /\ marked(frame, i)
    BY <1>2 DEF FirstsMarked
  <2>. QED  BY <2>1, <2>2
<1>4. marked(G, n)
  <2>1. n - 1 = Len(frame)
    BY <1>2 DEF n
  <2>2. \A j \in DOMAIN frame : PairOf(G[j]) = PairOf(x) <=>
                                j \in Sent(frame, t.sender) \cap Received(frame, t.recipient)
    BY <1>1, <1>2 DEF PairOf, Sent, Received
  <2>3. Sent(frame, t.sender) \subseteq DOMAIN frame
    BY DEF Sent
  <2>4. (\E j \in DOMAIN frame : PairOf(G[j]) = PairOf(x)) <=> ~FirstTime(t)
    BY <2>2, <2>3, FirstTimeIs
  <2>. QED  BY <1>1, <1>2, <2>1, <2>4
<1>5. \A i \in DOMAIN G : marked(G, i)
  BY <1>2, <1>3, <1>4
<1> HIDE DEF marked
<1>6. FirstsMarked(G)
  BY <1>5 DEF FirstsMarked, marked
<1>. QED  BY <1>6 DEF G, x

LEMMA OrderStep ==
    ASSUME NEW F \in Seq(Rows), InOrder(F), NEW x \in Rows, x.ts >= LastTime(F)
    PROVE  InOrder(Append(F, x))
<1> DEFINE G == Append(F, x)
           n == Len(F) + 1
<1>1. /\ Len(F) \in Nat /\ DOMAIN F = 1 .. Len(F) /\ DOMAIN G = DOMAIN F \cup {n}
      /\ G[n] = x /\ \A i \in DOMAIN F : G[i] = F[i] /\ i < n
  BY Joined
<1>2. \A i \in DOMAIN F : F[i].ts <= x.ts
  <2> SUFFICES ASSUME NEW i \in DOMAIN F PROVE F[i].ts <= x.ts
    OBVIOUS
  <2>1. F # <<>> /\ Len(F) \in DOMAIN F /\ i <= Len(F)
    BY <1>1
  <2>2. F[i].ts <= F[Len(F)].ts /\ F[Len(F)].ts <= x.ts
    BY <2>1 DEF InOrder, LastTime
  <2>3. F[i].ts \in Nat /\ F[Len(F)].ts \in Nat /\ x.ts \in Nat
    BY <2>1, RowFields DEF Rows
  <2>. QED  BY <2>2, <2>3
<1>3. x.ts \in Nat /\ n \in Nat
  BY <1>1 DEF Rows
<1> HIDE DEF G, n
<1>4. ASSUME NEW i \in DOMAIN G, NEW j \in DOMAIN G, i <= j PROVE G[i].ts <= G[j].ts
  <2>1. CASE i \in DOMAIN F /\ j \in DOMAIN F
    BY <1>1, <1>4, <2>1 DEF InOrder
  <2>2. CASE j = n
    BY <1>1, <1>2, <1>3, <2>2
  <2>3. CASE i = n /\ j \in DOMAIN F
    <3>1. j < n /\ j \in Nat
      BY <1>1, <2>3
    <3>. QED  BY <1>3, <1>4, <2>3, <3>1
  <2>. QED  BY <1>1, <2>1, <2>2, <2>3
<1>5. InOrder(G)
  BY <1>4 DEF InOrder
<1>. QED  BY <1>5 DEF G

LEMMA LedgerStep ==
    ASSUME frame \in Seq(Rows), LedgerOf(ledger, frame),
           NEW t \in Payments, t.ts >= LastTime(frame)
    PROVE  LedgerOf(Ledger(t), Append(frame, RowOf(t)))
<1> DEFINE x == RowOf(t)
           G == Append(frame, x)
           n == Len(frame) + 1
           L == Ledger(t)
           E == EntryOf(G)
           I == InboundOf(G)
           entry == [ts |-> t.ts, amount |-> t.amount]
           arrival == [ts |-> t.ts, sender |-> t.sender, first_time |-> FirstTime(t)]
<1>1. /\ x \in Rows /\ x.first_time = FirstTime(t) /\ x.ts = t.ts /\ x.amount = t.amount
      /\ x.sender = t.sender /\ x.recipient = t.recipient
  BY RowOfFields
<1> HIDE DEF x
<1>2. x.ts >= LastTime(frame)
  BY <1>1
<1>3. n \notin DOMAIN frame
  BY <1>1, Joined
<1>4. /\ \A s : Sent(G, s) = Sent(frame, s) \cup (IF x.sender = s THEN {n} ELSE {})
      /\ \A r : Received(G, r) = Received(frame, r) \cup (IF x.recipient = r THEN {n} ELSE {})
      /\ \A s : Opening(G, s) =
                   Opening(frame, s) \cup (IF x.sender = s /\ x.first_time THEN {n} ELSE {})
      /\ \A i \in DOMAIN frame : E[i] = EntryOf(frame)[i] /\ I[i] = InboundOf(frame)[i]
      /\ E[n] = [ts |-> x.ts, amount |-> x.amount]
      /\ I[n] = [ts |-> x.ts, sender |-> x.sender, first_time |-> x.first_time]
  BY <1>1, JoinedSets
<1>5. \A i \in DOMAIN frame : EntryOf(frame)[i].ts = frame[i].ts /\ InboundOf(frame)[i].ts = frame[i].ts
  BY DEF EntryOf, InboundOf
<1>6. LedgerShape(ledger)
  BY DEF LedgerOf
<1>7. /\ LedgerShape(L)
      /\ \A s \in Senders :
            /\ L.hist[s] = IF s = t.sender
                           THEN Append(Young(ledger.hist[s], t.ts - ThirtyDays), entry)
                           ELSE ledger.hist[s]
            /\ L.recips[s] = ledger.recips[s] \cup (IF s = t.sender THEN {t.recipient} ELSE {})
            /\ L.fresh[s] = IF s = t.sender /\ FirstTime(t)
                            THEN Append(ledger.fresh[s], entry) ELSE ledger.fresh[s]
      /\ \A r \in Recipients :
            /\ L.inbound[r] = IF r = t.recipient
                              THEN Append(Young(ledger.inbound[r], t.ts - ThirtyDays), arrival)
                              ELSE ledger.inbound[r]
            /\ L.life[r] = IF r = t.recipient
                           THEN [n |-> ledger.life[r].n + 1,
                                 first |-> IF ledger.life[r].first = NoTransfer THEN t.ts
                                           ELSE ledger.life[r].first]
                           ELSE ledger.life[r]
      /\ \A s \in Senders, r \in Recipients :
            L.pair[<<s, r>>] = IF s = t.sender /\ r = t.recipient
                               THEN Append(ledger.pair[<<s, r>>], entry) ELSE ledger.pair[<<s, r>>]
  BY <1>6, LedgerAfter
<1>8. E[n] = entry /\ I[n] = arrival
  BY <1>1, <1>4
<1>9. /\ \A s : Sent(frame, s) \in SUBSET DOMAIN frame /\ Opening(frame, s) \in SUBSET DOMAIN frame
      /\ \A r : Received(frame, r) \in SUBSET DOMAIN frame
  BY DEF Sent, Received, Opening
<1> HIDE DEF L, E, I, entry, arrival, n
<1>10. ASSUME NEW s \in Senders
       PROVE  Pruned(L.hist[s], G, Sent(G, s), E)
  <2>1. Pruned(ledger.hist[s], frame, Sent(frame, s), EntryOf(frame))
    BY DEF LedgerOf
  <2>2. CASE s = t.sender
    <3>1. L.hist[s] = Append(Young(ledger.hist[s], x.ts - ThirtyDays), E[n])
      BY <1>1, <1>7, <1>8, <2>2
    <3>2. Sent(G, s) = Sent(frame, s) \cup {n}
      BY <1>1, <1>4, <2>2
    <3>3. Pruned(Append(Young(ledger.hist[s], x.ts - ThirtyDays), E[n]), G, Sent(frame, s) \cup {n}, E)
      <4>1. \A i \in DOMAIN frame :
               E[i] = EntryOf(frame)[i] /\ EntryOf(frame)[i].ts = frame[i].ts
        BY <1>4, <1>5
      <4>2. Sent(frame, s) \in SUBSET DOMAIN frame
        BY <1>9
      <4>. QED  BY <1>1, <1>2, <2>1, <4>1, <4>2, PrunedAndJoined DEF n
    <3>. QED  BY <3>1, <3>2, <3>3
  <2>3. CASE s # t.sender
    <3>1. L.hist[s] = ledger.hist[s] /\ Sent(G, s) = Sent(frame, s)
      <4>1. Sent(G, s) = Sent(frame, s) \cup (IF t.sender = s THEN {n} ELSE {})
        BY <1>1, <1>4
      <4>. QED  BY <1>7, <2>3, <4>1
    <3>2. Pruned(ledger.hist[s], G, Sent(frame, s), E)
      BY <1>1, <1>2, <1>4, <1>9, <2>1, PrunedWhileOthers
    <3>. QED  BY <3>1, <3>2
  <2>. QED  BY <2>2, <2>3
<1>11. ASSUME NEW r \in Recipients
       PROVE  Pruned(L.inbound[r], G, Received(G, r), I)
  <2>1. Pruned(ledger.inbound[r], frame, Received(frame, r), InboundOf(frame))
    BY DEF LedgerOf
  <2>2. CASE r = t.recipient
    <3>1. L.inbound[r] = Append(Young(ledger.inbound[r], x.ts - ThirtyDays), I[n])
      BY <1>1, <1>7, <1>8, <2>2
    <3>2. Received(G, r) = Received(frame, r) \cup {n}
      BY <1>1, <1>4, <2>2
    <3>3. Pruned(Append(Young(ledger.inbound[r], x.ts - ThirtyDays), I[n]), G,
                 Received(frame, r) \cup {n}, I)
      <4>1. \A i \in DOMAIN frame :
               I[i] = InboundOf(frame)[i] /\ InboundOf(frame)[i].ts = frame[i].ts
        BY <1>4, <1>5
      <4>2. Received(frame, r) \in SUBSET DOMAIN frame
        BY <1>9
      <4>. QED  BY <1>1, <1>2, <2>1, <4>1, <4>2, PrunedAndJoined DEF n
    <3>. QED  BY <3>1, <3>2, <3>3
  <2>3. CASE r # t.recipient
    <3>1. L.inbound[r] = ledger.inbound[r] /\ Received(G, r) = Received(frame, r)
      <4>1. Received(G, r) = Received(frame, r) \cup (IF t.recipient = r THEN {n} ELSE {})
        BY <1>1, <1>4
      <4>. QED  BY <1>7, <2>3, <4>1
    <3>2. Pruned(ledger.inbound[r], G, Received(frame, r), I)
      BY <1>1, <1>2, <1>4, <1>9, <2>1, PrunedWhileOthers
    <3>. QED  BY <3>1, <3>2
  <2>. QED  BY <2>2, <2>3
<1>12. ASSUME NEW s \in Senders
       PROVE  L.recips[s] = {G[i].recipient : i \in Sent(G, s)}
  <2>1. ledger.recips[s] = {frame[i].recipient : i \in Sent(frame, s)}
    BY DEF LedgerOf
  <2>2. G[n] = x /\ \A i \in Sent(frame, s) : G[i] = frame[i]
    BY <1>1, <1>9, Joined DEF n
  <2>3. Sent(G, s) = Sent(frame, s) \cup (IF t.sender = s THEN {n} ELSE {})
    BY <1>1, <1>4
  <2>4. L.recips[s] = ledger.recips[s] \cup (IF s = t.sender THEN {x.recipient} ELSE {})
    BY <1>1, <1>7
  <2> HIDE DEF G
  <2>. QED  BY <2>1, <2>2, <2>3, <2>4
<1>13. ASSUME NEW s \in Senders
       PROVE  Mirrors(L.fresh[s], Opening(G, s), E)
  <2>1. Mirrors(ledger.fresh[s], Opening(frame, s), EntryOf(frame))
    BY DEF LedgerOf
  <2>2. \A i \in Opening(frame, s) : E[i] = EntryOf(frame)[i]
    BY <1>4, <1>9
  <2>3. Mirrors(ledger.fresh[s], Opening(frame, s), E)
    BY <2>1, <2>2, MirrorAgrees
  <2>4. CASE s = t.sender /\ FirstTime(t)
    <3>1. n \notin Opening(frame, s)
      BY <1>3, <1>9 DEF n
    <3>2. Mirrors(Append(ledger.fresh[s], E[n]), Opening(frame, s) \cup {n}, E)
      BY <2>3, <3>1, MirrorAppend
    <3>3. Opening(G, s) = Opening(frame, s) \cup {n}
      BY <1>1, <1>4, <2>4
    <3>4. L.fresh[s] = Append(ledger.fresh[s], E[n])
      BY <1>7, <1>8, <2>4
    <3>. QED  BY <3>2, <3>3, <3>4
  <2>5. CASE ~(s = t.sender /\ FirstTime(t))
    <3>1. L.fresh[s] = ledger.fresh[s] /\ Opening(G, s) = Opening(frame, s)
      <4>1. Opening(G, s) = Opening(frame, s) \cup (IF t.sender = s /\ FirstTime(t) THEN {n} ELSE {})
        BY <1>1, <1>4
      <4>. QED  BY <1>7, <2>5, <4>1
    <3>. QED  BY <2>3, <3>1
  <2>. QED  BY <2>4, <2>5
<1>14. ASSUME NEW r \in Recipients
       PROVE  L.life[r] = LifeOf(G, r)
  <2>1. ledger.life[r] = LifeOf(frame, r)
    BY DEF LedgerOf
  <2>2. LifeOf(G, r) =
           IF r = t.recipient
           THEN [n |-> LifeOf(frame, r).n + 1,
                 first |-> IF LifeOf(frame, r).first = NoTransfer THEN t.ts ELSE LifeOf(frame, r).first]
           ELSE LifeOf(frame, r)
    BY <1>1, LifeJoined
  <2>. QED  BY <1>7, <2>1, <2>2
<1>15. ASSUME NEW s \in Senders, NEW r \in Recipients
       PROVE  Mirrors(L.pair[<<s, r>>], Sent(G, s) \cap Received(G, r), E)
  <2> DEFINE both == Sent(frame, s) \cap Received(frame, r)
  <2>1. Mirrors(ledger.pair[<<s, r>>], both, EntryOf(frame))
    BY DEF LedgerOf
  <2>2. both \subseteq DOMAIN frame /\ n \notin DOMAIN frame
    BY <1>3, <1>9 DEF n
  <2>3. Sent(G, s) \cap Received(G, r) =
           both \cup (IF s = t.sender /\ r = t.recipient THEN {n} ELSE {})
    <3>1. /\ Sent(G, s) = Sent(frame, s) \cup (IF t.sender = s THEN {n} ELSE {})
          /\ Received(G, r) = Received(frame, r) \cup (IF t.recipient = r THEN {n} ELSE {})
          /\ n \notin Sent(frame, s) /\ n \notin Received(frame, r)
      BY <1>1, <1>4, <1>9, <2>2
    <3>. QED  BY <3>1
  <2> HIDE DEF both
  <2>4. Mirrors(ledger.pair[<<s, r>>], both, E)
    BY <1>4, <2>1, <2>2, MirrorAgrees
  <2>5. CASE s = t.sender /\ r = t.recipient
    <3>1. Mirrors(Append(ledger.pair[<<s, r>>], E[n]), both \cup {n}, E)
      BY <2>2, <2>4, MirrorAppend
    <3>2. L.pair[<<s, r>>] = Append(ledger.pair[<<s, r>>], E[n])
      BY <1>7, <1>8, <2>5
    <3>. QED  BY <2>3, <2>5, <3>1, <3>2
  <2>6. CASE ~(s = t.sender /\ r = t.recipient)
    <3>1. L.pair[<<s, r>>] = ledger.pair[<<s, r>>] /\ Sent(G, s) \cap Received(G, r) = both
      BY <1>7, <2>3, <2>6
    <3>. QED  BY <2>4, <3>1
  <2>. QED  BY <2>5, <2>6
<1> HIDE DEF G
<1>16. LedgerOf(L, G)
  BY <1>7, <1>10, <1>11, <1>12, <1>13, <1>14, <1>15 DEF LedgerOf, E, I
<1>. QED  BY <1>16 DEF L, G, x

-----------------------------------------------------------------------------
(* The features of a row.                                                  *)
LEMMA MirrorReads ==
    ASSUME NEW F \in Seq(Rows), NEW T \in SUBSET DOMAIN F, NEW list, Mirrors(list, T, EntryOf(F))
    PROVE  /\ Len(list) = Cardinality(T)
           /\ SumOf(list) = SumFunction([i \in T |-> F[i].amount])
           /\ list = <<>> <=> T = {}
<1>1. /\ IsFiniteSet(T) /\ Len(list) = Cardinality(T)
      /\ DOMAIN list = 1 .. Len(list) /\ Len(list) \in Nat
  BY MirrorFacts
<1>2. \A i \in T : EntryOf(F)[i].amount = F[i].amount /\ F[i].amount \in Nat
  BY RowFields DEF EntryOf
<1>3. SumFunction([j \in DOMAIN list |-> list[j].amount])
          = SumFunction([i \in T |-> EntryOf(F)[i].amount])
  <2>1. \A i \in T : EntryOf(F)[i].amount \in Nat
    BY <1>2
  <2>2. DOMAIN list \in SUBSET DOMAIN list /\ T \in SUBSET T
    OBVIOUS
  <2>. QED  BY <2>1, <2>2, MirrorPartSum
<1>4. [i \in T |-> EntryOf(F)[i].amount] = [i \in T |-> F[i].amount]
  BY <1>2
<1>5. list = <<>> <=> T = {}
  <2>1. list = <<>> <=> Len(list) = 0
    <3>1. PICK n \in Nat : \E p \in Bijection(1 .. n, T) : list = [j \in 1 .. n |-> EntryOf(F)[p[j]]]
      BY DEF Mirrors
    <3>2. PICK p : list = [j \in 1 .. n |-> EntryOf(F)[p[j]]]
      BY <3>1
    <3>. QED  BY <3>2
  <2>. QED  BY <1>1, <2>1, FS_EmptySet
<1>. QED  BY <1>1, <1>3, <1>4, <1>5 DEF SumOf

LEMMA RowIsOfPast ==
    ASSUME frame \in Seq(Rows), LedgerOf(ledger, frame), FirstsMarked(frame),
           NEW t \in Payments, t.ts >= LastTime(frame)
    PROVE  FeaturesOfTransfer(t) = FeaturesOfPast(frame, RowOf(t))
<1> DEFINE s == t.sender
           r == t.recipient
           sent == Sent(frame, s)
           received == Received(frame, r)
           month == t.ts - ThirtyDays
           week == t.ts - SevenDays
           hist == Young(ledger.hist[s], month)
           inbound == Young(ledger.inbound[r], month)
           fresh == Young(ledger.fresh[s], week)
           window == PairWindow(t)
           Hist == After(frame, sent, month)
           Inbound == After(frame, received, month)
           Fresh == After(frame, Opening(frame, s), week)
           Window == After(frame, sent \cap received, week)
           x == RowOf(t)
           R == FeaturesOfTransfer(t)
           Q == FeaturesOfPast(frame, x)
<1>1. /\ s \in Senders /\ r \in Recipients /\ t.ts \in Nat
      /\ x.sender = s /\ x.recipient = r /\ x.ts = t.ts /\ x.amount = t.amount
  BY RowOfFields DEF Payments
<1>2. LastTime(frame) \in Nat /\ month \in Int /\ month >= LastTime(frame) - ThirtyDays
  BY <1>1, LastTimeNat
<1>3. /\ sent \in SUBSET DOMAIN frame /\ received \in SUBSET DOMAIN frame
      /\ sent \cap received \in SUBSET DOMAIN frame /\ Opening(frame, s) \in SUBSET DOMAIN frame
  BY DEF Sent, Received, Opening
<1>4. /\ Pruned(ledger.hist[s], frame, sent, EntryOf(frame))
      /\ Mirrors(ledger.fresh[s], Opening(frame, s), EntryOf(frame))
      /\ Pruned(ledger.inbound[r], frame, received, InboundOf(frame))
      /\ ledger.life[r] = LifeOf(frame, r)
      /\ Mirrors(ledger.pair[<<s, r>>], sent \cap received, EntryOf(frame))
  BY <1>1 DEF LedgerOf
<1>5. \A i \in DOMAIN frame :
         EntryOf(frame)[i].ts = frame[i].ts /\ InboundOf(frame)[i].ts = frame[i].ts
  BY DEF EntryOf, InboundOf
<1> HIDE DEF s, r, sent, received, month, week, x
<1>6. Mirrors(hist, Hist, EntryOf(frame))
  BY <1>2, <1>3, <1>4, <1>5, PrunedYoung
<1>7. Mirrors(inbound, Inbound, InboundOf(frame))
  BY <1>2, <1>3, <1>4, <1>5, PrunedYoung
<1>8. Mirrors(fresh, Fresh, EntryOf(frame))
  BY <1>3, <1>4, <1>5, YoungMirrors
<1>9. Mirrors(window, Window, EntryOf(frame))
  <2>1. window = Young(ledger.pair[<<s, r>>], week)
    BY DEF PairWindow, PairOf, s, r, week
  <2>. QED  BY <1>3, <1>4, <1>5, <2>1, YoungMirrors
<1>10. /\ Hist \in SUBSET DOMAIN frame /\ Inbound \in SUBSET DOMAIN frame
       /\ Fresh \in SUBSET DOMAIN frame /\ Window \in SUBSET DOMAIN frame
  BY <1>3 DEF After
<1>11. /\ sent = {i \in DOMAIN frame : frame[i].sender = x.sender}
       /\ received = {i \in DOMAIN frame : frame[i].recipient = x.recipient}
  BY <1>1 DEF Sent, Received, sent, received
<1>12. \A S : /\ {i \in S : frame[i].ts >= x.ts - ThirtyDays} = After(frame, S, month)
              /\ {i \in S : frame[i].ts >= x.ts - SevenDays} = After(frame, S, week)
  BY <1>1 DEF After, month, week
<1>13. \A S \in SUBSET DOMAIN frame :
          {i \in S : ~\E j \in 1 .. i - 1 : PairOf(frame[j]) = PairOf(frame[i])}
              = {i \in S : frame[i].first_time}
  BY DEF FirstsMarked
<1> HIDE DEF hist, inbound, fresh, window, Hist, Inbound, Fresh, Window
<1>14. R.amount_over_sender_avg = Q.amount_over_sender_avg
  <2>1. /\ Len(hist) = Cardinality(Hist)
        /\ hist = <<>> <=> Hist = {}
        /\ SumOf(hist) = SumFunction([i \in Hist |-> frame[i].amount])
    BY <1>6, <1>10, MirrorReads
  <2>2. R.amount_over_sender_avg =
            IF hist = <<>> THEN <<1, 1>> ELSE <<t.amount * Len(hist), SumOf(hist)>>
    BY DEF FeaturesOfTransfer, hist, s, month
  <2>3. Q.amount_over_sender_avg =
            IF Hist = {} THEN <<1, 1>>
            ELSE <<x.amount * Cardinality(Hist), SumFunction([i \in Hist |-> frame[i].amount])>>
    BY <1>11, <1>12 DEF FeaturesOfPast, Hist
  <2> HIDE DEF R, Q
  <2>4. CASE Hist = {}
    BY <2>1, <2>2, <2>3, <2>4
  <2>5. CASE Hist # {}
    BY <1>1, <2>1, <2>2, <2>3, <2>5
  <2>. QED  BY <2>4, <2>5
<1>15. R.is_first_time_recipient = Q.is_first_time_recipient
  <2>1. R.is_first_time_recipient = FirstTime(t)
    BY DEF FeaturesOfTransfer
  <2>2. Q.is_first_time_recipient = (sent \cap received = {})
    BY <1>11 DEF FeaturesOfPast
  <2>3. FirstTime(t) <=> sent \cap received = {}
    BY FirstTimeIs DEF sent, received, s, r
  <2>. QED  BY <2>1, <2>2, <2>3 DEF FirstTime
<1>16. R.sender_transfer_count_30d = Q.sender_transfer_count_30d
  <2>1. R.sender_transfer_count_30d = Len(hist)
    BY DEF FeaturesOfTransfer, hist, s, month
  <2>2. Q.sender_transfer_count_30d = Cardinality(Hist)
    BY <1>11, <1>12 DEF FeaturesOfPast, Hist
  <2>. QED  BY <1>6, <2>1, <2>2, MirrorFacts
<1>17. R.sender_new_recipients_7d = Q.sender_new_recipients_7d
  <2>1. R.sender_new_recipients_7d = Len(fresh)
    BY DEF FeaturesOfTransfer, fresh, s, week
  <2>2. {i \in sent : ~\E j \in 1 .. i - 1 : PairOf(frame[j]) = PairOf(frame[i])}
            = Opening(frame, s)
    BY <1>3, <1>13 DEF Opening, sent
  <2>3. Q.sender_new_recipients_7d = Cardinality(Fresh)
    BY <1>11, <1>12, <2>2 DEF FeaturesOfPast, Fresh
  <2>. QED  BY <1>8, <2>1, <2>3, MirrorFacts
<1>18. /\ R.recipient_inbound_30d = Q.recipient_inbound_30d
       /\ R.recipient_inbound_30d = Len(inbound) /\ Len(inbound) = Cardinality(Inbound)
  <2>1. R.recipient_inbound_30d = Len(inbound)
    BY DEF FeaturesOfTransfer, inbound, r, month
  <2>2. Q.recipient_inbound_30d = Cardinality(Inbound)
    BY <1>11, <1>12 DEF FeaturesOfPast, Inbound
  <2>. QED  BY <1>7, <2>1, <2>2, MirrorFacts
<1>19. R.recipient_unique_senders_30d = Q.recipient_unique_senders_30d
  <2>1. R.recipient_unique_senders_30d = Cardinality({y.sender : y \in ToSet(inbound)})
    BY DEF FeaturesOfTransfer, inbound, r, month
  <2>2. Q.recipient_unique_senders_30d = Cardinality({frame[i].sender : i \in Inbound})
    BY <1>11, <1>12 DEF FeaturesOfPast, Inbound
  <2>3. {y.sender : y \in ToSet(inbound)} = {frame[i].sender : i \in Inbound}
    <3>1. /\ \A j \in DOMAIN inbound : \E i \in Inbound : inbound[j] = InboundOf(frame)[i]
          /\ \A i \in Inbound : \E j \in DOMAIN inbound : inbound[j] = InboundOf(frame)[i]
      BY <1>7, MirrorValues
    <3>2. \A i \in Inbound : InboundOf(frame)[i].sender = frame[i].sender
      BY <1>10 DEF InboundOf
    <3>3. ToSet(inbound) = {inbound[j] : j \in DOMAIN inbound}
      BY DEF ToSet
    <3>. QED  BY <3>1, <3>2, <3>3
  <2>. QED  BY <2>1, <2>2, <2>3
<1>20. R.recipient_first_time_sender_ratio = Q.recipient_first_time_sender_ratio
  <2> DEFINE places == {j \in DOMAIN inbound : inbound[j].first_time}
             part == {i \in received : frame[i].first_time} \cap Inbound
  <2>1. R.recipient_first_time_sender_ratio = <<Cardinality(places), Len(inbound)>>
    BY DEF FeaturesOfTransfer, inbound, r, month
  <2>2. {i \in received : ~\E j \in 1 .. i - 1 : PairOf(frame[j]) = PairOf(frame[i])}
            = {i \in received : frame[i].first_time}
    BY <1>3, <1>13
  <2>3. Q.recipient_first_time_sender_ratio = <<Cardinality(part), Cardinality(Inbound)>>
    BY <1>11, <1>12, <2>2 DEF FeaturesOfPast, Inbound
  <2>4. \A i \in Inbound : InboundOf(frame)[i].first_time = frame[i].first_time /\ i \in received
    BY <1>10 DEF InboundOf, Inbound, After
  <2>5. places \in SUBSET DOMAIN inbound /\ part \in SUBSET Inbound
    OBVIOUS
  <2>6. \A j \in DOMAIN inbound : \A i \in Inbound :
            inbound[j] = InboundOf(frame)[i] => (j \in places <=> i \in part)
    BY <2>4
  <2> HIDE DEF places, part
  <2>7. Cardinality(places) = Cardinality(part)
    BY <1>7, <2>5, <2>6, MirrorPartCount
  <2>. QED  BY <1>18, <2>1, <2>3, <2>7
<1>21. /\ R.pair_cum_amount_7d = Q.pair_cum_amount_7d
       /\ R.pair_txn_count_7d = Q.pair_txn_count_7d
  <2>1. R.pair_cum_amount_7d = SumOf(window) /\ R.pair_txn_count_7d = Len(window)
    BY DEF FeaturesOfTransfer, window
  <2>2. /\ Q.pair_cum_amount_7d = SumFunction([i \in Window |-> frame[i].amount])
        /\ Q.pair_txn_count_7d = Cardinality(Window)
    BY <1>11, <1>12 DEF FeaturesOfPast, Window
  <2>. QED  BY <1>9, <1>10, <2>1, <2>2, MirrorReads
<1>22. R.recipient_inbound_accel = Q.recipient_inbound_accel
  <2>1. R.recipient_inbound_accel =
            <<Len(inbound) * LifeDays(t), (ThirtyDays \div OneDay) * Max({ledger.life[r].n, 1})>>
    BY DEF FeaturesOfTransfer, Acceleration, inbound, r, month
  <2>2. Q.recipient_inbound_accel =
            <<Cardinality(Inbound) * (IF received = {} THEN 1
                  ELSE Max({(x.ts - frame[Min(received)].ts) \div OneDay, 1})),
              (ThirtyDays \div OneDay) * Max({Cardinality(received), 1})>>
    BY <1>11, <1>12 DEF FeaturesOfPast, Inbound
  <2>3. /\ ledger.life[r].n = Cardinality(received)
        /\ ledger.life[r].first = IF received = {} THEN NoTransfer ELSE frame[Min(received)].ts
    BY <1>4 DEF LifeOf, received
  <2>4. received # {} => frame[Min(received)].ts # NoTransfer
    BY ReceivedFacts DEF received
  <2>5. LifeDays(t) = IF received = {} THEN 1
                      ELSE Max({(x.ts - frame[Min(received)].ts) \div OneDay, 1})
    BY <1>1, <2>3, <2>4 DEF LifeDays, r
  <2>. QED  BY <1>18, <2>1, <2>2, <2>3, <2>5
<1>23. /\ R = [amount_over_sender_avg |-> R.amount_over_sender_avg,
               is_first_time_recipient |-> R.is_first_time_recipient,
               sender_transfer_count_30d |-> R.sender_transfer_count_30d,
               sender_new_recipients_7d |-> R.sender_new_recipients_7d,
               recipient_inbound_30d |-> R.recipient_inbound_30d,
               recipient_unique_senders_30d |-> R.recipient_unique_senders_30d,
               recipient_first_time_sender_ratio |-> R.recipient_first_time_sender_ratio,
               pair_cum_amount_7d |-> R.pair_cum_amount_7d,
               pair_txn_count_7d |-> R.pair_txn_count_7d,
               recipient_inbound_accel |-> R.recipient_inbound_accel]
       /\ Q = [amount_over_sender_avg |-> Q.amount_over_sender_avg,
               is_first_time_recipient |-> Q.is_first_time_recipient,
               sender_transfer_count_30d |-> Q.sender_transfer_count_30d,
               sender_new_recipients_7d |-> Q.sender_new_recipients_7d,
               recipient_inbound_30d |-> Q.recipient_inbound_30d,
               recipient_unique_senders_30d |-> Q.recipient_unique_senders_30d,
               recipient_first_time_sender_ratio |-> Q.recipient_first_time_sender_ratio,
               pair_cum_amount_7d |-> Q.pair_cum_amount_7d,
               pair_txn_count_7d |-> Q.pair_txn_count_7d,
               recipient_inbound_accel |-> Q.recipient_inbound_accel]
  BY DEF FeaturesOfTransfer, FeaturesOfPast
<1> HIDE DEF R, Q
<1>24. R = Q
  BY <1>14, <1>15, <1>16, <1>17, <1>18, <1>19, <1>20, <1>21, <1>22, <1>23
<1>. QED  BY <1>24 DEF R, Q, x

-----------------------------------------------------------------------------
(* The steps of the P2P frame.                                             *)
LEMMA FrontAndLast ==
    ASSUME NEW F \in Seq(Rows), NEW x \in Rows
    PROVE  /\ Append(F, x) # <<>> /\ Front(Append(F, x)) = F /\ Last(Append(F, x)) = x
BY DEF Front, Last

LEMMA LatestIs == Latest = LastTime(frame)
BY DEF Latest, LastTime, Last

LEMMA TransferInitInv == TransferInit => TransferInv
<1> SUFFICES ASSUME TransferInit PROVE TransferInv
  OBVIOUS
<1>1. frame = <<>> /\ due = {} /\ ledger = EmptyLedger /\ scams = 0
  BY DEF TransferInit
<1>2. DOMAIN frame = {} /\ frame \in Seq(Rows)
  BY <1>1
<1>3. FrameInv
  BY <1>1, <1>2 DEF FrameInv, InOrder, FirstsMarked
<1>4. \A s, r : /\ Sent(frame, s) = {} /\ Received(frame, r) = {} /\ Opening(frame, s) = {}
                /\ Sent(frame, s) \cap Received(frame, r) = {}
  BY <1>2 DEF Sent, Received, Opening
<1>5. \A e : Pruned(<<>>, frame, {}, e) /\ Mirrors(<<>>, {}, e)
  BY MirrorEmpty DEF Pruned, After
<1>6. \A r : LifeOf(frame, r) = [n |-> 0, first |-> NoTransfer]
  BY <1>4, FS_EmptySet DEF LifeOf
<1>7. LedgerShape(ledger)
  BY <1>1 DEF LedgerShape, EmptyLedger
<1>8. /\ \A s \in Senders : /\ ledger.hist[s] = <<>> /\ ledger.fresh[s] = <<>>
                            /\ ledger.recips[s] = {}
      /\ \A r \in Recipients : /\ ledger.inbound[r] = <<>>
                               /\ ledger.life[r] = [n |-> 0, first |-> NoTransfer]
      /\ \A s \in Senders, r \in Recipients : ledger.pair[<<s, r>>] = <<>>
  BY <1>1 DEF EmptyLedger
<1>9. \A s \in Senders : ledger.recips[s] = {frame[i].recipient : i \in Sent(frame, s)}
  BY <1>4, <1>8
<1>10. LedgerOf(ledger, frame)
  <2>1. ASSUME NEW s \in Senders
        PROVE  /\ Pruned(ledger.hist[s], frame, Sent(frame, s), EntryOf(frame))
               /\ Mirrors(ledger.fresh[s], Opening(frame, s), EntryOf(frame))
    <3>1. ledger.hist[s] = <<>> /\ ledger.fresh[s] = <<>>
      BY <1>8
    <3>. QED  BY <1>4, <1>5, <3>1
  <2>2. ASSUME NEW r \in Recipients
        PROVE  /\ Pruned(ledger.inbound[r], frame, Received(frame, r), InboundOf(frame))
               /\ ledger.life[r] = LifeOf(frame, r)
    <3>1. ledger.inbound[r] = <<>> /\ ledger.life[r] = [n |-> 0, first |-> NoTransfer]
      BY <1>8
    <3>. QED  BY <1>4, <1>5, <1>6, <3>1
  <2>3. ASSUME NEW s \in Senders, NEW r \in Recipients
        PROVE  Mirrors(ledger.pair[<<s, r>>], Sent(frame, s) \cap Received(frame, r), EntryOf(frame))
    <3>1. ledger.pair[<<s, r>>] = <<>>
      BY <1>8
    <3>. QED  BY <1>4, <1>5, <3>1
  <2>. QED  BY <1>7, <1>9, <2>1, <2>2, <2>3 DEF LedgerOf
<1>11. TransferRowIsOfHistory
  BY <1>1 DEF TransferRowIsOfHistory
<1> HIDE DEF TransferInit
<1>. QED  BY <1>3, <1>10, <1>11 DEF TransferInv

(* What a planned payment is.                                              *)
LEMMA PlannedTimes ==
    ASSUME NEW ts \in Moments, NEW n \in 1 .. MaxInstallments
    PROVE  /\ \A times \in Evasive(ts, n) :
                 /\ DOMAIN times = 0 .. n - 1
                 /\ \A k \in 0 .. n - 1 : \E o \in 0 .. Spread : times[k] = ts + k * OneDay + o
           /\ \A times \in Blatant(ts, n) :
                 DOMAIN times = 0 .. n - 1 /\ \A k \in 0 .. n - 1 : times[k] \in Nat
<1>1. ts \in Nat /\ n \in Nat
  OBVIOUS
<1>2. ASSUME NEW times \in Evasive(ts, n)
      PROVE  /\ DOMAIN times = 0 .. n - 1
             /\ \A k \in 0 .. n - 1 : \E o \in 0 .. Spread : times[k] = ts + k * OneDay + o
  <2>1. PICK offset \in [0 .. n - 1 -> 0 .. Spread] :
            times = [k \in 0 .. n - 1 |-> ts + k * OneDay + offset[k]]
    BY DEF Evasive
  <2>2. \A k \in 0 .. n - 1 : offset[k] \in 0 .. Spread /\ times[k] = ts + k * OneDay + offset[k]
    BY <2>1
  <2>. QED  BY <2>1, <2>2
<1>3. ASSUME NEW times \in Blatant(ts, n)
      PROVE  DOMAIN times = 0 .. n - 1 /\ \A k \in 0 .. n - 1 : times[k] \in Nat
  <2>1. PICK step \in [0 .. n - 1 -> BlatantSteps] :
            times = [k \in 0 .. n - 1 |-> ts + k * step[k]]
    BY DEF Blatant
  <2>2. ASSUME NEW k \in 0 .. n - 1 PROVE ts + k * step[k] \in Nat
    <3>1. step[k] \in BlatantSteps /\ k \in Nat
      BY <1>1
    <3>0. BlatantSteps \subseteq Nat
      OBVIOUS
    <3>2. step[k] \in Nat
      BY <3>0, <3>1
    <3>3. k * step[k] \in Nat
      BY <3>1, <3>2
    <3>. QED  BY <1>1, <3>3
  <2>. QED  BY <2>1, <2>2
<1>. QED  BY <1>2, <1>3

LEMMA PlannedPayments ==
    ASSUME NEW victim \in Senders, NEW mule \in Recipients, NEW n \in Nat,
           NEW amounts \in [0 .. n - 1 -> Sums], NEW scam \in Nat,
           NEW times, DOMAIN times = 0 .. n - 1, \A k \in 0 .. n - 1 : times[k] \in Nat,
           NEW variant \in Variants
    PROVE  {[sender |-> victim, recipient |-> mule, ts |-> times[k], amount |-> amounts[k],
             label |-> "p2p_app_scam", variant |-> variant, scam |-> scam, k |-> k] :
                k \in DOMAIN times} \subseteq Payments
<1>1. \A k \in 0 .. n - 1 : amounts[k] \in Nat /\ k \in Nat
  <2> TAKE k \in 0 .. n - 1
  <2>1. amounts[k] \in Sums /\ Sums \subseteq Nat
    OBVIOUS
  <2>2. k \in Nat
    OBVIOUS
  <2>. QED  BY <2>1, <2>2
<1>. QED  BY <1>1 DEF Payments, Labels

LEMMA EvasiveNat ==
    ASSUME NEW ts \in Moments, NEW n \in 1 .. MaxInstallments, NEW times \in Evasive(ts, n)
    PROVE  \A k \in 0 .. n - 1 : times[k] \in Nat
<1>0. \A k \in 0 .. n - 1 : \E o \in 0 .. Spread : times[k] = ts + k * OneDay + o
  BY PlannedTimes
<1> TAKE k \in 0 .. n - 1
<1>1. PICK o \in 0 .. Spread : times[k] = ts + k * OneDay + o
  BY <1>0
<1>2. n \in Nat /\ OneDay \in Nat /\ Spread \in Nat /\ Moments \subseteq Nat
  OBVIOUS
<1>3. k \in Nat /\ o \in Nat /\ ts \in Nat
  BY <1>2
<1>4. k * OneDay \in Nat
  BY <1>2, <1>3
<1>. QED  BY <1>1, <1>3, <1>4

LEMMA PlanKeeps ==
    ASSUME TransferInv, NEW victim \in Senders, NEW mule \in Recipients, NEW n \in Nat,
           NEW amounts \in [0 .. n - 1 -> Sums],
           NEW times, DOMAIN times = 0 .. n - 1, \A k \in 0 .. n - 1 : times[k] \in Nat,
           NEW variant \in Variants, Plan(victim, mule, amounts, times, variant)
    PROVE  TransferInv'
<1>1. frame = <<>> /\ UNCHANGED <<ledger, frame, row>>
  BY DEF Plan, Planning
<1>2. due' \subseteq Payments /\ scams' \in Nat
  <2>1. due \subseteq Payments /\ scams \in Nat /\ scams + 1 \in Nat
    BY DEF TransferInv, FrameInv
  <2>2. PICK number \in Nat : number = scams + 1
    BY <2>1
  <2> DEFINE planned ==
        {[sender |-> victim, recipient |-> mule, ts |-> times[k], amount |-> amounts[k],
          label |-> "p2p_app_scam", variant |-> variant, scam |-> number, k |-> k] :
             k \in DOMAIN times}
  <2>3. planned \subseteq Payments
    BY PlannedPayments
  <2>4. due' = due \cup planned /\ scams' = scams + 1
    BY <2>2 DEF Plan
  <2> HIDE DEF planned
  <2>. QED  BY <2>1, <2>3, <2>4
<1>3. \A d \in due' : d.ts >= LastTime(frame)
  BY <1>1, <1>2 DEF LastTime, Payments
<1>4. FrameInv'
  BY <1>1, <1>2, <1>3 DEF TransferInv, FrameInv
<1>. QED  BY <1>1, <1>4 DEF TransferInv, TransferRowIsOfHistory

LEMMA TakeKeeps ==
    ASSUME TransferInv, NEW t \in Payments, t.ts >= LastTime(frame), NoneEarlier(t.ts),
           Take(t), due' \subseteq due
    PROVE  TransferInv'
<1>1. /\ frame \in Seq(Rows) /\ InOrder(frame) /\ FirstsMarked(frame) /\ due \subseteq Payments
      /\ LedgerOf(ledger, frame)
  BY DEF TransferInv, FrameInv
<1>2. /\ frame' = Append(frame, RowOf(t)) /\ ledger' = Ledger(t) /\ row' = FeaturesOfTransfer(t)
  BY DEF Take
<1>3. RowOf(t) \in Rows /\ RowOf(t).ts = t.ts
  BY RowOfFields
<1>4. frame' \in Seq(Rows) /\ LastTime(frame') = t.ts
  BY <1>1, <1>2, <1>3, Joined
<1>5. InOrder(frame')
  BY <1>1, <1>2, <1>3, OrderStep
<1>6. FirstsMarked(frame')
  BY <1>1, <1>2, FirstsStep
<1>7. LedgerOf(ledger', frame')
  BY <1>1, <1>2, LedgerStep
<1>8. \A d \in due' : d.ts >= LastTime(frame')
  <2> SUFFICES ASSUME NEW d \in due' PROVE d.ts >= t.ts
    BY <1>4
  <2>1. d \in due /\ t.ts <= d.ts
    BY DEF NoneEarlier
  <2>2. d.ts \in Nat /\ t.ts \in Nat
    BY <1>1, <2>1 DEF Payments
  <2>. QED  BY <2>1, <2>2
<1>9. FrameInv'
  <2>1. scams' \in Nat
    BY DEF Take, TransferInv, FrameInv
  <2>. QED  BY <1>1, <1>4, <1>5, <1>6, <1>8, <2>1 DEF FrameInv
<1>10. row' = FeaturesOfPast(Front(frame'), Last(frame'))
  <2>1. row' = FeaturesOfPast(frame, RowOf(t))
    BY <1>1, <1>2, RowIsOfPast
  <2>2. Front(frame') = frame /\ Last(frame') = RowOf(t)
    BY <1>1, <1>2, <1>3, FrontAndLast
  <2>. QED  BY <2>1, <2>2
<1>11. TransferRowIsOfHistory'
  BY <1>10 DEF TransferRowIsOfHistory
<1>. QED  BY <1>7, <1>9, <1>11 DEF TransferInv

(* What TransferNext may do to the frame: plan, take a due payment, take   *)
(* another one, or leave it.                                               *)
LEMMA TransferSteps ==
    ASSUME TransferInv, [TransferNext]_transferVars
    PROVE  \/ \E victim \in Senders, mule \in Recipients, ts \in Moments,
                 n \in 1 .. MaxInstallments : \E amounts \in [0 .. n - 1 -> Sums] :
                 \/ \E times \in Evasive(ts, n) : Plan(victim, mule, amounts, times, "app_evasive")
                 \/ \E times \in Blatant(ts, n) : Plan(victim, mule, amounts, times, "app_blatant")
           \/ \E t \in due : NoneEarlier(t.ts) /\ Take(t) /\ due' = due \ {t} /\ t \in Payments
                             /\ t.ts >= LastTime(frame)
           \/ \E t \in Payments : /\ NoneEarlier(t.ts) /\ Take(t) /\ due' = due
                                  /\ t.variant = "none" /\ t.ts >= LastTime(frame)
           \/ \E i \in DOMAIN frame : \E alerted \in SUBSET DOMAIN frame :
                 ApplyFriction(DayOf(i), alerted)
           \/ UNCHANGED transferVars
<1>1. CASE \E victim \in Senders, mule \in Recipients, ts \in Moments,
              n \in 1 .. MaxInstallments : \E amounts \in [0 .. n - 1 -> Sums] :
              \/ \E times \in Evasive(ts, n) : Plan(victim, mule, amounts, times, "app_evasive")
              \/ \E times \in Blatant(ts, n) : Plan(victim, mule, amounts, times, "app_blatant")
  BY <1>1
<1>2. CASE TakeDue
  BY <1>2 DEF TakeDue, TransferInv, FrameInv
<1>3. ASSUME NEW sender \in Senders, NEW recipient \in Recipients, NEW ts \in Moments,
             NEW amount \in Sums, NEW label \in Labels,
             TakeOther(sender, recipient, ts, amount, label)
      PROVE  \E t \in Payments : /\ NoneEarlier(t.ts) /\ Take(t) /\ due' = due
                                 /\ t.variant = "none" /\ t.ts >= LastTime(frame)
  <2> DEFINE t == [sender |-> sender, recipient |-> recipient, ts |-> ts, amount |-> amount,
                   label |-> label, variant |-> "none", scam |-> 0, k |-> 0]
  <2>1. t \in Payments /\ t.variant = "none" /\ t.ts = ts
    BY DEF Payments, Variants
  <2>2. NoneEarlier(ts) /\ Take(t) /\ due' = due /\ ts >= Latest
    BY <1>3 DEF TakeOther
  <2> HIDE DEF t
  <2>. QED  BY <2>1, <2>2, LatestIs
<1>4. CASE \E sender \in Senders, recipient \in Recipients, ts \in Moments, amount \in Sums :
              \/ TakePayment(sender, recipient, ts, amount)
              \/ TakeTakeover(sender, recipient, ts, amount)
  <2>1. "legit" \in Labels /\ "p2p_ato_transfer" \in Labels
    BY DEF Labels
  <2>. QED  BY <1>3, <1>4, <2>1 DEF TakePayment, TakeTakeover
<1>5. CASE \E i \in DOMAIN frame : \E alerted \in SUBSET DOMAIN frame :
              ApplyFriction(DayOf(i), alerted)
  BY <1>5
<1>6. CASE ReportDone \/ UNCHANGED transferVars
  BY <1>6 DEF ReportDone
<1>. QED  BY <1>1, <1>2, <1>4, <1>5, <1>6 DEF TransferNext

(* In every reachable state the rows are in time order, each marked if it  *)
(* is the first of its pair, the dictionaries hold what the rows have put  *)
(* there and the pruning has spared, and the latest row's features are     *)
(* those of the rows before it.                                            *)
THEOREM TransferInvariant == TransferSpec => []TransferInv
<1>1. TransferInv /\ [TransferNext]_transferVars => TransferInv'
  <2> SUFFICES ASSUME TransferInv, [TransferNext]_transferVars PROVE TransferInv'
    OBVIOUS
  <2>1. ASSUME NEW victim \in Senders, NEW mule \in Recipients, NEW ts \in Moments,
               NEW n \in 1 .. MaxInstallments, NEW amounts \in [0 .. n - 1 -> Sums],
               NEW times \in Evasive(ts, n),
               Plan(victim, mule, amounts, times, "app_evasive")
        PROVE  TransferInv'
    <3>1. DOMAIN times = 0 .. n - 1 /\ \A k \in 0 .. n - 1 : times[k] \in Nat
      BY PlannedTimes, EvasiveNat
    <3>2. "app_evasive" \in Variants /\ n \in Nat
      BY DEF Variants
    <3>. QED  BY <2>1, <3>1, <3>2, PlanKeeps
  <2>2. ASSUME NEW victim \in Senders, NEW mule \in Recipients, NEW ts \in Moments,
               NEW n \in 1 .. MaxInstallments, NEW amounts \in [0 .. n - 1 -> Sums],
               NEW times \in Blatant(ts, n),
               Plan(victim, mule, amounts, times, "app_blatant")
        PROVE  TransferInv'
    <3>1. DOMAIN times = 0 .. n - 1 /\ \A k \in 0 .. n - 1 : times[k] \in Nat
      BY PlannedTimes
    <3>2. "app_blatant" \in Variants /\ n \in Nat
      BY DEF Variants
    <3>. QED  BY <2>2, <3>1, <3>2, PlanKeeps
  <2>3. ASSUME NEW t \in Payments, t.ts >= LastTime(frame), NoneEarlier(t.ts), Take(t), due' \subseteq due
        PROVE  TransferInv'
    BY <2>3, TakeKeeps
  <2>4. ASSUME NEW i \in DOMAIN frame, NEW alerted \in SUBSET DOMAIN frame,
               ApplyFriction(DayOf(i), alerted)
        PROVE  TransferInv'
    BY <2>4 DEF ApplyFriction, TransferInv, FrameInv, TransferRowIsOfHistory
  <2>5. CASE UNCHANGED transferVars
    BY <2>5 DEF transferVars, TransferInv, FrameInv, TransferRowIsOfHistory
  <2>. QED  BY <2>1, <2>2, <2>3, <2>4, <2>5, TransferSteps
<1>. QED  BY <1>1, TransferInitInv, PTL DEF TransferSpec

(* For any frame: every feature of a row is the function of the rows       *)
(* before it that FeaturesOfPast states, whatever was pruned in passing.   *)
THEOREM TransferRowsAreOfHistory == TransferSpec => []TransferRowIsOfHistory
<1>1. TransferInv => TransferRowIsOfHistory
  BY DEF TransferInv
<1>. QED  BY <1>1, TransferInvariant, PTL

-----------------------------------------------------------------------------
(* No acceleration without a past of more than thirty days.                *)
LEMMA MaxOfTwo ==
    ASSUME NEW a \in Int, NEW b \in Int
    PROVE  Max({a, b}) = IF a >= b THEN a ELSE b
<1>1. \E m \in {a, b} : \A y \in {a, b} : m >= y
  OBVIOUS
<1>2. Max({a, b}) \in {a, b} /\ \A y \in {a, b} : Max({a, b}) >= y
  BY <1>1 DEF Max
<1>. QED  BY <1>2

LEMMA TimesMonotone ==
    ASSUME NEW a \in Int, NEW b \in Int, NEW c \in Nat, a <= b
    PROVE  c * a <= c * b
<1>1. b - a \in Nat
  OBVIOUS
<1>2. c * (b - a) \in Nat
  BY <1>1
<1>3. c * (b - a) = c * b - c * a
  OBVIOUS
<1>. QED  BY <1>2, <1>3

LEMMA DivMonotone ==
    ASSUME NEW a \in Int, NEW b \in Int, NEW c \in Nat \ {0}, a <= b
    PROVE  a \div c \in Int /\ b \div c \in Int /\ a \div c <= b \div c
<1>1. a \div c \in Int /\ b \div c \in Int
  OBVIOUS
<1>2. c * (a \div c) <= a /\ b < c * (b \div c) + c
  OBVIOUS
<1>3. SUFFICES ASSUME a \div c >= (b \div c) + 1 PROVE FALSE
  BY <1>1
<1>4. c * ((b \div c) + 1) <= c * (a \div c)
  BY <1>1, <1>3, TimesMonotone
<1>5. c * ((b \div c) + 1) = c * (b \div c) + c
  BY <1>1
<1>. QED  BY <1>1, <1>2, <1>4, <1>5

LEMMA FrontIs ==
    ASSUME NEW G \in Seq(Rows), G # <<>>
    PROVE  /\ Front(G) \in Seq(Rows) /\ Last(G) \in Rows /\ Len(G) \in DOMAIN G
           /\ DOMAIN Front(G) = 1 .. Len(G) - 1 /\ Last(G) = G[Len(G)]
           /\ \A i \in 1 .. Len(G) - 1 : i \in DOMAIN G /\ Front(G)[i] = G[i]
<1>1. /\ Len(G) \in Nat \ {0} /\ DOMAIN G = 1 .. Len(G) /\ Len(G) \in DOMAIN G
      /\ \A i \in DOMAIN G : G[i] \in Rows
  OBVIOUS
<1>2. Front(G) \in Seq(Rows) /\ Len(Front(G)) = Len(G) - 1
  BY <1>1 DEF Front
<1>3. \A i \in 1 .. Len(G) - 1 : i \in DOMAIN G /\ Front(G)[i] = G[i]
  BY <1>1 DEF Front
<1>. QED  BY <1>1, <1>2, <1>3 DEF Last

LEMMA OneDayOfThirty == ThirtyDays \div OneDay \in Nat /\ ThirtyDays \div OneDay >= 1
<1>1. OneDay \div OneDay = 1
  OBVIOUS
<1>2. OneDay \in Int /\ ThirtyDays \in Int /\ OneDay \in Nat \ {0} /\ OneDay <= ThirtyDays
  OBVIOUS
<1>3. OneDay \div OneDay <= ThirtyDays \div OneDay /\ ThirtyDays \div OneDay \in Int
  BY <1>2, DivMonotone
<1>. QED  BY <1>1, <1>3

LEMMA SurgeOfPast ==
    ASSUME NEW F \in Seq(Rows), NEW x \in Rows,
           \A i \in DOMAIN F : ~(F[i].recipient = x.recipient /\ F[i].ts < x.ts - ThirtyDays)
    PROVE  ~(FeaturesOfPast(F, x).recipient_inbound_accel[1]
                 > FeaturesOfPast(F, x).recipient_inbound_accel[2])
<1> DEFINE received == Received(F, x.recipient)
           inbound == {i \in received : F[i].ts >= x.ts - ThirtyDays}
           lifeDays == IF received = {} THEN 1
                       ELSE Max({(x.ts - F[Min(received)].ts) \div OneDay, 1})
           month == ThirtyDays \div OneDay
           c == Cardinality(received)
<1>1. FeaturesOfPast(F, x).recipient_inbound_accel =
          <<Cardinality(inbound) * lifeDays, month * Max({c, 1})>>
  BY DEF FeaturesOfPast, Received
<1>2. x.ts \in Nat /\ \A i \in DOMAIN F : F[i].ts \in Nat
  BY RowFields DEF Rows
<1>3. inbound = received
  BY <1>2 DEF Received
<1>4. /\ c \in Nat /\ IsFiniteSet(received)
      /\ received # {} => /\ Min(received) \in DOMAIN F /\ F[Min(received)].recipient = x.recipient
                          /\ F[Min(received)].ts \in Nat
  <2>1. /\ c \in Nat /\ IsFiniteSet(received)
        /\ received # {} => Min(received) \in received /\ F[Min(received)].ts \in Nat
    BY ReceivedFacts
  <2>2. \A i \in received : i \in DOMAIN F /\ F[i].recipient = x.recipient
    BY DEF Received
  <2> HIDE DEF received, c
  <2>. QED  BY <2>1, <2>2
<1>5. received = {} <=> c = 0
  BY <1>4, FS_EmptySet
<1>6. month \in Nat /\ month >= 1
  BY OneDayOfThirty
<1>7. lifeDays \in Int /\ lifeDays <= month
  <2>1. CASE received = {}
    BY <1>6, <2>1
  <2>2. CASE received # {}
    <3> DEFINE age == x.ts - F[Min(received)].ts
    <3>1. age \in Int /\ ThirtyDays \in Int /\ age <= ThirtyDays /\ OneDay \in Nat \ {0}
      BY <1>2, <1>4, <2>2
    <3> HIDE DEF age
    <3>2. age \div OneDay \in Int /\ age \div OneDay <= month
      BY <3>1, DivMonotone
    <3>3. Max({age \div OneDay, 1}) = IF age \div OneDay >= 1 THEN age \div OneDay ELSE 1
      BY <3>2, MaxOfTwo
    <3>4. lifeDays = Max({age \div OneDay, 1})
      BY <2>2 DEF age
    <3>. QED  BY <1>6, <3>2, <3>3, <3>4
  <2>. QED  BY <2>1, <2>2
<1>8. Max({c, 1}) = IF c >= 1 THEN c ELSE 1
  BY <1>4, MaxOfTwo
<1> HIDE DEF c, month, lifeDays, inbound, received
<1>9. c * lifeDays <= c * month /\ c * month = month * c /\ c * month \in Nat
  BY <1>4, <1>6, <1>7, TimesMonotone
<1>10. c * lifeDays <= month * Max({c, 1})
  <2>1. CASE c >= 1
    BY <1>4, <1>8, <1>9, <2>1
  <2>2. CASE c = 0
    <3>1. c * lifeDays = 0 /\ month * Max({c, 1}) = month
      BY <1>6, <1>7, <1>8, <2>2
    <3>. QED  BY <1>6, <3>1
  <2>. QED  BY <1>4, <2>1, <2>2
<1>11. Cardinality(inbound) * lifeDays = c * lifeDays
  BY <1>3 DEF c
<1>12. c * lifeDays \in Int /\ month * Max({c, 1}) \in Int
  BY <1>4, <1>6, <1>7, <1>8
<1>. QED  BY <1>1, <1>10, <1>11, <1>12

LEMMA SurgeOfInv == TransferInv => SurgeNeedsHistory
<1> SUFFICES ASSUME TransferInv, frame # <<>>,
                    row.recipient_inbound_accel[1] > row.recipient_inbound_accel[2],
                    ~\E i \in 1 .. Len(frame) - 1 :
                         /\ frame[i].recipient = Last(frame).recipient
                         /\ frame[i].ts < Last(frame).ts - ThirtyDays
             PROVE  FALSE
  BY DEF SurgeNeedsHistory
<1>1. frame \in Seq(Rows) /\ row = FeaturesOfPast(Front(frame), Last(frame))
  BY DEF TransferInv, FrameInv, TransferRowIsOfHistory
<1> DEFINE F == Front(frame)
           x == Last(frame)
<1>2. F \in Seq(Rows) /\ x \in Rows /\ DOMAIN F = 1 .. Len(frame) - 1
      /\ \A i \in 1 .. Len(frame) - 1 : F[i] = frame[i]
  BY <1>1, FrontIs
<1>3. \A i \in DOMAIN F : ~(F[i].recipient = x.recipient /\ F[i].ts < x.ts - ThirtyDays)
  BY <1>2
<1> HIDE DEF F, x
<1>4. ~(FeaturesOfPast(F, x).recipient_inbound_accel[1]
            > FeaturesOfPast(F, x).recipient_inbound_accel[2])
  BY <1>2, <1>3, SurgeOfPast
<1>. QED  BY <1>1, <1>4 DEF F, x

(* Nobody whose first inbound transfer is within the thirty days looks     *)
(* accelerated, for any number of transfers and any times.                 *)
THEOREM SurgesNeedHistory == TransferSpec => []SurgeNeedsHistory
BY SurgeOfInv, TransferInvariant, PTL
-----------------------------------------------------------------------------
(* Installments: the payments of a coached scam, in the frame or to come,  *)
(* are numbered without a gap, in time order, and less than seven days     *)
(* apart.                                                                  *)
Known == due \cup {frame[i] : i \in DOMAIN frame}

Coaching(d) == d.variant = "app_evasive"
Elder(e, d) == e.scam = d.scam /\ Coaching(e) /\ e.k < d.k
Near(e, d) ==
    /\ e.sender = d.sender /\ e.recipient = d.recipient
    /\ e.ts < d.ts /\ d.ts - e.ts <= SevenDays

Same(e, d) == Coaching(e) /\ Coaching(d) /\ e.scam = d.scam /\ e.k = d.k

Numbered == \A d \in Known : Coaching(d) => d.scam <= scams
NoGap ==
    \A d \in Known : Coaching(d) =>
        \A j \in 0 .. d.k - 1 : \E e \in Known : Elder(e, d) /\ e.k = j
Apart == \A d, e \in Known : Coaching(d) /\ Elder(e, d) => Near(e, d)
OnceDue == \A d, e \in due : Same(e, d) => e = d
OnceRow ==
    \A i \in DOMAIN frame :
        /\ \A d \in due : ~Same(frame[i], d)
        /\ \A m \in DOMAIN frame : Same(frame[i], frame[m]) => i = m
Coached == Numbered /\ NoGap /\ Apart /\ OnceDue /\ OnceRow

(* Installments are a day apart, give or take the hours of a day.          *)
LEMMA InstallmentGap ==
    ASSUME NEW ts \in Nat, NEW n \in 1 .. MaxInstallments, NEW k \in 0 .. n - 1,
           NEW j \in 0 .. k - 1, NEW o \in 0 .. Spread, NEW p \in 0 .. Spread
    PROVE  LET later == ts + k * OneDay + o
               earlier == ts + j * OneDay + p
           IN  earlier < later /\ later - earlier <= SevenDays
<1>1. /\ n \in Nat /\ k \in Nat /\ j \in Nat /\ o \in Nat /\ p \in Nat /\ OneDay \in Nat
      /\ MaxInstallments \in Nat /\ Spread \in Nat /\ Spread < OneDay /\ SevenDays \in Nat
  OBVIOUS
<1>2. k - j \in Nat /\ k - j >= 1 /\ k - j <= MaxInstallments - 1 /\ o <= Spread /\ p <= Spread
  BY <1>1
<1>3. OneDay * 1 <= OneDay * (k - j) /\ OneDay * (k - j) <= OneDay * (MaxInstallments - 1)
  <2>1. k - j \in Int /\ MaxInstallments - 1 \in Int /\ 1 \in Int
    BY <1>1, <1>2
  <2>2. OneDay * 1 <= OneDay * (k - j)
    BY <1>1, <1>2, <2>1, TimesMonotone
  <2>3. OneDay * (k - j) <= OneDay * (MaxInstallments - 1)
    BY <1>1, <1>2, <2>1, TimesMonotone
  <2>. QED  BY <2>2, <2>3
<1>4. OneDay * (k - j) = k * OneDay - j * OneDay /\ k * OneDay \in Nat /\ j * OneDay \in Nat
  BY <1>1
<1>5. (MaxInstallments - 1) * OneDay + Spread <= SevenDays
  BY CoachingAssumption
<1>6. OneDay * (MaxInstallments - 1) = (MaxInstallments - 1) * OneDay /\ OneDay * 1 = OneDay
  BY <1>1
<1> DEFINE K == k * OneDay
           J == j * OneDay
           M == (MaxInstallments - 1) * OneDay
<1>7. /\ K \in Nat /\ J \in Nat /\ M \in Int
      /\ OneDay <= K - J /\ K - J <= M /\ M + Spread <= SevenDays
  BY <1>1, <1>3, <1>4, <1>5, <1>6
<1> HIDE DEF K, J, M
<1>8. ts + J + p < ts + K + o /\ (ts + K + o) - (ts + J + p) <= SevenDays
  BY <1>1, <1>2, <1>7
<1>. QED  BY <1>8 DEF K, J

LEMMA CoachedPlan ==
    ASSUME TransferInv, Coached, NEW victim \in Senders, NEW mule \in Recipients,
           NEW ts \in Moments, NEW n \in 1 .. MaxInstallments,
           NEW amounts \in [0 .. n - 1 -> Sums], NEW times \in Evasive(ts, n),
           Plan(victim, mule, amounts, times, "app_evasive")
    PROVE  Coached'
<1> DEFINE payment(k) == [sender |-> victim, recipient |-> mule, ts |-> times[k],
                          amount |-> amounts[k], label |-> "p2p_app_scam",
                          variant |-> "app_evasive", scam |-> scams + 1, k |-> k]
<1>1. DOMAIN times = 0 .. n - 1 /\ n \in Nat /\ ts \in Nat
  BY PlannedTimes
<1>2. /\ frame = <<>> /\ frame' = frame /\ scams' = scams + 1 /\ scams \in Nat
      /\ due' = due \cup {payment(k) : k \in 0 .. n - 1}
  BY <1>1 DEF Plan, Planning, TransferInv, FrameInv
<1>3. Known = due /\ Known' = due'
  BY <1>2 DEF Known
<1>4. \A k \in 0 .. n - 1 : \E o \in 0 .. Spread : times[k] = ts + k * OneDay + o
  BY PlannedTimes
<1>5. /\ \A k : payment(k).scam = scams + 1 /\ payment(k).k = k /\ Coaching(payment(k))
      /\ \A d \in due : Coaching(d) => d.scam # scams + 1
  <2>1. \A d \in due : Coaching(d) => d.scam <= scams /\ d.scam \in Nat
    BY <1>3 DEF Coached, Numbered, TransferInv, FrameInv, Payments
  <2>. QED  BY <1>2, <2>1 DEF Coaching
<1>6. ASSUME NEW k \in 0 .. n - 1, NEW j \in 0 .. k - 1
      PROVE  j \in 0 .. n - 1 /\ Near(payment(j), payment(k))
  <2>1. j \in 0 .. n - 1
    BY <1>1
  <2>2. PICK o \in 0 .. Spread : times[k] = ts + k * OneDay + o
    BY <1>4
  <2>3. PICK p \in 0 .. Spread : times[j] = ts + j * OneDay + p
    BY <1>4, <2>1
  <2>4. /\ ts + j * OneDay + p < ts + k * OneDay + o
        /\ (ts + k * OneDay + o) - (ts + j * OneDay + p) <= SevenDays
    BY <1>1, InstallmentGap
  <2>5. times[j] < times[k] /\ times[k] - times[j] <= SevenDays
    BY <2>2, <2>3, <2>4
  <2>. QED  BY <2>1, <2>5 DEF Near
<1> HIDE DEF payment
<1>7. ASSUME NEW d \in due', Coaching(d)
      PROVE  \/ d \in due /\ d.scam # scams + 1
             \/ d.scam = scams + 1 /\ \E k \in 0 .. n - 1 : d = payment(k) /\ d.k = k
  BY <1>2, <1>5, <1>7
<1>8. Numbered'
  <2> SUFFICES ASSUME NEW d \in due', Coaching(d) PROVE d.scam <= scams + 1
    BY <1>2, <1>3 DEF Numbered, Coaching
  <2>1. d \in due => d.scam <= scams /\ d.scam \in Nat
    BY <1>3 DEF Coached, Numbered, TransferInv, FrameInv, Payments
  <2>. QED  BY <1>2, <1>7, <2>1
<1>9. NoGap'
  <2> SUFFICES ASSUME NEW d \in due', Coaching(d), NEW j \in 0 .. d.k - 1
               PROVE  \E e \in due' : Elder(e, d) /\ e.k = j
    BY <1>3 DEF NoGap, Coaching, Elder
  <2>1. CASE d \in due
    BY <1>2, <1>3, <2>1 DEF Coached, NoGap
  <2>2. CASE d \notin due
    <3>1. PICK k \in 0 .. n - 1 : d = payment(k) /\ d.k = k /\ d.scam = scams + 1
      BY <1>7, <2>2
    <3>2. j \in 0 .. n - 1 /\ payment(j) \in due'
      BY <1>2, <1>6, <3>1
    <3>3. j < k
      BY <1>1, <3>1
    <3>. QED  BY <1>5, <3>1, <3>2, <3>3 DEF Elder
  <2>. QED  BY <2>1, <2>2
<1>10. Apart'
  <2> SUFFICES ASSUME NEW d \in due', NEW e \in due', Coaching(d), Elder(e, d)
               PROVE  Near(e, d)
    BY <1>3 DEF Apart, Coaching, Elder, Near
  <2>1. Coaching(e) /\ e.scam = d.scam /\ e.k < d.k
    BY DEF Elder
  <2>2. CASE d.scam # scams + 1
    BY <1>3, <1>7, <2>1, <2>2 DEF Coached, Apart
  <2>3. CASE d.scam = scams + 1
    <3>1. PICK k \in 0 .. n - 1 : d = payment(k) /\ d.k = k
      BY <1>7, <2>3
    <3>2. PICK j \in 0 .. n - 1 : e = payment(j) /\ e.k = j
      BY <1>7, <2>1, <2>3
    <3>3. j \in 0 .. k - 1
      BY <1>1, <2>1, <3>1, <3>2
    <3>. QED  BY <1>6, <3>1, <3>2, <3>3
  <2>. QED  BY <2>2, <2>3
<1>11. OnceDue'
  <2> SUFFICES ASSUME NEW d \in due', NEW e \in due', Same(e, d) PROVE e = d
    BY DEF OnceDue, Same, Coaching
  <2>1. Coaching(e) /\ Coaching(d) /\ e.scam = d.scam /\ e.k = d.k
    BY DEF Same
  <2>2. CASE d.scam # scams + 1
    BY <1>7, <2>1, <2>2 DEF Coached, OnceDue
  <2>3. CASE d.scam = scams + 1
    BY <1>7, <2>1, <2>3
  <2>. QED  BY <2>2, <2>3
<1>12. OnceRow'
  BY <1>2 DEF OnceRow
<1>. QED  BY <1>8, <1>9, <1>10, <1>11, <1>12 DEF Coached

LEMMA CoachedOtherPlan ==
    ASSUME TransferInv, Coached, NEW victim, NEW mule, NEW amounts, NEW times,
           Plan(victim, mule, amounts, times, "app_blatant")
    PROVE  Coached'
<1>1. /\ frame = <<>> /\ frame' = frame /\ due \subseteq due' /\ scams' = scams + 1
      /\ \A d \in due' : d \notin due => ~Coaching(d)
  BY DEF Plan, Planning, Coaching
<1>2. Known = due /\ Known' = due'
  BY <1>1 DEF Known
<1>3. Numbered'
  <2>1. \A d \in due : d.scam \in Nat /\ scams \in Nat
    BY DEF TransferInv, FrameInv, Payments
  <2>2. \A d \in due : Coaching(d) => d.scam <= scams + 1
    BY <1>2, <2>1 DEF Coached, Numbered
  <2>. QED  BY <1>1, <1>2, <2>2 DEF Numbered, Coaching
<1>4. NoGap'
  BY <1>1, <1>2 DEF Coached, NoGap, Elder, Coaching
<1>5. Apart'
  BY <1>1, <1>2 DEF Coached, Apart, Elder, Near, Coaching
<1>6. OnceDue'
  BY <1>1 DEF Coached, OnceDue, Same, Coaching
<1>7. OnceRow'
  BY <1>1 DEF OnceRow
<1>. QED  BY <1>3, <1>4, <1>5, <1>6, <1>7 DEF Coached

LEMMA CoachedTake ==
    ASSUME TransferInv, Coached, NEW t \in Payments, Take(t),
           \/ t \in due /\ due' = due \ {t}
           \/ t.variant = "none" /\ due' = due
    PROVE  Coached'
<1> DEFINE n == Len(frame) + 1
           x == RowOf(t)
           Alike(y, z) == /\ y.sender = z.sender /\ y.recipient = z.recipient /\ y.ts = z.ts
                          /\ y.variant = z.variant /\ y.scam = z.scam /\ y.k = z.k
<1>1. frame \in Seq(Rows) /\ frame' = Append(frame, x) /\ scams' = scams /\ due' \subseteq due
  BY DEF TransferInv, FrameInv, Take
<1>2. Alike(x, t) /\ x \in Rows
  BY RowOfFields
<1>3. /\ frame'[n] = x /\ DOMAIN frame' = DOMAIN frame \cup {n}
      /\ \A i \in DOMAIN frame : frame'[i] = frame[i]
  <2> HIDE DEF x
  <2>. QED  BY <1>1, <1>2, Joined
<1> HIDE DEF n, x
<1>4. /\ \A i \in DOMAIN frame' : i = n \/ i \in DOMAIN frame
      /\ n \in DOMAIN frame' /\ \A i \in DOMAIN frame : i \in DOMAIN frame'
      /\ \A i \in DOMAIN frame : frame'[i] = frame[i]
  BY <1>3
<1>5. Coaching(x) => t \in due /\ due' = due \ {t}
  BY <1>2 DEF Coaching
<1>6. \A z \in Known' : Coaching(z) => \E o \in Known : Alike(z, o)
  <2> SUFFICES ASSUME NEW z \in Known', Coaching(z) PROVE \E o \in Known : Alike(z, o)
    OBVIOUS
  <2>1. z \in due' \/ \E i \in DOMAIN frame' : z = frame'[i]
    BY DEF Known
  <2>2. z \in Known \/ z = x
    BY <1>1, <1>3, <1>4, <2>1 DEF Known
  <2>3. CASE z \in Known
    BY <2>3
  <2>4. CASE z = x
    <3>1. t \in Known
      BY <1>5, <2>4 DEF Known
    <3>. QED  BY <1>2, <2>4, <3>1
  <2>. QED  BY <2>2, <2>3, <2>4
<1>7. \A y \in Known : \E z \in Known' : Alike(z, y)
  <2> SUFFICES ASSUME NEW y \in Known PROVE \E z \in Known' : Alike(z, y)
    OBVIOUS
  <2>1. x \in Known'
    BY <1>3, <1>4 DEF Known
  <2>2. y \in due \/ \E i \in DOMAIN frame : y = frame[i]
    BY DEF Known
  <2>3. y \in Known' \/ y = t
    BY <1>4, <2>2 DEF Known
  <2>4. CASE y \in Known'
    BY <2>4
  <2>5. CASE y = t
    BY <1>2, <2>1, <2>5
  <2>. QED  BY <2>3, <2>4, <2>5
<1>8. Numbered'
  BY <1>1, <1>6 DEF Coached, Numbered, Coaching
<1>9. NoGap'
  <2> SUFFICES ASSUME NEW d \in Known', Coaching(d), NEW j \in 0 .. d.k - 1
               PROVE  \E e \in Known' : Elder(e, d) /\ e.k = j
    BY DEF NoGap, Coaching, Elder
  <2>1. PICK o \in Known : Alike(d, o)
    BY <1>6
  <2>2. Coaching(o) /\ j \in 0 .. o.k - 1
    BY <2>1 DEF Coaching
  <2>3. PICK y \in Known : Elder(y, o) /\ y.k = j
    BY <2>2 DEF Coached, NoGap
  <2>4. PICK e \in Known' : Alike(e, y)
    BY <1>7
  <2>. QED  BY <2>1, <2>3, <2>4 DEF Elder, Coaching
<1>10. Apart'
  <2> SUFFICES ASSUME NEW d \in Known', NEW e \in Known', Coaching(d), Elder(e, d)
               PROVE  Near(e, d)
    BY DEF Apart, Coaching, Elder, Near
  <2>1. PICK o \in Known : Alike(d, o)
    BY <1>6
  <2>2. PICK y \in Known : Alike(e, y)
    BY <1>6 DEF Elder
  <2>3. Coaching(o) /\ Elder(y, o)
    BY <2>1, <2>2 DEF Elder, Coaching
  <2>4. Near(y, o)
    BY <2>3 DEF Coached, Apart
  <2>. QED  BY <2>1, <2>2, <2>4 DEF Near
<1>11. OnceDue'
  BY <1>1 DEF Coached, OnceDue, Same, Coaching
<1>12. ASSUME NEW i \in DOMAIN frame, Same(frame[i], x) \/ Same(x, frame[i]) PROVE FALSE
  <2>1. Same(frame[i], t) /\ t \in due
    BY <1>2, <1>5, <1>12 DEF Same, Coaching
  <2>. QED  BY <2>1 DEF Coached, OnceRow
<1>13. OnceRow'
  <2> SUFFICES ASSUME NEW i \in DOMAIN frame'
               PROVE  /\ \A d \in due' : ~Same(frame'[i], d)
                      /\ \A m \in DOMAIN frame' : Same(frame'[i], frame'[m]) => i = m
    BY DEF OnceRow, Same, Coaching
  <2>1. ASSUME NEW d \in due', Same(frame'[i], d) PROVE FALSE
    <3>1. CASE i \in DOMAIN frame
      BY <1>1, <1>4, <2>1, <3>1 DEF Coached, OnceRow
    <3>2. CASE i = n
      <4>1. Same(x, d)
        BY <1>3, <2>1, <3>2
      <4>2. Same(t, d) /\ t \in due /\ d \in due /\ d # t
        BY <1>2, <1>5, <4>1 DEF Same, Coaching
      <4>. QED  BY <4>2 DEF Coached, OnceDue
    <3>. QED  BY <1>4, <3>1, <3>2
  <2>2. ASSUME NEW m \in DOMAIN frame', Same(frame'[i], frame'[m]) PROVE i = m
    <3>1. CASE i \in DOMAIN frame /\ m \in DOMAIN frame
      BY <1>4, <2>2, <3>1 DEF Coached, OnceRow
    <3>2. CASE i = n /\ m \in DOMAIN frame
      BY <1>3, <1>4, <1>12, <2>2, <3>2
    <3>3. CASE i \in DOMAIN frame /\ m = n
      BY <1>3, <1>4, <1>12, <2>2, <3>3
    <3>. QED  BY <1>4, <3>1, <3>2, <3>3
  <2>. QED  BY <2>1, <2>2
<1>. QED  BY <1>8, <1>9, <1>10, <1>11, <1>13 DEF Coached

(* What the pair's window of the last seven days holds of a scam.          *)
LEMMA WindowCounts ==
    ASSUME NEW F \in Seq(Rows), NEW x \in Rows, NEW before \in SUBSET DOMAIN F,
           \A i \in before : Near(F[i], x),
           \A j \in 0 .. x.k - 1 : \E i \in before : F[i].k = j
    PROVE  /\ FeaturesOfPast(F, x).pair_txn_count_7d >= x.k
           /\ FeaturesOfPast(F, x).pair_cum_amount_7d
                 >= SumFunction([i \in before |-> F[i].amount])
<1> DEFINE window == {i \in Sent(F, x.sender) \cap Received(F, x.recipient) :
                          F[i].ts >= x.ts - SevenDays}
           amounts == [i \in window |-> F[i].amount]
           installments == 0 .. x.k - 1
           elder == [j \in installments |-> CHOOSE i \in before : F[i].k = j]
<1>1. /\ FeaturesOfPast(F, x).pair_txn_count_7d = Cardinality(window)
      /\ FeaturesOfPast(F, x).pair_cum_amount_7d = SumFunction(amounts)
  BY DEF FeaturesOfPast, Sent, Received
<1>2. x.ts \in Nat /\ x.k \in Nat
      /\ \A i \in DOMAIN F : F[i].ts \in Nat /\ F[i].amount \in Nat /\ i \in Nat
  BY RowFields DEF Rows
<1>3. before \in SUBSET window
  BY <1>2 DEF Near, Sent, Received
<1>4. IsFiniteSet(window) /\ IsFiniteSet(before)
  <2>1. IsFiniteSet(Received(F, x.recipient))
    BY ReceivedFacts
  <2>2. window \in SUBSET Received(F, x.recipient)
    OBVIOUS
  <2> HIDE DEF window
  <2>. QED  BY <1>3, <2>1, <2>2, FS_Subset
<1>5. elder \in Injection(installments, before)
  <2>1. \A j \in installments : elder[j] \in before /\ F[elder[j]].k = j
    OBVIOUS
  <2>2. elder = [j \in installments |-> elder[j]]
    OBVIOUS
  <2> HIDE DEF elder, installments
  <2>3. elder \in [installments -> before]
    BY <2>1, <2>2
  <2>4. \A j, k \in installments : elder[j] = elder[k] => j = k
    BY <2>1
  <2>. QED  BY <2>3, <2>4 DEF Injection, IsInjective
<1>6. IsFiniteSet(installments) /\ Cardinality(installments) = x.k
  <2>1. PICK k \in Nat : k = x.k
    BY <1>2
  <2>2. IsFiniteSet(0 .. k - 1) /\ Cardinality(0 .. k - 1) = IF 0 > k - 1 THEN 0 ELSE k - 1 - 0 + 1
    BY FS_Interval
  <2>. QED  BY <2>1, <2>2
<1>7. amounts \in [window -> Nat]
  BY <1>2 DEF Sent
<1>8. [i \in before |-> amounts[i]] = [i \in before |-> F[i].amount]
  BY <1>3
<1> HIDE DEF elder, window, installments, amounts
<1>9. x.k <= Cardinality(before) /\ Cardinality(before) \in Nat
  BY <1>4, <1>5, <1>6, FS_Injection, FS_CardinalityType
<1>10. Cardinality(before) <= Cardinality(window) /\ Cardinality(window) \in Nat
  BY <1>3, <1>4, FS_Subset, FS_CardinalityType
<1>11. SumFunction([i \in before |-> F[i].amount]) <= SumFunction(amounts)
  <2>1. Whole([i \in before |-> amounts[i]]) <= Whole(amounts)
    BY <1>3, <1>4, <1>7, SumOfFewer
  <2>. QED  BY <1>8, <2>1, SumIs
<1>12. SumFunction(amounts) \in Nat /\ SumFunction([i \in before |-> F[i].amount]) \in Nat
  <2>1. [i \in before |-> F[i].amount] \in [before -> Nat]
    BY <1>2
  <2>. QED  BY <1>4, <1>7, <2>1, SumNat, SumIs
<1>. QED  BY <1>1, <1>2, <1>9, <1>10, <1>11, <1>12

(* The rows of a scam before its latest are its earlier installments.      *)
LEMMA BeforeAre ==
    ASSUME TransferInv, Coached, frame # <<>>, Coaching(Last(frame))
    PROVE  LET before == InstallmentsBefore(Last(frame))
           IN  /\ \A i \in before : Near(frame[i], Last(frame))
               /\ {frame[i].k : i \in before} = 0 .. Last(frame).k - 1
<1> DEFINE x == Last(frame)
           before == InstallmentsBefore(x)
<1>1. frame \in Seq(Rows) /\ InOrder(frame) /\ due \subseteq Payments
      /\ \A d \in due : d.ts >= LastTime(frame)
  BY DEF TransferInv, FrameInv
<1>2. /\ x = frame[Len(frame)] /\ Len(frame) \in DOMAIN frame /\ x \in Rows
      /\ Len(frame) \in Nat /\ LastTime(frame) = x.ts
      /\ DOMAIN frame = 1 .. Len(frame)
  BY <1>1, FrontIs DEF LastTime
<1>3. x \in Known /\ x.k \in Nat /\ x.ts \in Nat
  BY <1>2 DEF Known, Rows
<1> HIDE DEF x
<1>4. Coaching(x)
  BY DEF x
<1>5. ASSUME NEW i \in 1 .. Len(frame) - 1
      PROVE  /\ i \in DOMAIN frame /\ i # Len(frame) /\ frame[i] \in Known
             /\ frame[i].ts <= x.ts /\ frame[i].ts \in Nat /\ frame[i].k \in Nat
  <2>1. i \in DOMAIN frame /\ i <= Len(frame) /\ i # Len(frame)
    <3>1. \A m \in Nat : \A h \in 1 .. m - 1 : h \in 1 .. m /\ h <= m /\ h # m
      OBVIOUS
    <3>. QED  BY <1>2, <3>1
  <2>2. frame[i] \in Rows /\ frame[i] \in Known
    BY <1>1, <2>1 DEF Known
  <2>. QED  BY <1>1, <1>2, <2>1, <2>2 DEF InOrder, Rows
<1>6. ASSUME NEW i \in before PROVE Near(frame[i], x) /\ frame[i].k \in 0 .. x.k - 1
  <2>1. i \in 1 .. Len(frame) - 1 /\ frame[i].scam = x.scam /\ Coaching(frame[i])
    BY DEF InstallmentsBefore, Coaching
  <2>2. frame[i].k # x.k
    <3>1. frame[i].k = x.k => Same(frame[i], frame[Len(frame)])
      BY <1>2, <1>4, <2>1 DEF Same
    <3>. QED  BY <1>2, <1>5, <2>1, <3>1 DEF Coached, OnceRow
  <2>3. ~(x.k < frame[i].k)
    <3> SUFFICES ASSUME x.k < frame[i].k PROVE FALSE
      OBVIOUS
    <3>1. Elder(x, frame[i])
      BY <1>4, <2>1 DEF Elder
    <3>2. Near(x, frame[i])
      BY <1>3, <1>5, <2>1, <3>1 DEF Coached, Apart
    <3>. QED  BY <1>3, <1>5, <2>1, <3>2 DEF Near
  <2>4. frame[i].k < x.k
    BY <1>3, <1>5, <2>1, <2>2, <2>3
  <2>5. Elder(frame[i], x)
    BY <2>1, <2>4 DEF Elder
  <2>6. Near(frame[i], x)
    BY <1>3, <1>4, <1>5, <2>1, <2>5 DEF Coached, Apart
  <2>. QED  BY <1>3, <1>5, <2>1, <2>4, <2>6
<1>7. ASSUME NEW j \in 0 .. x.k - 1 PROVE \E i \in before : frame[i].k = j
  <2>1. PICK e \in Known : Elder(e, x) /\ e.k = j
    BY <1>3, <1>4 DEF Coached, NoGap
  <2>2. Near(e, x)
    BY <1>3, <1>4, <2>1 DEF Coached, Apart
  <2>3. e \notin due
    <3> SUFFICES ASSUME e \in due PROVE FALSE
      OBVIOUS
    <3>1. e.ts >= x.ts /\ e.ts \in Nat
      BY <1>1, <1>2 DEF Payments
    <3>. QED  BY <1>3, <2>2, <3>1 DEF Near
  <2>4. PICK i \in DOMAIN frame : e = frame[i]
    BY <2>3 DEF Known
  <2>5. i # Len(frame)
    <3>1. frame[i].k < x.k
      BY <2>1, <2>4 DEF Elder
    <3>. QED  BY <1>2, <1>3, <3>1
  <2>6. i \in 1 .. Len(frame) - 1
    BY <1>2, <2>4, <2>5
  <2>. QED  BY <2>1, <2>4, <2>6 DEF InstallmentsBefore, Elder, Coaching
<1>8. {frame[i].k : i \in before} = 0 .. x.k - 1
  BY <1>6, <1>7
<1>. QED  BY <1>6, <1>8 DEF x

LEMMA CoachedAccumulate == TransferInv /\ Coached => InstallmentsAccumulate
<1> DEFINE F == Front(frame)
           x == Last(frame)
           before == InstallmentsBefore(x)
<1> SUFFICES ASSUME TransferInv, Coached, frame # <<>>, x.variant = "app_evasive"
             PROVE  /\ {frame[i].k : i \in before} = 0 .. x.k - 1
                    /\ row.pair_txn_count_7d >= x.k
                    /\ row.pair_cum_amount_7d >= SumFunction([i \in before |-> frame[i].amount])
  BY DEF InstallmentsAccumulate
<1>1. frame \in Seq(Rows) /\ row = FeaturesOfPast(F, x)
  BY DEF TransferInv, FrameInv, TransferRowIsOfHistory
<1>2. /\ F \in Seq(Rows) /\ x \in Rows /\ DOMAIN F = 1 .. Len(frame) - 1
      /\ \A i \in 1 .. Len(frame) - 1 : F[i] = frame[i]
  BY <1>1, FrontIs
<1>3. /\ \A i \in before : Near(frame[i], x)
      /\ {frame[i].k : i \in before} = 0 .. x.k - 1
  BY BeforeAre DEF Coaching
<1>4. before \in SUBSET DOMAIN F
  BY <1>2 DEF InstallmentsBefore
<1>5. [i \in before |-> F[i].amount] = [i \in before |-> frame[i].amount]
  BY <1>2, <1>4
<1> HIDE DEF F, x, before
<1>6. \A j \in 0 .. x.k - 1 : \E i \in before : frame[i].k = j
  BY <1>3
<1>7. \A i \in before : F[i] = frame[i]
  BY <1>2, <1>4
<1>8. /\ FeaturesOfPast(F, x).pair_txn_count_7d >= x.k
      /\ FeaturesOfPast(F, x).pair_cum_amount_7d >= SumFunction([i \in before |-> F[i].amount])
  BY <1>2, <1>3, <1>4, <1>6, <1>7, WindowCounts
<1>. QED  BY <1>1, <1>3, <1>5, <1>8

(* Any coached scam, of any amounts and among any other payments: its      *)
(* installments arrive in order, and at each of them the pair's window     *)
(* holds all those before it, so their amounts have added up.              *)
THEOREM InstallmentsAdd == TransferSpec => []InstallmentsAccumulate
<1>1. TransferInit => Coached
  BY DEF TransferInit, Coached, Known, Numbered, NoGap, Apart, OnceDue, OnceRow
<1>2. TransferInv /\ Coached /\ [TransferNext]_transferVars => Coached'
  <2> SUFFICES ASSUME TransferInv, Coached, [TransferNext]_transferVars PROVE Coached'
    OBVIOUS
  <2>1. ASSUME NEW victim \in Senders, NEW mule \in Recipients, NEW ts \in Moments,
               NEW n \in 1 .. MaxInstallments, NEW amounts \in [0 .. n - 1 -> Sums],
               \/ \E times \in Evasive(ts, n) : Plan(victim, mule, amounts, times, "app_evasive")
               \/ \E times \in Blatant(ts, n) : Plan(victim, mule, amounts, times, "app_blatant")
        PROVE  Coached'
    BY <2>1, CoachedPlan, CoachedOtherPlan
  <2>2. ASSUME NEW t \in Payments, Take(t),
               \/ t \in due /\ due' = due \ {t}
               \/ t.variant = "none" /\ due' = due
        PROVE  Coached'
    BY <2>2, CoachedTake
  <2>3. CASE UNCHANGED <<due, frame, scams>>
    <3>1. Known' = Known
      BY <2>3 DEF Known
    <3>. QED  BY <2>3, <3>1 DEF Coached, Numbered, NoGap, Apart, OnceDue, OnceRow,
                                Elder, Near, Same, Coaching
  <2>4. /\ \A i, alerted : ApplyFriction(DayOf(i), alerted) => UNCHANGED <<due, frame, scams>>
        /\ UNCHANGED transferVars => UNCHANGED <<due, frame, scams>>
    BY DEF ApplyFriction, transferVars
  <2>. QED  BY <2>1, <2>2, <2>3, <2>4, TransferSteps
<1>3. TransferSpec => []Coached
  BY <1>1, <1>2, TransferInvariant, PTL DEF TransferSpec
<1>. QED  BY <1>3, TransferInvariant, CoachedAccumulate, PTL
-----------------------------------------------------------------------------
(* Friction: the first contact of a scheme is the row build_features marks.*)
LEMMA SchemeFacts ==
    ASSUME TransferInv, NEW cutoff, NEW i \in TestRows(cutoff), Fraud(frame[i])
    PROVE  LET rows == TestRows(cutoff)
               first == FirstContact(i, rows)
           IN  /\ i \in DOMAIN frame /\ i \in Scheme(i, rows)
               /\ first \in Scheme(i, rows) /\ first <= i
               /\ frame[i].first_time => first = i
<1> DEFINE rows == TestRows(cutoff)
           S == Scheme(i, rows)
           first == FirstContact(i, rows)
<1>1. DOMAIN frame \in SUBSET Nat /\ FirstsMarked(frame)
  BY DEF TransferInv, FrameInv
<1>2. /\ i \in DOMAIN frame /\ i \in S /\ S \in SUBSET DOMAIN frame
      /\ \A j \in S : PairOf(frame[j]) = PairOf(frame[i])
  BY DEF Scheme, TestRows
<1>3. first = Min(S)
  BY DEF FirstContact
<1> HIDE DEF rows, S, first
<1>4. first \in S /\ \A k \in S : first <= k
  BY <1>1, <1>2, <1>3, MinIsLeast
<1>5. ASSUME frame[i].first_time PROVE first = i
  <2>1. ~\E j \in 1 .. i - 1 : PairOf(frame[j]) = PairOf(frame[i])
    BY <1>1, <1>2, <1>5 DEF FirstsMarked
  <2>2. first \in DOMAIN frame /\ first <= i /\ PairOf(frame[first]) = PairOf(frame[i])
    BY <1>2, <1>4
  <2>3. DOMAIN frame = 1 .. Len(frame) /\ Len(frame) \in Nat
    BY DEF TransferInv, FrameInv
  <2>. QED  BY <1>2, <2>1, <2>2, <2>3
<1>. QED  BY <1>2, <1>4, <1>5 DEF rows, S, first

LEMMA FrictionStep ==
    ASSUME TransferInv, NEW cutoff, NEW alerted, ApplyFriction(cutoff, alerted)
    PROVE  PreventedFromTheFirst'
<1> DEFINE rows == TestRows(cutoff)
           sparedBy(A) == UNION {Scheme(i, rows) : i \in A}
<1>0. \E abandoned \in SUBSET Prompted(rows, alerted) :
          \E recalled \in SUBSET (Settling(rows, alerted) \ sparedBy(abandoned)) :
              friction' = [cutoff |-> cutoff, prevented |-> sparedBy(abandoned) \cup recalled]
  BY Zenon DEF ApplyFriction
<1>1. PICK abandoned \in SUBSET Prompted(rows, alerted) :
          \E recalled \in SUBSET (Settling(rows, alerted) \ sparedBy(abandoned)) :
              friction' = [cutoff |-> cutoff, prevented |-> sparedBy(abandoned) \cup recalled]
  BY <1>0
<1> DEFINE spared == sparedBy(abandoned)
<1>2. PICK recalled \in SUBSET (Settling(rows, alerted) \ spared) :
          friction' = [cutoff |-> cutoff, prevented |-> spared \cup recalled]
  BY <1>1, Zenon
<1>3. ASSUME NEW i \in spared
      PROVE  /\ Fraud(frame[i]) /\ FirstContact(i, rows) \in spared
             /\ frame[FirstContact(i, rows)].first_time
  <2>1. PICK a \in abandoned : i \in Scheme(a, rows)
    OBVIOUS
  <2>2. /\ a \in rows /\ Fraud(frame[a]) /\ FirstContact(a, rows) = a /\ frame[a].first_time
    BY <1>1 DEF Prompted
  <2>3. a \in Scheme(a, rows)
    BY <2>2 DEF Scheme
  <2>4. Fraud(frame[i]) /\ Scheme(i, rows) = Scheme(a, rows)
    BY <2>1 DEF Scheme
  <2>5. FirstContact(i, rows) = a
    BY <2>2, <2>4 DEF FirstContact
  <2>. QED  BY <2>2, <2>3, <2>4, <2>5
<1>4. ASSUME NEW i \in recalled
      PROVE  /\ Fraud(frame[i]) /\ FirstContact(i, rows) = i /\ frame[i].first_time
  <2>1. i \in TestRows(cutoff) /\ Fraud(frame[i]) /\ frame[i].first_time
    BY DEF Settling
  <2>. QED  BY <2>1, SchemeFacts
<1>5. \A i \in spared \cup recalled :
          /\ Fraud(frame[i]) /\ FirstContact(i, rows) \in spared \cup recalled
          /\ frame[FirstContact(i, rows)].first_time
  BY <1>3, <1>4
<1> HIDE DEF spared
<1>6. friction'.prevented = spared \cup recalled /\ friction'.cutoff = cutoff
  BY <1>2
<1>7. frame' = frame
  BY DEF ApplyFriction
<1>. QED  BY <1>5, <1>6, <1>7 DEF PreventedFromTheFirst, FirstContact, Scheme, TestRows, DayOf

(* Whatever rows are alerted and whoever abandons: friction prevents only  *)
(* frauds, and with a payment always the first contact of its scheme.      *)
THEOREM FrictionFromTheFirst == TransferSpec => []PreventedFromTheFirst
<1>1. TransferInit => PreventedFromTheFirst
  BY DEF TransferInit, PreventedFromTheFirst
<1>2. TransferInv /\ PreventedFromTheFirst /\ [TransferNext]_transferVars => PreventedFromTheFirst'
  <2> SUFFICES ASSUME TransferInv, PreventedFromTheFirst, [TransferNext]_transferVars
               PROVE  PreventedFromTheFirst'
    OBVIOUS
  <2>1. CASE UNCHANGED <<frame, friction>>
    BY <2>1 DEF PreventedFromTheFirst, FirstContact, Scheme, TestRows, DayOf
  <2>2. \A victim, mule, amounts, times, variant :
            Plan(victim, mule, amounts, times, variant) => UNCHANGED <<frame, friction>>
    BY DEF Plan, Planning
  <2>3. ASSUME NEW t, Take(t) PROVE PreventedFromTheFirst'
    BY <2>3 DEF Take, Replaying, PreventedFromTheFirst
  <2>4. \A i, alerted : ApplyFriction(DayOf(i), alerted) => PreventedFromTheFirst'
    BY FrictionStep
  <2>5. UNCHANGED transferVars => UNCHANGED <<frame, friction>>
    BY DEF transferVars
  <2>. QED  BY <2>1, <2>2, <2>3, <2>4, <2>5, TransferSteps
<1>. QED  BY <1>1, <1>2, TransferInvariant, PTL DEF TransferSpec
(* The row of a wire counts everything its payer has sent its account,     *)
(* this wire included (build_features, cumulative_to_account).             *)
LEMMA RowCumulative ==
    ASSUME NEW t
    PROVE  Row(t).cumulative_to_account = paid[PaidKey(t)].total + t.amount
  BY DEF Row

(* Adding an amount to the sums of a key keeps their type, and adds        *)
(* nothing to any other key (build_features, account_amounts).             *)
LEMMA PlusTyped ==
    ASSUME NEW sums \in [PaidKeys -> Paids], NEW k \in PaidKeys, NEW n \in Nat
    PROVE  /\ [sums EXCEPT ![k] = Plus(sums[k], n)] \in [PaidKeys -> Paids]
           /\ Plus(sums[k], n).total = sums[k].total + n
           /\ Plus(sums[k], n).most = Larger(sums[k].most, n)
<1>1. sums[k] \in Paids
  OBVIOUS
<1>2. Plus(sums[k], n) \in Paids
  BY <1>1 DEF Plus, Paids, Larger
<1> QED
  BY <1>2 DEF Plus

(* A wire's key and amount are in range.                                   *)
LEMMA WireFields ==
    ASSUME NEW t \in Wires
    PROVE  PaidKey(t) \in PaidKeys /\ t.amount \in Nat
  BY MoneyAssumption DEF Wires, PaidKey, PaidKeys

(* The step that matters.  A wire released to an unverified account has    *)
(* passed both controls, so the sum of everything sent, of which what was  *)
(* released is a part, is still below the cap with this wire included.     *)
LEMMA WireKeepsCap ==
    ASSUME CapInv, NEW t \in Wires, NEW p \in Scores, Wire(t, p)
    PROVE  CapInv'
<1> DEFINE k == PaidKey(t)
<1>1. k \in PaidKeys /\ t.amount \in Nat
  BY WireFields
<1>2. paid \in [PaidKeys -> Paids] /\ released \in [PaidKeys -> Paids]
  BY DEF CapInv, TypeOK
<1>3. paid' = [paid EXCEPT ![k] = Plus(paid[k], t.amount)]
  BY DEF Wire
<1>4. /\ paid' \in [PaidKeys -> Paids]
      /\ paid'[k].total = paid[k].total + t.amount
      /\ \A j \in PaidKeys : j # k => paid'[j] = paid[j]
  BY <1>1, <1>2, <1>3, PlusTyped
<1>5. CASE Unverified(t) /\ ~Held(t, p)
  <2>1. released' = [released EXCEPT ![k] = Plus(released[k], t.amount)]
    BY <1>5 DEF Wire
  <2>2. /\ released' \in [PaidKeys -> Paids]
        /\ released'[k].total = released[k].total + t.amount
        /\ released'[k].most = Larger(released[k].most, t.amount)
        /\ \A j \in PaidKeys : j # k => released'[j] = released[j]
    BY <1>1, <1>2, <2>1, PlusTyped
  <2>3. ~(t.amount > Floor) /\ ~(paid[k].total + t.amount >= Cap)
    BY <1>5, RowCumulative DEF Held, ControlHeld
  <2>4. /\ paid[k].total \in Nat /\ released[k].total \in Nat /\ released[k].most \in Nat
        /\ released[k].total <= paid[k].total
        /\ released[k].most <= Floor
    BY <1>1, <1>2 DEF CapInv, ReleasedWasPaid, CapHolds, Paids
  <2>5. TypeOK'
    BY <1>4, <2>2 DEF TypeOK, CapInv, Wire
  <2>6. ReleasedWasPaid'
    BY <1>1, <1>4, <2>2, <2>4 DEF ReleasedWasPaid, CapInv
  <2>7. released'[k].total < Cap /\ released'[k].most <= Floor
    BY <1>1, <2>2, <2>3, <2>4, MoneyAssumption DEF Larger
  <2>8. CapHolds'
    BY <2>2, <2>7 DEF CapHolds, CapInv
  <2> QED
    BY <2>5, <2>6, <2>8 DEF CapInv
<1>6. CASE ~(Unverified(t) /\ ~Held(t, p))
  <2>1. released' = released
    BY <1>6 DEF Wire
  <2>2. \A j \in PaidKeys : paid[j].total <= paid'[j].total
    BY <1>1, <1>2, <1>4 DEF Paids
  <2>3. \A j \in PaidKeys : /\ released[j].total \in Nat /\ paid[j].total \in Nat
                            /\ paid'[j].total \in Nat
    BY <1>2, <1>4 DEF Paids
  <2>4. ReleasedWasPaid'
    BY <2>1, <2>2, <2>3 DEF ReleasedWasPaid, CapInv
  <2>5. TypeOK' /\ CapHolds'
    BY <1>4, <2>1 DEF TypeOK, CapHolds, CapInv, Wire
  <2> QED
    BY <2>4, <2>5 DEF CapInv
<1> QED
  BY <1>5, <1>6

(* For every reachable state the sums keep their types, what was released  *)
(* to an unverified account is part of what was counted, and stays under   *)
(* the cap and the floor.                                                  *)
THEOREM CapInvariant == Spec => []CapInv
<1>1. Init => CapInv
  BY MoneyAssumption
  DEF Init, CapInv, TypeOK, ReleasedWasPaid, CapHolds, NothingPaid, Paids
<1>2. CapInv /\ [Next]_wireVars => CapInv'
  <2> SUFFICES ASSUME CapInv, [Next]_wireVars PROVE CapInv'
    OBVIOUS
  <2>1. ASSUME NEW t \in Wires, NEW p \in Scores, SortedWire(t, p) PROVE CapInv'
    BY <2>1, WireKeepsCap DEF SortedWire
  <2>2. ASSUME NEW a \in Accounts, NEW when \in Times, Verify(a, when) PROVE CapInv'
    BY <2>2 DEF Verify, CapInv, TypeOK, ReleasedWasPaid, CapHolds
  <2>3. CASE UNCHANGED wireVars
    BY <2>3 DEF wireVars, CapInv, TypeOK, ReleasedWasPaid, CapHolds
  <2> QED
    BY <2>1, <2>2, <2>3 DEF Next, Finished
<1> QED
  BY <1>1, <1>2, PTL DEF Spec

(* No payer ever gets NEW_BENEFICIARY_CAP or more, nor a wire above        *)
(* PER_WIRE_FLOOR, released to an account whose callback has not           *)
(* completed, over any number of wires and any length of time.             *)
THEOREM BeneficiaryCap == Spec => []CapHolds
<1>1. CapInv => CapHolds
  BY DEF CapInv
<1> QED
  BY <1>1, CapInvariant, PTL

-----------------------------------------------------------------------------
(* The threshold is the cost comparison, divided by a positive number      *)
(* (hold_threshold and the cost model in the header of wire.py).           *)
LEMMA ThresholdIsCostComparison ==
    ASSUME NEW p \in Int, NEW amount \in Int,
           Unit \in Int, RFrac \in Int, DFrac \in Int, ReviewCost \in Int
    PROVE  ModelHeld(p, amount) <=> HoldCost(p, amount) < ReleaseCost(p, amount)
<1>1. p * (Unit - RFrac + DFrac) * amount
        = Unit * p * amount - p * RFrac * amount + p * DFrac * amount
  OBVIOUS
<1>2. Unit * (DFrac * amount + Unit * ReviewCost)
        = Unit * DFrac * amount + Unit * Unit * ReviewCost
  OBVIOUS
<1>3. (Unit - p) * DFrac * amount = Unit * DFrac * amount - p * DFrac * amount
  OBVIOUS
<1> QED
  BY <1>1, <1>2, <1>3 DEF ModelHeld, HoldCost, ReleaseCost

(* In every reachable state the latest wire is held on its score exactly   *)
(* when that is the cheaper choice.                                        *)
THEOREM CheapestHold == Spec => []HoldIsCheapest
<1>1. Init => HoldIsCheapest
  BY DEF Init, HoldIsCheapest
<1>2. HoldIsCheapest /\ [Next]_wireVars => HoldIsCheapest'
  <2> SUFFICES ASSUME HoldIsCheapest, [Next]_wireVars PROVE HoldIsCheapest'
    OBVIOUS
  <2>1. ASSUME NEW t \in Wires, NEW p \in Scores, SortedWire(t, p)
        PROVE  HoldIsCheapest'
    <3>1. /\ outcome'.wire = t /\ outcome'.p = p
          /\ outcome'.model_held = ModelHeld(p, t.amount)
      BY <2>1 DEF SortedWire, Wire
    <3>2. p \in Int /\ t.amount \in Int
      BY CostAssumption, WireFields
    <3>3. ModelHeld(p, t.amount) <=> HoldCost(p, t.amount) < ReleaseCost(p, t.amount)
      BY <3>2, CostAssumption, ThresholdIsCostComparison
    <3> QED
      BY <3>1, <3>3 DEF HoldIsCheapest, HoldCost, ReleaseCost
  <2>2. ASSUME NEW a \in Accounts, NEW when \in Times, Verify(a, when)
        PROVE  HoldIsCheapest'
    BY <2>2 DEF Verify, HoldIsCheapest, HoldCost, ReleaseCost
  <2>3. CASE UNCHANGED wireVars
    BY <2>3 DEF wireVars, HoldIsCheapest, HoldCost, ReleaseCost
  <2> QED
    BY <2>1, <2>2, <2>3 DEF Next, Finished
<1> QED
  BY <1>1, <1>2, PTL DEF Spec
-----------------------------------------------------------------------------
(* What the wire channel's dictionaries hold, as a function of the wires F *)
(* so far.                                                                 *)
TimesOf(F) == [i \in DOMAIN F |-> F[i].ts]
ByPayer(F, p) == {i \in DOMAIN F : F[i].payer = p}
OfPair(F, q) == {i \in DOMAIN F : Pair(F[i]) = q}
ToAccount(F, k) == {i \in DOMAIN F : PaidKey(F[i]) = k}
PairTo(F, q, a) == OfPair(F, q) \cap ToAccount(F, <<q[1], a>>)
Newcomers(F, p) ==
    {i \in ByPayer(F, p) : ~\E j \in ByPayer(F, p) :
        j < i /\ Pair(F[j]) = Pair(F[i]) /\ F[j].account = F[i].account}

SumAt(F, S) == Whole([i \in S |-> F[i].amount])
MostAt(F, S, m) ==
    IF S = {} THEN m = 0
    ELSE (\E i \in S : F[i].amount = m) /\ \A i \in S : F[i].amount <= m
TimeOfFirst(F, S) == IF S = {} THEN Never ELSE F[Min(S)].ts

BookShape(B) ==
    /\ B = [first |-> B.first, pairSeen |-> B.pairSeen, pairPaid |-> B.pairPaid,
            wires |-> B.wires, newAccts |-> B.newAccts, amounts |-> B.amounts]
    /\ B.first = [k \in PaidKeys |-> B.first[k]]
    /\ B.pairSeen = [q \in Pairs |-> B.pairSeen[q]]
    /\ \A q \in Pairs : B.pairSeen[q] = [a \in Accounts |-> B.pairSeen[q][a]]
    /\ B.pairPaid = [q \in Pairs |-> B.pairPaid[q]]
    /\ B.wires = [p \in Payers |-> B.wires[p]]
    /\ B.newAccts = [p \in Payers |-> B.newAccts[p]]
    /\ B.amounts = [p \in Payers |-> B.amounts[p]]

(* The list of a payer's wires is pruned in passing: it still has those of *)
(* the last thirty days.                                                   *)
KeptTimes(list, F, S) ==
    \E T \in SUBSET S : After(F, S, LastTime(F) - Month) \subseteq T /\ Mirrors(list, T, TimesOf(F))

BookOf(B, F) ==
    /\ BookShape(B)
    /\ \A k \in PaidKeys : B.first[k] = TimeOfFirst(F, ToAccount(F, k))
    /\ \A q \in Pairs : /\ B.pairPaid[q] = Cardinality(OfPair(F, q))
                        /\ \A a \in Accounts : B.pairSeen[q][a] = TimeOfFirst(F, PairTo(F, q, a))
    /\ \A p \in Payers : /\ KeptTimes(B.wires[p], F, ByPayer(F, p))
                         /\ Mirrors(B.newAccts[p], Newcomers(F, p), TimesOf(F))
                         /\ Mirrors(B.amounts[p], ByPayer(F, p), EntryOf(F))

PaidOf(P, F) ==
    /\ P \in [PaidKeys -> Paids]
    /\ \A k \in PaidKeys : /\ P[k].total = SumAt(F, ToAccount(F, k))
                           /\ MostAt(F, ToAccount(F, k), P[k].most)

HistoryInv == log \in Seq(Wires) /\ PaidOf(paid, log) /\ BookOf(book, log) /\ RowIsOfHistory

USE MoneyAssumption, NeverAssumption, WireTimeAssumption

-----------------------------------------------------------------------------
LEMMA WireOf ==
    ASSUME NEW t \in Wires
    PROVE  /\ t.payer \in Payers /\ t.supplier \in Suppliers /\ t.account \in Accounts
           /\ t.ts \in Nat /\ t.amount \in Nat /\ t.amount > 0
           /\ Pair(t) \in Pairs /\ PaidKey(t) \in PaidKeys
           /\ Pair(t)[1] = t.payer
<1>1. t.ts \in 0 .. MaxTime /\ t.amount \in Amounts /\ MaxTime \in Nat
  BY DEF Wires, Times
<1>2. t.payer \in Payers /\ t.supplier \in Suppliers /\ t.account \in Accounts
  BY DEF Wires
<1>3. t.ts \in Nat /\ t.amount \in Nat /\ t.amount > 0
  <2>1. PICK a \in Amounts : t.amount = a
    BY <1>1
  <2>2. a \in Nat /\ a > 0
    OBVIOUS
  <2>3. t.ts \in Nat
    BY <1>1
  <2>. QED  BY <2>1, <2>2, <2>3
<1>4. /\ Pair(t) \in Pairs /\ PaidKey(t) \in PaidKeys /\ Pair(t)[1] = t.payer
  BY <1>2 DEF Pair, PaidKey, Pairs, PaidKeys
<1>. QED  BY <1>2, <1>3, <1>4

LEMMA WiresSet ==
    ASSUME NEW F \in Seq(Wires)
    PROVE  /\ LastTime(F) \in Nat /\ DOMAIN F \in SUBSET Nat /\ IsFiniteSet(DOMAIN F)
           /\ \A i \in DOMAIN F : F[i] \in Wires /\ F[i].ts \in Nat /\ F[i].amount \in Nat \ {0}
           /\ \A p : ByPayer(F, p) \in SUBSET DOMAIN F /\ Newcomers(F, p) \in SUBSET ByPayer(F, p)
           /\ \A q : OfPair(F, q) \in SUBSET DOMAIN F
           /\ \A k : ToAccount(F, k) \in SUBSET DOMAIN F
           /\ \A q, a : PairTo(F, q, a) \in SUBSET DOMAIN F
<1>1. /\ DOMAIN F = 1 .. Len(F) /\ Len(F) \in Nat /\ \A i \in DOMAIN F : F[i] \in Wires
      /\ F # <<>> => Len(F) \in DOMAIN F
  OBVIOUS
<1>2. IsFiniteSet(DOMAIN F)
  BY <1>1, FS_Interval
<1>3. \A i \in DOMAIN F : F[i].ts \in Nat /\ F[i].amount \in Nat \ {0}
  BY <1>1, WireOf
<1>4. LastTime(F) \in Nat
  BY <1>1, <1>3 DEF LastTime
<1>5. /\ \A p : ByPayer(F, p) \in SUBSET DOMAIN F /\ Newcomers(F, p) \in SUBSET ByPayer(F, p)
      /\ \A q : OfPair(F, q) \in SUBSET DOMAIN F
      /\ \A k : ToAccount(F, k) \in SUBSET DOMAIN F
      /\ \A q, a : PairTo(F, q, a) \in SUBSET DOMAIN F
  BY DEF ByPayer, Newcomers, OfPair, ToAccount, PairTo
<1>. QED  BY <1>1, <1>2, <1>3, <1>4, <1>5

LEMMA WireJoined ==
    ASSUME NEW F \in Seq(Wires), NEW x \in Wires
    PROVE  LET G == Append(F, x)
               n == Len(F) + 1
           IN  /\ \A p : ByPayer(G, p) = ByPayer(F, p) \cup (IF x.payer = p THEN {n} ELSE {})
               /\ \A q : OfPair(G, q) = OfPair(F, q) \cup (IF Pair(x) = q THEN {n} ELSE {})
               /\ \A k : ToAccount(G, k) = ToAccount(F, k) \cup (IF PaidKey(x) = k THEN {n} ELSE {})
               /\ \A i \in DOMAIN F : /\ TimesOf(G)[i] = TimesOf(F)[i] /\ TimesOf(F)[i] = F[i].ts
                                      /\ EntryOf(G)[i] = EntryOf(F)[i]
               /\ TimesOf(G)[n] = x.ts
               /\ EntryOf(G)[n] = [ts |-> x.ts, amount |-> x.amount]
<1> DEFINE G == Append(F, x)
           n == Len(F) + 1
<1>1. /\ DOMAIN G = DOMAIN F \cup {n} /\ n \notin DOMAIN F /\ G[n] = x
      /\ \A i \in DOMAIN F : G[i] = F[i]
  BY Joined
<1> HIDE DEF G, n
<1>2. \A p : ByPayer(G, p) = ByPayer(F, p) \cup (IF x.payer = p THEN {n} ELSE {})
  BY <1>1 DEF ByPayer
<1>3. \A q : OfPair(G, q) = OfPair(F, q) \cup (IF Pair(x) = q THEN {n} ELSE {})
  BY <1>1 DEF OfPair
<1>4. \A k : ToAccount(G, k) = ToAccount(F, k) \cup (IF PaidKey(x) = k THEN {n} ELSE {})
  BY <1>1 DEF ToAccount
<1>5. \A i \in DOMAIN F : /\ TimesOf(G)[i] = TimesOf(F)[i] /\ TimesOf(F)[i] = F[i].ts
                          /\ EntryOf(G)[i] = EntryOf(F)[i]
  BY <1>1 DEF TimesOf, EntryOf
<1>6. TimesOf(G)[n] = x.ts /\ EntryOf(G)[n] = [ts |-> x.ts, amount |-> x.amount]
  BY <1>1 DEF TimesOf, EntryOf
<1>. QED  BY <1>2, <1>3, <1>4, <1>5, <1>6 DEF G, n

(* The first of a set of rows, its sum and its largest amount, when a row  *)
(* joins it or not.                                                        *)
LEMMA SetJoined ==
    ASSUME NEW F \in Seq(Wires), NEW x \in Wires, NEW S \in SUBSET DOMAIN F
    PROVE  LET G == Append(F, x)
               n == Len(F) + 1
           IN  /\ TimeOfFirst(G, S) = TimeOfFirst(F, S)
               /\ TimeOfFirst(G, S \cup {n}) = Since(TimeOfFirst(F, S), x.ts)
               /\ SumAt(G, S) = SumAt(F, S)
               /\ SumAt(G, S \cup {n}) = SumAt(F, S) + x.amount
               /\ \A m \in Nat : MostAt(F, S, m) =>
                     MostAt(G, S, m) /\ MostAt(G, S \cup {n}, Larger(m, x.amount))
<1> DEFINE G == Append(F, x)
           n == Len(F) + 1
<1>1. /\ n \notin DOMAIN F /\ G[n] = x /\ n \in Nat
      /\ \A i \in DOMAIN F : G[i] = F[i] /\ i < n
  BY Joined
<1>2. /\ S \in SUBSET Nat /\ IsFiniteSet(S) /\ n \notin S /\ \A i \in S : G[i] = F[i] /\ i < n
      /\ \A i \in S : F[i].ts \in Nat /\ F[i].amount \in Nat
  <2>1. S \in SUBSET Nat /\ IsFiniteSet(S)
    BY WiresSet, FS_Subset
  <2>2. \A i \in DOMAIN F : F[i].ts \in Nat /\ F[i].amount \in Nat
    BY WiresSet
  <2> HIDE DEF G, n
  <2>. QED  BY <1>1, <2>1, <2>2
<1>3. x.ts \in Nat /\ x.amount \in Nat
  BY WireOf
<1> HIDE DEF G, n
<1>4. S # {} => Min(S) \in S
  BY <1>2, MinIsLeast
<1>5. Min(S \cup {n}) = IF S = {} THEN n ELSE Min(S)
  BY <1>1, <1>2, MinJoined
<1>6. TimeOfFirst(G, S) = TimeOfFirst(F, S)
  BY <1>2, <1>4 DEF TimeOfFirst
<1>7. TimeOfFirst(G, S \cup {n}) = Since(TimeOfFirst(F, S), x.ts)
  <2>1. TimeOfFirst(G, S \cup {n}) = G[Min(S \cup {n})].ts
    BY DEF TimeOfFirst
  <2>2. CASE S = {}
    BY <1>1, <1>5, <2>1, <2>2 DEF TimeOfFirst, Since
  <2>3. CASE S # {}
    <3>1. G[Min(S \cup {n})].ts = F[Min(S)].ts /\ F[Min(S)].ts # Never
      BY <1>2, <1>4, <1>5, <2>3
    <3>. QED  BY <2>1, <2>3, <3>1 DEF TimeOfFirst, Since
  <2>. QED  BY <2>2, <2>3
<1>8. SumAt(G, S) = SumAt(F, S)
  <2>1. [i \in S |-> G[i].amount] = [i \in S |-> F[i].amount]
    BY <1>2
  <2>. QED  BY <2>1 DEF SumAt
<1>9. SumAt(G, S \cup {n}) = SumAt(F, S) + x.amount
  <2> DEFINE D == S \cup {n}
             f == [i \in D |-> G[i].amount]
  <2>1. IsFiniteSet(D) /\ n \in D /\ S \in SUBSET D
    BY <1>2, FS_AddElement
  <2>2. f \in [D -> Nat] /\ DOMAIN f = D /\ f[n] = x.amount
    BY <1>1, <1>2, <1>3
  <2>3. SumAt(G, D) = Partial(f)[D]
    BY <2>2 DEF SumAt, Whole
  <2>4. SumAt(G, S) = Whole([i \in S |-> f[i]])
    <3>1. [i \in S |-> f[i]] = [i \in S |-> G[i].amount]
      OBVIOUS
    <3> HIDE DEF f
    <3>. QED  BY <3>1 DEF SumAt
  <2> HIDE DEF f
  <2>5. Whole([i \in S |-> f[i]]) = Partial(f)[S]
    BY <2>1, <2>2, SumOfPart
  <2>6. Partial(f)[S \cup {n}] = Partial(f)[S] + f[n]
    <3> HIDE DEF D
    <3>. QED  BY <1>2, <2>1, <2>2, SumJoined
  <2>. QED  BY <1>8, <2>2, <2>3, <2>4, <2>5, <2>6
<1>10. ASSUME NEW m \in Nat, MostAt(F, S, m)
       PROVE  MostAt(G, S, m) /\ MostAt(G, S \cup {n}, Larger(m, x.amount))
  <2>1. MostAt(G, S, m)
    BY <1>2, <1>10 DEF MostAt
  <2>2. MostAt(G, S \cup {n}, Larger(m, x.amount))
    <3>1. CASE S = {}
      BY <1>1, <1>3, <1>10, <3>1 DEF MostAt, Larger
    <3>2. CASE S # {}
      <4>1. (\E i \in S : G[i].amount = m) /\ \A i \in S : G[i].amount <= m /\ G[i].amount \in Nat
        BY <1>2, <1>10, <3>2 DEF MostAt
      <4>2. \E i \in S \cup {n} : G[i].amount = Larger(m, x.amount)
        BY <1>1, <4>1 DEF Larger
      <4>3. \A i \in S \cup {n} : G[i].amount <= Larger(m, x.amount)
        BY <1>1, <1>3, <4>1 DEF Larger
      <4>. QED  BY <4>2, <4>3 DEF MostAt
    <3>. QED  BY <3>1, <3>2
  <2>. QED  BY <2>1, <2>2
<1>. QED  BY <1>6, <1>7, <1>8, <1>9, <1>10 DEF G, n

(* The first wires of their pair to their account.                         *)
LEMMA NewcomersJoined ==
    ASSUME NEW F \in Seq(Wires), NEW x \in Wires, NEW p \in Payers
    PROVE  Newcomers(Append(F, x), p) = Newcomers(F, p) \cup
              (IF x.payer = p /\ PairTo(F, Pair(x), x.account) = {} THEN {Len(F) + 1} ELSE {})
<1> DEFINE G == Append(F, x)
           n == Len(F) + 1
           again(H, i) == \E j \in ByPayer(H, p) :
                             j < i /\ Pair(H[j]) = Pair(H[i]) /\ H[j].account = H[i].account
<1>1. /\ n \notin DOMAIN F /\ G[n] = x /\ n \in Nat
      /\ \A i \in DOMAIN F : G[i] = F[i] /\ i < n /\ i \in Nat
  BY Joined
<1>2. ByPayer(G, p) = ByPayer(F, p) \cup (IF x.payer = p THEN {n} ELSE {})
  <2>1. \A q : ByPayer(G, q) = ByPayer(F, q) \cup (IF x.payer = q THEN {n} ELSE {})
    BY WireJoined, ZenonT(60)
  <2>. QED  BY <2>1
<1>3. ByPayer(F, p) \in SUBSET DOMAIN F
  BY WiresSet
<1> HIDE DEF G, n
<1>4. ASSUME NEW i \in ByPayer(F, p) PROVE again(G, i) <=> again(F, i)
  <2>1. \A j \in ByPayer(G, p) : j < i => j \in ByPayer(F, p)
    BY <1>1, <1>2, <1>3
  <2>2. \A j \in ByPayer(F, p) : j \in ByPayer(G, p) /\ G[j] = F[j]
    BY <1>1, <1>2, <1>3
  <2>. QED  BY <2>1, <2>2
<1>5. ASSUME x.payer = p
      PROVE  ~again(G, n) <=> PairTo(F, Pair(x), x.account) = {}
  <2>1. \A j \in ByPayer(G, p) : j < n <=> j \in ByPayer(F, p)
    BY <1>1, <1>2, <1>3
  <2>2. \A j \in ByPayer(F, p) : j \in ByPayer(G, p) /\ G[j] = F[j] /\ j \in DOMAIN F /\ F[j].payer = p
    BY <1>1, <1>2, <1>3 DEF ByPayer
  <2>3. again(G, n) <=> \E j \in ByPayer(F, p) : Pair(F[j]) = Pair(x) /\ F[j].account = x.account
    BY <1>1, <2>1, <2>2
  <2>4. Pair(x)[1] = x.payer
    BY DEF Pair
  <2>5. \A j : j \in PairTo(F, Pair(x), x.account) <=>
                  j \in ByPayer(F, p) /\ Pair(F[j]) = Pair(x) /\ F[j].account = x.account
    BY <1>5, <2>4 DEF PairTo, OfPair, ToAccount, ByPayer, Pair, PaidKey
  <2>. QED  BY <2>3, <2>5
<1>6. \A H : Newcomers(H, p) = {i \in ByPayer(H, p) : ~again(H, i)}
  BY DEF Newcomers
<1> HIDE DEF again
<1>7. Newcomers(G, p) = Newcomers(F, p) \cup
              (IF x.payer = p /\ PairTo(F, Pair(x), x.account) = {} THEN {n} ELSE {})
  BY <1>2, <1>4, <1>5, <1>6
<1>. QED  BY <1>7 DEF G, n
(* The recent part of a list of times.                                     *)
LEMMA RecentTimes ==
    ASSUME NEW F \in Seq(Wires), NEW S \in SUBSET DOMAIN F, NEW list, NEW cutoff \in Int,
           \/ KeptTimes(list, F, S) /\ cutoff >= LastTime(F) - Month
           \/ Mirrors(list, S, TimesOf(F))
    PROVE  /\ Mirrors(Recent(list, cutoff), After(F, S, cutoff), TimesOf(F))
           /\ Len(Recent(list, cutoff)) = Cardinality(After(F, S, cutoff))
<1>1. /\ LastTime(F) \in Nat /\ Month \in Nat /\ \A i \in DOMAIN F : F[i].ts \in Nat
  BY WiresSet
<1>2. PICK T \in SUBSET S : Mirrors(list, T, TimesOf(F)) /\ After(F, S, cutoff) \subseteq T
  <2>1. CASE Mirrors(list, S, TimesOf(F))
    BY <2>1 DEF After
  <2>2. CASE KeptTimes(list, F, S) /\ cutoff >= LastTime(F) - Month
    <3>1. PICK T \in SUBSET S :
              After(F, S, LastTime(F) - Month) \subseteq T /\ Mirrors(list, T, TimesOf(F))
      BY <2>2 DEF KeptTimes
    <3>2. After(F, S, cutoff) \subseteq After(F, S, LastTime(F) - Month)
      <4> SUFFICES ASSUME NEW i \in S, F[i].ts >= cutoff PROVE F[i].ts >= LastTime(F) - Month
        BY DEF After
      <4>1. F[i].ts \in Nat
        BY <1>1
      <4>. QED  BY <1>1, <2>2, <4>1
    <3>. QED  BY <3>1, <3>2
  <2>. QED  BY <2>1, <2>2
<1> DEFINE places == {j \in DOMAIN list : list[j] >= cutoff}
           part == After(F, S, cutoff)
<1>3. places \in SUBSET DOMAIN list /\ part \in SUBSET T
  BY <1>2
<1>4. \A j \in DOMAIN list : \A i \in T : list[j] = TimesOf(F)[i] => (j \in places <=> i \in part)
  BY DEF After, TimesOf
<1> HIDE DEF places, part
<1>5. Mirrors(At(list, places), part, TimesOf(F))
  BY <1>2, <1>3, <1>4, MirrorKept
<1>6. Recent(list, cutoff) = At(list, places)
  BY DEF Recent, places
<1>7. Len(At(list, places)) = Cardinality(part)
  BY <1>5, MirrorFacts
<1>. QED  BY <1>5, <1>6, <1>7 DEF part

LEMMA TimesJoined ==
    ASSUME NEW F \in Seq(Wires), NEW x \in Wires, x.ts >= LastTime(F), NEW S \in SUBSET DOMAIN F,
           NEW list, KeptTimes(list, F, S)
    PROVE  /\ KeptTimes(list, Append(F, x), S)
           /\ KeptTimes(Append(Recent(list, x.ts - Month), x.ts), Append(F, x), S \cup {Len(F) + 1})
<1> DEFINE G == Append(F, x)
           n == Len(F) + 1
           cutoff == x.ts - Month
           recent == Recent(list, cutoff)
           T == After(F, S, cutoff)
<1>1. /\ LastTime(G) = x.ts /\ \A i \in DOMAIN F : G[i] = F[i]
      /\ n \notin DOMAIN F /\ G[n] = x
  BY Joined
<1>2. /\ LastTime(F) \in Nat /\ x.ts \in Nat /\ Month \in Nat
      /\ \A i \in DOMAIN F : F[i].ts \in Nat
  BY WiresSet, WireOf
<1>3. cutoff \in Int /\ cutoff >= LastTime(F) - Month /\ LastTime(G) - Month = cutoff
  BY <1>1, <1>2
<1>4. Mirrors(recent, T, TimesOf(F))
  BY <1>3, RecentTimes
<1>5. T \in SUBSET S
  BY DEF After
<1>6. (\A i \in DOMAIN F : TimesOf(G)[i] = TimesOf(F)[i]) /\ TimesOf(G)[n] = x.ts
  BY <1>1, Joined DEF TimesOf
<1>7. TimesOf(G)[n] = x.ts
  BY <1>6
<1> HIDE DEF recent, T, n, cutoff, G
<1>8. Mirrors(recent, T, TimesOf(G))
  BY <1>4, <1>5, <1>6, MirrorAgrees
<1>9. Mirrors(Append(recent, x.ts), T \cup {n}, TimesOf(G))
  BY <1>1, <1>5, <1>7, <1>8, MirrorAppend
<1>10. After(G, S \cup {n}, cutoff) \subseteq T \cup {n}
  BY <1>1 DEF After, T
<1>11. KeptTimes(Append(recent, x.ts), G, S \cup {n})
  <2>1. T \cup {n} \in SUBSET (S \cup {n})
    BY <1>5
  <2>. QED  BY <1>3, <1>9, <1>10, <2>1 DEF KeptTimes
<1>12. KeptTimes(list, G, S)
  <2>1. PICK U \in SUBSET S :
            After(F, S, LastTime(F) - Month) \subseteq U /\ Mirrors(list, U, TimesOf(F))
    BY DEF KeptTimes
  <2>2. Mirrors(list, U, TimesOf(G))
    BY <1>6, <2>1, MirrorAgrees
  <2>3. After(G, S, LastTime(G) - Month) \subseteq After(F, S, LastTime(F) - Month)
    <3> SUFFICES ASSUME NEW i \in S, G[i].ts >= LastTime(G) - Month
                 PROVE  F[i].ts >= LastTime(F) - Month
      BY DEF After
    <3>1. G[i] = F[i] /\ F[i].ts \in Nat
      BY <1>1, <1>2
    <3>. QED  BY <1>2, <1>3, <3>1
  <2>4. After(G, S, LastTime(G) - Month) \subseteq U
    BY <2>1, <2>3
  <2>. QED  BY <2>2, <2>4 DEF KeptTimes
<1>. QED  BY <1>11, <1>12 DEF recent, n, cutoff, G

(* The dictionaries once a wire is folded in.                              *)
LEMMA BookAfter ==
    ASSUME BookShape(book), NEW t \in Wires
    PROVE  LET B == Folded(t)
           IN  /\ BookShape(B)
               /\ \A k \in PaidKeys :
                     B.first[k] = IF k = PaidKey(t) THEN Since(book.first[k], t.ts) ELSE book.first[k]
               /\ \A q \in Pairs :
                     /\ B.pairPaid[q] = IF q = Pair(t) THEN book.pairPaid[q] + 1 ELSE book.pairPaid[q]
                     /\ \A a \in Accounts :
                           B.pairSeen[q][a] = IF q = Pair(t) /\ a = t.account
                                              THEN Since(book.pairSeen[q][a], t.ts)
                                              ELSE book.pairSeen[q][a]
               /\ \A p \in Payers :
                     /\ B.wires[p] = IF p = t.payer
                                     THEN Append(Recent(book.wires[p], t.ts - Month), t.ts)
                                     ELSE book.wires[p]
                     /\ B.newAccts[p] = IF p = t.payer /\ NewAccount(t)
                                        THEN Append(book.newAccts[p], t.ts) ELSE book.newAccts[p]
                     /\ B.amounts[p] = IF p = t.payer
                                       THEN Append(book.amounts[p], [ts |-> t.ts, amount |-> t.amount])
                                       ELSE book.amounts[p]
<1> DEFINE B == Folded(t)
           entry == [ts |-> t.ts, amount |-> t.amount]
           k0 == PaidKey(t)
           q0 == Pair(t)
<1>1. k0 \in PaidKeys /\ q0 \in Pairs /\ t.payer \in Payers /\ t.account \in Accounts
  BY WireOf
<1>2. B = [first |-> [book.first EXCEPT ![k0] = Since(@, t.ts)],
           pairSeen |-> [book.pairSeen EXCEPT ![q0] =
                           [book.pairSeen[q0] EXCEPT
                               ![t.account] = Since(book.pairSeen[q0][t.account], t.ts)]],
           pairPaid |-> [book.pairPaid EXCEPT ![q0] = @ + 1],
           wires |-> [book.wires EXCEPT ![t.payer] = Append(Recent(@, t.ts - Month), t.ts)],
           newAccts |-> [book.newAccts EXCEPT ![t.payer] =
                            IF NewAccount(t) THEN Append(@, t.ts) ELSE @],
           amounts |-> [book.amounts EXCEPT ![t.payer] = Append(@, entry)]]
  <2> DEFINE v1 == Since(book.first[k0], t.ts)
             v2 == Since(book.pairSeen[q0][t.account], t.ts)
             v3 == book.pairPaid[q0] + 1
             v4 == Append(Recent(book.wires[t.payer], t.ts - Month), t.ts)
             v5 == IF NewAccount(t) THEN Append(book.newAccts[t.payer], t.ts)
                   ELSE book.newAccts[t.payer]
             v6 == Append(book.amounts[t.payer], entry)
  <2>1. PICK f, s, c, w, a, m :
            book = [first |-> f, pairSeen |-> s, pairPaid |-> c, wires |-> w, newAccts |-> a, amounts |-> m]
    BY DEF BookShape
  <2>2. B = [book EXCEPT !.first[k0] = v1, !.pairSeen[q0][t.account] = v2, !.pairPaid[q0] = v3,
                         !.wires[t.payer] = v4, !.newAccts[t.payer] = v5, !.amounts[t.payer] = v6]
    BY DEF Folded, FoldedKeeping
  <2> HIDE DEF B, entry, k0, q0, v1, v2, v3, v4, v5, v6
  <2>3. B = [first |-> [book.first EXCEPT ![k0] = v1],
             pairSeen |-> [book.pairSeen EXCEPT ![q0] = [book.pairSeen[q0] EXCEPT ![t.account] = v2]],
             pairPaid |-> [book.pairPaid EXCEPT ![q0] = v3],
             wires |-> [book.wires EXCEPT ![t.payer] = v4],
             newAccts |-> [book.newAccts EXCEPT ![t.payer] = v5],
             amounts |-> [book.amounts EXCEPT ![t.payer] = v6]]
    BY <2>1, <2>2
  <2>. QED  BY <2>3 DEF v1, v2, v3, v4, v5, v6
<1> HIDE DEF B, entry, k0, q0
<1>3. /\ B.first = [k \in PaidKeys |-> IF k = k0 THEN Since(book.first[k], t.ts) ELSE book.first[k]]
      /\ B.pairPaid = [q \in Pairs |-> IF q = q0 THEN book.pairPaid[q] + 1 ELSE book.pairPaid[q]]
      /\ B.wires = [p \in Payers |-> IF p = t.payer
                       THEN Append(Recent(book.wires[p], t.ts - Month), t.ts) ELSE book.wires[p]]
  BY <1>1, <1>2 DEF BookShape
<1>4. /\ B.newAccts = [p \in Payers |-> IF p = t.payer /\ NewAccount(t)
                          THEN Append(book.newAccts[p], t.ts) ELSE book.newAccts[p]]
      /\ B.amounts = [p \in Payers |-> IF p = t.payer
                         THEN Append(book.amounts[p], entry) ELSE book.amounts[p]]
  BY <1>1, <1>2 DEF BookShape
<1>5. B.pairSeen = [q \in Pairs |-> IF q = q0
                       THEN [book.pairSeen[q0] EXCEPT
                               ![t.account] = Since(book.pairSeen[q0][t.account], t.ts)]
                       ELSE book.pairSeen[q]]
  <2> DEFINE v == [book.pairSeen[q0] EXCEPT
                      ![t.account] = Since(book.pairSeen[q0][t.account], t.ts)]
  <2>1. B.pairSeen = [book.pairSeen EXCEPT ![q0] = v]
    BY <1>2
  <2>2. book.pairSeen = [q \in Pairs |-> book.pairSeen[q]]
    BY DEF BookShape
  <2> HIDE DEF v
  <2>3. B.pairSeen = [q \in Pairs |-> IF q = q0 THEN v ELSE book.pairSeen[q]]
    BY <1>1, <2>1, <2>2
  <2>. QED  BY <2>3 DEF v
<1>6. \A q \in Pairs : book.pairSeen[q] = [a \in Accounts |-> book.pairSeen[q][a]]
  BY DEF BookShape
<1>7. \A q \in Pairs :
         B.pairSeen[q] = [a \in Accounts |-> IF q = q0 /\ a = t.account
                                             THEN Since(book.pairSeen[q][a], t.ts)
                                             ELSE book.pairSeen[q][a]]
  <2> TAKE q \in Pairs
  <2>1. CASE q = q0
    <3>1. B.pairSeen[q] = [book.pairSeen[q] EXCEPT
                              ![t.account] = Since(book.pairSeen[q][t.account], t.ts)]
      BY <1>5, <2>1
    <3>. QED  BY <1>1, <1>6, <2>1, <3>1
  <2>2. CASE q # q0
    <3>1. B.pairSeen[q] = book.pairSeen[q]
      BY <1>5, <2>2
    <3>. QED  BY <1>6, <2>2, <3>1
  <2>. QED  BY <2>1, <2>2
<1>8. BookShape(B)
  <2>1. B = [first |-> B.first, pairSeen |-> B.pairSeen, pairPaid |-> B.pairPaid,
             wires |-> B.wires, newAccts |-> B.newAccts, amounts |-> B.amounts]
    BY <1>2
  <2>2. \A q \in Pairs : B.pairSeen[q] = [a \in Accounts |-> B.pairSeen[q][a]]
    BY <1>7
  <2>. QED  BY <1>3, <1>4, <1>5, <2>1, <2>2 DEF BookShape
<1>9. \A q \in Pairs : \A a \in Accounts :
         B.pairSeen[q][a] = IF q = q0 /\ a = t.account
                            THEN Since(book.pairSeen[q][a], t.ts) ELSE book.pairSeen[q][a]
  <2> TAKE q \in Pairs
  <2>1. B.pairSeen[q] = [a \in Accounts |-> IF q = q0 /\ a = t.account
                                            THEN Since(book.pairSeen[q][a], t.ts)
                                            ELSE book.pairSeen[q][a]]
    BY <1>7
  <2> TAKE a \in Accounts
  <2>. QED  BY <2>1
<1>10. /\ \A k \in PaidKeys :
             B.first[k] = IF k = k0 THEN Since(book.first[k], t.ts) ELSE book.first[k]
       /\ \A q \in Pairs :
             B.pairPaid[q] = IF q = q0 THEN book.pairPaid[q] + 1 ELSE book.pairPaid[q]
  BY <1>3
<1>11. \A p \in Payers :
         /\ B.wires[p] = IF p = t.payer THEN Append(Recent(book.wires[p], t.ts - Month), t.ts)
                         ELSE book.wires[p]
         /\ B.newAccts[p] = IF p = t.payer /\ NewAccount(t) THEN Append(book.newAccts[p], t.ts)
                            ELSE book.newAccts[p]
         /\ B.amounts[p] = IF p = t.payer THEN Append(book.amounts[p], entry) ELSE book.amounts[p]
  BY <1>3, <1>4
<1>. QED  BY <1>8, <1>9, <1>10, <1>11 DEF B, entry, k0, q0
LEMMA TimeOfFirstFacts ==
    ASSUME NEW F \in Seq(Wires), NEW S \in SUBSET DOMAIN F
    PROVE  /\ S = {} => TimeOfFirst(F, S) = Never
           /\ S # {} => /\ Min(S) \in S /\ TimeOfFirst(F, S) = F[Min(S)].ts
                        /\ F[Min(S)].ts \in Nat /\ F[Min(S)].ts # Never
<1>1. DOMAIN F \in SUBSET Nat /\ \A i \in DOMAIN F : F[i].ts \in Nat
  BY WiresSet
<1>2. S # {} => Min(S) \in S
  BY <1>1, MinIsLeast
<1>3. S # {} => F[Min(S)].ts \in Nat
  BY <1>1, <1>2
<1>. QED  BY <1>2, <1>3 DEF TimeOfFirst

(* The pair has not paid the account: NewAccount looks it up.              *)
LEMMA NewAccountIs ==
    ASSUME log \in Seq(Wires), BookOf(book, log), NEW t \in Wires
    PROVE  NewAccount(t) <=> PairTo(log, Pair(t), t.account) = {}
<1>1. book.pairSeen[Pair(t)][t.account] = TimeOfFirst(log, PairTo(log, Pair(t), t.account))
  BY WireOf DEF BookOf
<1>2. PairTo(log, Pair(t), t.account) \in SUBSET DOMAIN log
  BY WiresSet
<1>. QED  BY <1>1, <1>2, TimeOfFirstFacts DEF NewAccount

LEMMA PaidStep ==
    ASSUME log \in Seq(Wires), PaidOf(paid, log), NEW t \in Wires
    PROVE  PaidOf([paid EXCEPT ![PaidKey(t)] = Plus(paid[PaidKey(t)], t.amount)], Append(log, t))
<1> DEFINE G == Append(log, t)
           n == Len(log) + 1
           P == [paid EXCEPT ![PaidKey(t)] = Plus(paid[PaidKey(t)], t.amount)]
<1>0. \A k : ToAccount(G, k) = ToAccount(log, k) \cup (IF PaidKey(t) = k THEN {n} ELSE {})
  <2>1. DOMAIN G = DOMAIN log \cup {n} /\ G[n] = t /\ \A i \in DOMAIN log : G[i] = log[i]
    BY Joined
  <2> HIDE DEF G, n
  <2>. QED  BY <2>1, Joined DEF ToAccount, n
<1>1. t.amount \in Nat /\ PaidKey(t) \in PaidKeys
  BY WireOf
<1>2. paid \in [PaidKeys -> Paids]
  BY DEF PaidOf
<1>3. /\ P \in [PaidKeys -> Paids]
      /\ P[PaidKey(t)].total = paid[PaidKey(t)].total + t.amount
      /\ P[PaidKey(t)].most = Larger(paid[PaidKey(t)].most, t.amount)
      /\ \A k \in PaidKeys : k # PaidKey(t) => P[k] = paid[k]
  <2>1. /\ P \in [PaidKeys -> Paids]
        /\ Plus(paid[PaidKey(t)], t.amount).total = paid[PaidKey(t)].total + t.amount
        /\ Plus(paid[PaidKey(t)], t.amount).most = Larger(paid[PaidKey(t)].most, t.amount)
    BY <1>1, <1>2, PlusTyped
  <2>. QED  BY <1>1, <1>2, <2>1
<1> HIDE DEF P
<1>4. ASSUME NEW k \in PaidKeys
      PROVE  P[k].total = SumAt(G, ToAccount(G, k)) /\ MostAt(G, ToAccount(G, k), P[k].most)
  <2> DEFINE S == ToAccount(log, k)
  <2>1. S \in SUBSET DOMAIN log
    BY WiresSet
  <2>2. paid[k].total = SumAt(log, S) /\ MostAt(log, S, paid[k].most) /\ paid[k].most \in Nat
    BY <1>2 DEF PaidOf, Paids
  <2>3. ToAccount(G, k) = S \cup (IF PaidKey(t) = k THEN {n} ELSE {})
    BY <1>0
  <2> HIDE DEF S
  <2>4. /\ SumAt(G, S) = SumAt(log, S) /\ SumAt(G, S \cup {n}) = SumAt(log, S) + t.amount
        /\ MostAt(G, S, paid[k].most) /\ MostAt(G, S \cup {n}, Larger(paid[k].most, t.amount))
    BY <2>1, <2>2, SetJoined
  <2> HIDE DEF G, n
  <2>5. CASE k = PaidKey(t)
    BY <1>3, <2>2, <2>3, <2>4, <2>5
  <2>6. CASE k # PaidKey(t)
    <3>1. ToAccount(G, k) = S /\ P[k] = paid[k]
      BY <1>3, <2>3, <2>6
    <3>. QED  BY <2>2, <2>4, <3>1
  <2>. QED  BY <2>5, <2>6
<1> HIDE DEF G
<1>5. PaidOf(P, G)
  BY <1>3, <1>4 DEF PaidOf
<1>. QED  BY <1>5 DEF P, G

LEMMA BookStep ==
    ASSUME log \in Seq(Wires), BookOf(book, log), NEW t \in Wires, t.ts >= LastTime(log)
    PROVE  BookOf(Folded(t), Append(log, t))
<1> DEFINE G == Append(log, t)
           n == Len(log) + 1
           B == Folded(t)
           entry == [ts |-> t.ts, amount |-> t.amount]
<1>1. /\ PaidKey(t) \in PaidKeys /\ Pair(t) \in Pairs /\ Pair(t)[1] = t.payer
      /\ t.payer \in Payers /\ t.account \in Accounts
  BY WireOf
<1>2. BookShape(book)
  BY DEF BookOf
<1>3. /\ BookShape(B)
      /\ \A k \in PaidKeys :
            B.first[k] = IF k = PaidKey(t) THEN Since(book.first[k], t.ts) ELSE book.first[k]
      /\ \A q \in Pairs :
            /\ B.pairPaid[q] = IF q = Pair(t) THEN book.pairPaid[q] + 1 ELSE book.pairPaid[q]
            /\ \A a \in Accounts :
                  B.pairSeen[q][a] = IF q = Pair(t) /\ a = t.account
                                     THEN Since(book.pairSeen[q][a], t.ts)
                                     ELSE book.pairSeen[q][a]
      /\ \A p \in Payers :
            /\ B.wires[p] = IF p = t.payer THEN Append(Recent(book.wires[p], t.ts - Month), t.ts)
                            ELSE book.wires[p]
            /\ B.newAccts[p] = IF p = t.payer /\ NewAccount(t)
                               THEN Append(book.newAccts[p], t.ts) ELSE book.newAccts[p]
            /\ B.amounts[p] = IF p = t.payer THEN Append(book.amounts[p], entry)
                              ELSE book.amounts[p]
  BY <1>2, BookAfter
<1>4. /\ \A p : ByPayer(G, p) = ByPayer(log, p) \cup (IF t.payer = p THEN {n} ELSE {})
      /\ \A q : OfPair(G, q) = OfPair(log, q) \cup (IF Pair(t) = q THEN {n} ELSE {})
      /\ \A k : ToAccount(G, k) = ToAccount(log, k) \cup (IF PaidKey(t) = k THEN {n} ELSE {})
      /\ \A i \in DOMAIN log : /\ TimesOf(G)[i] = TimesOf(log)[i]
                               /\ EntryOf(G)[i] = EntryOf(log)[i]
      /\ TimesOf(G)[n] = t.ts /\ EntryOf(G)[n] = entry
  BY WireJoined
<1>5. /\ IsFiniteSet(DOMAIN log)
      /\ \A p : ByPayer(log, p) \in SUBSET DOMAIN log /\ Newcomers(log, p) \in SUBSET ByPayer(log, p)
      /\ \A q : OfPair(log, q) \in SUBSET DOMAIN log
      /\ \A k : ToAccount(log, k) \in SUBSET DOMAIN log
      /\ \A q, a : PairTo(log, q, a) \in SUBSET DOMAIN log
  BY WiresSet
<1>6. n \notin DOMAIN log
  BY Joined
<1>7. \A S \in SUBSET DOMAIN log :
          /\ TimeOfFirst(G, S) = TimeOfFirst(log, S)
          /\ TimeOfFirst(G, S \cup {n}) = Since(TimeOfFirst(log, S), t.ts)
  BY SetJoined
<1>8. \A p \in Payers : Newcomers(G, p) = Newcomers(log, p) \cup
                            (IF t.payer = p /\ NewAccount(t) THEN {n} ELSE {})
  <2>1. \A p \in Payers : Newcomers(G, p) = Newcomers(log, p) \cup
            (IF t.payer = p /\ PairTo(log, Pair(t), t.account) = {} THEN {n} ELSE {})
    BY NewcomersJoined
  <2>2. NewAccount(t) <=> PairTo(log, Pair(t), t.account) = {}
    BY NewAccountIs
  <2>. QED  BY <2>1, <2>2
<1>9. \A S \in SUBSET DOMAIN log : \A list : KeptTimes(list, log, S) =>
          /\ KeptTimes(list, G, S)
          /\ KeptTimes(Append(Recent(list, t.ts - Month), t.ts), G, S \cup {n})
  BY TimesJoined
<1> HIDE DEF B, G, n, entry
<1>10. ASSUME NEW k \in PaidKeys PROVE B.first[k] = TimeOfFirst(G, ToAccount(G, k))
  <2>1. book.first[k] = TimeOfFirst(log, ToAccount(log, k)) /\ ToAccount(log, k) \in SUBSET DOMAIN log
    BY <1>5 DEF BookOf
  <2>2. CASE k = PaidKey(t)
    <3>1. ToAccount(G, k) = ToAccount(log, k) \cup {n}
      BY <1>4, <2>2
    <3>2. TimeOfFirst(G, ToAccount(log, k) \cup {n}) = Since(book.first[k], t.ts)
      BY <1>7, <2>1
    <3>3. B.first[k] = Since(book.first[k], t.ts)
      BY <1>3, <2>2
    <3>. QED  BY <3>1, <3>2, <3>3
  <2>3. CASE k # PaidKey(t)
    <3>1. ToAccount(G, k) = ToAccount(log, k)
      BY <1>4, <2>3
    <3>. QED  BY <1>3, <1>7, <2>1, <2>3, <3>1
  <2>. QED  BY <2>2, <2>3
<1>11. ASSUME NEW q \in Pairs PROVE B.pairPaid[q] = Cardinality(OfPair(G, q))
  <2>1. /\ book.pairPaid[q] = Cardinality(OfPair(log, q)) /\ IsFiniteSet(OfPair(log, q))
        /\ n \notin OfPair(log, q)
    BY <1>5, <1>6, FS_Subset DEF BookOf
  <2>2. Cardinality(OfPair(log, q) \cup {n}) = Cardinality(OfPair(log, q)) + 1
    BY <2>1, FS_AddElement
  <2>3. CASE q = Pair(t)
    BY <1>3, <1>4, <2>1, <2>2, <2>3
  <2>4. CASE q # Pair(t)
    <3>1. OfPair(G, q) = OfPair(log, q)
      BY <1>4, <2>4
    <3>. QED  BY <1>3, <2>1, <2>4, <3>1
  <2>. QED  BY <2>3, <2>4
<1>12. ASSUME NEW q \in Pairs, NEW a \in Accounts
       PROVE  B.pairSeen[q][a] = TimeOfFirst(G, PairTo(G, q, a))
  <2> DEFINE S == PairTo(log, q, a)
  <2>1. book.pairSeen[q][a] = TimeOfFirst(log, S) /\ S \in SUBSET DOMAIN log
    BY <1>5 DEF BookOf
  <2>2. PairTo(G, q, a) = S \cup (IF q = Pair(t) /\ a = t.account THEN {n} ELSE {})
    <3>1. (Pair(t) = q /\ PaidKey(t) = <<q[1], a>>) <=> (q = Pair(t) /\ a = t.account)
      BY <1>1 DEF PaidKey
    <3>2. n \notin OfPair(log, q) /\ n \notin ToAccount(log, <<q[1], a>>)
      BY <1>5, <1>6
    <3>3. /\ OfPair(G, q) = OfPair(log, q) \cup (IF Pair(t) = q THEN {n} ELSE {})
          /\ ToAccount(G, <<q[1], a>>) =
                ToAccount(log, <<q[1], a>>) \cup (IF PaidKey(t) = <<q[1], a>> THEN {n} ELSE {})
      BY <1>4
    <3>. QED  BY <3>1, <3>2, <3>3 DEF PairTo
  <2> HIDE DEF S
  <2>3. CASE q = Pair(t) /\ a = t.account
    BY <1>3, <1>7, <2>1, <2>2, <2>3, SMTT(30)
  <2>4. CASE ~(q = Pair(t) /\ a = t.account)
    <3>1. PairTo(G, q, a) = S
      BY <2>2, <2>4
    <3>2. B.pairSeen[q][a] = book.pairSeen[q][a]
      BY <1>3, <2>4
    <3>. QED  BY <1>7, <2>1, <3>1, <3>2
  <2>. QED  BY <2>3, <2>4
<1>13. ASSUME NEW p \in Payers PROVE KeptTimes(B.wires[p], G, ByPayer(G, p))
  <2>1. KeptTimes(book.wires[p], log, ByPayer(log, p)) /\ ByPayer(log, p) \in SUBSET DOMAIN log
    BY <1>5 DEF BookOf
  <2>2. /\ KeptTimes(book.wires[p], G, ByPayer(log, p))
        /\ KeptTimes(Append(Recent(book.wires[p], t.ts - Month), t.ts), G, ByPayer(log, p) \cup {n})
    BY <1>9, <2>1
  <2>3. CASE p = t.payer
    BY <1>3, <1>4, <2>2, <2>3
  <2>4. CASE p # t.payer
    <3>1. ByPayer(G, p) = ByPayer(log, p)
      BY <1>4, <2>4
    <3>. QED  BY <1>3, <2>2, <2>4, <3>1
  <2>. QED  BY <2>3, <2>4
<1>14. ASSUME NEW p \in Payers PROVE Mirrors(B.newAccts[p], Newcomers(G, p), TimesOf(G))
  <2> DEFINE N == Newcomers(log, p)
  <2>1. N \in SUBSET DOMAIN log /\ n \notin N
    <3>1. N \in SUBSET ByPayer(log, p) /\ ByPayer(log, p) \in SUBSET DOMAIN log
      BY <1>5
    <3>. QED  BY <1>6, <3>1
  <2>2. Mirrors(book.newAccts[p], N, TimesOf(log))
    BY DEF BookOf
  <2>3. Newcomers(G, p) = N \cup (IF t.payer = p /\ NewAccount(t) THEN {n} ELSE {})
    BY <1>8
  <2> HIDE DEF N
  <2>4. \A i \in N : TimesOf(G)[i] = TimesOf(log)[i]
    BY <1>4, <2>1
  <2>5. Mirrors(book.newAccts[p], N, TimesOf(G))
    BY <2>2, <2>4, MirrorAgrees
  <2>6. Mirrors(Append(book.newAccts[p], t.ts), N \cup {n}, TimesOf(G))
    <3>1. TimesOf(G)[n] = t.ts
      BY <1>4
    <3>. QED  BY <2>1, <2>5, <3>1, MirrorAppend
  <2>7. CASE p = t.payer /\ NewAccount(t)
    BY <1>3, <2>3, <2>6, <2>7
  <2>8. CASE ~(p = t.payer /\ NewAccount(t))
    <3>1. Newcomers(G, p) = N
      BY <2>3, <2>8
    <3>2. B.newAccts[p] = book.newAccts[p]
      BY <1>3, <2>8
    <3>. QED  BY <2>5, <3>1, <3>2
  <2>. QED  BY <2>7, <2>8
<1>15. ASSUME NEW p \in Payers PROVE Mirrors(B.amounts[p], ByPayer(G, p), EntryOf(G))
  <2> DEFINE N == ByPayer(log, p)
  <2>1. N \in SUBSET DOMAIN log /\ n \notin N
    BY <1>5, <1>6
  <2>2. Mirrors(book.amounts[p], N, EntryOf(log))
    BY DEF BookOf
  <2>3. ByPayer(G, p) = N \cup (IF t.payer = p THEN {n} ELSE {})
    BY <1>4
  <2> HIDE DEF N
  <2>4. \A i \in N : EntryOf(G)[i] = EntryOf(log)[i]
    BY <1>4, <2>1
  <2>5. Mirrors(book.amounts[p], N, EntryOf(G))
    BY <2>2, <2>4, MirrorAgrees
  <2>6. Mirrors(Append(book.amounts[p], entry), N \cup {n}, EntryOf(G))
    <3>1. EntryOf(G)[n] = entry
      BY <1>4
    <3>. QED  BY <2>1, <2>5, <3>1, MirrorAppend
  <2>7. CASE p = t.payer
    BY <1>3, <2>3, <2>6, <2>7
  <2>8. CASE p # t.payer
    <3>1. ByPayer(G, p) = N
      BY <2>3, <2>8
    <3>2. B.amounts[p] = book.amounts[p]
      BY <1>3, <2>8
    <3>. QED  BY <2>5, <3>1, <3>2
  <2>. QED  BY <2>7, <2>8
<1>16. BookOf(B, G)
  BY <1>3, <1>10, <1>11, <1>12, <1>13, <1>14, <1>15 DEF BookOf
<1>. QED  BY <1>16 DEF B, G
(* What is read off the dictionaries is what RowOfHistory says of the rows.*)
LEMMA WiresOfDay ==
    ASSUME NEW F \in Seq(Wires), NEW S \in SUBSET DOMAIN F, NEW list,
           Mirrors(list, S, EntryOf(F)), NEW cutoff
    PROVE  SumFunction([j \in {j \in DOMAIN list : list[j].ts >= cutoff} |-> list[j].amount])
               = SumFunction([i \in After(F, S, cutoff) |-> F[i].amount])
<1> DEFINE places == {j \in DOMAIN list : list[j].ts >= cutoff}
           part == After(F, S, cutoff)
<1>1. places \in SUBSET DOMAIN list /\ part \in SUBSET S
  BY DEF After
<1>2. \A i \in S : EntryOf(F)[i].ts = F[i].ts /\ EntryOf(F)[i].amount = F[i].amount
  BY DEF EntryOf
<1>3. \A j \in DOMAIN list : \A i \in S : list[j] = EntryOf(F)[i] => (j \in places <=> i \in part)
  BY <1>2 DEF After
<1>4. \A i \in part : EntryOf(F)[i].amount = F[i].amount
  BY <1>1, <1>2
<1>7. \A i \in part : EntryOf(F)[i].amount \in Nat
  <2>1. \A i \in DOMAIN F : F[i].amount \in Nat
    BY WiresSet
  <2>. QED  BY <1>1, <1>4, <2>1
<1> HIDE DEF places, part
<1>5. SumFunction([j \in places |-> list[j].amount])
          = SumFunction([i \in part |-> EntryOf(F)[i].amount])
  BY <1>1, <1>3, <1>7, MirrorPartSum
<1>6. [i \in part |-> EntryOf(F)[i].amount] = [i \in part |-> F[i].amount]
  BY <1>4
<1>. QED  BY <1>5, <1>6 DEF places, part

LEMMA RowIsRead ==
    ASSUME log \in Seq(Wires), PaidOf(paid, log), BookOf(book, log),
           NEW t \in Wires, t.ts >= LastTime(log)
    PROVE  Row(t) = RowOfHistory(log, t)
<1> DEFINE ofPayer == ByPayer(log, t.payer)
           ofPair == OfPair(log, Pair(t))
           toAccount == ToAccount(log, PaidKey(t))
           pairTo == PairTo(log, Pair(t), t.account)
           firsts == Newcomers(log, t.payer)
           R == Row(t)
           Q == RowOfHistory(log, t)
           sent == paid[PaidKey(t)]
           list == book.amounts[t.payer]
           ageOfFirst(S) == IF S = {} THEN 0 ELSE t.ts - log[Min(S)].ts
<1>1. /\ PaidKey(t) \in PaidKeys /\ Pair(t) \in Pairs /\ Pair(t)[1] = t.payer
      /\ t.payer \in Payers /\ t.account \in Accounts
      /\ t.ts \in Nat /\ t.amount \in Nat /\ t.amount > 0
  BY WireOf
<1>2. /\ IsFiniteSet(DOMAIN log) /\ LastTime(log) \in Nat /\ DOMAIN log \in SUBSET Nat
      /\ \A i \in DOMAIN log : log[i].ts \in Nat /\ log[i].amount \in Nat \ {0}
  BY WiresSet
<1>3. /\ ofPayer \in SUBSET DOMAIN log /\ ofPair \in SUBSET DOMAIN log
      /\ toAccount \in SUBSET DOMAIN log /\ pairTo \in SUBSET DOMAIN log
      /\ firsts \in SUBSET DOMAIN log
  BY WiresSet
<1>4. pairTo = ofPair \cap toAccount
  BY <1>1 DEF PairTo, PaidKey
<1>5. /\ sent.total = SumAt(log, toAccount) /\ MostAt(log, toAccount, sent.most)
      /\ sent.most \in Nat
  BY <1>1 DEF PaidOf, Paids
<1>6. /\ book.first[PaidKey(t)] = TimeOfFirst(log, toAccount)
      /\ book.pairPaid[Pair(t)] = Cardinality(ofPair)
      /\ book.pairSeen[Pair(t)][t.account] = TimeOfFirst(log, pairTo)
      /\ KeptTimes(book.wires[t.payer], log, ofPayer)
      /\ Mirrors(book.newAccts[t.payer], firsts, TimesOf(log))
      /\ Mirrors(list, ofPayer, EntryOf(log))
  BY <1>1 DEF BookOf
<1>7. NewAccount(t) <=> pairTo = {}
  BY NewAccountIs
<1>8. R.cumulative_to_account = Q.cumulative_to_account
  <2>1. R.cumulative_to_account = sent.total + t.amount
    BY DEF Row
  <2>2. Q.cumulative_to_account = SumFunction([i \in toAccount |-> log[i].amount]) + t.amount
    BY DEF RowOfHistory, ToAccount
  <2>3. SumFunction([i \in toAccount |-> log[i].amount]) = SumAt(log, toAccount)
    BY SumIs DEF SumAt
  <2>. QED  BY <1>5, <2>1, <2>2, <2>3
<1>9. R.benef_account_age_days = Q.benef_account_age_days
  <2>1. R.benef_account_age_days = t.ts - Since(TimeOfFirst(log, toAccount), t.ts)
    BY <1>6 DEF Row
  <2>2. Q.benef_account_age_days = ageOfFirst(toAccount)
    BY DEF RowOfHistory, ToAccount
  <2>3. t.ts - Since(TimeOfFirst(log, toAccount), t.ts) = ageOfFirst(toAccount)
    BY <1>1, <1>3, TimeOfFirstFacts DEF Since
  <2>. QED  BY <2>1, <2>2, <2>3
<1>10. R.is_new_beneficiary_account = Q.is_new_beneficiary_account
  <2>1. R.is_new_beneficiary_account = (NewAccount(t) /\ book.pairPaid[Pair(t)] > 0)
    BY DEF Row
  <2>2. Q.is_new_beneficiary_account = (pairTo = {} /\ ofPair # {})
    BY <1>4 DEF RowOfHistory, OfPair, ToAccount
  <2>3. book.pairPaid[Pair(t)] > 0 <=> ofPair # {}
    <3>1. IsFiniteSet(ofPair) /\ Cardinality(ofPair) \in Nat
      BY <1>2, <1>3, FS_Subset, FS_CardinalityType
    <3>2. Cardinality(ofPair) = 0 <=> ofPair = {}
      BY <3>1, FS_EmptySet
    <3>. QED  BY <1>6, <3>1, <3>2
  <2>. QED  BY <1>7, <2>1, <2>2, <2>3
<1>11. R.days_since_beneficiary_change = Q.days_since_beneficiary_change
  <2>1. R.days_since_beneficiary_change =
           IF NewAccount(t) THEN Never ELSE t.ts - TimeOfFirst(log, pairTo)
    BY <1>6 DEF Row
  <2>2. Q.days_since_beneficiary_change = IF pairTo = {} THEN Never ELSE ageOfFirst(pairTo)
    BY <1>4 DEF RowOfHistory, OfPair, ToAccount
  <2>3. pairTo # {} => t.ts - TimeOfFirst(log, pairTo) = ageOfFirst(pairTo)
    BY <1>3, TimeOfFirstFacts
  <2>. QED  BY <1>7, <2>1, <2>2, <2>3
<1>12. R.payer_wires_30d = Q.payer_wires_30d
  <2>1. R.payer_wires_30d = Len(Recent(book.wires[t.payer], t.ts - Month))
    BY DEF Row
  <2>2. Q.payer_wires_30d = Cardinality(After(log, ofPayer, t.ts - Month))
    BY DEF RowOfHistory, After, ByPayer
  <2>3. t.ts - Month \in Int /\ t.ts - Month >= LastTime(log) - Month
    BY <1>1, <1>2
  <2> HIDE DEF ofPayer
  <2>4. Len(Recent(book.wires[t.payer], t.ts - Month)) = Cardinality(After(log, ofPayer, t.ts - Month))
    BY <1>3, <1>6, <2>3, RecentTimes
  <2>. QED  BY <2>1, <2>2, <2>4
<1>13. R.supplier_payment_count = Q.supplier_payment_count
  <2>1. R.supplier_payment_count = book.pairPaid[Pair(t)]
    BY DEF Row
  <2>2. Q.supplier_payment_count = Cardinality(ofPair)
    BY DEF RowOfHistory, OfPair
  <2>. QED  BY <1>6, <2>1, <2>2
<1>14. R.payer_new_accounts_7d = Q.payer_new_accounts_7d
  <2>1. R.payer_new_accounts_7d = Len(Recent(book.newAccts[t.payer], t.ts - Week))
    BY DEF Row
  <2>2. Q.payer_new_accounts_7d = Cardinality(After(log, firsts, t.ts - Week))
    BY DEF RowOfHistory, After, Newcomers, ByPayer
  <2>3. t.ts - Week \in Int
    BY <1>1
  <2> HIDE DEF firsts
  <2>4. Len(Recent(book.newAccts[t.payer], t.ts - Week)) = Cardinality(After(log, firsts, t.ts - Week))
    BY <1>3, <1>6, <2>3, RecentTimes
  <2>. QED  BY <2>1, <2>2, <2>4
<1>15. R.payer_wire_sum_24h = Q.payer_wire_sum_24h
  <2>1. R.payer_wire_sum_24h =
           SumFunction([j \in {j \in DOMAIN list : list[j].ts >= t.ts - Day} |-> list[j].amount])
    BY DEF Row
  <2>2. Q.payer_wire_sum_24h = SumFunction([i \in After(log, ofPayer, t.ts - Day) |-> log[i].amount])
    BY DEF RowOfHistory, After, ByPayer
  <2> HIDE DEF ofPayer, list
  <2>. QED  BY <1>3, <1>6, <2>1, <2>2, WiresOfDay
<1>16. R.amount_over_account_max = Q.amount_over_account_max
  <2> DEFINE amounts == {log[i].amount : i \in toAccount}
  <2>1. R.amount_over_account_max = <<t.amount, IF sent.most = 0 THEN t.amount ELSE sent.most>>
    BY DEF Row
  <2>2. Q.amount_over_account_max =
           <<t.amount, IF toAccount = {} THEN t.amount ELSE Max(amounts)>>
    BY DEF RowOfHistory, ToAccount
  <2>3. CASE toAccount = {}
    BY <1>5, <2>1, <2>2, <2>3 DEF MostAt
  <2>4. CASE toAccount # {}
    <3>1. (\E i \in toAccount : log[i].amount = sent.most) /\ \A i \in toAccount : log[i].amount <= sent.most
      BY <1>5, <2>4 DEF MostAt
    <3>2. \A i \in toAccount : log[i].amount \in Nat \ {0}
      BY <1>2, <1>3
    <3>3. amounts \in SUBSET Nat /\ sent.most \in amounts /\ \A k \in amounts : k <= sent.most
      BY <3>1, <3>2
    <3>4. sent.most # 0
      BY <3>1, <3>2
    <3> HIDE DEF amounts
    <3>5. Max(amounts) = sent.most
      BY <3>3, MaxIs
    <3>. QED  BY <2>1, <2>2, <2>4, <3>4, <3>5
  <2>. QED  BY <2>3, <2>4
<1>17. /\ R = [cumulative_to_account |-> R.cumulative_to_account,
               benef_account_age_days |-> R.benef_account_age_days,
               is_new_beneficiary_account |-> R.is_new_beneficiary_account,
               days_since_beneficiary_change |-> R.days_since_beneficiary_change,
               payer_wires_30d |-> R.payer_wires_30d,
               supplier_payment_count |-> R.supplier_payment_count,
               payer_new_accounts_7d |-> R.payer_new_accounts_7d,
               payer_wire_sum_24h |-> R.payer_wire_sum_24h,
               amount_over_account_max |-> R.amount_over_account_max]
       /\ Q = [cumulative_to_account |-> Q.cumulative_to_account,
               benef_account_age_days |-> Q.benef_account_age_days,
               is_new_beneficiary_account |-> Q.is_new_beneficiary_account,
               days_since_beneficiary_change |-> Q.days_since_beneficiary_change,
               payer_wires_30d |-> Q.payer_wires_30d,
               supplier_payment_count |-> Q.supplier_payment_count,
               payer_new_accounts_7d |-> Q.payer_new_accounts_7d,
               payer_wire_sum_24h |-> Q.payer_wire_sum_24h,
               amount_over_account_max |-> Q.amount_over_account_max]
  BY DEF Row, RowOfHistory
<1> HIDE DEF R, Q
<1>18. R = Q
  BY <1>8, <1>9, <1>10, <1>11, <1>12, <1>13, <1>14, <1>15, <1>16, <1>17
<1>. QED  BY <1>18 DEF R, Q

LEMMA HistoryInit == Init => HistoryInv
<1> SUFFICES ASSUME Init PROVE HistoryInv
  OBVIOUS
<1>1. /\ log = <<>> /\ outcome = NoOutcome /\ paid = [k \in PaidKeys |-> NothingPaid]
      /\ book = [first    |-> [k \in PaidKeys |-> Never],
                 pairSeen |-> [p \in Pairs |-> [a \in Accounts |-> Never]],
                 pairPaid |-> [p \in Pairs |-> 0],
                 wires    |-> [p \in Payers |-> <<>>],
                 newAccts |-> [p \in Payers |-> <<>>],
                 amounts  |-> [p \in Payers |-> <<>>]]
  BY DEF Init
<1>2. log \in Seq(Wires) /\ DOMAIN log = {}
  BY <1>1
<1>3. /\ \A p : ByPayer(log, p) = {} /\ Newcomers(log, p) = {}
      /\ \A q : OfPair(log, q) = {} /\ \A k : ToAccount(log, k) = {}
      /\ \A q, a : PairTo(log, q, a) = {}
  BY <1>2 DEF ByPayer, Newcomers, OfPair, ToAccount, PairTo
<1>4. \A e : Mirrors(<<>>, {}, e)
  BY MirrorEmpty
<1>5. KeptTimes(<<>>, log, {})
  BY <1>4 DEF KeptTimes, After
<1>6. TimeOfFirst(log, {}) = Never /\ Cardinality({}) = 0
  BY FS_EmptySet DEF TimeOfFirst
<1>7. PaidOf(paid, log)
  <2>1. SumAt(log, {}) = 0
    <3> DEFINE f == [i \in {} |-> log[i].amount]
    <3>1. DOMAIN f = {} /\ IsFiniteSet(DOMAIN f)
      BY FS_EmptySet
    <3> HIDE DEF f
    <3>2. Partial(f)[{}] = 0
      BY <3>1, PartialIs
    <3>. QED  BY <3>1, <3>2 DEF SumAt, Whole, f
  <2>2. MostAt(log, {}, 0)
    BY DEF MostAt
  <2>3. NothingPaid \in Paids /\ NothingPaid.total = 0 /\ NothingPaid.most = 0
    BY DEF NothingPaid, Paids
  <2>. QED  BY <1>1, <1>3, <2>1, <2>2, <2>3 DEF PaidOf
<1>8. BookShape(book)
  BY <1>1 DEF BookShape
<1>9. /\ \A k \in PaidKeys : book.first[k] = Never
      /\ \A q \in Pairs : book.pairPaid[q] = 0 /\ \A a \in Accounts : book.pairSeen[q][a] = Never
      /\ \A p \in Payers : book.wires[p] = <<>> /\ book.newAccts[p] = <<>> /\ book.amounts[p] = <<>>
  BY <1>1
<1>10. BookOf(book, log)
  <2>1. \A k \in PaidKeys : book.first[k] = TimeOfFirst(log, ToAccount(log, k))
    BY <1>3, <1>6, <1>9
  <2>2. \A q \in Pairs : /\ book.pairPaid[q] = Cardinality(OfPair(log, q))
                         /\ \A a \in Accounts : book.pairSeen[q][a] = TimeOfFirst(log, PairTo(log, q, a))
    BY <1>3, <1>6, <1>9
  <2>3. \A p \in Payers : /\ KeptTimes(book.wires[p], log, ByPayer(log, p))
                          /\ Mirrors(book.newAccts[p], Newcomers(log, p), TimesOf(log))
                          /\ Mirrors(book.amounts[p], ByPayer(log, p), EntryOf(log))
    <3> TAKE p \in Payers
    <3>1. book.wires[p] = <<>> /\ book.newAccts[p] = <<>> /\ book.amounts[p] = <<>>
      BY <1>9
    <3>2. ByPayer(log, p) = {} /\ Newcomers(log, p) = {}
      BY <1>3
    <3>3. Mirrors(<<>>, {}, TimesOf(log)) /\ Mirrors(<<>>, {}, EntryOf(log))
      BY <1>4
    <3>4. KeptTimes(book.wires[p], log, ByPayer(log, p))
      BY <1>5, <3>1, <3>2
    <3>5. Mirrors(book.newAccts[p], Newcomers(log, p), TimesOf(log))
      BY <3>1, <3>2, <3>3
    <3>6. Mirrors(book.amounts[p], ByPayer(log, p), EntryOf(log))
      BY <3>1, <3>2, <3>3
    <3>. QED  BY <3>4, <3>5, <3>6
  <2>. QED  BY <1>8, <2>1, <2>2, <2>3 DEF BookOf
<1>11. RowIsOfHistory
  BY <1>1 DEF RowIsOfHistory
<1>. QED  BY <1>2, <1>7, <1>10, <1>11 DEF HistoryInv

(* For wires of any payers over any suppliers, accounts, amounts and       *)
(* times: each feature and control signal of a row is the function of the  *)
(* wires before it that RowOfHistory states.                               *)
THEOREM WireRowsAreOfHistory == Spec => []RowIsOfHistory
<1>1. HistoryInv /\ [Next]_wireVars => HistoryInv'
  <2> SUFFICES ASSUME HistoryInv, [Next]_wireVars PROVE HistoryInv'
    OBVIOUS
  <2>1. ASSUME NEW t \in Wires, NEW p \in Scores, SortedWire(t, p) PROVE HistoryInv'
    <3>1. /\ log \in Seq(Wires) /\ PaidOf(paid, log) /\ BookOf(book, log)
          /\ t.ts >= LastTime(log)
      BY <2>1 DEF HistoryInv, SortedWire, Now, LastTime, Last
    <3>2. /\ log' = Append(log, t) /\ book' = Folded(t)
          /\ paid' = [paid EXCEPT ![PaidKey(t)] = Plus(paid[PaidKey(t)], t.amount)]
          /\ outcome'.wire = t /\ outcome'.row = Row(t)
      BY <2>1 DEF SortedWire, Wire
    <3>3. log' \in Seq(Wires) /\ Front(log') = log
      <4>1. Append(log, t) \in Seq(Wires) /\ Front(Append(log, t)) = log
        BY <3>1 DEF Front
      <4>. QED  BY <3>2, <4>1
    <3>4. PaidOf(paid', log')
      BY <3>1, <3>2, PaidStep
    <3>5. BookOf(book', log')
      BY <3>1, <3>2, BookStep
    <3>6. outcome'.row = RowOfHistory(Front(log'), outcome'.wire)
      BY <3>1, <3>2, <3>3, RowIsRead
    <3>7. RowIsOfHistory'
      BY <3>6 DEF RowIsOfHistory
    <3>. QED  BY <3>3, <3>4, <3>5, <3>7 DEF HistoryInv
  <2>2. CASE UNCHANGED <<paid, book, outcome, log>>
    BY <2>2 DEF HistoryInv, RowIsOfHistory
  <2>3. \A a, when : Verify(a, when) => UNCHANGED <<paid, book, outcome, log>>
    BY DEF Verify
  <2>4. Finished \/ UNCHANGED wireVars => UNCHANGED <<paid, book, outcome, log>>
    BY DEF Finished, wireVars
  <2>. QED  BY <2>1, <2>2, <2>3, <2>4 DEF Next
<1>2. HistoryInv => RowIsOfHistory
  BY DEF HistoryInv
<1>. QED  BY <1>1, <1>2, HistoryInit, PTL DEF Spec
=============================================================================
