------------------------ MODULE FeatureStore_proofs ------------------------
(***************************************************************************)
(* Proofs about the in-memory FeatureStore: point-in-time correctness of   *)
(* every frame of CardIncidents and of every replay of RedisStore, for all *)
(* entities, amounts, window lengths and frames.                           *)
(*                                                                         *)
(* The invariant says what the rolling state is as a function of the rows  *)
(* folded in: a window lists the rows of its entity but for some that are  *)
(* too old to be read again, in the order of their timestamps; counters,   *)
(* sums, sets and first-seen times are those of all the rows; marks list   *)
(* the confirmations that name the entity.  Which rows a window lists is   *)
(* said by Mirrors (Induction_proofs): each of them exactly once.          *)
(***************************************************************************)
EXTENDS RedisStore_proofs, CardIncidents

USE TimeAssumption, AmountAssumption

-----------------------------------------------------------------------------
(* The rolling state as a function of the transactions F folded in, of the *)
(* confirmations M and of the time of the latest read.                     *)

(* A confirmation that names an entity of each kind, as the replay makes.  *)
Named == [visible : 0 .. MaxTime + LabelLatency, card : Cards,
          device : Devices, merchant : Merchants]

(* Sets of rows of F, and F with one row more.                             *)
RowSets(F) == SUBSET DOMAIN F
Joined(F, t) == Append(F, t)
NextRow(F) == Len(F) + 1
RowsOf(F, kind, e) == {i \in DOMAIN F : F[i][kind] = e}
FirstOf(F, S) == IF S = {} THEN None ELSE F[Min(S)].ts
CardsAt(F, S) == {F[i].card : i \in S}
DevicesAt(F, S) == {F[i].device : i \in S}
MerchantsAt(F, S) == {F[i].merchant : i \in S}
AmountsAt(F, S) == SumFunction([i \in S |-> F[i].amount])
Naming(M, e) == {i \in DOMAIN M : e \in {M[i].card, M[i].device, M[i].merchant}}

Amounted(F) == [i \in DOMAIN F |-> [ts |-> F[i].ts, amount |-> F[i].amount]]
Carded(F) == [i \in DOMAIN F |-> [ts |-> F[i].ts, card |-> F[i].card]]
VisibleAt(M) == [i \in DOMAIN M |-> M[i].visible]

Ascending(w) == \A i, j \in DOMAIN w : i <= j => w[i].ts <= w[j].ts

(* A window holds the rows S but for some that are too old to be read.     *)
WindowOf(w, S, e, cutoff) ==
    /\ Ascending(w)
    /\ \E T \in SUBSET S : Mirrors(w, T, e) /\ \A i \in S \ T : e[i].ts < cutoff

CardIs(v, F, S, now) ==
    /\ WindowOf(v.window, S, Amounted(F), now - Day)
    /\ v.devices = DevicesAt(F, S)
    /\ v.merchants = MerchantsAt(F, S)
    /\ v.count = Cardinality(S)
    /\ v.total = AmountsAt(F, S)

MerchantIs(v, F, S, now) ==
    /\ WindowOf(v.window, S, Amounted(F), now - TenMinutes)
    /\ v.first = FirstOf(F, S)
    /\ v.count = Cardinality(S)

DeviceIs(v, F, S, now) ==
    /\ WindowOf(v.window, S, Carded(F), now - Hour)
    /\ v.first = FirstOf(F, S)
    /\ v.cards = CardsAt(F, S)

StoreIs(s, F, M, now) ==
    /\ \A c \in Cards : CardIs(s.card[c], F, RowsOf(F, "card", c), now)
    /\ \A m \in Merchants : MerchantIs(s.merchant[m], F, RowsOf(F, "merchant", m), now)
    /\ \A d \in Devices : DeviceIs(s.device[d], F, RowsOf(F, "device", d), now)
    /\ \A d \in Devices, c \in Cards :
           s.pair[<<d, c>>] = FirstOf(F, RowsOf(F, "device", d) \cap RowsOf(F, "card", c))
    /\ \A e \in Cards \cup Devices \cup Merchants :
           Mirrors(s.marks[e], Naming(M, e), VisibleAt(M))

(* The inductive invariant of a replay.                                    *)
ReplayInv ==
    /\ StoreTyped(store)
    /\ log \in Seq(Txns) /\ Ascending(log)
    /\ confirmed \in Seq(Named)
    /\ asked \in Txns \cup {Nobody}
    /\ asked = Nobody => log = <<>>
    /\ \A i \in DOMAIN log : log[i].ts <= Horizon
    /\ pending \in {Idle} \cup [step : {"update", "mark"}, txn : Txns]
    /\ pending # Idle => pending.txn = asked
    /\ StoreIs(store, log, confirmed, Horizon)

-----------------------------------------------------------------------------
(* Windows.                                                                *)
LEMMA WindowLater ==
    ASSUME NEW w, NEW S, NEW e, NEW a \in Int, NEW b \in Int, a <= b,
           \A i \in S : e[i].ts \in Int, WindowOf(w, S, e, a)
    PROVE  WindowOf(w, S, e, b)
  <1>1. PICK T \in SUBSET S : Mirrors(w, T, e) /\ \A i \in S \ T : e[i].ts < a
    BY DEF WindowOf
  <1>2. \A i \in S \ T : e[i].ts < b
    BY <1>1
  <1>. QED  BY <1>1, <1>2 DEF WindowOf

LEMMA WindowAgrees ==
    ASSUME NEW w, NEW S, NEW e, NEW a, WindowOf(w, S, e, a), NEW f, \A i \in S : f[i] = e[i]
    PROVE  WindowOf(w, S, f, a)
  <1>1. PICK T \in SUBSET S : Mirrors(w, T, e) /\ \A i \in S \ T : e[i].ts < a
    BY DEF WindowOf
  <1>2. Mirrors(w, T, f)
    BY <1>1, MirrorAgrees
  <1>. QED  BY <1>1, <1>2 DEF WindowOf

(* A row that joins is the latest.                                         *)
LEMMA WindowAppend ==
    ASSUME NEW w, NEW S, NEW e, NEW a, WindowOf(w, S, e, a), NEW n, n \notin S,
           e[n].ts \in Nat, \A i \in S : e[i].ts <= e[n].ts
    PROVE  WindowOf(Append(w, e[n]), S \cup {n}, e, a)
  <1>1. PICK T \in SUBSET S : Mirrors(w, T, e) /\ \A i \in S \ T : e[i].ts < a
    BY DEF WindowOf
  <1>2. Mirrors(Append(w, e[n]), T \cup {n}, e)
    BY <1>1, MirrorAppend
  <1>3. /\ Len(w) \in Nat /\ DOMAIN w = 1 .. Len(w)
        /\ \A j \in DOMAIN w : \E i \in T : w[j] = e[i]
    BY <1>1, MirrorFacts, MirrorValues
  <1>4. \A j \in DOMAIN w : w[j].ts <= e[n].ts
    BY <1>3
  <1>5. /\ DOMAIN Append(w, e[n]) = 1 .. Len(w) + 1
        /\ \A j \in 1 .. Len(w) : Append(w, e[n])[j] = w[j]
        /\ Append(w, e[n])[Len(w) + 1] = e[n]
    <2>1. w \in Seq({w[j] : j \in 1 .. Len(w)} \cup {e[n]})
      <3>1. w = [j \in 1 .. Len(w) |-> w[j]]
        BY <1>1, <1>3 DEF Mirrors
      <3>. QED  BY <1>3, <3>1
    <2>. QED  BY <1>3, <2>1
  <1>6. Ascending(Append(w, e[n]))
    <2>. SUFFICES ASSUME NEW i \in 1 .. Len(w) + 1, NEW j \in 1 .. Len(w) + 1, i <= j
                  PROVE  Append(w, e[n])[i].ts <= Append(w, e[n])[j].ts
      BY <1>5 DEF Ascending
    <2>1. CASE j \in 1 .. Len(w)
      <3>1. i \in 1 .. Len(w)
        BY <1>3, <2>1
      <3>. QED  BY <1>3, <1>5, <2>1, <3>1 DEF WindowOf, Ascending
    <2>2. CASE j = Len(w) + 1 /\ i \in 1 .. Len(w)
      BY <1>3, <1>4, <1>5, <2>2
    <2>3. CASE j = Len(w) + 1 /\ i = Len(w) + 1
      BY <1>5, <2>3
    <2>. QED  BY <1>3, <2>1, <2>2, <2>3
  <1>. QED  BY <1>1, <1>2, <1>6 DEF WindowOf

(* What _trim leaves are the rows that are not older than the cutoff.      *)
YoungAt(S, e, cutoff) == {i \in S : e[i].ts >= cutoff}

LEMMA WindowTrim ==
    ASSUME NEW W, Timed(W), NEW w \in Seq(W), NEW S, NEW e, NEW a \in Int, NEW b \in Int, a <= b,
           \A i \in S : e[i].ts \in Int, WindowOf(w, S, e, a)
    PROVE  /\ Mirrors(Trim(w, b), YoungAt(S, e, b), e)
           /\ Ascending(Trim(w, b))
           /\ WindowOf(Trim(w, b), S, e, b)
  <1>. DEFINE x == Trim(w, b)
              Y == YoungAt(S, e, b)
  <1>1. PICK T \in SUBSET S : Mirrors(w, T, e) /\ \A i \in S \ T : e[i].ts < a
    BY DEF WindowOf
  <1>2. PICK k \in Nat : DroppedFrom(x, w, b, k) /\ (k < Len(w) => w[k + 1].ts >= b)
    BY TrimShape
  <1>3. /\ Len(w) \in Nat /\ DOMAIN w = 1 .. Len(w)
        /\ \A i \in 1 .. Len(w) : w[i].ts \in Int
    BY DEF Timed
  <1>4. x \in Seq(W) /\ Len(x) \in Nat /\ DOMAIN x = 1 .. Len(x)
    BY TrimShape
  <1>. HIDE DEF x
  <1>5. /\ k \in 0 .. Len(w) /\ Len(x) = Len(w) - k
        /\ \A j \in 1 .. Len(x) : x[j] = w[j + k]
        /\ \A j \in 1 .. k : w[j].ts < b
    BY <1>2 DEF DroppedFrom
  <1>6. \A i, j \in 1 .. Len(w) : i <= j => w[i].ts <= w[j].ts
    BY <1>3 DEF WindowOf, Ascending
  <1>. DEFINE places == k + 1 .. Len(w)
  <1>7. \A j \in places : w[j].ts >= b
    <2>. SUFFICES ASSUME NEW j \in places PROVE w[j].ts >= b
      OBVIOUS
    <2>1. k + 1 \in 1 .. Len(w) /\ k < Len(w) /\ j \in 1 .. Len(w) /\ k + 1 <= j
      BY <1>3, <1>5
    <2>2. w[k + 1].ts >= b /\ w[k + 1].ts <= w[j].ts
      BY <1>2, <1>6, <2>1
    <2>. QED  BY <1>3, <2>1, <2>2
  <1>8. Y = {i \in T : e[i].ts >= b}
    BY <1>1 DEF YoungAt
  <1>9. \A j \in DOMAIN w : \A i \in T : w[j] = e[i] => (j \in places <=> i \in Y)
    <2>. SUFFICES ASSUME NEW j \in DOMAIN w, NEW i \in T, w[j] = e[i]
                  PROVE  j \in places <=> i \in Y
      OBVIOUS
    <2>1. i \in Y <=> w[j].ts >= b
      BY <1>8
    <2>2. CASE j \in places
      BY <1>7, <2>1, <2>2
    <2>3. CASE j \notin places
      <3>1. j \in 1 .. k
        BY <1>3, <1>5, <2>3
      <3>2. w[j].ts < b /\ w[j].ts \in Int
        BY <1>3, <1>5, <3>1
      <3>. QED  BY <2>1, <2>3, <3>2
    <2>. QED  BY <2>2, <2>3
  <1>10. PICK q \in Bijection(places, Y) : \A j \in places : w[j] = e[q[j]]
    <2>1. places \in SUBSET DOMAIN w /\ Y \in SUBSET T
      BY <1>3, <1>5, <1>8
    <2>. HIDE DEF places, Y
    <2>. QED  BY <1>1, <1>9, <2>1, MirrorPart, SMTT(30)
  <1>. DEFINE p == [j \in 1 .. Len(x) |-> q[j + k]]
  <1>11. /\ q \in [places -> Y] /\ \A i, j \in places : q[i] = q[j] => i = j
         /\ \A y \in Y : \E j \in places : q[j] = y
    BY <1>10, Fun_BijectionProperties
  <1>12. \A j \in 1 .. Len(x) : j + k \in places
    BY <1>3, <1>5
  <1>13. \A j \in places : j - k \in 1 .. Len(x) /\ (j - k) + k = j
    BY <1>3, <1>5
  <1>. HIDE DEF places, Y
  <1>14. p \in [1 .. Len(x) -> Y]
    BY <1>11, <1>12
  <1>15. \A i, j \in 1 .. Len(x) : p[i] = p[j] => i = j
    <2>. SUFFICES ASSUME NEW i \in 1 .. Len(x), NEW j \in 1 .. Len(x), q[i + k] = q[j + k]
                  PROVE  i = j
      OBVIOUS
    <2>1. i + k = j + k
      BY <1>11, <1>12
    <2>. QED  BY <2>1
  <1>16. \A y \in Y : \E j \in 1 .. Len(x) : p[j] = y
    <2>. SUFFICES ASSUME NEW y \in Y PROVE \E j \in 1 .. Len(x) : p[j] = y
      OBVIOUS
    <2>1. PICK j \in places : q[j] = y
      BY <1>11
    <2>2. p[j - k] = y
      BY <1>13, <2>1
    <2>. QED  BY <1>13, <2>2
  <1>17. p \in Bijection(1 .. Len(x), Y)
    BY <1>14, <1>15, <1>16, MakeBijection
  <1>18. \A j \in 1 .. Len(x) : x[j] = e[p[j]]
    BY <1>5, <1>10, <1>12
  <1>19. x = [j \in 1 .. Len(x) |-> e[p[j]]]
    BY <1>4, <1>18
  <1>20. Mirrors(x, Y, e)
    <2>. HIDE DEF p
    <2>. QED  BY <1>4, <1>17, <1>19 DEF Mirrors
  <1>21. Ascending(x)
    <2>. SUFFICES ASSUME NEW i \in 1 .. Len(x), NEW j \in 1 .. Len(x), i <= j
                  PROVE  x[i].ts <= x[j].ts
      BY <1>4 DEF Ascending
    <2>1. i + k \in 1 .. Len(w) /\ j + k \in 1 .. Len(w) /\ i + k <= j + k
      BY <1>3, <1>5
    <2>. QED  BY <1>5, <1>6, <2>1
  <1>22. WindowOf(x, S, e, b)
    <2>1. Y \in SUBSET S /\ \A i \in S \ Y : e[i].ts < b
      BY DEF Y, YoungAt
    <2>. QED  BY <1>20, <1>21, <2>1 DEF WindowOf
  <1>. QED  BY <1>20, <1>21, <1>22 DEF x, Y

-----------------------------------------------------------------------------
(* A transaction joins the log.                                            *)
LEMMA TxnOf ==
    ASSUME NEW t \in Txns
    PROVE  /\ t.card \in Cards /\ t.device \in Devices /\ t.merchant \in Merchants
           /\ t.ts \in Times /\ t.ts \in Nat /\ t.amount \in Amounts /\ t.amount \in Nat
           /\ [ts |-> t.ts, amount |-> t.amount] \in [ts : Times, amount : Amounts]
           /\ [ts |-> t.ts, card |-> t.card] \in [ts : Times, card : Cards]
  <1>1. /\ t.card \in Cards /\ t.device \in Devices /\ t.merchant \in Merchants
        /\ t.ts \in Times /\ t.amount \in Amounts
    BY DEF Txns
  <1>2. t.ts \in Nat
    BY DEF Txns, Times
  <1>3. t.amount \in Nat
    BY DEF Txns
  <1>. QED  BY <1>1, <1>2, <1>3

LEMMA LogFacts ==
    ASSUME NEW F \in Seq(Txns)
    PROVE  /\ Len(F) \in Nat /\ DOMAIN F = 1 .. Len(F)
           /\ DOMAIN F \in SUBSET Nat /\ IsFiniteSet(DOMAIN F)
           /\ \A i \in DOMAIN F : F[i] \in Txns /\ F[i].ts \in Nat /\ F[i].amount \in Nat
  <1>1. Len(F) \in Nat /\ DOMAIN F = 1 .. Len(F) /\ \A i \in DOMAIN F : F[i] \in Txns
    OBVIOUS
  <1>2. IsFiniteSet(DOMAIN F)
    BY <1>1, FS_Interval
  <1>. QED  BY <1>1, <1>2, TxnOf

LEMMA LogJoined ==
    ASSUME NEW F \in Seq(Txns), NEW t \in Txns
    PROVE  /\ Joined(F, t) \in Seq(Txns) /\ NextRow(F) \in Nat
           /\ DOMAIN Joined(F, t) = DOMAIN F \cup {NextRow(F)} /\ NextRow(F) \notin DOMAIN F
           /\ \A i \in DOMAIN F : Joined(F, t)[i] = F[i] /\ i < NextRow(F)
           /\ Joined(F, t)[NextRow(F)] = t
  <1>1. /\ Append(F, t) \in Seq(Txns) /\ Len(F) \in Nat /\ DOMAIN F = 1 .. Len(F)
        /\ DOMAIN Append(F, t) = 1 .. Len(F) + 1
    OBVIOUS
  <1>2. /\ \A i \in DOMAIN F : Append(F, t)[i] = F[i] /\ i < Len(F) + 1
        /\ Append(F, t)[Len(F) + 1] = t
    OBVIOUS
  <1>3. /\ 1 .. Len(F) + 1 = (1 .. Len(F)) \cup {Len(F) + 1} /\ Len(F) + 1 \notin 1 .. Len(F)
        /\ Len(F) + 1 \in Nat
    BY <1>1
  <1>. QED  BY <1>1, <1>2, <1>3 DEF Joined, NextRow

LEMMA RowsJoined ==
    ASSUME NEW F \in Seq(Txns), NEW t \in Txns, NEW kind, NEW e
    PROVE  RowsOf(Joined(F, t), kind, e)
               = IF t[kind] = e THEN RowsOf(F, kind, e) \cup {NextRow(F)} ELSE RowsOf(F, kind, e)
  <1>. DEFINE G == Joined(F, t)
              n == NextRow(F)
  <1>1. /\ DOMAIN G = DOMAIN F \cup {n} /\ n \notin DOMAIN F /\ G[n] = t
        /\ \A i \in DOMAIN F : G[i] = F[i]
    BY LogJoined, ZenonT(60)
  <1>. HIDE DEF G, n
  <1>2. RowsOf(G, kind, e) = IF t[kind] = e THEN RowsOf(F, kind, e) \cup {n} ELSE RowsOf(F, kind, e)
    BY <1>1 DEF RowsOf
  <1>. QED  BY <1>2 DEF G, n

(* What the dictionaries keep of a set of rows, when a row joins the log   *)
(* and when it also joins the set.                                         *)
LEMMA JoinFacts ==
    ASSUME NEW F \in Seq(Txns), NEW t \in Txns, NEW S \in RowSets(F)
    PROVE  LET G == Joined(F, t)
               n == NextRow(F)
           IN  /\ n \in Nat /\ n \notin S /\ G[n] = t /\ S \in SUBSET Nat /\ IsFiniteSet(S)
               /\ \A i \in S : G[i] = F[i] /\ i < n /\ F[i].ts \in Times /\ F[i].amount \in Nat
  <1>. DEFINE G == Joined(F, t)
              n == NextRow(F)
  <1>1. /\ n \notin DOMAIN F /\ G[n] = t /\ n \in Nat
        /\ \A i \in DOMAIN F : G[i] = F[i] /\ i < n
    BY LogJoined
  <1>2. S \in SUBSET Nat /\ IsFiniteSet(S)
    BY LogFacts, FS_Subset DEF RowSets
  <1>3. \A i \in DOMAIN F : F[i].ts \in Times /\ F[i].amount \in Nat
    BY LogFacts, TxnOf
  <1>. QED  BY <1>1, <1>2, <1>3 DEF RowSets

LEMMA FirstJoined ==
    ASSUME NEW F \in Seq(Txns), NEW t \in Txns, NEW S \in RowSets(F)
    PROVE  LET G == Joined(F, t)
               n == NextRow(F)
           IN  /\ FirstOf(G, S) = FirstOf(F, S)
               /\ FirstOf(G, S \cup {n}) = FirstSeen(FirstOf(F, S), t.ts)
  <1>. DEFINE G == Joined(F, t)
              n == NextRow(F)
  <1>1. /\ n \in Nat /\ n \notin S /\ G[n] = t /\ S \in SUBSET Nat
        /\ \A i \in S : G[i] = F[i] /\ i < n /\ F[i].ts \in Times
    BY JoinFacts
  <1>2. S # {} => Min(S) \in S
    BY <1>1, MinIsLeast
  <1>3. Min(S \cup {n}) = IF S = {} THEN n ELSE Min(S)
    BY <1>1, MinJoined
  <1>4. FirstOf(G, S) = FirstOf(F, S)
    BY <1>1, <1>2 DEF FirstOf
  <1>5. FirstOf(G, S \cup {n}) = G[Min(S \cup {n})].ts
    BY DEF FirstOf
  <1>6. CASE S = {}
    BY <1>1, <1>3, <1>4, <1>5, <1>6 DEF FirstOf, FirstSeen
  <1>7. CASE S # {}
    <2>1. G[Min(S \cup {n})].ts = F[Min(S)].ts /\ F[Min(S)].ts # None
      BY <1>1, <1>2, <1>3, <1>7, NoneAssumption
    <2>. QED  BY <1>4, <1>5, <1>7, <2>1 DEF FirstOf, FirstSeen
  <1>. QED  BY <1>6, <1>7

LEMMA AmountsJoined ==
    ASSUME NEW F \in Seq(Txns), NEW t \in Txns, NEW S \in RowSets(F)
    PROVE  LET G == Joined(F, t)
               n == NextRow(F)
           IN  /\ AmountsAt(G, S) = AmountsAt(F, S)
               /\ AmountsAt(G, S \cup {n}) = AmountsAt(F, S) + t.amount
               /\ Cardinality(S \cup {n}) = Cardinality(S) + 1
  <1>. DEFINE G == Joined(F, t)
              n == NextRow(F)
  <1>1. /\ n \notin S /\ G[n] = t /\ IsFiniteSet(S)
        /\ \A i \in S : G[i] = F[i] /\ F[i].amount \in Nat
    BY JoinFacts
  <1>2. AmountsAt(G, S) = AmountsAt(F, S)
    <2>1. [i \in S |-> G[i].amount] = [i \in S |-> F[i].amount]
      BY <1>1
    <2>. QED  BY <2>1 DEF AmountsAt
  <1>. DEFINE a == [i \in S \cup {n} |-> G[i].amount]
  <1>3. \A i \in S \cup {n} : a[i] \in Nat
    BY <1>1, TxnOf
  <1>4. /\ a[n] = t.amount
        /\ [i \in S \cup {n} |-> a[i]] = [i \in S \cup {n} |-> G[i].amount]
        /\ [i \in S |-> a[i]] = [i \in S |-> G[i].amount]
    BY <1>1
  <1>. HIDE DEF a
  <1>5. SumFunction([i \in S \cup {n} |-> a[i]]) = SumFunction([i \in S |-> a[i]]) + a[n]
    BY <1>1, <1>3, TotalJoined
  <1>6. AmountsAt(G, S \cup {n}) = AmountsAt(F, S) + t.amount
    BY <1>2, <1>4, <1>5 DEF AmountsAt
  <1>7. Cardinality(S \cup {n}) = Cardinality(S) + 1
    BY <1>1, FS_AddElement
  <1>. QED  BY <1>2, <1>6, <1>7

LEMMA CardsJoined ==
    ASSUME NEW F \in Seq(Txns), NEW t \in Txns, NEW S \in RowSets(F)
    PROVE  LET G == Joined(F, t)
               n == NextRow(F)
           IN  /\ CardsAt(G, S) = CardsAt(F, S)
               /\ CardsAt(G, S \cup {n}) = CardsAt(F, S) \cup {t.card}
  <1>. DEFINE G == Joined(F, t)
              n == NextRow(F)
  <1>1. G[n] = t /\ \A i \in S : G[i] = F[i]
    BY JoinFacts
  <1>. QED  BY <1>1 DEF CardsAt

LEMMA DevicesJoined ==
    ASSUME NEW F \in Seq(Txns), NEW t \in Txns, NEW S \in RowSets(F)
    PROVE  LET G == Joined(F, t)
               n == NextRow(F)
           IN  /\ DevicesAt(G, S) = DevicesAt(F, S)
               /\ DevicesAt(G, S \cup {n}) = DevicesAt(F, S) \cup {t.device}
  <1>. DEFINE G == Joined(F, t)
              n == NextRow(F)
  <1>1. G[n] = t /\ \A i \in S : G[i] = F[i]
    BY JoinFacts
  <1>. QED  BY <1>1 DEF DevicesAt

LEMMA MerchantsJoined ==
    ASSUME NEW F \in Seq(Txns), NEW t \in Txns, NEW S \in RowSets(F)
    PROVE  LET G == Joined(F, t)
               n == NextRow(F)
           IN  /\ MerchantsAt(G, S) = MerchantsAt(F, S)
               /\ MerchantsAt(G, S \cup {n}) = MerchantsAt(F, S) \cup {t.merchant}
  <1>. DEFINE G == Joined(F, t)
              n == NextRow(F)
  <1>1. G[n] = t /\ \A i \in S : G[i] = F[i]
    BY JoinFacts
  <1>. QED  BY <1>1 DEF MerchantsAt

LEMMA WindowJoined ==
    ASSUME NEW F \in Seq(Txns), NEW t \in Txns, NEW S \in RowSets(F), NEW w, NEW a,
           \A i \in DOMAIN F : F[i].ts <= t.ts
    PROVE  LET G == Joined(F, t)
               n == NextRow(F)
           IN  /\ WindowOf(w, S, Amounted(F), a) =>
                     /\ WindowOf(w, S, Amounted(G), a)
                     /\ WindowOf(Append(w, [ts |-> t.ts, amount |-> t.amount]), S \cup {n},
                                 Amounted(G), a)
               /\ WindowOf(w, S, Carded(F), a) =>
                     /\ WindowOf(w, S, Carded(G), a)
                     /\ WindowOf(Append(w, [ts |-> t.ts, card |-> t.card]), S \cup {n},
                                 Carded(G), a)
  <1>. DEFINE G == Joined(F, t)
              n == NextRow(F)
  <1>1. /\ DOMAIN G = DOMAIN F \cup {n} /\ n \notin S /\ G[n] = t
        /\ \A i \in S : i \in DOMAIN F /\ G[i] = F[i] /\ F[i].ts <= t.ts
    BY LogJoined, ZenonT(60) DEF RowSets
  <1>2. t.ts \in Nat
    BY DEF Txns, Times
  <1>. HIDE DEF G, n
  <1>3. ASSUME WindowOf(w, S, Amounted(F), a)
        PROVE  /\ WindowOf(w, S, Amounted(G), a)
               /\ WindowOf(Append(w, [ts |-> t.ts, amount |-> t.amount]), S \cup {n},
                           Amounted(G), a)
    <2>1. \A i \in S : Amounted(G)[i] = Amounted(F)[i] /\ Amounted(G)[i].ts <= t.ts
      BY <1>1 DEF Amounted
    <2>2. WindowOf(w, S, Amounted(G), a)
      BY <1>3, <2>1, WindowAgrees
    <2>3. /\ Amounted(G)[n] = [ts |-> t.ts, amount |-> t.amount]
          /\ Amounted(G)[n].ts = t.ts /\ Amounted(G)[n].ts \in Nat
      BY <1>1, <1>2 DEF Amounted
    <2>4. WindowOf(Append(w, Amounted(G)[n]), S \cup {n}, Amounted(G), a)
      BY <1>1, <2>1, <2>2, <2>3, WindowAppend
    <2>. QED  BY <2>2, <2>3, <2>4
  <1>4. ASSUME WindowOf(w, S, Carded(F), a)
        PROVE  /\ WindowOf(w, S, Carded(G), a)
               /\ WindowOf(Append(w, [ts |-> t.ts, card |-> t.card]), S \cup {n}, Carded(G), a)
    <2>1. \A i \in S : Carded(G)[i] = Carded(F)[i] /\ Carded(G)[i].ts <= t.ts
      BY <1>1 DEF Carded
    <2>2. WindowOf(w, S, Carded(G), a)
      BY <1>4, <2>1, WindowAgrees
    <2>3. /\ Carded(G)[n] = [ts |-> t.ts, card |-> t.card]
          /\ Carded(G)[n].ts = t.ts /\ Carded(G)[n].ts \in Nat
      BY <1>1, <1>2 DEF Carded
    <2>4. WindowOf(Append(w, Carded(G)[n]), S \cup {n}, Carded(G), a)
      BY <1>1, <2>1, <2>2, <2>3, WindowAppend
    <2>. QED  BY <2>2, <2>3, <2>4
  <1>. QED  BY <1>3, <1>4 DEF G, n

(* An entity that the transaction names, and one that it does not.         *)
LEMMA CardJoined ==
    ASSUME NEW F \in Seq(Txns), NEW t \in Txns, NEW S \in RowSets(F), NEW v, NEW now,
           \A i \in DOMAIN F : F[i].ts <= t.ts, CardIs(v, F, S, now)
    PROVE  /\ CardIs(v, Joined(F, t), S, now)
           /\ CardIs(CardOf(v, t), Joined(F, t), S \cup {NextRow(F)}, now)
  <1>. DEFINE G == Joined(F, t)
              n == NextRow(F)
              u == CardOf(v, t)
  <1>1. /\ u.window = Append(v.window, [ts |-> t.ts, amount |-> t.amount])
        /\ u.devices = v.devices \cup {t.device} /\ u.merchants = v.merchants \cup {t.merchant}
        /\ u.count = v.count + 1 /\ u.total = v.total + t.amount
    BY DEF CardOf
  <1>a. WindowOf(v.window, S, Amounted(F), now - Day)
    BY DEF CardIs
  <1>b. /\ WindowOf(v.window, S, Amounted(G), now - Day)
        /\ WindowOf(Append(v.window, [ts |-> t.ts, amount |-> t.amount]), S \cup {n},
                    Amounted(G), now - Day)
    BY <1>a, WindowJoined
  <1>2. /\ WindowOf(v.window, S, Amounted(G), now - Day)
        /\ WindowOf(u.window, S \cup {n}, Amounted(G), now - Day)
    BY <1>1, <1>b
  <1>. HIDE DEF u
  <1>3a. /\ AmountsAt(G, S) = AmountsAt(F, S)
        /\ AmountsAt(G, S \cup {n}) = AmountsAt(F, S) + t.amount
        /\ Cardinality(S \cup {n}) = Cardinality(S) + 1
    BY AmountsJoined
  <1>3b. /\ DevicesAt(G, S) = DevicesAt(F, S)
        /\ DevicesAt(G, S \cup {n}) = DevicesAt(F, S) \cup {t.device}
    BY DevicesJoined
  <1>3c. /\ MerchantsAt(G, S) = MerchantsAt(F, S)
        /\ MerchantsAt(G, S \cup {n}) = MerchantsAt(F, S) \cup {t.merchant}
    BY MerchantsJoined
  <1>4. CardIs(v, G, S, now) /\ CardIs(u, G, S \cup {n}, now)
    BY <1>1, <1>2, <1>3a, <1>3b, <1>3c DEF CardIs
  <1>. QED  BY <1>4 DEF G, n, u

LEMMA MerchantJoined ==
    ASSUME NEW F \in Seq(Txns), NEW t \in Txns, NEW S \in RowSets(F), NEW v, NEW now,
           \A i \in DOMAIN F : F[i].ts <= t.ts, MerchantIs(v, F, S, now)
    PROVE  /\ MerchantIs(v, Joined(F, t), S, now)
           /\ MerchantIs(MerchantOf(v, t), Joined(F, t), S \cup {NextRow(F)}, now)
  <1>. DEFINE G == Joined(F, t)
              n == NextRow(F)
              u == MerchantOf(v, t)
  <1>1. /\ u.window = Append(v.window, [ts |-> t.ts, amount |-> t.amount])
        /\ u.first = FirstSeen(v.first, t.ts) /\ u.count = v.count + 1
    BY DEF MerchantOf
  <1>2. /\ WindowOf(v.window, S, Amounted(G), now - TenMinutes)
        /\ WindowOf(u.window, S \cup {n}, Amounted(G), now - TenMinutes)
    BY <1>1, WindowJoined DEF MerchantIs
  <1>. HIDE DEF u
  <1>3a. /\ FirstOf(G, S) = FirstOf(F, S)
        /\ FirstOf(G, S \cup {n}) = FirstSeen(FirstOf(F, S), t.ts)
    BY FirstJoined
  <1>3b. /\ Cardinality(S \cup {n}) = Cardinality(S) + 1
    BY AmountsJoined
  <1>4. MerchantIs(v, G, S, now) /\ MerchantIs(u, G, S \cup {n}, now)
    BY <1>1, <1>2, <1>3a, <1>3b DEF MerchantIs
  <1>. QED  BY <1>4 DEF G, n, u

LEMMA DeviceJoined ==
    ASSUME NEW F \in Seq(Txns), NEW t \in Txns, NEW S \in RowSets(F), NEW v, NEW now,
           \A i \in DOMAIN F : F[i].ts <= t.ts, DeviceIs(v, F, S, now)
    PROVE  /\ DeviceIs(v, Joined(F, t), S, now)
           /\ DeviceIs(DeviceOf(v, t), Joined(F, t), S \cup {NextRow(F)}, now)
  <1>. DEFINE G == Joined(F, t)
              n == NextRow(F)
              u == DeviceOf(v, t)
  <1>1. /\ u.window = Append(v.window, [ts |-> t.ts, card |-> t.card])
        /\ u.first = FirstSeen(v.first, t.ts) /\ u.cards = v.cards \cup {t.card}
    BY DEF DeviceOf
  <1>a. WindowOf(v.window, S, Carded(F), now - Hour)
    BY DEF DeviceIs
  <1>b. /\ WindowOf(v.window, S, Carded(G), now - Hour)
        /\ WindowOf(Append(v.window, [ts |-> t.ts, card |-> t.card]), S \cup {n},
                    Carded(G), now - Hour)
    BY <1>a, WindowJoined
  <1>2. /\ WindowOf(v.window, S, Carded(G), now - Hour)
        /\ WindowOf(u.window, S \cup {n}, Carded(G), now - Hour)
    BY <1>1, <1>b
  <1>. HIDE DEF u
  <1>3a. /\ FirstOf(G, S) = FirstOf(F, S)
        /\ FirstOf(G, S \cup {n}) = FirstSeen(FirstOf(F, S), t.ts)
    BY FirstJoined
  <1>3b. /\ CardsAt(G, S) = CardsAt(F, S)
        /\ CardsAt(G, S \cup {n}) = CardsAt(F, S) \cup {t.card}
    BY CardsJoined
  <1>4. DeviceIs(v, G, S, now) /\ DeviceIs(u, G, S \cup {n}, now)
    BY <1>1, <1>2, <1>3a, <1>3b DEF DeviceIs
  <1>. QED  BY <1>4 DEF G, n, u

(* Time goes on, with a trim or without.                                   *)
LEMMA EntryTimes ==
    ASSUME NEW F \in Seq(Txns), NEW S \in RowSets(F)
    PROVE  /\ \A i \in S : Amounted(F)[i].ts \in Int /\ Amounted(F)[i].ts = F[i].ts
           /\ \A i \in S : Carded(F)[i].ts \in Int /\ Carded(F)[i].ts = F[i].ts
  <1>1. \A i \in DOMAIN F : F[i].ts \in Int
    BY LogFacts
  <1>. QED  BY <1>1 DEF Amounted, Carded, RowSets

LEMMA EntityLater ==
    ASSUME NEW F \in Seq(Txns), NEW S \in RowSets(F), NEW v,
           NEW now \in Int, NEW later \in Int, now <= later
    PROVE  /\ CardIs(v, F, S, now) => CardIs(v, F, S, later)
           /\ MerchantIs(v, F, S, now) => MerchantIs(v, F, S, later)
           /\ DeviceIs(v, F, S, now) => DeviceIs(v, F, S, later)
  <1>1. /\ now - Day \in Int /\ later - Day \in Int /\ now - Day <= later - Day
        /\ now - Hour \in Int /\ later - Hour \in Int /\ now - Hour <= later - Hour
        /\ now - TenMinutes \in Int /\ later - TenMinutes \in Int
        /\ now - TenMinutes <= later - TenMinutes
    BY TimeAssumption
  <1>2. CardIs(v, F, S, now) => CardIs(v, F, S, later)
    BY <1>1, EntryTimes, WindowLater DEF CardIs
  <1>3. MerchantIs(v, F, S, now) => MerchantIs(v, F, S, later)
    BY <1>1, EntryTimes, WindowLater DEF MerchantIs
  <1>4. DeviceIs(v, F, S, now) => DeviceIs(v, F, S, later)
    BY <1>1, EntryTimes, WindowLater DEF DeviceIs
  <1>. QED  BY <1>2, <1>3, <1>4

(* What is read of a window after the trim: the rows S that are young.     *)
LEMMA EntityTrimmed ==
    ASSUME NEW F \in Seq(Txns), NEW S \in RowSets(F), NEW v,
           NEW now \in Int, NEW later \in Int, now <= later
    PROVE  /\ v \in Values["card"] /\ CardIs(v, F, S, now) =>
                 /\ CardIs(TrimmedAt(v, later - Day), F, S, later)
                 /\ Mirrors(TrimmedAt(v, later - Day).window,
                            YoungAt(S, F, later - Day), Amounted(F))
           /\ v \in Values["merchant"] /\ MerchantIs(v, F, S, now) =>
                 /\ MerchantIs(TrimmedAt(v, later - TenMinutes), F, S, later)
                 /\ Mirrors(TrimmedAt(v, later - TenMinutes).window,
                            YoungAt(S, F, later - TenMinutes), Amounted(F))
           /\ v \in Values["device"] /\ DeviceIs(v, F, S, now) =>
                 /\ DeviceIs(TrimmedAt(v, later - Hour), F, S, later)
                 /\ Mirrors(TrimmedAt(v, later - Hour).window,
                            YoungAt(S, F, later - Hour), Carded(F))
  <1>1. /\ now - Day \in Int /\ later - Day \in Int /\ now - Day <= later - Day
        /\ now - Hour \in Int /\ later - Hour \in Int /\ now - Hour <= later - Hour
        /\ now - TenMinutes \in Int /\ later - TenMinutes \in Int
        /\ now - TenMinutes <= later - TenMinutes
    BY TimeAssumption
  <1>2. /\ Timed([ts : Times, amount : Amounts])
        /\ Timed([ts : Times, card : Cards])
    BY DEF Timed, Times
  <1>3. \A b : /\ YoungAt(S, Amounted(F), b) = YoungAt(S, F, b)
               /\ YoungAt(S, Carded(F), b) = YoungAt(S, F, b)
    BY EntryTimes DEF YoungAt
  <1>4. ASSUME v \in Values["card"], CardIs(v, F, S, now)
        PROVE  /\ CardIs(TrimmedAt(v, later - Day), F, S, later)
               /\ Mirrors(TrimmedAt(v, later - Day).window,
                          YoungAt(S, F, later - Day), Amounted(F))
    <2>. DEFINE u == TrimmedAt(v, later - Day)
    <2>1. /\ u.window = Trim(v.window, later - Day) /\ u.devices = v.devices
          /\ u.merchants = v.merchants /\ u.count = v.count /\ u.total = v.total
      BY <1>4 DEF TrimmedAt, Values
    <2>2. v.window \in Seq([ts : Times, amount : Amounts])
      BY <1>4 DEF Values
    <2>3. WindowOf(v.window, S, Amounted(F), now - Day)
      BY <1>4 DEF CardIs
    <2>. HIDE DEF u
    <2>4. /\ WindowOf(u.window, S, Amounted(F), later - Day)
          /\ Mirrors(u.window, YoungAt(S, Amounted(F), later - Day), Amounted(F))
      <3>1. \A i \in S : Amounted(F)[i].ts \in Int
        BY EntryTimes
      <3>. QED  BY <1>1, <1>2, <2>1, <2>2, <2>3, <3>1, WindowTrim
    <2>5. CardIs(u, F, S, later)
      BY <1>4, <2>1, <2>4 DEF CardIs
    <2>. QED  BY <1>3, <2>4, <2>5 DEF u
  <1>5. ASSUME v \in Values["merchant"], MerchantIs(v, F, S, now)
        PROVE  /\ MerchantIs(TrimmedAt(v, later - TenMinutes), F, S, later)
               /\ Mirrors(TrimmedAt(v, later - TenMinutes).window,
                          YoungAt(S, F, later - TenMinutes), Amounted(F))
    <2>. DEFINE u == TrimmedAt(v, later - TenMinutes)
    <2>1. /\ u.window = Trim(v.window, later - TenMinutes)
          /\ u.first = v.first /\ u.count = v.count
      BY <1>5 DEF TrimmedAt, Values
    <2>2. v.window \in Seq([ts : Times, amount : Amounts])
      BY <1>5 DEF Values
    <2>3. WindowOf(v.window, S, Amounted(F), now - TenMinutes)
      BY <1>5 DEF MerchantIs
    <2>. HIDE DEF u
    <2>4. /\ WindowOf(u.window, S, Amounted(F), later - TenMinutes)
          /\ Mirrors(u.window, YoungAt(S, Amounted(F), later - TenMinutes), Amounted(F))
      BY <1>1, <1>2, <2>1, <2>2, <2>3, EntryTimes, WindowTrim, SMTT(30)
    <2>5. MerchantIs(u, F, S, later)
      BY <1>5, <2>1, <2>4 DEF MerchantIs
    <2>. QED  BY <1>3, <2>4, <2>5 DEF u
  <1>6. ASSUME v \in Values["device"], DeviceIs(v, F, S, now)
        PROVE  /\ DeviceIs(TrimmedAt(v, later - Hour), F, S, later)
               /\ Mirrors(TrimmedAt(v, later - Hour).window,
                          YoungAt(S, F, later - Hour), Carded(F))
    <2>. DEFINE u == TrimmedAt(v, later - Hour)
    <2>1. /\ u.window = Trim(v.window, later - Hour)
          /\ u.first = v.first /\ u.cards = v.cards
      BY <1>6 DEF TrimmedAt, Values
    <2>2. v.window \in Seq([ts : Times, card : Cards])
      BY <1>6 DEF Values
    <2>3. WindowOf(v.window, S, Carded(F), now - Hour)
      BY <1>6 DEF DeviceIs
    <2>. HIDE DEF u
    <2>4. /\ WindowOf(u.window, S, Carded(F), later - Hour)
          /\ Mirrors(u.window, YoungAt(S, Carded(F), later - Hour), Carded(F))
      <3>1. \A i \in S : Carded(F)[i].ts \in Int
        BY EntryTimes
      <3>. QED  BY <1>1, <1>2, <2>1, <2>2, <2>3, <3>1, WindowTrim
    <2>5. DeviceIs(u, F, S, later)
      BY <1>6, <2>1, <2>4 DEF DeviceIs
    <2>. QED  BY <1>3, <2>4, <2>5 DEF u
  <1>. QED  BY <1>4, <1>5, <1>6

-----------------------------------------------------------------------------
(* What features_for reads off a trimmed window.                           *)
LEMMA YoungRows ==
    ASSUME NEW F \in Seq(Txns), NEW S \in RowSets(F), NEW cutoff
    PROVE  /\ YoungAt(S, F, cutoff) \in RowSets(F)
           /\ YoungAt(S, F, cutoff) \in SUBSET S /\ S \in SUBSET DOMAIN F
           /\ IsFiniteSet(YoungAt(S, F, cutoff)) /\ IsFiniteSet(S)
           /\ \A i \in S : F[i].ts \in Nat /\ F[i].amount \in Nat
           /\ \A i \in S : /\ Amounted(F)[i].ts = F[i].ts /\ Amounted(F)[i].amount = F[i].amount
                           /\ Carded(F)[i].ts = F[i].ts /\ Carded(F)[i].card = F[i].card
  <1>1. YoungAt(S, F, cutoff) \in SUBSET S /\ S \in SUBSET DOMAIN F
    BY DEF YoungAt, RowSets
  <1>2. /\ IsFiniteSet(DOMAIN F)
        /\ \A i \in DOMAIN F : F[i].ts \in Nat /\ F[i].amount \in Nat
    BY LogFacts
  <1>3. IsFiniteSet(S) /\ IsFiniteSet(YoungAt(S, F, cutoff))
    BY <1>1, <1>2, FS_Subset
  <1>4. \A i \in S : /\ Amounted(F)[i].ts = F[i].ts /\ Amounted(F)[i].amount = F[i].amount
                     /\ Carded(F)[i].ts = F[i].ts /\ Carded(F)[i].card = F[i].card
    BY <1>1 DEF Amounted, Carded
  <1>. QED  BY <1>1, <1>2, <1>3, <1>4 DEF RowSets

LEMMA RecentCount ==
    ASSUME NEW F \in Seq(Txns), NEW S \in RowSets(F), NEW w,
           NEW cutoff \in Int, NEW later \in Int, cutoff <= later,
           Mirrors(w, YoungAt(S, F, cutoff), Amounted(F))
    PROVE  Cardinality({j \in DOMAIN w : w[j].ts >= later}) = Cardinality(YoungAt(S, F, later))
  <1>. DEFINE T == YoungAt(S, F, cutoff)
              part == YoungAt(S, F, later)
              places == {j \in DOMAIN w : w[j].ts >= later}
  <1>1. \A i \in S : F[i].ts \in Nat /\ Amounted(F)[i].ts = F[i].ts
    BY YoungRows
  <1>2. part \in SUBSET T
    BY <1>1 DEF YoungAt
  <1>3. places \in SUBSET DOMAIN w
    OBVIOUS
  <1>4. \A j \in DOMAIN w : \A i \in T : w[j] = Amounted(F)[i] => (j \in places <=> i \in part)
    BY <1>1 DEF YoungAt
  <1>. HIDE DEF T, part, places
  <1>5. Mirrors(w, T, Amounted(F))
    BY DEF T
  <1>6. Cardinality(places) = Cardinality(part)
    BY <1>2, <1>3, <1>4, <1>5, MirrorPartCount
  <1>. QED  BY <1>6 DEF places, part

LEMMA SmallCount ==
    ASSUME NEW F \in Seq(Txns), NEW T \in RowSets(F), NEW w, Mirrors(w, T, Amounted(F))
    PROVE  Cardinality({j \in DOMAIN w : w[j].amount < SmallAmount})
               = Cardinality({i \in T : F[i].amount < SmallAmount})
  <1>. DEFINE part == {i \in T : F[i].amount < SmallAmount}
              places == {j \in DOMAIN w : w[j].amount < SmallAmount}
  <1>1. \A i \in T : Amounted(F)[i].amount = F[i].amount
    BY YoungRows
  <1>2. part \in SUBSET T /\ places \in SUBSET DOMAIN w
    OBVIOUS
  <1>3. \A j \in DOMAIN w : \A i \in T : w[j] = Amounted(F)[i] => (j \in places <=> i \in part)
    BY <1>1
  <1>. HIDE DEF part, places
  <1>4. Cardinality(places) = Cardinality(part)
    BY <1>2, <1>3, MirrorPartCount
  <1>. QED  BY <1>4 DEF places, part

LEMMA MirrorSum ==
    ASSUME NEW list, NEW T, NEW e, Mirrors(list, T, e), \A i \in T : e[i].amount \in Nat
    PROVE  SumFunction([j \in DOMAIN list |-> list[j].amount])
               = SumFunction([i \in T |-> e[i].amount])
  <1>1. DOMAIN list \in SUBSET DOMAIN list /\ T \in SUBSET T
    OBVIOUS
  <1>2. \A j \in DOMAIN list : \A i \in T : list[j] = e[i] => (j \in DOMAIN list <=> i \in T)
    OBVIOUS
  <1>. QED  BY <1>1, <1>2, MirrorPartSum

LEMMA WindowSum ==
    ASSUME NEW F \in Seq(Txns), NEW T \in RowSets(F), NEW w, Mirrors(w, T, Amounted(F))
    PROVE  SumFunction([j \in DOMAIN w |-> w[j].amount]) = AmountsAt(F, T)
  <1>1. \A i \in T : Amounted(F)[i].amount = F[i].amount /\ F[i].amount \in Nat
    BY YoungRows
  <1>2. SumFunction([j \in DOMAIN w |-> w[j].amount])
            = SumFunction([i \in T |-> Amounted(F)[i].amount])
    <2>1. \A i \in T : Amounted(F)[i].amount \in Nat
      BY <1>1
    <2>. QED  BY <2>1, MirrorSum
  <1>3. [i \in T |-> Amounted(F)[i].amount] = [i \in T |-> F[i].amount]
    BY <1>1
  <1>. QED  BY <1>2, <1>3 DEF AmountsAt

LEMMA LatestIs ==
    ASSUME NEW F \in Seq(Txns), Ascending(F), NEW T \in RowSets(F), T # {},
           NEW w, Ascending(w), Mirrors(w, T, Amounted(F))
    PROVE  w # <<>> /\ Max(T) \in T /\ Last(w).ts = F[Max(T)].ts
  <1>1. /\ Len(F) \in Nat /\ T \in SUBSET (1 .. Len(F)) /\ T \in SUBSET DOMAIN F
        /\ IsFiniteSet(T)
    BY LogFacts, YoungRows
  <1>2. Max(T) \in T /\ \A i \in T : i <= Max(T)
    BY <1>1, MaxIsGreatest
  <1>3. /\ Len(w) \in Nat /\ Len(w) = Cardinality(T) /\ DOMAIN w = 1 .. Len(w)
        /\ \A j \in DOMAIN w : \E i \in T : w[j] = Amounted(F)[i]
        /\ \A i \in T : \E j \in DOMAIN w : w[j] = Amounted(F)[i]
    BY MirrorFacts, MirrorValues
  <1>4. \A i \in T : Amounted(F)[i].ts = F[i].ts /\ F[i].ts \in Nat
    BY YoungRows
  <1>5. PICK j \in DOMAIN w : w[j] = Amounted(F)[Max(T)]
    BY <1>2, <1>3
  <1>6. Len(w) \in DOMAIN w /\ j <= Len(w)
    BY <1>3
  <1>7. PICK i \in T : w[Len(w)] = Amounted(F)[i]
    BY <1>3, <1>6
  <1>8. F[Max(T)].ts <= F[i].ts
    BY <1>2, <1>4, <1>5, <1>6, <1>7 DEF Ascending
  <1>9. F[i].ts <= F[Max(T)].ts
    BY <1>1, <1>2 DEF Ascending
  <1>10. F[i].ts = F[Max(T)].ts
    BY <1>2, <1>4, <1>8, <1>9
  <1>11. w # <<>>
    BY <1>6
  <1>. QED  BY <1>2, <1>4, <1>7, <1>10, <1>11 DEF Last

LEMMA WindowCards ==
    ASSUME NEW F \in Seq(Txns), NEW T \in RowSets(F), NEW w, Mirrors(w, T, Carded(F))
    PROVE  {x.card : x \in ToSet(w)} = CardsAt(F, T)
  <1>1. /\ \A j \in DOMAIN w : \E i \in T : w[j] = Carded(F)[i]
        /\ \A i \in T : \E j \in DOMAIN w : w[j] = Carded(F)[i]
    BY MirrorValues
  <1>2. \A i \in T : Carded(F)[i].card = F[i].card
    BY YoungRows
  <1>3. {x.card : x \in ToSet(w)} = {w[j].card : j \in DOMAIN w}
    BY DEF ToSet
  <1>4. {w[j].card : j \in DOMAIN w} = {F[i].card : i \in T}
    BY <1>1, <1>2
  <1>. QED  BY <1>3, <1>4 DEF CardsAt

MarksBy(w, ts) == Cardinality({j \in DOMAIN w : w[j] <= ts})
VisibleBy(M, S, ts) == Cardinality({i \in S : M[i].visible <= ts})

LEMMA MarksRead ==
    ASSUME NEW M \in Seq(Named), NEW T \in SUBSET DOMAIN M, NEW w, NEW ts,
           Mirrors(w, T, VisibleAt(M))
    PROVE  MarksBy(w, ts) = VisibleBy(M, T, ts)
  <1>. DEFINE part == {i \in T : M[i].visible <= ts}
              places == {j \in DOMAIN w : w[j] <= ts}
  <1>1. \A i \in T : VisibleAt(M)[i] = M[i].visible
    BY DEF VisibleAt
  <1>2. part \in SUBSET T /\ places \in SUBSET DOMAIN w
    OBVIOUS
  <1>3. \A j \in DOMAIN w : \A i \in T : w[j] = VisibleAt(M)[i] => (j \in places <=> i \in part)
    BY <1>1
  <1>. HIDE DEF part, places
  <1>4. Cardinality(places) = Cardinality(part)
    BY <1>2, <1>3, MirrorPartCount
  <1>. QED  BY <1>4 DEF places, part, MarksBy, VisibleBy

LEMMA CardReads ==
    ASSUME NEW F \in Seq(Txns), Ascending(F), NEW S \in RowSets(F), NEW t \in Txns,
           \A i \in DOMAIN F : F[i].ts <= t.ts,
           NEW u, CardIs(u, F, S, t.ts),
           Mirrors(u.window, YoungAt(S, F, t.ts - Day), Amounted(F))
    PROVE  LET Y == YoungAt(S, F, t.ts - Day)
           IN  /\ Len(u.window) = Cardinality(Y)
               /\ Cardinality({j \in DOMAIN u.window : u.window[j].ts >= t.ts - Hour})
                      = Cardinality(YoungAt(S, F, t.ts - Hour))
               /\ SumFunction([j \in DOMAIN u.window |-> u.window[j].amount]) = AmountsAt(F, Y)
               /\ (IF u.window = <<>> THEN Day ELSE AtMost(t.ts - Last(u.window).ts, Day))
                      = IF Y = {} THEN Day ELSE t.ts - F[Max(Y)].ts
  <1>. DEFINE w == u.window
              Y == YoungAt(S, F, t.ts - Day)
  <1>1. t.ts \in Nat /\ Day \in Nat /\ Hour \in Nat /\ Hour <= Day
    <2>1. t.ts \in Nat
      BY TxnOf
    <2>. QED  BY <2>1, TimeAssumption
  <1>2. /\ Y \in RowSets(F) /\ \A i \in Y : F[i].ts \in Nat /\ F[i].ts <= t.ts
        /\ \A i \in Y : F[i].ts >= t.ts - Day
    <2>1. /\ YoungAt(S, F, t.ts - Day) \in RowSets(F)
          /\ YoungAt(S, F, t.ts - Day) \in SUBSET S /\ S \in SUBSET DOMAIN F
          /\ \A i \in S : F[i].ts \in Nat
      BY YoungRows
    <2>. QED  BY <2>1 DEF YoungAt
  <1>3. Ascending(w) /\ Mirrors(w, Y, Amounted(F))
    BY DEF CardIs, WindowOf
  <1>4. Len(w) = Cardinality(Y)
    BY <1>3, MirrorFacts
  <1>5. Cardinality({j \in DOMAIN w : w[j].ts >= t.ts - Hour})
            = Cardinality(YoungAt(S, F, t.ts - Hour))
    <2>1. t.ts - Day \in Int /\ t.ts - Hour \in Int /\ t.ts - Day <= t.ts - Hour
      BY <1>1
    <2>. HIDE DEF w
    <2>. QED  BY <1>3, <2>1, RecentCount
  <1>6. SumFunction([j \in DOMAIN w |-> w[j].amount]) = AmountsAt(F, Y)
    <2>. HIDE DEF w, Y
    <2>. QED  BY <1>2, <1>3, WindowSum
  <1>7. (IF w = <<>> THEN Day ELSE AtMost(t.ts - Last(w).ts, Day))
            = IF Y = {} THEN Day ELSE t.ts - F[Max(Y)].ts
    <2>. HIDE DEF w, Y
    <2>1. CASE Y = {}
      <3>1. Len(w) = 0 /\ \E n \in Nat : w = [j \in 1 .. n |-> w[j]]
        BY <1>3, <1>4, <2>1, FS_EmptySet DEF Mirrors
      <3>2. w = <<>>
        BY <3>1
      <3>. QED  BY <2>1, <3>2
    <2>2. CASE Y # {}
      <3>1. w # <<>> /\ Max(Y) \in Y /\ Last(w).ts = F[Max(Y)].ts
        BY <1>2, <1>3, <2>2, LatestIs
      <3>2. /\ F[Max(Y)].ts \in Nat /\ F[Max(Y)].ts <= t.ts /\ F[Max(Y)].ts >= t.ts - Day
        BY <1>2, <3>1
      <3>3. AtMost(t.ts - F[Max(Y)].ts, Day) = t.ts - F[Max(Y)].ts
        BY <1>1, <3>2 DEF AtMost
      <3>. QED  BY <2>2, <3>1, <3>3
    <2>. QED  BY <2>1, <2>2
  <1>. QED  BY <1>4, <1>5, <1>6, <1>7 DEF w, Y

(* First-seen times, new devices and merchants, and marks.                 *)
LEMMA AgeReads ==
    ASSUME log \in Seq(Txns), NEW S \in RowSets(log), NEW ts
    PROVE  Age(FirstOf(log, S), ts) = AgeOfFirst(S, ts)
  <1>1. CASE S = {}
    BY <1>1 DEF Age, FirstOf, AgeOfFirst
  <1>2. CASE S # {}
    <2>1. S \in SUBSET DOMAIN log /\ S \in SUBSET Nat
      BY LogFacts DEF RowSets
    <2>2. Min(S) \in S
      BY <1>2, <2>1, MinIsLeast
    <2>3. log[Min(S)].ts \in Times
      BY <2>1, <2>2, LogFacts, TxnOf
    <2>4. log[Min(S)].ts # None
      BY <2>3, NoneAssumption
    <2>. QED  BY <1>2, <2>4 DEF Age, FirstOf, AgeOfFirst
  <1>. QED  BY <1>1, <1>2

LEMMA NewReads ==
    ASSUME NEW F \in Seq(Txns), NEW t \in Txns, NEW S \in RowSets(F)
    PROVE  /\ t.device \notin DevicesAt(F, S) <=> S \cap RowsOf(F, "device", t.device) = {}
           /\ t.merchant \notin MerchantsAt(F, S) <=> S \cap RowsOf(F, "merchant", t.merchant) = {}
  <1>1. S \in SUBSET DOMAIN F
    BY DEF RowSets
  <1>2. t.device \notin DevicesAt(F, S) <=> S \cap RowsOf(F, "device", t.device) = {}
    BY <1>1 DEF DevicesAt, RowsOf
  <1>3. t.merchant \notin MerchantsAt(F, S) <=> S \cap RowsOf(F, "merchant", t.merchant) = {}
    BY <1>1 DEF MerchantsAt, RowsOf
  <1>. QED  BY <1>2, <1>3

LEMMA NamingReads ==
    ASSUME NEW M \in Seq(Named), NEW t \in Txns
    PROVE  /\ Naming(M, t.card) = {i \in DOMAIN M : M[i].card = t.card}
           /\ Naming(M, t.device) = {i \in DOMAIN M : M[i].device = t.device}
           /\ Naming(M, t.merchant) = {i \in DOMAIN M : M[i].merchant = t.merchant}
  <1>1. \A i \in DOMAIN M : M[i].card \in Cards /\ M[i].device \in Devices /\ M[i].merchant \in Merchants
    <2>1. \A i \in DOMAIN M : M[i] \in Named
      OBVIOUS
    <2>. QED  BY <2>1 DEF Named
  <1>2. t.card \in Cards /\ t.device \in Devices /\ t.merchant \in Merchants
    BY TxnOf
  <1>3. Naming(M, t.card) = {i \in DOMAIN M : M[i].card = t.card}
    BY <1>1, <1>2, KindsAssumption DEF Naming
  <1>4. Naming(M, t.device) = {i \in DOMAIN M : M[i].device = t.device}
    BY <1>1, <1>2, KindsAssumption DEF Naming
  <1>5. Naming(M, t.merchant) = {i \in DOMAIN M : M[i].merchant = t.merchant}
    BY <1>1, <1>2, KindsAssumption DEF Naming
  <1>. QED  BY <1>3, <1>4, <1>5

(* The answer of features_for is the one the log gives.                    *)
LEMMA ReadsOfStore ==
    ASSUME NEW s, NEW t
    PROVE  LET x == Trimmed(s, t)
               c == x.card[t.card]
               m == x.merchant[t.merchant]
               d == x.device[t.device]
               a == Age(d.first, t.ts)
           IN FeaturesFor(s, t) =
                [txn_count_24h |-> Len(c.window),
                 txn_count_1h |-> Cardinality({j \in DOMAIN c.window : c.window[j].ts >= t.ts - Hour}),
                 amount_sum_24h |-> SumFunction([j \in DOMAIN c.window |-> c.window[j].amount]),
                 seconds_since_last_txn |->
                     IF c.window = <<>> THEN Day ELSE AtMost(t.ts - Last(c.window).ts, Day),
                 card_history |-> <<c.count, c.total>>,
                 is_new_device_for_card |-> t.device \notin c.devices,
                 is_new_merchant_for_card |-> t.merchant \notin c.merchants,
                 merchant_txns_10m |-> Len(m.window),
                 merchant_small_amt_10m |->
                     Cardinality({j \in DOMAIN m.window : m.window[j].amount < SmallAmount}),
                 device_card_count_1h |-> Cardinality({y.card : y \in ToSet(d.window)}),
                 merchant_txn_count |-> m.count,
                 merchant_observed_age |-> Age(m.first, t.ts),
                 device_observed_age |-> a,
                 device_alltime_cards |-> Cardinality(d.cards),
                 pair_device_life |->
                     IF a > 0 THEN <<Age(s.pair[<<t.device, t.card>>], t.ts), a>> ELSE <<1, 1>>,
                 device_confirmed_fraud_links |->
                     Cardinality({j \in DOMAIN s.marks[t.device] : s.marks[t.device][j] <= t.ts}),
                 card_prior_confirmed_fraud |->
                     AtMost(Cardinality({j \in DOMAIN s.marks[t.card] :
                                             s.marks[t.card][j] <= t.ts}), MarkCap),
                 merchant_confirmed_fraud_links |->
                     Cardinality({j \in DOMAIN s.marks[t.merchant] :
                                      s.marks[t.merchant][j] <= t.ts})]
  BY DEF FeaturesFor, CountIf, MarksUpTo

LEMMA ReadIsOfLog ==
    ASSUME ReplayInv, NEW t \in Txns, InOrder(t)
    PROVE  FeaturesFor(store, t) = FeaturesOf(t)
  <1>. DEFINE C == {i \in DOMAIN log : log[i].card = t.card}
              D == {i \in DOMAIN log : log[i].device = t.device}
              M == {i \in DOMAIN log : log[i].merchant = t.merchant}
              Y == {i \in C : log[i].ts >= t.ts - Day}
              H == {i \in C : log[i].ts >= t.ts - Hour}
              Z == {i \in M : log[i].ts >= t.ts - TenMinutes}
              U == {i \in D : log[i].ts >= t.ts - Hour}
              a == AgeOfFirst(D, t.ts)
              ofDevice == {i \in DOMAIN confirmed :
                             confirmed[i].visible <= t.ts /\ confirmed[i].device = t.device}
              ofCard == {i \in DOMAIN confirmed :
                             confirmed[i].visible <= t.ts /\ confirmed[i].card = t.card}
              ofMerchant == {i \in DOMAIN confirmed :
                             confirmed[i].visible <= t.ts /\ confirmed[i].merchant = t.merchant}
              x == Trimmed(store, t)
              c == x.card[t.card]
              m == x.merchant[t.merchant]
              d == x.device[t.device]
              b == Age(d.first, t.ts)
  <1>1. FeaturesOf(t) =
          [txn_count_24h |-> Cardinality(Y),
          txn_count_1h |-> Cardinality(H),
          amount_sum_24h |-> Total(Y),
          seconds_since_last_txn |-> IF Y = {} THEN Day ELSE t.ts - log[Max(Y)].ts,
          card_history |-> <<Cardinality(C), Total(C)>>,
          is_new_device_for_card |-> C \cap D = {},
          is_new_merchant_for_card |-> C \cap M = {},
          merchant_txns_10m |-> Cardinality(Z),
          merchant_small_amt_10m |->
              Cardinality({i \in Z : log[i].amount < SmallAmount}),
          device_card_count_1h |-> Cardinality({log[i].card : i \in U}),
          merchant_txn_count |-> Cardinality(M),
          merchant_observed_age |-> AgeOfFirst(M, t.ts),
          device_observed_age |-> a,
          device_alltime_cards |-> Cardinality({log[i].card : i \in D}),
          pair_device_life |->
              IF a > 0 THEN <<AgeOfFirst(C \cap D, t.ts), a>> ELSE <<1, 1>>,
          device_confirmed_fraud_links |-> Cardinality(ofDevice),
          card_prior_confirmed_fraud |-> AtMost(Cardinality(ofCard), MarkCap),
          merchant_confirmed_fraud_links |-> Cardinality(ofMerchant)]
    BY DEF FeaturesOf, Earlier, Visible
  <1>2. /\ RowsOf(log, "card", t.card) = C /\ RowsOf(log, "device", t.device) = D
        /\ RowsOf(log, "merchant", t.merchant) = M
    BY DEF RowsOf
  <1>3. /\ YoungAt(C, log, t.ts - Day) = Y /\ YoungAt(C, log, t.ts - Hour) = H
        /\ YoungAt(M, log, t.ts - TenMinutes) = Z /\ YoungAt(D, log, t.ts - Hour) = U
    BY DEF YoungAt
  <1>4. /\ AmountsAt(log, Y) = Total(Y) /\ AmountsAt(log, C) = Total(C)
        /\ CardsAt(log, U) = {log[i].card : i \in U} /\ CardsAt(log, D) = {log[i].card : i \in D}
    BY DEF AmountsAt, CardsAt, Total
  <1>6. /\ StoreTyped(store) /\ log \in Seq(Txns) /\ Ascending(log) /\ confirmed \in Seq(Named)
        /\ StoreIs(store, log, confirmed, Horizon)
        /\ \A i \in DOMAIN log : log[i].ts <= t.ts
        /\ Horizon \in Int /\ t.ts \in Int /\ Horizon <= t.ts
    <2>1. \A i \in DOMAIN log : log[i].ts \in Nat /\ log[i].ts <= Horizon
      BY LogFacts DEF ReplayInv
    <2>2. t.ts \in Nat
      BY TxnOf
    <2>3. Horizon \in Int /\ Horizon <= t.ts
      BY <2>2, TxnOf, NobodyAssumption DEF ReplayInv, Horizon, InOrder
    <2>. QED  BY <2>1, <2>2, <2>3 DEF ReplayInv
  <1>7. /\ t.card \in Cards /\ t.device \in Devices /\ t.merchant \in Merchants
        /\ t.card \in Cards \cup Devices \cup Merchants
        /\ t.device \in Cards \cup Devices \cup Merchants
        /\ t.merchant \in Cards \cup Devices \cup Merchants
    BY TxnOf
  <1>8. C \in RowSets(log) /\ D \in RowSets(log) /\ M \in RowSets(log) /\ C \cap D \in RowSets(log)
    BY DEF RowSets
  <1>. HIDE DEF C, D, M, Y, H, Z, U, ofDevice, ofCard, ofMerchant
  <1>9. /\ c = TrimmedAt(store.card[t.card], t.ts - Day)
        /\ m = TrimmedAt(store.merchant[t.merchant], t.ts - TenMinutes)
        /\ d = TrimmedAt(store.device[t.device], t.ts - Hour)
    <2>1. /\ DOMAIN store.card = Cards /\ DOMAIN store.merchant = Merchants
          /\ DOMAIN store.device = Devices
      BY <1>6, FieldsAre DEF StoreTyped, Shaped
    <2>2. /\ x.card = [store.card EXCEPT ![t.card] = TrimmedAt(@, t.ts - Day)]
          /\ x.merchant = [store.merchant EXCEPT ![t.merchant] = TrimmedAt(@, t.ts - TenMinutes)]
          /\ x.device = [store.device EXCEPT ![t.device] = TrimmedAt(@, t.ts - Hour)]
      BY <1>6, TrimmedFields
    <2>. HIDE DEF x
    <2>. QED  BY <1>7, <2>1, <2>2
  <1>10. /\ store.card[t.card] \in Values["card"]
         /\ store.merchant[t.merchant] \in Values["merchant"]
         /\ store.device[t.device] \in Values["device"]
    BY <1>6, <1>7, FieldsAre DEF StoreTyped
  <1>11. /\ CardIs(store.card[t.card], log, C, Horizon)
         /\ MerchantIs(store.merchant[t.merchant], log, M, Horizon)
         /\ DeviceIs(store.device[t.device], log, D, Horizon)
         /\ store.pair[<<t.device, t.card>>] = FirstOf(log, D \cap C)
         /\ \A e \in Cards \cup Devices \cup Merchants :
                Mirrors(store.marks[e], Naming(confirmed, e), VisibleAt(confirmed))
    BY <1>2, <1>6, <1>7 DEF StoreIs
  <1>. HIDE DEF x, c, m, d
  <1>12. /\ CardIs(c, log, C, t.ts) /\ Mirrors(c.window, Y, Amounted(log))
         /\ MerchantIs(m, log, M, t.ts) /\ Mirrors(m.window, Z, Amounted(log))
         /\ DeviceIs(d, log, D, t.ts) /\ Mirrors(d.window, U, Carded(log))
    BY <1>3, <1>6, <1>8, <1>9, <1>10, <1>11, EntityTrimmed
  <1>13. Y \in RowSets(log) /\ Z \in RowSets(log) /\ U \in RowSets(log)
    BY <1>3, <1>6, <1>8, YoungRows
  <1>14. /\ Len(c.window) = Cardinality(Y)
         /\ Cardinality({j \in DOMAIN c.window : c.window[j].ts >= t.ts - Hour}) = Cardinality(H)
         /\ SumFunction([j \in DOMAIN c.window |-> c.window[j].amount]) = Total(Y)
         /\ (IF c.window = <<>> THEN Day ELSE AtMost(t.ts - Last(c.window).ts, Day))
                = IF Y = {} THEN Day ELSE t.ts - log[Max(Y)].ts
    <2>1. LET YY == YoungAt(C, log, t.ts - Day)
          IN  /\ Len(c.window) = Cardinality(YY)
              /\ Cardinality({j \in DOMAIN c.window : c.window[j].ts >= t.ts - Hour})
                     = Cardinality(YoungAt(C, log, t.ts - Hour))
              /\ SumFunction([j \in DOMAIN c.window |-> c.window[j].amount]) = AmountsAt(log, YY)
              /\ (IF c.window = <<>> THEN Day ELSE AtMost(t.ts - Last(c.window).ts, Day))
                     = IF YY = {} THEN Day ELSE t.ts - log[Max(YY)].ts
      BY <1>3, <1>6, <1>8, <1>12, CardReads
    <2>. QED  BY <1>3, <1>4, <2>1
  <1>15. c.count = Cardinality(C) /\ c.total = Total(C)
    BY <1>4, <1>12 DEF CardIs
  <1>16. /\ t.device \notin c.devices <=> C \cap D = {}
         /\ t.merchant \notin c.merchants <=> C \cap M = {}
    BY <1>2, <1>6, <1>8, <1>12, NewReads DEF CardIs, DevicesAt, MerchantsAt
  <1>17. /\ Len(m.window) = Cardinality(Z) /\ m.count = Cardinality(M)
         /\ Cardinality({j \in DOMAIN m.window : m.window[j].amount < SmallAmount})
                = Cardinality({i \in Z : log[i].amount < SmallAmount})
    BY <1>6, <1>12, <1>13, MirrorFacts, SmallCount, SMTT(30) DEF MerchantIs
  <1>18. /\ {y.card : y \in ToSet(d.window)} = {log[i].card : i \in U}
         /\ d.cards = {log[i].card : i \in D}
    BY <1>4, <1>6, <1>12, <1>13, WindowCards DEF DeviceIs, CardsAt
  <1>19. /\ Age(m.first, t.ts) = AgeOfFirst(M, t.ts) /\ b = a
         /\ Age(store.pair[<<t.device, t.card>>], t.ts) = AgeOfFirst(C \cap D, t.ts)
    <2>1. m.first = FirstOf(log, M) /\ d.first = FirstOf(log, D)
      BY <1>12 DEF MerchantIs, DeviceIs
    <2>2. D \cap C = C \cap D
      OBVIOUS
    <2>. DEFINE now == t.ts
    <2>3. \A S \in RowSets(log) : Age(FirstOf(log, S), now) = AgeOfFirst(S, now)
      BY <1>6, AgeReads
    <2>. HIDE DEF now
    <2>4. /\ Age(m.first, now) = AgeOfFirst(M, now) /\ Age(d.first, now) = AgeOfFirst(D, now)
          /\ Age(store.pair[<<t.device, t.card>>], now) = AgeOfFirst(C \cap D, now)
      BY <1>8, <1>11, <2>1, <2>2, <2>3
    <2>. QED  BY <2>4 DEF now
  <1>20. /\ Cardinality({j \in DOMAIN store.marks[t.device] : store.marks[t.device][j] <= t.ts})
                = Cardinality(ofDevice)
         /\ Cardinality({j \in DOMAIN store.marks[t.card] : store.marks[t.card][j] <= t.ts})
                = Cardinality(ofCard)
         /\ Cardinality({j \in DOMAIN store.marks[t.merchant] : store.marks[t.merchant][j] <= t.ts})
                = Cardinality(ofMerchant)
    <2>. DEFINE N == {i \in DOMAIN confirmed : confirmed[i].device = t.device}
                P == {i \in DOMAIN confirmed : confirmed[i].card = t.card}
                Q == {i \in DOMAIN confirmed : confirmed[i].merchant = t.merchant}
    <2>1. /\ Naming(confirmed, t.device) = N /\ Naming(confirmed, t.card) = P
          /\ Naming(confirmed, t.merchant) = Q
      BY <1>6, NamingReads
    <2>2. N \in SUBSET DOMAIN confirmed /\ P \in SUBSET DOMAIN confirmed
          /\ Q \in SUBSET DOMAIN confirmed
      OBVIOUS
    <2>3. /\ {i \in N : confirmed[i].visible <= t.ts} = ofDevice
          /\ {i \in P : confirmed[i].visible <= t.ts} = ofCard
          /\ {i \in Q : confirmed[i].visible <= t.ts} = ofMerchant
      BY DEF ofDevice, ofCard, ofMerchant
    <2>. HIDE DEF N, P, Q
    <2>4. /\ Mirrors(store.marks[t.device], N, VisibleAt(confirmed))
          /\ Mirrors(store.marks[t.card], P, VisibleAt(confirmed))
          /\ Mirrors(store.marks[t.merchant], Q, VisibleAt(confirmed))
      BY <1>7, <1>11, <2>1
    <2>5. /\ MarksBy(store.marks[t.device], t.ts) = VisibleBy(confirmed, N, t.ts)
          /\ MarksBy(store.marks[t.card], t.ts) = VisibleBy(confirmed, P, t.ts)
          /\ MarksBy(store.marks[t.merchant], t.ts) = VisibleBy(confirmed, Q, t.ts)
      BY <1>6, <2>2, <2>4, MarksRead
    <2>. QED  BY <2>3, <2>5 DEF MarksBy, VisibleBy
  <1>. HIDE DEF a
  <1>21. FeaturesFor(store, t) =
           [txn_count_24h |-> Len(c.window),
            txn_count_1h |-> Cardinality({j \in DOMAIN c.window : c.window[j].ts >= t.ts - Hour}),
            amount_sum_24h |-> SumFunction([j \in DOMAIN c.window |-> c.window[j].amount]),
            seconds_since_last_txn |->
                IF c.window = <<>> THEN Day ELSE AtMost(t.ts - Last(c.window).ts, Day),
            card_history |-> <<c.count, c.total>>,
            is_new_device_for_card |-> t.device \notin c.devices,
            is_new_merchant_for_card |-> t.merchant \notin c.merchants,
            merchant_txns_10m |-> Len(m.window),
            merchant_small_amt_10m |->
                Cardinality({j \in DOMAIN m.window : m.window[j].amount < SmallAmount}),
            device_card_count_1h |-> Cardinality({y.card : y \in ToSet(d.window)}),
            merchant_txn_count |-> m.count,
            merchant_observed_age |-> Age(m.first, t.ts),
            device_observed_age |-> b,
            device_alltime_cards |-> Cardinality(d.cards),
            pair_device_life |->
                IF b > 0 THEN <<Age(store.pair[<<t.device, t.card>>], t.ts), b>> ELSE <<1, 1>>,
            device_confirmed_fraud_links |->
                Cardinality({j \in DOMAIN store.marks[t.device] : store.marks[t.device][j] <= t.ts}),
            card_prior_confirmed_fraud |->
                AtMost(Cardinality({j \in DOMAIN store.marks[t.card] :
                                        store.marks[t.card][j] <= t.ts}), MarkCap),
            merchant_confirmed_fraud_links |->
                Cardinality({j \in DOMAIN store.marks[t.merchant] :
                                 store.marks[t.merchant][j] <= t.ts})]
    BY ReadsOfStore DEF x, c, m, d, b
  <1>. HIDE DEF b
  <1>22. <<c.count, c.total>> = <<Cardinality(C), Total(C)>>
    BY <1>15
  <1>23. /\ (t.device \notin c.devices) = (C \cap D = {})
         /\ (t.merchant \notin c.merchants) = (C \cap M = {})
    BY <1>16
  <1>24. (IF b > 0 THEN <<Age(store.pair[<<t.device, t.card>>], t.ts), b>> ELSE <<1, 1>>)
             = IF a > 0 THEN <<AgeOfFirst(C \cap D, t.ts), a>> ELSE <<1, 1>>
    BY <1>19
  <1>25. Cardinality({y.card : y \in ToSet(d.window)}) = Cardinality({log[i].card : i \in U})
         /\ Cardinality(d.cards) = Cardinality({log[i].card : i \in D})
    BY <1>18
  <1>26. AtMost(Cardinality({j \in DOMAIN store.marks[t.card] : store.marks[t.card][j] <= t.ts}),
                MarkCap)
             = AtMost(Cardinality(ofCard), MarkCap)
    BY <1>20
  <1>. QED  BY <1>1, <1>14, <1>17, <1>19, <1>20, <1>21, <1>22, <1>23, <1>24, <1>25, <1>26

-----------------------------------------------------------------------------
(* Every step of a replay.                                                 *)
LEMMA RowsAreRows ==
    ASSUME NEW F, NEW kind, NEW e
    PROVE  RowsOf(F, kind, e) \in RowSets(F)
  BY DEF RowsOf, RowSets

LEMMA StoreBegins == StoreIs(EmptyStore, <<>>, <<>>, 0)
  <1>1. /\ DOMAIN <<>> = {}
        /\ \A kind, e : RowsOf(<<>>, kind, e) = {}
        /\ \A e : Naming(<<>>, e) = {}
    BY DEF RowsOf, Naming
  <1>2. \A e, a : WindowOf(<<>>, {}, e, a)
    BY MirrorEmpty DEF WindowOf, Ascending
  <1>3. Cardinality({}) = 0
    BY FS_EmptySet
  <1>4. AmountsAt(<<>>, {}) = 0
    <2>1. IsFiniteSet({})
      BY FS_EmptySet
    <2>2. Whole([x \in {} |-> 0]) = 0
      BY <2>1, SumOfZeros
    <2>3. [i \in {} |-> <<>>[i].amount] = [x \in {} |-> 0]
      OBVIOUS
    <2>. QED  BY <2>2, <2>3, SumIs DEF AmountsAt
  <1>5. CardsAt(<<>>, {}) = {} /\ DevicesAt(<<>>, {}) = {} /\ MerchantsAt(<<>>, {}) = {}
        /\ FirstOf(<<>>, {}) = None
    BY DEF CardsAt, DevicesAt, MerchantsAt, FirstOf
  <1>6. CardIs(EmptyCard, <<>>, {}, 0)
    BY <1>2, <1>3, <1>4, <1>5 DEF CardIs, EmptyCard
  <1>7. MerchantIs(EmptyMerchant, <<>>, {}, 0)
    BY <1>2, <1>3, <1>5 DEF MerchantIs, EmptyMerchant
  <1>8. DeviceIs(EmptyDevice, <<>>, {}, 0)
    BY <1>2, <1>5 DEF DeviceIs, EmptyDevice
  <1>9. /\ \A c \in Cards : EmptyStore.card[c] = EmptyCard
        /\ \A m \in Merchants : EmptyStore.merchant[m] = EmptyMerchant
        /\ \A d \in Devices : EmptyStore.device[d] = EmptyDevice
        /\ \A d \in Devices, c \in Cards : EmptyStore.pair[<<d, c>>] = None
        /\ \A e \in Cards \cup Devices \cup Merchants : EmptyStore.marks[e] = <<>>
    BY DEF EmptyStore
  <1>10. {} \cap {} = {}
    OBVIOUS
  <1>. QED  BY <1>1, <1>5, <1>6, <1>7, <1>8, <1>9, <1>10, MirrorEmpty DEF StoreIs

LEMMA ReplayBegins == Init => ReplayInv
  <1>. SUFFICES ASSUME Init PROVE ReplayInv
    OBVIOUS
  <1>1. /\ store = EmptyStore /\ pending = Idle /\ log = <<>> /\ confirmed = <<>>
        /\ asked = Nobody /\ Horizon = 0
    BY DEF Init, LogInit, Horizon
  <1>2. DOMAIN log = {} /\ log \in Seq(Txns) /\ confirmed \in Seq(Named) /\ Ascending(log)
    BY <1>1 DEF Ascending
  <1>. QED  BY <1>1, <1>2, EmptyStoreTyped, StoreBegins DEF ReplayInv

(* features_for leaves the windows of its three entities as trimmed.       *)
LEMMA StoreTrimmed ==
    ASSUME NEW s, StoreTyped(s), NEW F \in Seq(Txns), NEW M, NEW t \in Txns,
           NEW now \in Int, now <= t.ts, StoreIs(s, F, M, now)
    PROVE  StoreIs(Trimmed(s, t), F, M, t.ts)
  <1>. DEFINE x == Trimmed(s, t)
  <1>1. t.ts \in Int /\ \A kind, e : RowsOf(F, kind, e) \in RowSets(F)
    BY TxnOf, RowsAreRows
  <1>2. /\ x.card = [s.card EXCEPT ![t.card] = TrimmedAt(@, t.ts - Day)]
        /\ x.merchant = [s.merchant EXCEPT ![t.merchant] = TrimmedAt(@, t.ts - TenMinutes)]
        /\ x.device = [s.device EXCEPT ![t.device] = TrimmedAt(@, t.ts - Hour)]
        /\ x.pair = s.pair /\ x.marks = s.marks
    BY TrimmedFields
  <1>. HIDE DEF x
  <1>3. /\ DOMAIN s.card = Cards /\ \A c \in Cards : s.card[c] \in Values["card"]
        /\ DOMAIN s.merchant = Merchants /\ \A m \in Merchants : s.merchant[m] \in Values["merchant"]
        /\ DOMAIN s.device = Devices /\ \A d \in Devices : s.device[d] \in Values["device"]
    BY FieldsAre DEF StoreTyped, Shaped
  <1>4. ASSUME NEW c \in Cards PROVE CardIs(x.card[c], F, RowsOf(F, "card", c), t.ts)
    <2>1. CardIs(s.card[c], F, RowsOf(F, "card", c), now)
      BY DEF StoreIs
    <2>2. x.card[c] = s.card[c] \/ x.card[c] = TrimmedAt(s.card[c], t.ts - Day)
      BY <1>2, <1>3
    <2>. DEFINE S == RowsOf(F, "card", c)
                v == s.card[c]
    <2>3. S \in RowSets(F) /\ v \in Values["card"]
      BY <1>1, <1>3
    <2>. HIDE DEF S, v
    <2>4. CardIs(v, F, S, now) => CardIs(v, F, S, t.ts)
      BY <1>1, <2>3, EntityLater
    <2>5. CardIs(v, F, S, now) => CardIs(TrimmedAt(v, t.ts - Day), F, S, t.ts)
      BY <1>1, <2>3, EntityTrimmed
    <2>. QED  BY <2>1, <2>2, <2>4, <2>5 DEF S, v
  <1>5. ASSUME NEW m \in Merchants
        PROVE  MerchantIs(x.merchant[m], F, RowsOf(F, "merchant", m), t.ts)
    <2>1. MerchantIs(s.merchant[m], F, RowsOf(F, "merchant", m), now)
      BY DEF StoreIs
    <2>2. x.merchant[m] = s.merchant[m] \/ x.merchant[m] = TrimmedAt(s.merchant[m], t.ts - TenMinutes)
      BY <1>2, <1>3
    <2>. DEFINE S == RowsOf(F, "merchant", m)
                v == s.merchant[m]
    <2>3. S \in RowSets(F) /\ v \in Values["merchant"]
      BY <1>1, <1>3
    <2>. HIDE DEF S, v
    <2>4. MerchantIs(v, F, S, now) => MerchantIs(v, F, S, t.ts)
      BY <1>1, <2>3, EntityLater
    <2>5. MerchantIs(v, F, S, now) => MerchantIs(TrimmedAt(v, t.ts - TenMinutes), F, S, t.ts)
      BY <1>1, <2>3, EntityTrimmed
    <2>. QED  BY <2>1, <2>2, <2>4, <2>5 DEF S, v
  <1>6. ASSUME NEW d \in Devices PROVE DeviceIs(x.device[d], F, RowsOf(F, "device", d), t.ts)
    <2>1. DeviceIs(s.device[d], F, RowsOf(F, "device", d), now)
      BY DEF StoreIs
    <2>2. x.device[d] = s.device[d] \/ x.device[d] = TrimmedAt(s.device[d], t.ts - Hour)
      BY <1>2, <1>3
    <2>. DEFINE S == RowsOf(F, "device", d)
                v == s.device[d]
    <2>3. S \in RowSets(F) /\ v \in Values["device"]
      BY <1>1, <1>3
    <2>. HIDE DEF S, v
    <2>4. DeviceIs(v, F, S, now) => DeviceIs(v, F, S, t.ts)
      BY <1>1, <2>3, EntityLater
    <2>5. DeviceIs(v, F, S, now) => DeviceIs(TrimmedAt(v, t.ts - Hour), F, S, t.ts)
      BY <1>1, <2>3, EntityTrimmed
    <2>. QED  BY <2>1, <2>2, <2>4, <2>5 DEF S, v
  <1>7. /\ \A d \in Devices, c \in Cards :
             x.pair[<<d, c>>] = FirstOf(F, RowsOf(F, "device", d) \cap RowsOf(F, "card", c))
        /\ \A e \in Cards \cup Devices \cup Merchants :
             Mirrors(x.marks[e], Naming(M, e), VisibleAt(M))
    BY <1>2 DEF StoreIs
  <1>8. StoreIs(x, F, M, t.ts)
    BY <1>4, <1>5, <1>6, <1>7 DEF StoreIs
  <1>. QED  BY <1>8 DEF x

LEMMA TrimmedTyped ==
    ASSUME NEW s, StoreTyped(s), NEW t \in Txns
    PROVE  StoreTyped(Trimmed(s, t))
  <1>1. t.ts \in Int
    BY TxnOf
  <1>. QED  BY <1>1, TwinsSelf, TwinsTrim

(* features_for answers as the whole history would.                        *)
LEMMA ReplayReadStep ==
    ASSUME ReplayInv, NEW t \in Txns, ReplayRead(t)
    PROVE  ReadFeatures(t) /\ ReplayInv'
  <1>1. /\ InOrder(t) /\ pending = Idle /\ asked' = t /\ features' = FeaturesFor(store, t)
        /\ store' = Trimmed(store, t) /\ pending' = [step |-> "update", txn |-> t]
        /\ log' = log /\ confirmed' = confirmed
    BY DEF ReplayRead, Read
  <1>2. FeaturesFor(store, t) = FeaturesOf(t)
    BY <1>1, ReadIsOfLog
  <1>3. ReadFeatures(t)
    BY <1>1, <1>2 DEF ReadFeatures
  <1>4. /\ StoreTyped(store) /\ log \in Seq(Txns) /\ Ascending(log) /\ confirmed \in Seq(Named)
        /\ StoreIs(store, log, confirmed, Horizon) /\ \A i \in DOMAIN log : log[i].ts <= Horizon
    BY DEF ReplayInv
  <1>5. t.ts \in Nat /\ Horizon \in Int /\ Horizon <= t.ts
    BY <1>1, TxnOf, NobodyAssumption DEF ReplayInv, Horizon, InOrder
  <1>6. Horizon' = t.ts /\ t # Nobody
    BY <1>1, NobodyAssumption DEF Horizon
  <1>7. StoreTyped(store') /\ StoreIs(store', log', confirmed', Horizon')
    BY <1>1, <1>4, <1>5, <1>6, TrimmedTyped, StoreTrimmed
  <1>8. \A i \in DOMAIN log : log[i].ts <= t.ts
    <2>1. \A i \in DOMAIN log : log[i].ts \in Nat
      BY <1>4, LogFacts
    <2>. QED  BY <1>4, <1>5, <2>1
  <1>9. /\ pending' \in {Idle} \cup [step : {"update", "mark"}, txn : Txns]
        /\ pending'.txn = asked'
    BY <1>1
  <1>10. ReplayInv'
    BY <1>1, <1>4, <1>6, <1>7, <1>8, <1>9 DEF ReplayInv
  <1>. QED  BY <1>3, <1>10

(* update folds the transaction into its entities.                         *)
LEMMA StoreUpdated ==
    ASSUME NEW s, StoreTyped(s), NEW F \in Seq(Txns), NEW M, NEW t \in Txns, NEW now,
           \A i \in DOMAIN F : F[i].ts <= t.ts, StoreIs(s, F, M, now)
    PROVE  StoreIs(Updated(s, t), Joined(F, t), M, now)
  <1>. DEFINE x == Updated(s, t)
              G == Joined(F, t)
              n == NextRow(F)
  <1>1. /\ t.card \in Cards /\ t.device \in Devices /\ t.merchant \in Merchants
        /\ \A kind, e : RowsOf(F, kind, e) \in RowSets(F)
    BY TxnOf, RowsAreRows
  <1>2. /\ x.card = [s.card EXCEPT ![t.card] = CardOf(@, t)]
        /\ x.merchant = [s.merchant EXCEPT ![t.merchant] = MerchantOf(@, t)]
        /\ x.device = [s.device EXCEPT ![t.device] = DeviceOf(@, t)]
        /\ x.pair = [s.pair EXCEPT ![<<t.device, t.card>>] = FirstSeen(@, t.ts)]
        /\ x.marks = s.marks
    BY UpdatedFields
  <1>. HIDE DEF x
  <1>3. /\ DOMAIN s.card = Cards /\ DOMAIN s.merchant = Merchants /\ DOMAIN s.device = Devices
        /\ DOMAIN s.pair = Devices \X Cards
    BY FieldsAre DEF StoreTyped, Shaped
  <1>4. ASSUME NEW c \in Cards PROVE CardIs(x.card[c], G, RowsOf(G, "card", c), now)
    <2>. DEFINE S == RowsOf(F, "card", c)
                v == s.card[c]
    <2>1. S \in RowSets(F) /\ CardIs(v, F, S, now)
      BY <1>1 DEF StoreIs
    <2>2. RowsOf(G, "card", c) = IF t.card = c THEN S \cup {n} ELSE S
      BY RowsJoined
    <2>3. x.card[c] = IF t.card = c THEN CardOf(v, t) ELSE v
      BY <1>1, <1>2, <1>3
    <2>. HIDE DEF S, v
    <2>4. CardIs(v, G, S, now) /\ CardIs(CardOf(v, t), G, S \cup {n}, now)
      BY <2>1, CardJoined
    <2>. QED  BY <2>2, <2>3, <2>4
  <1>5. ASSUME NEW m \in Merchants
        PROVE  MerchantIs(x.merchant[m], G, RowsOf(G, "merchant", m), now)
    <2>. DEFINE S == RowsOf(F, "merchant", m)
                v == s.merchant[m]
    <2>1. S \in RowSets(F) /\ MerchantIs(v, F, S, now)
      BY <1>1 DEF StoreIs
    <2>2. RowsOf(G, "merchant", m) = IF t.merchant = m THEN S \cup {n} ELSE S
      BY RowsJoined
    <2>3. x.merchant[m] = IF t.merchant = m THEN MerchantOf(v, t) ELSE v
      BY <1>1, <1>2, <1>3
    <2>. HIDE DEF S, v
    <2>4. MerchantIs(v, G, S, now) /\ MerchantIs(MerchantOf(v, t), G, S \cup {n}, now)
      BY <2>1, MerchantJoined
    <2>. QED  BY <2>2, <2>3, <2>4
  <1>6. ASSUME NEW d \in Devices PROVE DeviceIs(x.device[d], G, RowsOf(G, "device", d), now)
    <2>. DEFINE S == RowsOf(F, "device", d)
                v == s.device[d]
    <2>1. S \in RowSets(F) /\ DeviceIs(v, F, S, now)
      BY <1>1 DEF StoreIs
    <2>2. RowsOf(G, "device", d) = IF t.device = d THEN S \cup {n} ELSE S
      BY RowsJoined
    <2>3. x.device[d] = IF t.device = d THEN DeviceOf(v, t) ELSE v
      BY <1>1, <1>2, <1>3
    <2>. HIDE DEF S, v
    <2>4. DeviceIs(v, G, S, now) /\ DeviceIs(DeviceOf(v, t), G, S \cup {n}, now)
      BY <2>1, DeviceJoined
    <2>. QED  BY <2>2, <2>3, <2>4
  <1>7. ASSUME NEW d \in Devices, NEW c \in Cards
        PROVE  x.pair[<<d, c>>] = FirstOf(G, RowsOf(G, "device", d) \cap RowsOf(G, "card", c))
    <2>. DEFINE S == RowsOf(F, "device", d)
                C == RowsOf(F, "card", c)
                P == S \cap C
    <2>1. S \in RowSets(F) /\ C \in RowSets(F) /\ P \in RowSets(F)
      BY <1>1 DEF RowSets
    <2>2. s.pair[<<d, c>>] = FirstOf(F, P)
      BY DEF StoreIs
    <2>3. /\ RowsOf(G, "device", d) = IF t.device = d THEN S \cup {n} ELSE S
          /\ RowsOf(G, "card", c) = IF t.card = c THEN C \cup {n} ELSE C
      BY RowsJoined
    <2>4. x.pair[<<d, c>>]
              = IF t.device = d /\ t.card = c THEN FirstSeen(FirstOf(F, P), t.ts) ELSE FirstOf(F, P)
      <3>1. <<d, c>> \in DOMAIN s.pair /\ (<<d, c>> = <<t.device, t.card>> <=> t.device = d /\ t.card = c)
        BY <1>3
      <3>2. x.pair[<<d, c>>] = IF <<d, c>> = <<t.device, t.card>> THEN FirstSeen(s.pair[<<d, c>>], t.ts)
                               ELSE s.pair[<<d, c>>]
        BY <1>2, <3>1
      <3>. HIDE DEF P
      <3>. QED  BY <2>2, <3>1, <3>2
    <2>. HIDE DEF S, C
    <2>5. n \notin S /\ n \notin C
      BY <2>1, JoinFacts
    <2>6. RowsOf(G, "device", d) \cap RowsOf(G, "card", c)
              = IF t.device = d /\ t.card = c THEN P \cup {n} ELSE P
      BY <2>3, <2>5
    <2>. HIDE DEF P
    <2>7. FirstOf(G, P) = FirstOf(F, P) /\ FirstOf(G, P \cup {n}) = FirstSeen(FirstOf(F, P), t.ts)
      BY <2>1, FirstJoined
    <2>. QED  BY <2>4, <2>6, <2>7
  <1>8. \A e \in Cards \cup Devices \cup Merchants :
            Mirrors(x.marks[e], Naming(M, e), VisibleAt(M))
    BY <1>2 DEF StoreIs
  <1>9. StoreIs(x, G, M, now)
    BY <1>4, <1>5, <1>6, <1>7, <1>8 DEF StoreIs
  <1>. QED  BY <1>9 DEF x

LEMMA ReplayUpdateStep ==
    ASSUME ReplayInv, NEW fraud, ReplayUpdate(fraud)
    PROVE  FoldIn /\ ReplayInv'
  <1>. DEFINE t == pending.txn
  <1>1. /\ pending.step = "update" /\ store' = Updated(store, t) /\ log' = Append(log, t)
        /\ pending' = IF fraud THEN [step |-> "mark", txn |-> t] ELSE Idle
        /\ confirmed' = confirmed /\ asked' = asked /\ features' = features
    BY DEF ReplayUpdate
  <1>2. pending # Idle
    BY <1>1 DEF Idle
  <1>3. t \in Txns /\ t = asked /\ asked # Nobody
    BY <1>2, NobodyAssumption DEF ReplayInv
  <1>4. /\ StoreTyped(store) /\ log \in Seq(Txns) /\ Ascending(log) /\ confirmed \in Seq(Named)
        /\ StoreIs(store, log, confirmed, Horizon) /\ \A i \in DOMAIN log : log[i].ts <= Horizon
    BY DEF ReplayInv
  <1>5. Horizon = t.ts /\ Horizon' = t.ts
    BY <1>1, <1>3 DEF Horizon
  <1>6. FoldIn
    BY <1>1, <1>3 DEF FoldIn
  <1>7. pending' \in {Idle} \cup [step : {"update", "mark"}, txn : Txns]
        /\ (pending' # Idle => pending'.txn = asked')
    BY <1>1, <1>3
  <1>. HIDE DEF t
  <1>8. log' = Joined(log, t)
    BY <1>1 DEF Joined
  <1>9. StoreTyped(store') /\ StoreIs(store', log', confirmed', Horizon')
    BY <1>1, <1>3, <1>4, <1>5, <1>8, UpdatedTyped, StoreUpdated
  <1>. DEFINE n == NextRow(log)
              G == Joined(log, t)
  <1>10. /\ G \in Seq(Txns) /\ DOMAIN G = DOMAIN log \cup {n} /\ G[n] = t /\ n \in Nat
         /\ \A i \in DOMAIN log : G[i] = log[i] /\ i < n
    BY <1>3, <1>4, LogJoined
  <1>11. t.ts \in Nat /\ DOMAIN log \in SUBSET Nat
    BY <1>3, <1>4, TxnOf, LogFacts
  <1>. HIDE DEF n, G
  <1>12. \A i \in DOMAIN G : G[i].ts <= t.ts
    BY <1>4, <1>5, <1>10, <1>11
  <1>13. Ascending(G)
    <2>. SUFFICES ASSUME NEW i \in DOMAIN G, NEW j \in DOMAIN G, i <= j
                  PROVE  G[i].ts <= G[j].ts
      BY DEF Ascending
    <2>1. CASE j = n
      <3>1. G[j] = t
        BY <1>10, <2>1
      <3>. QED  BY <1>12, <3>1
    <2>2. CASE j \in DOMAIN log
      <3>1. i \in DOMAIN log
        BY <1>10, <1>11, <2>2
      <3>. QED  BY <1>4, <1>10, <2>2, <3>1 DEF Ascending
    <2>. QED  BY <1>10, <2>1, <2>2
  <1>14. log' \in Seq(Txns) /\ Ascending(log') /\ \A i \in DOMAIN log' : log'[i].ts <= Horizon'
    BY <1>5, <1>8, <1>10, <1>12, <1>13 DEF G
  <1>15. ReplayInv'
    BY <1>1, <1>3, <1>4, <1>7, <1>9, <1>14 DEF ReplayInv
  <1>. QED  BY <1>6, <1>15

(* mark_confirmed_fraud adds the mark to the three entities it names.      *)
LEMMA StoreMarked ==
    ASSUME NEW s, StoreTyped(s), NEW F, NEW M \in Seq(Named), NEW m \in Named, NEW now,
           StoreIs(s, F, M, now)
    PROVE  StoreIs(Marked(s, m), F, Append(M, m), now)
  <1>. DEFINE x == Marked(s, m)
              N == Append(M, m)
              n == Len(M) + 1
  <1>1. /\ x.card = s.card /\ x.merchant = s.merchant /\ x.device = s.device /\ x.pair = s.pair
        /\ x.marks = [e \in DOMAIN s.marks |->
               IF e \in {m.card, m.device, m.merchant} THEN Append(s.marks[e], m.visible)
               ELSE s.marks[e]]
        /\ DOMAIN s.marks = Cards \cup Devices \cup Merchants
    <2>1. x.marks = [e \in DOMAIN s.marks |->
              IF e \in {m.card, m.device, m.merchant} THEN Append(s.marks[e], m.visible)
              ELSE s.marks[e]]
      BY MarkedFields
    <2>2. \A f \in Fields \ {"marks"} : x[f] = s[f]
      BY MarkedFields
    <2>3. DOMAIN s.marks = Cards \cup Devices \cup Merchants
      BY FieldsAre DEF StoreTyped, Shaped
    <2>. HIDE DEF x
    <2>. QED  BY <2>1, <2>2, <2>3, FieldsAre
  <1>. HIDE DEF x
  <1>2. /\ n \in Nat /\ n \notin DOMAIN M /\ DOMAIN N = DOMAIN M \cup {n}
        /\ N[n] = m /\ \A i \in DOMAIN M : N[i] = M[i]
    <2>1. /\ N \in Seq(Named) /\ Len(M) \in Nat /\ DOMAIN M = 1 .. Len(M)
          /\ DOMAIN N = 1 .. Len(M) + 1 /\ N[Len(M) + 1] = m
          /\ \A i \in 1 .. Len(M) : N[i] = M[i]
      OBVIOUS
    <2>. QED  BY <2>1
  <1>. HIDE DEF N, n
  <1>3. ASSUME NEW e \in Cards \cup Devices \cup Merchants
        PROVE  Mirrors(x.marks[e], Naming(N, e), VisibleAt(N))
    <2>1. Mirrors(s.marks[e], Naming(M, e), VisibleAt(M))
      BY DEF StoreIs
    <2>2. /\ Naming(M, e) \in SUBSET DOMAIN M
          /\ Naming(N, e) = IF e \in {m.card, m.device, m.merchant} THEN Naming(M, e) \cup {n}
                            ELSE Naming(M, e)
      BY <1>2 DEF Naming
    <2>3. /\ \A i \in DOMAIN M : VisibleAt(N)[i] = VisibleAt(M)[i]
          /\ VisibleAt(N)[n] = m.visible
      BY <1>2 DEF VisibleAt
    <2>4. Mirrors(s.marks[e], Naming(M, e), VisibleAt(N))
      BY <2>1, <2>2, <2>3, MirrorAgrees
    <2>5. Mirrors(Append(s.marks[e], VisibleAt(N)[n]), Naming(M, e) \cup {n}, VisibleAt(N))
      BY <1>2, <2>2, <2>4, MirrorAppend
    <2>. QED  BY <1>1, <2>2, <2>3, <2>4, <2>5
  <1>4. /\ \A c \in Cards : CardIs(x.card[c], F, RowsOf(F, "card", c), now)
        /\ \A v \in Merchants : MerchantIs(x.merchant[v], F, RowsOf(F, "merchant", v), now)
        /\ \A d \in Devices : DeviceIs(x.device[d], F, RowsOf(F, "device", d), now)
    BY <1>1 DEF StoreIs
  <1>5. \A d \in Devices, c \in Cards :
            x.pair[<<d, c>>] = FirstOf(F, RowsOf(F, "device", d) \cap RowsOf(F, "card", c))
    <2>1. \A d \in Devices, c \in Cards :
              s.pair[<<d, c>>] = FirstOf(F, RowsOf(F, "device", d) \cap RowsOf(F, "card", c))
      BY DEF StoreIs
    <2>2. x.pair = s.pair
      BY <1>1
    <2>. QED  BY <2>1, <2>2
  <1>6. StoreIs(x, F, N, now)
    BY <1>3, <1>4, <1>5 DEF StoreIs
  <1>. QED  BY <1>6 DEF x, N

LEMMA ReplayMarkStep ==
    ASSUME ReplayInv, ReplayMark
    PROVE  (\E m \in Confirmations : Confirm(m)) /\ ReplayInv'
  <1>. DEFINE t == pending.txn
              m == [visible |-> t.ts + LabelLatency, card |-> t.card,
                    device |-> t.device, merchant |-> t.merchant]
  <1>1. /\ pending.step = "mark" /\ store' = Marked(store, m)
        /\ confirmed' = Append(confirmed, m) /\ pending' = Idle
        /\ log' = log /\ asked' = asked /\ features' = features
    BY DEF ReplayMark
  <1>2. pending # Idle
    BY <1>1 DEF Idle
  <1>3. t \in Txns
    BY <1>2 DEF ReplayInv
  <1>4. /\ t.card \in Cards /\ t.device \in Devices /\ t.merchant \in Merchants
        /\ t.ts + LabelLatency \in 0 .. MaxTime + LabelLatency
    <2>1. t.ts \in 0 .. MaxTime
      BY <1>3, TxnOf DEF Times
    <2>. HIDE DEF t
    <2>2. t.ts + LabelLatency \in 0 .. MaxTime + LabelLatency
      BY <2>1, TimeAssumption
    <2>. QED  BY <1>3, <2>2, TxnOf
  <1>5. m \in Named /\ m \in Confirmations /\ m.visible \in Nat
    <2>. HIDE DEF t
    <2>1. m \in Named
      BY <1>4 DEF Named
    <2>2. m \in Confirmations
      BY <1>4 DEF Confirmations
    <2>3. m.visible \in Nat
      BY <1>4
    <2>. QED  BY <2>1, <2>2, <2>3
  <1>. HIDE DEF m, t
  <1>6. Confirm(m)
    BY <1>1 DEF Confirm
  <1>7. /\ StoreTyped(store) /\ log \in Seq(Txns) /\ Ascending(log) /\ confirmed \in Seq(Named)
        /\ StoreIs(store, log, confirmed, Horizon) /\ \A i \in DOMAIN log : log[i].ts <= Horizon
    BY DEF ReplayInv
  <1>8. Horizon' = Horizon
    BY <1>1 DEF Horizon
  <1>9. confirmed' \in Seq(Named)
    BY <1>1, <1>5, <1>7
  <1>10. StoreTyped(store') /\ StoreIs(store', log', confirmed', Horizon')
    BY <1>1, <1>5, <1>7, <1>8, MarkedTyped, StoreMarked
  <1>11. ReplayInv'
    BY <1>1, <1>7, <1>8, <1>9, <1>10 DEF ReplayInv
  <1>. QED  BY <1>5, <1>6, <1>11

(* What is left: nothing of the replay moves, or a row is given up.        *)
LEMMA ReplayStays ==
    ASSUME ReplayInv, UNCHANGED <<store, logVars>>, pending' \in {pending, Idle}
    PROVE  ReplayInv'
  <1>1. store' = store /\ log' = log /\ confirmed' = confirmed /\ asked' = asked
    BY DEF logVars
  <1>2. Horizon' = Horizon
    BY <1>1 DEF Horizon
  <1>3. /\ pending' \in {Idle} \cup [step : {"update", "mark"}, txn : Txns]
        /\ pending' # Idle => pending'.txn = asked'
    BY <1>1 DEF ReplayInv
  <1>. QED  BY <1>1, <1>2, <1>3 DEF ReplayInv

-----------------------------------------------------------------------------
(* The rows planned for an incident are transactions.                      *)
RowsFit(rows) == \A r \in rows : r.txn \in Txns

LEMMA RowFits ==
    ASSUME NEW part, NEW k, NEW card \in Cards, NEW device \in Devices, NEW merchant \in Merchants,
           NEW ts \in Times, NEW amount \in Amounts, NEW fraud
    PROVE  Row(part, k, card, device, merchant, ts, amount, fraud).txn \in Txns
  BY DEF Row, Txns

LEMMA AmountsChosen == Tiny \in Amounts /\ Large \in Amounts
  <1>1. PICK most \in Amounts : \A amount \in Amounts : amount <= most
    BY FrameAssumption
  <1>2. Amounts \in SUBSET Nat /\ Amounts # {}
    BY AmountAssumption, <1>1
  <1>3. Min(Amounts) \in Amounts
    BY <1>2, MinIsLeast
  <1>4. Max(Amounts) \in Amounts
    BY <1>1 DEF Max
  <1>. QED  BY <1>3, <1>4 DEF Tiny, Large

LEMMA DaysFit ==
    ASSUME NEW n \in Nat, NEW k \in 0 .. n
    PROVE  k * Day \in Nat /\ n * Day \in Nat /\ k * Day <= n * Day
  <1>1. Day \in Nat /\ n - k \in Nat /\ k \in Nat
    BY TimeAssumption
  <1>2. k * Day \in Nat /\ n * Day \in Nat /\ (n - k) * Day \in Nat
    BY <1>1
  <1>3. n * Day = k * Day + (n - k) * Day
    BY <1>1
  <1>. QED  BY <1>2, <1>3

LEMMA TimesFit ==
    ASSUME NEW ts \in Starts
    PROVE  /\ \A o \in BurstOffsets \cup ProbeOffsets \cup LaterOffsets : ts + o \in Times
           /\ \A k \in Burst : ts + k * Day \in Times
           /\ \A k \in 0 .. WarmDays, hour \in Daytime : ts + k * Day + hour \in Times
           /\ \A k \in 0 .. WarmDays - 1, hour \in Daytime : WarmStart(ts) + k * Day + hour \in Times
  <1>1. /\ ts \in Nat /\ MaxTime \in Nat /\ WarmDays \in Nat /\ BurstRows \in Nat /\ Day \in Nat
        /\ \A hour \in Daytime : hour \in Nat
        /\ \A o \in BurstOffsets \cup ProbeOffsets \cup LaterOffsets : o \in Nat
    BY IncidentAssumption, TimeAssumption
  <1>2. /\ WarmDays * Day <= ts
        /\ \A o \in BurstOffsets \cup ProbeOffsets \cup LaterOffsets : ts + o <= MaxTime
        /\ \A hour \in Daytime : ts + WarmDays * Day + hour <= MaxTime
        /\ ts + BurstRows * Day <= MaxTime
    BY FrameAssumption
  <1>3. \A o \in BurstOffsets \cup ProbeOffsets \cup LaterOffsets : ts + o \in Times
    BY <1>1, <1>2 DEF Times
  <1>4. ASSUME NEW k \in Burst PROVE ts + k * Day \in Times
    <2>1. k \in 0 .. BurstRows
      BY <1>1 DEF Burst
    <2>2. k * Day \in Nat /\ BurstRows * Day \in Nat /\ k * Day <= BurstRows * Day
      BY <1>1, <2>1, DaysFit
    <2>. QED  BY <1>1, <1>2, <2>2 DEF Times
  <1>5. ASSUME NEW k \in 0 .. WarmDays, NEW hour \in Daytime
        PROVE  /\ ts + k * Day + hour \in Times
               /\ WarmStart(ts) + k * Day + hour \in Times
    <2>1. k * Day \in Nat /\ WarmDays * Day \in Nat /\ k * Day <= WarmDays * Day
      BY <1>1, DaysFit
    <2>2. ts + WarmDays * Day + hour <= MaxTime /\ hour \in Nat
      BY <1>1, <1>2
    <2>. QED  BY <1>1, <1>2, <2>1, <2>2 DEF Times, WarmStart
  <1>6. 0 .. WarmDays - 1 \in SUBSET (0 .. WarmDays)
    BY <1>1
  <1>. QED  BY <1>3, <1>4, <1>5, <1>6

LEMMA OnDeviceFits ==
    ASSUME NEW ts, NEW card \in Cards, NEW d \in Devices, NEW offsets, NEW p \in Plans(offsets),
           \A o \in offsets : ts + o \in Times
    PROVE  RowsFit(OnDevice(card, d, p, ts))
  <1>1. \A k \in Burst : p[k][1] \in Merchants /\ ts + p[k][2] \in Times
    BY DEF Plans
  <1>. QED  BY <1>1, RowFits, AmountsChosen DEF OnDevice, RowsFit

(* What an incident of each kind is, for the values drawn.                 *)
BurstOf(variant, card, ts, d, p) == Incident(variant, ts, OnDevice(card, d, p, ts), {d})
LowSlowOf(card, ts, d, p) == Incident("low_slow_profile", ts, OnDevice(card, d, p, ts), {})

WarmRow(card, ts, d, m, hour, k) == Row("warm-up", k, card, d, m, ts + k * Day + hour[k], Tiny, TRUE)
CashOutRow(card, ts, d, m, hour) ==
    Row("cash-out", WarmDays, card, d, m, ts + CashOutDay * Day + hour[WarmDays], Large, TRUE)
SlowBurnOf(card, ts, d, m, hour) ==
    Incident("ato_slow_burn", ts,
        {WarmRow(card, ts, d, m, hour, k) : k \in 0 .. WarmDays - 1}
        \cup {CashOutRow(card, ts, d, m, hour)}, {d})

ProbeRow(ts, card, d, m, at, k) == Row("burst", k, card[k], d, m, ts + at[k], Tiny, TRUE)
CardTestOf(ts, card, d, m, at) ==
    Incident("card_testing", ts, {ProbeRow(ts, card, d, m, at, k) : k \in Burst}, {d})

SpreadRow(ts, card, d, p, amount, k) ==
    Row("burst", k, card[k], d[k], p[k][1], ts + p[k][2], amount, TRUE)
SpreadOf(variant, ts, card, d, p, amount) ==
    Incident(variant, ts, {SpreadRow(ts, card, d, p, amount, k) : k \in Burst}, Range(d))

GenuineRow(card, d, m, ts, hour, k) ==
    Row("warm-up", k, card, d, m, WarmStart(ts) + k * Day + hour[k], Tiny, FALSE)
WarmUpOf(card, d, m, ts, days, hour) == {GenuineRow(card, d, m, ts, hour, k) : k \in days}

TurnedRow(ts, d, m, victim, at, k) == Row("burst", k, victim[k], d, m, ts + at[k], Large, TRUE)
SleeperOf(ts, d, m, warm, victim, at) ==
    Incident("sleeper_device", ts,
        warm \cup {TurnedRow(ts, d, m, victim, at, k) : k \in Burst}, {d})

BustOutOf(card, ts, d, warm, p) ==
    Incident("bust_out_synthetic", ts, warm \cup OnDevice(card, d, p, ts), {d})

DeviceRow(card, d, p, ts, k) == Row("burst", k, card, d, p[k][1], ts + p[k][2], Large, TRUE)

LEMMA RowFields ==
    ASSUME NEW part, NEW k, NEW card, NEW device, NEW merchant, NEW ts, NEW amount, NEW fraud
    PROVE  LET r == Row(part, k, card, device, merchant, ts, amount, fraud)
           IN  /\ r.part = part /\ r.k = k /\ r.fraud = fraud
               /\ r.txn.card = card /\ r.txn.device = device /\ r.txn.merchant = merchant
               /\ r.txn.ts = ts /\ r.txn.amount = amount
  BY DEF Row

LEMMA OnDeviceRows ==
    ASSUME NEW card, NEW d, NEW p, NEW ts
    PROVE  OnDevice(card, d, p, ts) = {DeviceRow(card, d, p, ts, k) : k \in Burst}
  BY DEF OnDevice, DeviceRow

LEMMA IncidentFields ==
    ASSUME NEW variant, NEW ts, NEW rows, NEW own
    PROVE  LET x == Incident(variant, ts, rows, own)
           IN  x.variant = variant /\ x.ts = ts /\ x.rows = rows /\ x.own = own
  BY DEF Incident

LEMMA OnDeviceForm ==
    ASSUME NEW card, NEW ts,
           NEW x \in CnpBurst(card, ts) \cup CnpEvasive(card, ts) \cup AtoBurst(card, ts)
                         \cup LowSlowProfile(card, ts)
    PROVE  \E d \in Devices :
             \/ \E v \in {"cnp_burst", "ato_burst"}, p \in Plans(BurstOffsets) :
                  x = BurstOf(v, card, ts, d, p)
             \/ \E p \in Plans(LaterOffsets) : x = BurstOf("cnp_evasive", card, ts, d, p)
             \/ \E p \in Plans({k * Day : k \in Burst}) :
                  x = LowSlowOf(card, ts, d, p)
  <1>1. CASE x \in CnpBurst(card, ts)
    <2>1. CnpBurst(card, ts) = {BurstOf("cnp_burst", card, ts, d, p) :
                                    d \in Devices, p \in Plans(BurstOffsets)}
      BY DEF CnpBurst, BurstOf
    <2>2. \E d \in Devices, p \in Plans(BurstOffsets) : x = BurstOf("cnp_burst", card, ts, d, p)
      BY <1>1, <2>1
    <2>. QED  BY <2>2
  <1>2. CASE x \in CnpEvasive(card, ts)
    <2>1. CnpEvasive(card, ts) = {BurstOf("cnp_evasive", card, ts, d, p) :
                                      d \in Devices, p \in Plans(LaterOffsets)}
      BY DEF CnpEvasive, BurstOf
    <2>2. \E d \in Devices, p \in Plans(LaterOffsets) : x = BurstOf("cnp_evasive", card, ts, d, p)
      BY <1>2, <2>1
    <2>. QED  BY <2>2
  <1>3. CASE x \in AtoBurst(card, ts)
    <2>1. AtoBurst(card, ts) = {BurstOf("ato_burst", card, ts, d, p) :
                                    d \in Devices, p \in Plans(BurstOffsets)}
      BY DEF AtoBurst, BurstOf
    <2>2. \E d \in Devices, p \in Plans(BurstOffsets) : x = BurstOf("ato_burst", card, ts, d, p)
      BY <1>3, <2>1
    <2>. QED  BY <2>2
  <1>4. CASE x \in LowSlowProfile(card, ts)
    <2>. DEFINE S == Plans({k * Day : k \in Burst})
    <2>1. LowSlowProfile(card, ts) = {LowSlowOf(card, ts, d, p) :
                                          d \in Devices, p \in S}
      BY DEF LowSlowProfile, LowSlowOf
    <2>. HIDE DEF S
    <2>2. \E d \in Devices, p \in S : x = LowSlowOf(card, ts, d, p)
      BY <1>4, <2>1
    <2>. QED  BY <2>2 DEF S
  <1>. QED  BY <1>1, <1>2, <1>3, <1>4

LEMMA SlowBurnForm ==
    ASSUME NEW card, NEW ts, NEW x \in AtoSlowBurn(card, ts)
    PROVE  \E d \in Devices, m \in Merchants, hour \in [0 .. WarmDays -> Daytime] :
              x = SlowBurnOf(card, ts, d, m, hour)
  <1>1. AtoSlowBurn(card, ts) =
          {SlowBurnOf(card, ts, d, m, hour) :
              d \in Devices, m \in Merchants, hour \in [0 .. WarmDays -> Daytime]}
    BY DEF AtoSlowBurn, SlowBurnOf, WarmRow, CashOutRow
  <1>. QED  BY <1>1

LEMMA CardTestForm ==
    ASSUME NEW ts, NEW x \in CardTestingBurst(ts)
    PROVE  \E card \in Injection(Burst, Cards), d \in Devices, m \in Merchants,
              at \in [Burst -> ProbeTimes] : x = CardTestOf(ts, card, d, m, at)
  <1>1. CardTestingBurst(ts) =
          {CardTestOf(ts, card, d, m, at) : card \in Injection(Burst, Cards), d \in Devices,
                                            m \in Merchants, at \in [Burst -> ProbeTimes]}
    BY DEF CardTestingBurst, CardTestOf, ProbeRow
  <1>. QED  BY <1>1

LEMMA SpreadForm ==
    ASSUME NEW ts, NEW x \in CardTestingEvasive(ts) \cup LabelLatencyRing(ts)
    PROVE  \E v \in {"card_testing_evasive", "label_latency_ring"} :
             \E card \in [Burst -> Cards], d \in [Burst -> Devices],
                p \in Plans(BurstOffsets), amount \in Amounts :
               x = SpreadOf(v, ts, card, d, p, amount)
  <1>1. CASE x \in CardTestingEvasive(ts)
    <2>1. CardTestingEvasive(ts) =
            {SpreadOf("card_testing_evasive", ts, card, d, p, Tiny) :
                card \in Injection(Burst, Cards), d \in [Burst -> Devices], p \in Plans(BurstOffsets)}
      BY DEF CardTestingEvasive, SpreadOf, SpreadRow
    <2>2. \E card \in Injection(Burst, Cards), d \in [Burst -> Devices], p \in Plans(BurstOffsets) :
            x = SpreadOf("card_testing_evasive", ts, card, d, p, Tiny)
      BY <1>1, <2>1
    <2>3. Injection(Burst, Cards) \in SUBSET [Burst -> Cards]
      BY DEF Injection
    <2>. QED  BY <2>2, <2>3, AmountsChosen
  <1>2. CASE x \in LabelLatencyRing(ts)
    <2>1. LabelLatencyRing(ts) =
            {SpreadOf("label_latency_ring", ts, card, d, p, Large) :
                card \in [Burst -> Cards], d \in [Burst -> Devices], p \in Plans(BurstOffsets)}
      BY DEF LabelLatencyRing, SpreadOf, SpreadRow
    <2>2. \E card \in [Burst -> Cards], d \in [Burst -> Devices], p \in Plans(BurstOffsets) :
            x = SpreadOf("label_latency_ring", ts, card, d, p, Large)
      BY <1>2, <2>1
    <2>. QED  BY <2>2, AmountsChosen
  <1>. QED  BY <1>1, <1>2

LEMMA WarmUpForm ==
    ASSUME NEW ts, NEW card, NEW d, NEW m, NEW warm \in WarmUp(card, d, m, ts)
    PROVE  \E days \in SUBSET (0 .. WarmDays - 1), hour \in [0 .. WarmDays - 1 -> Daytime] :
             warm = WarmUpOf(card, d, m, ts, days, hour)
  <1>1. WarmUp(card, d, m, ts) =
          {WarmUpOf(card, d, m, ts, days, hour) :
              days \in SUBSET (0 .. WarmDays - 1), hour \in [0 .. WarmDays - 1 -> Daytime]}
    BY DEF WarmUp, WarmUpOf, GenuineRow
  <1>. QED  BY <1>1

LEMMA SleeperForm ==
    ASSUME NEW card, NEW ts, NEW x \in SleeperDevice(card, ts)
    PROVE  \E d \in Devices, m \in Merchants : \E warm \in WarmUp(card, d, m, ts) :
             \E victim \in [Burst -> Cards] : \E at \in [Burst -> LaterOffsets] :
               x = SleeperOf(ts, d, m, warm, victim, at)
  <1>1. SleeperDevice(card, ts) =
          UNION {{SleeperOf(ts, d, m, warm, victim, at) : warm \in WarmUp(card, d, m, ts),
                      victim \in [Burst -> Cards], at \in [Burst -> LaterOffsets]} :
                 d \in Devices, m \in Merchants}
    BY DEF SleeperDevice, SleeperOf, TurnedRow
  <1>. QED  BY <1>1

LEMMA BustOutForm ==
    ASSUME NEW card, NEW ts, NEW x \in BustOutSynthetic(card, ts)
    PROVE  \E d \in Devices, m \in Merchants : \E warm \in WarmUp(card, d, m, ts) :
             \E p \in Plans(BurstOffsets) : x = BustOutOf(card, ts, d, warm, p)
  <1>1. BustOutSynthetic(card, ts) =
          UNION {{BustOutOf(card, ts, d, warm, p) : warm \in WarmUp(card, d, m, ts), p \in Plans(BurstOffsets)} :
                 d \in Devices, m \in Merchants}
    BY DEF BustOutSynthetic, BustOutOf
  <1>. QED  BY <1>1

LEMMA KindIs ==
    ASSUME NEW ts, NEW x \in IncidentsAt(ts)
    PROVE  /\ x.variant = "card_testing" => x \in CardTestingBurst(ts)
           /\ x.variant \in {"card_testing_evasive", "label_latency_ring"} =>
                  x \in CardTestingEvasive(ts) \cup LabelLatencyRing(ts)
           /\ x.variant \in {"cnp_burst", "ato_burst"} =>
                  \E c \in Cards : x \in CnpBurst(c, ts) \cup CnpEvasive(c, ts) \cup AtoBurst(c, ts)
                                             \cup LowSlowProfile(c, ts)
           /\ x.variant = "ato_slow_burn" => \E c \in Cards : x \in AtoSlowBurn(c, ts)
           /\ x.variant = "sleeper_device" => \E c \in Cards : x \in SleeperDevice(c, ts)
           /\ x.variant = "bust_out_synthetic" => \E c \in Cards : x \in BustOutSynthetic(c, ts)
  <1>0. /\ \A v, c, d, p : BurstOf(v, c, ts, d, p).variant = v
        /\ \A c, d, p : LowSlowOf(c, ts, d, p).variant = "low_slow_profile"
        /\ \A c, d, m, hour : SlowBurnOf(c, ts, d, m, hour).variant = "ato_slow_burn"
        /\ \A card, d, m, at : CardTestOf(ts, card, d, m, at).variant = "card_testing"
        /\ \A v, card, d, p, a : SpreadOf(v, ts, card, d, p, a).variant = v
        /\ \A d, m, warm, victim, at : SleeperOf(ts, d, m, warm, victim, at).variant = "sleeper_device"
        /\ \A c, d, warm, p : BustOutOf(c, ts, d, warm, p).variant = "bust_out_synthetic"
    BY IncidentFields DEF BurstOf, LowSlowOf, SlowBurnOf, CardTestOf, SpreadOf, SleeperOf, BustOutOf
  <1>1. ASSUME NEW c \in Cards,
               x \in CnpBurst(c, ts) \cup CnpEvasive(c, ts) \cup AtoBurst(c, ts)
                         \cup LowSlowProfile(c, ts)
        PROVE  x.variant \in {"cnp_burst", "cnp_evasive", "ato_burst", "low_slow_profile"}
    <2>. DEFINE S == Plans({k * Day : k \in Burst})
    <2>1. \E d \in Devices :
            \/ \E v \in {"cnp_burst", "ato_burst"}, p \in Plans(BurstOffsets) :
                 x = BurstOf(v, c, ts, d, p)
            \/ \E p \in Plans(LaterOffsets) : x = BurstOf("cnp_evasive", c, ts, d, p)
            \/ \E p \in S : x = LowSlowOf(c, ts, d, p)
      BY <1>1, OnDeviceForm
    <2>. HIDE DEF S
    <2>. QED  BY <1>0, <2>1
  <1>2. ASSUME NEW c \in Cards, x \in AtoSlowBurn(c, ts) PROVE x.variant = "ato_slow_burn"
    BY <1>0, <1>2, SlowBurnForm
  <1>3. ASSUME NEW c \in Cards, x \in SleeperDevice(c, ts) PROVE x.variant = "sleeper_device"
    BY <1>0, <1>3, SleeperForm
  <1>4. ASSUME NEW c \in Cards, x \in BustOutSynthetic(c, ts) PROVE x.variant = "bust_out_synthetic"
    BY <1>0, <1>4, BustOutForm
  <1>5. ASSUME x \in CardTestingBurst(ts) PROVE x.variant = "card_testing"
    BY <1>0, <1>5, CardTestForm
  <1>6. ASSUME x \in CardTestingEvasive(ts) \cup LabelLatencyRing(ts)
        PROVE  x.variant \in {"card_testing_evasive", "label_latency_ring"}
    BY <1>0, <1>6, SpreadForm
  <1>7. x \in CardTestingBurst(ts) \/ x \in CardTestingEvasive(ts) \cup LabelLatencyRing(ts)
        \/ \E c \in Cards :
             \/ x \in CnpBurst(c, ts) \cup CnpEvasive(c, ts) \cup AtoBurst(c, ts)
                          \cup LowSlowProfile(c, ts)
             \/ x \in AtoSlowBurn(c, ts)
             \/ x \in SleeperDevice(c, ts)
             \/ x \in BustOutSynthetic(c, ts)
    BY DEF IncidentsAt
  <1>. QED  BY <1>1, <1>2, <1>3, <1>4, <1>5, <1>6, <1>7

LEMMA WarmUpFits ==
    ASSUME NEW ts \in Starts, NEW card \in Cards, NEW d \in Devices, NEW m \in Merchants,
           NEW warm \in WarmUp(card, d, m, ts)
    PROVE  RowsFit(warm)
  <1>1. PICK days \in SUBSET (0 .. WarmDays - 1), hour \in [0 .. WarmDays - 1 -> Daytime] :
            warm = WarmUpOf(card, d, m, ts, days, hour)
    BY WarmUpForm
  <1>2. \A k \in days : WarmStart(ts) + k * Day + hour[k] \in Times
    BY TimesFit
  <1>. QED  BY <1>1, <1>2, RowFits, AmountsChosen DEF RowsFit, WarmUpOf, GenuineRow

LEMMA PlannedFits ==
    ASSUME NEW ts \in Starts, NEW planned \in IncidentsAt(ts)
    PROVE  RowsFit(planned.rows)
  <1>1. \A R, S : RowsFit(R) /\ RowsFit(S) => RowsFit(R \cup S)
    BY DEF RowsFit
  <1>2. /\ \A o \in BurstOffsets \cup ProbeOffsets \cup LaterOffsets : ts + o \in Times
        /\ \A k \in Burst : ts + k * Day \in Times
        /\ \A k \in 0 .. WarmDays, hour \in Daytime : ts + k * Day + hour \in Times
    BY TimesFit
  <1>3. ASSUME NEW card \in Cards, NEW x \in CnpBurst(card, ts) \cup CnpEvasive(card, ts)
                                  \cup AtoBurst(card, ts) \cup LowSlowProfile(card, ts)
        PROVE  RowsFit(x.rows)
    <2>. DEFINE S == {k * Day : k \in Burst}
    <2>1. \A o \in S : ts + o \in Times
      BY <1>2
    <2>. HIDE DEF S
    <2>2. /\ \A d \in Devices, p \in Plans(BurstOffsets) : RowsFit(OnDevice(card, d, p, ts))
          /\ \A d \in Devices, p \in Plans(LaterOffsets) : RowsFit(OnDevice(card, d, p, ts))
          /\ \A d \in Devices, p \in Plans(S) : RowsFit(OnDevice(card, d, p, ts))
      BY <1>2, <2>1, OnDeviceFits
    <2>3. \E d \in Devices :
            \/ \E v \in {"cnp_burst", "ato_burst"}, p \in Plans(BurstOffsets) :
                 x = BurstOf(v, card, ts, d, p)
            \/ \E p \in Plans(LaterOffsets) : x = BurstOf("cnp_evasive", card, ts, d, p)
            \/ \E p \in Plans(S) : x = LowSlowOf(card, ts, d, p)
      BY <1>3, OnDeviceForm DEF S
    <2>4. /\ \A v, d, p : BurstOf(v, card, ts, d, p).rows = OnDevice(card, d, p, ts)
          /\ \A d, p : LowSlowOf(card, ts, d, p).rows = OnDevice(card, d, p, ts)
      BY IncidentFields DEF BurstOf, LowSlowOf
    <2>. QED  BY <2>2, <2>3, <2>4
  <1>4. ASSUME NEW card \in Cards, NEW x \in AtoSlowBurn(card, ts) PROVE RowsFit(x.rows)
    <2>1. PICK d \in Devices, m \in Merchants, hour \in [0 .. WarmDays -> Daytime] :
              x = SlowBurnOf(card, ts, d, m, hour)
      BY <1>4, SlowBurnForm
    <2>2. WarmDays \in 0 .. WarmDays /\ 0 .. WarmDays - 1 \in SUBSET (0 .. WarmDays)
      BY IncidentAssumption
    <2>. DEFINE R == {WarmRow(card, ts, d, m, hour, k) : k \in 0 .. WarmDays - 1}
                S == {CashOutRow(card, ts, d, m, hour)}
    <2>3. RowsFit(R)
      <3>1. \A k \in 0 .. WarmDays - 1 : ts + k * Day + hour[k] \in Times
        BY <1>2, <2>2
      <3>. QED  BY <3>1, RowFits, AmountsChosen DEF RowsFit, WarmRow
    <2>4. RowsFit(S)
      <3>1. ts + CashOutDay * Day + hour[WarmDays] \in Times
        BY <1>2, <2>2 DEF CashOutDay
      <3>. QED  BY <3>1, RowFits, AmountsChosen DEF RowsFit, CashOutRow
    <2>5. x.rows = R \cup S
      BY <2>1, IncidentFields DEF SlowBurnOf
    <2>. HIDE DEF R, S
    <2>. QED  BY <1>1, <2>3, <2>4, <2>5
  <1>5. ASSUME NEW x \in CardTestingBurst(ts) PROVE RowsFit(x.rows)
    <2>1. PICK card \in Injection(Burst, Cards), d \in Devices, m \in Merchants,
               at \in [Burst -> ProbeTimes] : x = CardTestOf(ts, card, d, m, at)
      BY <1>5, CardTestForm
    <2>2. \A k \in Burst : card[k] \in Cards /\ ts + at[k] \in Times
      BY <1>2 DEF Injection, IsInjective, ProbeTimes
    <2>3. RowsFit({ProbeRow(ts, card, d, m, at, k) : k \in Burst})
      BY <2>2, RowFits, AmountsChosen DEF RowsFit, ProbeRow
    <2>4. x.rows = {ProbeRow(ts, card, d, m, at, k) : k \in Burst}
      BY <2>1, IncidentFields DEF CardTestOf
    <2>. QED  BY <2>3, <2>4
  <1>6. ASSUME NEW x \in CardTestingEvasive(ts) \cup LabelLatencyRing(ts) PROVE RowsFit(x.rows)
    <2>1. PICK v \in {"card_testing_evasive", "label_latency_ring"} :
            \E card \in [Burst -> Cards], d \in [Burst -> Devices],
               p \in Plans(BurstOffsets), amount \in Amounts : x = SpreadOf(v, ts, card, d, p, amount)
      BY <1>6, SpreadForm
    <2>2. PICK card \in [Burst -> Cards], d \in [Burst -> Devices],
               p \in Plans(BurstOffsets), amount \in Amounts : x = SpreadOf(v, ts, card, d, p, amount)
      BY <2>1
    <2>3. \A k \in Burst : /\ card[k] \in Cards /\ d[k] \in Devices
                           /\ p[k][1] \in Merchants /\ ts + p[k][2] \in Times
      BY <1>2 DEF Plans
    <2>4. RowsFit({SpreadRow(ts, card, d, p, amount, k) : k \in Burst})
      BY <2>3, RowFits DEF RowsFit, SpreadRow
    <2>5. x.rows = {SpreadRow(ts, card, d, p, amount, k) : k \in Burst}
      BY <2>2, IncidentFields DEF SpreadOf
    <2>. QED  BY <2>4, <2>5
  <1>7. ASSUME NEW card \in Cards, NEW x \in SleeperDevice(card, ts) PROVE RowsFit(x.rows)
    <2>1. PICK d \in Devices, m \in Merchants : \E warm \in WarmUp(card, d, m, ts) :
              \E victim \in [Burst -> Cards] : \E at \in [Burst -> LaterOffsets] :
              x = SleeperOf(ts, d, m, warm, victim, at)
      BY <1>7, SleeperForm
    <2>2. PICK warm \in WarmUp(card, d, m, ts), victim \in [Burst -> Cards], at \in [Burst -> LaterOffsets] :
              x = SleeperOf(ts, d, m, warm, victim, at)
      BY <2>1
    <2>3. \A k \in Burst : victim[k] \in Cards /\ ts + at[k] \in Times
      BY <1>2
    <2>. DEFINE R == {TurnedRow(ts, d, m, victim, at, k) : k \in Burst}
    <2>4. RowsFit(R)
      BY <2>3, RowFits, AmountsChosen DEF RowsFit, TurnedRow
    <2>5. RowsFit(warm)
      BY WarmUpFits
    <2>6. x.rows = warm \cup R
      BY <2>2, IncidentFields DEF SleeperOf
    <2>. HIDE DEF R
    <2>. QED  BY <1>1, <2>4, <2>5, <2>6
  <1>8. ASSUME NEW card \in Cards, NEW x \in BustOutSynthetic(card, ts) PROVE RowsFit(x.rows)
    <2>1. PICK d \in Devices, m \in Merchants : \E warm \in WarmUp(card, d, m, ts) :
              \E p \in Plans(BurstOffsets) : x = BustOutOf(card, ts, d, warm, p)
      BY <1>8, BustOutForm
    <2>2. PICK warm \in WarmUp(card, d, m, ts), p \in Plans(BurstOffsets) :
              x = BustOutOf(card, ts, d, warm, p)
      BY <2>1
    <2>3. RowsFit(OnDevice(card, d, p, ts))
      BY <1>2, OnDeviceFits
    <2>4. RowsFit(warm)
      BY WarmUpFits
    <2>5. x.rows = warm \cup OnDevice(card, d, p, ts)
      BY <2>2, IncidentFields DEF BustOutOf
    <2>. QED  BY <1>1, <2>3, <2>4, <2>5
  <1>9. RowsFit(planned.rows)
    <2>1. planned \in CardTestingBurst(ts) \/ planned \in CardTestingEvasive(ts) \cup LabelLatencyRing(ts)
          \/ \E c \in Cards :
               \/ planned \in CnpBurst(c, ts) \cup CnpEvasive(c, ts) \cup AtoBurst(c, ts)
                              \cup LowSlowProfile(c, ts)
               \/ planned \in AtoSlowBurn(c, ts)
               \/ planned \in SleeperDevice(c, ts)
               \/ planned \in BustOutSynthetic(c, ts)
      BY DEF IncidentsAt
    <2>. QED  BY <2>1, <1>3, <1>4, <1>5, <1>6, <1>7, <1>8
  <1>. QED  BY <1>9

-----------------------------------------------------------------------------
(* A frame replays rows that fit.                                          *)
FrameInv == ReplayInv /\ RowsFit(due)

LEMMA FrameStep ==
    ASSUME FrameInv, [FrameNext]_frameVars
    PROVE  FrameInv' /\ [LogNext]_logVars
  <1>0. ReplayInv /\ RowsFit(due) /\ due' = due => RowsFit(due')
    BY DEF RowsFit
  <1>1. ASSUME NEW ts \in Starts, NEW planned \in IncidentsAt(ts), Plan(planned)
        PROVE  FrameInv' /\ [LogNext]_logVars
    <2>1. UNCHANGED <<store, logVars>> /\ pending' = pending /\ due' = planned.rows
      BY <1>1 DEF Plan, vars, storeVars
    <2>2. ReplayInv'
      BY <2>1, ReplayStays DEF FrameInv
    <2>3. RowsFit(planned.rows)
      BY PlannedFits
    <2>. QED  BY <2>1, <2>2, <2>3 DEF FrameInv, RowsFit
  <1>2. CASE ReadDue
    <2>1. PICK d \in due : ReplayRead(d.txn) /\ due' = due \ {d}
      BY <1>2 DEF ReadDue
    <2>2. d.txn \in Txns
      BY DEF FrameInv, RowsFit
    <2>3. ReadFeatures(d.txn) /\ ReplayInv'
      BY <2>1, <2>2, ReplayReadStep DEF FrameInv
    <2>4. RowsFit(due')
      BY <2>1 DEF FrameInv, RowsFit
    <2>. QED  BY <2>2, <2>3, <2>4 DEF FrameInv, RowsFit, LogNext
  <1>3. ASSUME NEW t \in Txns, ReadOther(t)
        PROVE  FrameInv' /\ [LogNext]_logVars
    <2>1. ReplayRead(t) /\ due' = due
      BY <1>3 DEF ReadOther
    <2>2. ReadFeatures(t) /\ ReplayInv'
      BY <2>1, ReplayReadStep DEF FrameInv
    <2>. QED  BY <2>1, <2>2 DEF FrameInv, RowsFit, LogNext
  <1>4. ASSUME NEW fraud, ReplayUpdate(fraud), due' = due
        PROVE  FrameInv' /\ [LogNext]_logVars
    <2>1. FoldIn /\ ReplayInv'
      BY <1>4, ReplayUpdateStep DEF FrameInv
    <2>. QED  BY <1>4, <2>1 DEF FrameInv, RowsFit, LogNext
  <1>5. CASE MarkRow
    <2>1. ReplayMark /\ due' = due
      BY <1>5 DEF MarkRow, incidentVars
    <2>2. (\E m \in Confirmations : Confirm(m)) /\ ReplayInv'
      BY <2>1, ReplayMarkStep DEF FrameInv
    <2>. QED  BY <2>1, <2>2 DEF FrameInv, RowsFit, LogNext
  <1>6. CASE UNCHANGED frameVars
    <2>1. UNCHANGED <<store, logVars>> /\ pending' = pending /\ due' = due
      BY <1>6 DEF frameVars, vars, storeVars, incidentVars
    <2>2. ReplayInv'
      BY <2>1, ReplayStays DEF FrameInv
    <2>. QED  BY <2>1, <2>2 DEF FrameInv, RowsFit
  <1>7. CASE UpdateDue
    <2>1. ReplayUpdate(current.fraud) /\ due' = due
      BY <1>7 DEF UpdateDue, incidentVars
    <2>. QED  BY <2>1, <1>4
  <1>8. ASSUME NEW fraud \in BOOLEAN, UpdateOther(fraud)
        PROVE  FrameInv' /\ [LogNext]_logVars
    <2>1. ReplayUpdate(fraud) /\ due' = due
      BY <1>8 DEF UpdateOther, incidentVars
    <2>. QED  BY <2>1, <1>4
  <1>. QED  BY <1>1, <1>2, <1>3, <1>5, <1>6, <1>7, <1>8 DEF FrameNext, FrameDone

(* In a frame the rolling state is, at every moment, what the rows folded  *)
(* in so far make of it: the windows hold the rows young enough to count,  *)
(* the counters, sums, sets and first-seen times are those of all of them, *)
(* and the marks are the confirmations so far.                             *)
THEOREM FrameInvariant == FrameSpec => []FrameInv
  <1>1. FrameInit => FrameInv
    BY ReplayBegins DEF FrameInit, FrameInv, RowsFit
  <1>2. FrameInv /\ [FrameNext]_frameVars => FrameInv'
    BY FrameStep
  <1>. QED  BY <1>1, <1>2, PTL DEF FrameSpec

(* Every frame is point-in-time correct (ARCHITECTURE.md): the features of *)
(* a row, read off windows that reads trim and updates extend, are those   *)
(* of the whole history before it and of the marks visible at its time.    *)
THEOREM FramesArePointInTime == FrameSpec => ImplementsLog
  <1>1. FrameInit => FrameInv /\ LogInit
    BY ReplayBegins DEF FrameInit, FrameInv, RowsFit, Init
  <1>2. FrameInv /\ [FrameNext]_frameVars => FrameInv' /\ [LogNext]_logVars
    BY FrameStep
  <1>. QED  BY <1>1, <1>2, PTL DEF FrameSpec, ImplementsLog, LogSpec

(* So is a replay with rows given up in the middle when a replica crashes. *)
THEOREM TwinsArePointInTime == TwinSpec => ImplementsLog
  <1>1. TwinInit => ReplayInv /\ LogInit
    BY ReplayBegins DEF TwinInit, Init
  <1>2. ASSUME ReplayInv, [TwinNext]_allVars
        PROVE  ReplayInv' /\ [LogNext]_logVars
    <2>1. ASSUME NEW r \in Replicas, NEW t \in Txns, TwinRead(r, t)
          PROVE  ReplayInv' /\ [LogNext]_logVars
      <3>1. ReplayRead(t)
        BY <2>1 DEF TwinRead
      <3>. QED  BY <1>2, <3>1, ReplayReadStep DEF LogNext
    <2>2. ASSUME NEW r \in Replicas, NEW fraud \in BOOLEAN, TwinUpdate(r, fraud)
          PROVE  ReplayInv' /\ [LogNext]_logVars
      <3>1. ReplayUpdate(fraud)
        BY <2>2 DEF TwinUpdate
      <3>. QED  BY <1>2, <3>1, ReplayUpdateStep DEF LogNext
    <2>3. ASSUME NEW r \in Replicas, TwinMark(r)
          PROVE  ReplayInv' /\ [LogNext]_logVars
      <3>1. ReplayMark
        BY <2>3 DEF TwinMark
      <3>. QED  BY <1>2, <3>1, ReplayMarkStep DEF LogNext
    <2>4. ASSUME NEW r \in Replicas, Crash(r)
          PROVE  ReplayInv' /\ [LogNext]_logVars
      <3>1. UNCHANGED <<store, logVars>> /\ pending' = Idle
        BY <2>4 DEF Crash
      <3>. QED  BY <1>2, <3>1, ReplayStays
    <2>5. CASE TwinFinished \/ UNCHANGED allVars
      <3>1. UNCHANGED <<store, logVars>> /\ pending' = pending
        BY <2>5 DEF TwinFinished, Finished, allVars, vars, storeVars
      <3>. QED  BY <1>2, <3>1, ReplayStays
    <2>. QED  BY <1>2, <2>1, <2>2, <2>3, <2>4, <2>5 DEF TwinNext
  <1>3. ReplayInv /\ [TwinNext]_allVars => ReplayInv' /\ [LogNext]_logVars
    BY <1>2
  <1>. QED  BY <1>1, <1>3, PTL DEF TwinSpec, ImplementsLog, LogSpec

-----------------------------------------------------------------------------
(* The incidents.  What its rows find when they are read is a matter of    *)
(* which of them were folded in and confirmed before.                      *)
MarkOf(t) == [visible |-> t.ts + LabelLatency, card |-> t.card,
              device |-> t.device, merchant |-> t.merchant]

(* The rows of the incident that are in the log, and those of which the    *)
(* confirmation, if they are fraud, has been made.                         *)
InHand(steps) == IF pending.step \in steps /\ current # NoRow THEN {current} ELSE {}
FoldedRows == incident.rows \ (due \cup InHand({"update"}))
SettledRows == incident.rows \ (due \cup InHand({"update", "mark"}))

(* The log F has the rows, and no other on the devices of the incident.    *)
LogHas(own, rows, F) ==
    /\ \A r \in rows : \E i \in DOMAIN F : F[i] = r.txn
    /\ \A i \in DOMAIN F : F[i].device \in own => \E r \in rows : r.txn = F[i]

(* So it is with the confirmations M.                                      *)
MarksHave(own, folded, settled, M) ==
    /\ \A r \in settled : r.fraud => \E j \in DOMAIN M : M[j] = MarkOf(r.txn)
    /\ \A j \in DOMAIN M : M[j].device \in own =>
           \E r \in folded : r.fraud /\ M[j] = MarkOf(r.txn)

PlanInv ==
    IF incident = NoIncident
    THEN due = {} /\ current = NoRow
    ELSE /\ \E ts \in Starts : incident \in IncidentsAt(ts)
         /\ due \subseteq incident.rows
         /\ current # NoRow => current \in incident.rows \ due

(* The rows to come are no older than what was read, and a row in hand is  *)
(* what the replay is busy with.                                           *)
RowInv ==
    /\ \A d \in due : Horizon <= d.txn.ts
    /\ pending # Idle /\ current # NoRow => asked = current.txn
    /\ pending.step = "mark" /\ current # NoRow => current.fraud
    /\ pending # Idle /\ current = NoRow /\ incident # NoIncident =>
           asked.device \notin incident.own
    /\ pending.step = "update" => features = FeaturesOf(asked)
    /\ asked = Nobody => confirmed = <<>>

TracesInv ==
    incident # NoIncident =>
        /\ LogHas(incident.own, FoldedRows, log)
        /\ MarksHave(incident.own, FoldedRows, SettledRows, confirmed)

IncidentInv == FrameInv /\ PlanInv /\ RowInv /\ TracesInv

LEMMA LogGains ==
    ASSUME NEW F \in Seq(Txns), NEW t \in Txns, NEW own, NEW rows, LogHas(own, rows, F),
           NEW more, rows \subseteq more,
           \A r \in more \ rows : r.txn = t,
           t.device \in own => \E r \in more : r.txn = t
    PROVE  LogHas(own, more, Append(F, t))
  <1>. DEFINE G == Joined(F, t)
              n == NextRow(F)
  <1>1. /\ DOMAIN G = DOMAIN F \cup {n} /\ G[n] = t
        /\ \A i \in DOMAIN F : G[i] = F[i]
    BY LogJoined
  <1>. HIDE DEF G, n
  <1>2. LogHas(own, more, G)
    BY <1>1 DEF LogHas
  <1>. QED  BY <1>2 DEF G, Joined

LEMMA MarksGain ==
    ASSUME NEW M \in Seq(Named), NEW m \in Named, NEW own, NEW folded, NEW settled,
           MarksHave(own, folded, settled, M),
           NEW more, \A r \in more \ settled : m = MarkOf(r.txn),
           m.device \in own => \E r \in folded : r.fraud /\ m = MarkOf(r.txn)
    PROVE  MarksHave(own, folded, more, Append(M, m))
  <1>. DEFINE G == Append(M, m)
              n == Len(M) + 1
  <1>1. /\ DOMAIN G = DOMAIN M \cup {n} /\ G[n] = m
        /\ \A i \in DOMAIN M : G[i] = M[i]
    OBVIOUS
  <1>. HIDE DEF G, n
  <1>2. MarksHave(own, folded, more, G)
    BY <1>1 DEF MarksHave
  <1>. QED  BY <1>2 DEF G

(* What is folded in only grows: confirmations stay explained.             *)
LEMMA MarksStay ==
    ASSUME NEW M, NEW own, NEW folded, NEW settled, MarksHave(own, folded, settled, M),
           NEW more, folded \subseteq more, NEW now, \A r \in now \ settled : ~r.fraud
    PROVE  MarksHave(own, more, now, M)
  BY DEF MarksHave

LEMMA StepNames ==
    ASSUME ReplayInv
    PROVE  /\ pending # Idle => pending.step \in {"update", "mark"} /\ pending.txn = asked /\ asked \in Txns
           /\ pending = Idle => pending.step = "idle"
           /\ asked # Nobody => asked \in Txns /\ asked.ts = Horizon
           /\ asked = Nobody => pending = Idle /\ log = <<>> /\ Horizon = 0
  BY NobodyAssumption DEF ReplayInv, Idle, Horizon

LEMMA IncidentPlanned ==
    ASSUME IncidentInv, NEW ts \in Starts, NEW planned \in IncidentsAt(ts), Plan(planned)
    PROVE  PlanInv' /\ RowInv' /\ TracesInv'
  <1>1. /\ asked = Nobody /\ incident = NoIncident /\ incident' = planned
        /\ due' = planned.rows /\ current' = current /\ pending' = pending
        /\ log' = log /\ confirmed' = confirmed /\ asked' = asked /\ features' = features
    BY DEF Plan, vars, storeVars, logVars
  <1>2. /\ current = NoRow /\ pending = Idle /\ pending.step = "idle"
        /\ log = <<>> /\ confirmed = <<>>
    BY <1>1, StepNames DEF IncidentInv, FrameInv, PlanInv, RowInv
  <1>3. planned # NoIncident
    BY NoIncidentAssumption
  <1>4. PlanInv'
    BY <1>1, <1>2, <1>3 DEF PlanInv
  <1>5. \A d \in planned.rows : 0 <= d.txn.ts
    BY PlannedFits, TxnOf DEF RowsFit
  <1>6. Horizon' = 0
    BY <1>1 DEF Horizon
  <1>7. RowInv'
    BY <1>1, <1>2, <1>5, <1>6 DEF RowInv
  <1>8. FoldedRows' = {} /\ SettledRows' = {}
    BY <1>1 DEF FoldedRows, SettledRows
  <1>9. LogHas(planned.own, {}, <<>>) /\ MarksHave(planned.own, {}, {}, <<>>)
    BY DEF LogHas, MarksHave
  <1>10. TracesInv'
    BY <1>1, <1>2, <1>8, <1>9 DEF TracesInv
  <1>. QED  BY <1>4, <1>7, <1>10

(* The features of a read stay those of its history until it is folded in. *)
LEMMA ReadsStay ==
    ASSUME NEW t, UNCHANGED <<log, confirmed>>
    PROVE  FeaturesOf(t)' = FeaturesOf(t)
  BY DEF FeaturesOf, Earlier, Total, AgeOfFirst, Visible

(* The parts an incident has.                                              *)
LEMMA PlannedParts ==
    ASSUME NEW ts, NEW x \in IncidentsAt(ts), NEW r \in x.rows
    PROVE  r.part \in {"warm-up", "cash-out", "burst"}
  <1>. DEFINE Parts == {"warm-up", "cash-out", "burst"}
  <1>0. /\ \A card, d, p, k : DeviceRow(card, d, p, ts, k).part = "burst"
        /\ \A card, d, m, hour, k : WarmRow(card, ts, d, m, hour, k).part = "warm-up"
        /\ \A card, d, m, hour : CashOutRow(card, ts, d, m, hour).part = "cash-out"
        /\ \A card, d, m, at, k : ProbeRow(ts, card, d, m, at, k).part = "burst"
        /\ \A card, d, p, amount, k : SpreadRow(ts, card, d, p, amount, k).part = "burst"
        /\ \A card, d, m, hour, k : GenuineRow(card, d, m, ts, hour, k).part = "warm-up"
        /\ \A d, m, victim, at, k : TurnedRow(ts, d, m, victim, at, k).part = "burst"
    BY DEF Row, DeviceRow, WarmRow, CashOutRow, ProbeRow, SpreadRow, GenuineRow, TurnedRow
  <1>1. ASSUME NEW card, NEW d, NEW p, r \in OnDevice(card, d, p, ts) PROVE r.part \in Parts
    <2>1. \E k \in Burst : r = DeviceRow(card, d, p, ts, k)
      BY <1>1, OnDeviceRows
    <2>. QED  BY <1>0, <2>1
  <1>2. ASSUME NEW card, NEW d, NEW m, NEW warm \in WarmUp(card, d, m, ts), r \in warm
        PROVE  r.part \in Parts
    <2>1. PICK days \in SUBSET (0 .. WarmDays - 1), hour \in [0 .. WarmDays - 1 -> Daytime] :
              warm = WarmUpOf(card, d, m, ts, days, hour)
      BY WarmUpForm
    <2>2. \E k \in days : r = GenuineRow(card, d, m, ts, hour, k)
      BY <1>2, <2>1 DEF WarmUpOf
    <2>. QED  BY <1>0, <2>2
  <1>3. ASSUME NEW c, x \in CnpBurst(c, ts) \cup CnpEvasive(c, ts) \cup AtoBurst(c, ts)
                                \cup LowSlowProfile(c, ts)
        PROVE  r.part \in Parts
    <2>. DEFINE S == Plans({k * Day : k \in Burst})
    <2>1. \E d \in Devices :
            \/ \E v \in {"cnp_burst", "ato_burst"}, p \in Plans(BurstOffsets) :
                 x = BurstOf(v, c, ts, d, p)
            \/ \E p \in Plans(LaterOffsets) : x = BurstOf("cnp_evasive", c, ts, d, p)
            \/ \E p \in S : x = LowSlowOf(c, ts, d, p)
      BY <1>3, OnDeviceForm
    <2>2. /\ \A v, d, p : BurstOf(v, c, ts, d, p).rows = OnDevice(c, d, p, ts)
          /\ \A d, p : LowSlowOf(c, ts, d, p).rows = OnDevice(c, d, p, ts)
      BY IncidentFields DEF BurstOf, LowSlowOf
    <2>. HIDE DEF S, Parts
    <2>. QED  BY <1>1, <2>1, <2>2
  <1>4. ASSUME NEW c, x \in AtoSlowBurn(c, ts) PROVE r.part \in Parts
    <2>1. PICK d \in Devices, m \in Merchants, hour \in [0 .. WarmDays -> Daytime] :
              x = SlowBurnOf(c, ts, d, m, hour)
      BY <1>4, SlowBurnForm
    <2>2. x.rows = {WarmRow(c, ts, d, m, hour, k) : k \in 0 .. WarmDays - 1}
                       \cup {CashOutRow(c, ts, d, m, hour)}
      BY <2>1, IncidentFields DEF SlowBurnOf
    <2>. QED  BY <1>0, <2>2
  <1>5. ASSUME x \in CardTestingBurst(ts) PROVE r.part \in Parts
    <2>1. PICK card \in Injection(Burst, Cards), d \in Devices, m \in Merchants,
               at \in [Burst -> ProbeTimes] : x = CardTestOf(ts, card, d, m, at)
      BY <1>5, CardTestForm
    <2>2. x.rows = {ProbeRow(ts, card, d, m, at, k) : k \in Burst}
      BY <2>1, IncidentFields DEF CardTestOf
    <2>. QED  BY <1>0, <2>2
  <1>6. ASSUME x \in CardTestingEvasive(ts) \cup LabelLatencyRing(ts) PROVE r.part \in Parts
    <2>1. PICK v \in {"card_testing_evasive", "label_latency_ring"} :
            \E card \in [Burst -> Cards], d \in [Burst -> Devices],
               p \in Plans(BurstOffsets), amount \in Amounts : x = SpreadOf(v, ts, card, d, p, amount)
      BY <1>6, SpreadForm
    <2>2. PICK card \in [Burst -> Cards], d \in [Burst -> Devices],
               p \in Plans(BurstOffsets), amount \in Amounts : x = SpreadOf(v, ts, card, d, p, amount)
      BY <2>1
    <2>3. x.rows = {SpreadRow(ts, card, d, p, amount, k) : k \in Burst}
      BY <2>2, IncidentFields DEF SpreadOf
    <2>. QED  BY <1>0, <2>3
  <1>7. ASSUME NEW c, x \in SleeperDevice(c, ts) PROVE r.part \in Parts
    <2>1. PICK d \in Devices, m \in Merchants : \E warm \in WarmUp(c, d, m, ts) :
              \E victim \in [Burst -> Cards] : \E at \in [Burst -> LaterOffsets] :
              x = SleeperOf(ts, d, m, warm, victim, at)
      BY <1>7, SleeperForm
    <2>2. PICK warm \in WarmUp(c, d, m, ts), victim \in [Burst -> Cards], at \in [Burst -> LaterOffsets] :
              x = SleeperOf(ts, d, m, warm, victim, at)
      BY <2>1
    <2>3. x.rows = warm \cup {TurnedRow(ts, d, m, victim, at, k) : k \in Burst}
      BY <2>2, IncidentFields DEF SleeperOf
    <2>4. CASE r \in {TurnedRow(ts, d, m, victim, at, k) : k \in Burst}
      BY <1>0, <2>4
    <2>. QED  BY <1>2, <2>3, <2>4
  <1>8. ASSUME NEW c, x \in BustOutSynthetic(c, ts) PROVE r.part \in Parts
    <2>1. PICK d \in Devices, m \in Merchants : \E warm \in WarmUp(c, d, m, ts) :
              \E p \in Plans(BurstOffsets) : x = BustOutOf(c, ts, d, warm, p)
      BY <1>8, BustOutForm
    <2>2. PICK warm \in WarmUp(c, d, m, ts), p \in Plans(BurstOffsets) :
              x = BustOutOf(c, ts, d, warm, p)
      BY <2>1
    <2>3. x.rows = warm \cup OnDevice(c, d, p, ts)
      BY <2>2, IncidentFields DEF BustOutOf
    <2>. QED  BY <1>1, <1>2, <2>3
  <1>9. x \in CardTestingBurst(ts) \/ x \in CardTestingEvasive(ts) \cup LabelLatencyRing(ts)
        \/ \E c \in Cards :
             \/ x \in CnpBurst(c, ts) \cup CnpEvasive(c, ts) \cup AtoBurst(c, ts)
                          \cup LowSlowProfile(c, ts)
             \/ x \in AtoSlowBurn(c, ts)
             \/ x \in SleeperDevice(c, ts)
             \/ x \in BustOutSynthetic(c, ts)
    BY DEF IncidentsAt
  <1>. HIDE DEF Parts
  <1>10. r.part \in Parts
    BY <1>3, <1>4, <1>5, <1>6, <1>7, <1>8, <1>9
  <1>. QED  BY <1>10 DEF Parts

LEMMA ReadKept ==
    ASSUME NEW t, asked' = t, features' = FeaturesOf(t), UNCHANGED <<log, confirmed>>
    PROVE  features' = FeaturesOf(asked)'
  <1>1. FeaturesOf(t)' = FeaturesOf(t)
    BY ReadsStay
  <1>2. FeaturesOf(asked)' = FeaturesOf(t)'
    BY DEF FeaturesOf, Earlier, Total, AgeOfFirst, Visible
  <1>. QED  BY <1>1, <1>2

LEMMA RowOfIncidentRead ==
    ASSUME IncidentInv, ReadDue
    PROVE  PlanInv' /\ RowInv' /\ TracesInv'
  <1>1. PICK d \in due : /\ NoneEarlier(d.txn.ts) /\ ReplayRead(d.txn)
                         /\ due' = due \ {d} /\ current' = d /\ incident' = incident
    BY DEF ReadDue
  <1>. DEFINE t == d.txn
  <1>2. t \in Txns
    BY DEF IncidentInv, FrameInv, RowsFit
  <1>3. /\ asked' = t /\ features' = FeaturesOf(t) /\ log' = log /\ confirmed' = confirmed
    BY <1>1, <1>2, ReplayReadStep DEF ReadFeatures, IncidentInv, FrameInv
  <1>4. pending = Idle /\ pending' = [step |-> "update", txn |-> t]
    BY <1>1 DEF ReplayRead, Read
  <1>5. /\ pending.step = "idle" /\ pending'.step = "update" /\ pending' # Idle /\ t # Nobody
        /\ Horizon' = t.ts
    BY <1>2, <1>3, <1>4, NobodyAssumption DEF Idle, Horizon
  <1>6. incident # NoIncident /\ due \subseteq incident.rows
        /\ \E ts \in Starts : incident \in IncidentsAt(ts)
    BY <1>1 DEF IncidentInv, PlanInv
  <1>7. PlanInv'
    BY <1>1, <1>6 DEF PlanInv
  <1>8. features' = FeaturesOf(asked)'
    BY <1>3, ReadKept
  <1>9. \A e \in due' : Horizon' <= e.txn.ts
    BY <1>1, <1>5 DEF NoneEarlier
  <1>10. d # NoRow
    <2>1. d.part \in {"warm-up", "cash-out", "burst"}
      BY <1>6, PlannedParts
    <2>. QED  BY <2>1 DEF NoRow
  <1>11. RowInv'
    BY <1>1, <1>3, <1>5, <1>8, <1>9, <1>10 DEF RowInv
  <1>12. FoldedRows' = FoldedRows /\ SettledRows' = SettledRows
    <2>1. InHand({"update"}) = {} /\ InHand({"update", "mark"}) = {}
      BY <1>5 DEF InHand
    <2>2. InHand({"update"})' = {d} /\ InHand({"update", "mark"})' = {d}
      BY <1>1, <1>5, <1>10 DEF InHand
    <2>3. due' \cup {d} = due
      BY <1>1
    <2>. QED  BY <1>1, <2>1, <2>2, <2>3 DEF FoldedRows, SettledRows
  <1>13. TracesInv'
    BY <1>1, <1>3, <1>12 DEF IncidentInv, TracesInv
  <1>. QED  BY <1>7, <1>11, <1>13

LEMMA OtherRowRead ==
    ASSUME IncidentInv, NEW t \in Txns, ReadOther(t)
    PROVE  PlanInv' /\ RowInv' /\ TracesInv'
  <1>1. /\ NoneEarlier(t.ts) /\ ReplayRead(t) /\ current' = NoRow
        /\ incident # NoIncident => t.device \notin incident.own
        /\ incident' = incident /\ due' = due
    BY DEF ReadOther
  <1>2. /\ asked' = t /\ features' = FeaturesOf(t) /\ log' = log /\ confirmed' = confirmed
    BY <1>1, ReplayReadStep DEF ReadFeatures, IncidentInv, FrameInv
  <1>3. pending = Idle /\ pending' = [step |-> "update", txn |-> t]
    BY <1>1 DEF ReplayRead, Read
  <1>4. /\ pending.step = "idle" /\ pending'.step = "update" /\ t # Nobody
        /\ Horizon' = t.ts
    BY <1>2, <1>3, NobodyAssumption DEF Idle, Horizon
  <1>5. PlanInv'
    BY <1>1 DEF IncidentInv, PlanInv
  <1>6. features' = FeaturesOf(asked)'
    BY <1>2, ReadKept
  <1>7. \A e \in due' : Horizon' <= e.txn.ts
    BY <1>1, <1>4 DEF NoneEarlier
  <1>8. RowInv'
    BY <1>1, <1>2, <1>4, <1>6, <1>7 DEF RowInv
  <1>9. FoldedRows' = FoldedRows /\ SettledRows' = SettledRows
    <2>1. /\ InHand({"update"}) = {} /\ InHand({"update", "mark"}) = {}
          /\ InHand({"update"})' = {} /\ InHand({"update", "mark"})' = {}
      BY <1>1, <1>4 DEF InHand
    <2>. QED  BY <1>1, <2>1 DEF FoldedRows, SettledRows
  <1>10. TracesInv'
    BY <1>1, <1>2, <1>9 DEF IncidentInv, TracesInv
  <1>. QED  BY <1>5, <1>8, <1>10

(* update, of a row of the incident or of another.                         *)
LEMMA RowFoldedIn ==
    ASSUME IncidentInv, NEW fraud, ReplayUpdate(fraud), UNCHANGED incidentVars,
           current = NoRow \/ fraud = current.fraud
    PROVE  PlanInv' /\ RowInv' /\ TracesInv'
  <1>. DEFINE t == asked
  <1>0. ReplayInv
    BY DEF IncidentInv, FrameInv
  <1>1. /\ pending.step = "update" /\ log' = Append(log, pending.txn)
        /\ pending' = IF fraud THEN [step |-> "mark", txn |-> pending.txn] ELSE Idle
        /\ confirmed' = confirmed /\ asked' = asked /\ features' = features
        /\ incident' = incident /\ due' = due /\ current' = current
    BY DEF ReplayUpdate, incidentVars
  <1>2. pending # Idle /\ pending.txn = asked /\ asked \in Txns /\ asked # Nobody
    BY <1>0, <1>1, StepNames, NobodyAssumption DEF Idle
  <1>3. /\ Horizon' = Horizon /\ log \in Seq(Txns) /\ log' = Append(log, asked)
    BY <1>0, <1>1, <1>2 DEF Horizon, ReplayInv
  <1>4. /\ pending'.step \in {"idle", "mark"} /\ pending'.step # "update"
        /\ pending'.step = "mark" => fraud
        /\ ~fraud => pending'.step = "idle"
    BY <1>1 DEF Idle
  <1>5. PlanInv'
    BY <1>1 DEF IncidentInv, PlanInv
  <1>6. RowInv'
    BY <1>1, <1>2, <1>3, <1>4 DEF IncidentInv, RowInv
  <1>7. ASSUME incident # NoIncident
        PROVE  /\ LogHas(incident.own, FoldedRows', log')
               /\ MarksHave(incident.own, FoldedRows', SettledRows', confirmed)
    <2>1. /\ LogHas(incident.own, FoldedRows, log)
          /\ MarksHave(incident.own, FoldedRows, SettledRows, confirmed)
      BY <1>7 DEF IncidentInv, TracesInv
    <2>2. InHand({"update"})' = {} /\ FoldedRows' = incident.rows \ due
      BY <1>1, <1>4 DEF InHand, FoldedRows
    <2>3. CASE current = NoRow
      <3>1. asked.device \notin incident.own
        BY <1>2, <1>7, <2>3 DEF IncidentInv, RowInv
      <3>2. FoldedRows = incident.rows \ due /\ SettledRows = incident.rows \ due
        BY <2>3 DEF FoldedRows, SettledRows, InHand
      <3>3. SettledRows' = incident.rows \ due
        BY <1>1, <2>3 DEF SettledRows, InHand
      <3>4. LogHas(incident.own, FoldedRows', Append(log, asked))
        BY <1>2, <1>3, <2>1, <2>2, <3>1, <3>2, LogGains
      <3>. QED  BY <1>3, <2>1, <2>2, <3>2, <3>3, <3>4
    <2>4. CASE current # NoRow
      <3>1. asked = current.txn /\ current \in incident.rows \ due
        BY <1>2, <1>7, <2>4 DEF IncidentInv, RowInv, PlanInv
      <3>2. FoldedRows = (incident.rows \ due) \ {current} /\ SettledRows = FoldedRows
        BY <1>1, <2>4 DEF FoldedRows, SettledRows, InHand
      <3>3. FoldedRows' = FoldedRows \cup {current}
        BY <2>2, <3>1, <3>2
      <3>4. SettledRows' = IF fraud THEN FoldedRows ELSE FoldedRows \cup {current}
        <4>1. CASE fraud
          <5>1. InHand({"update", "mark"})' = {current}
            BY <1>1, <2>4, <4>1 DEF InHand
          <5>. QED  BY <1>1, <3>2, <4>1, <5>1 DEF SettledRows
        <4>2. CASE ~fraud
          <5>1. InHand({"update", "mark"})' = {}
            BY <1>4, <4>2 DEF InHand
          <5>. QED  BY <1>1, <3>1, <3>2, <4>2, <5>1 DEF SettledRows
        <4>. QED  BY <4>1, <4>2
      <3>5. LogHas(incident.own, FoldedRows', Append(log, asked))
        <4>1. \A r \in FoldedRows' \ FoldedRows : r.txn = asked
          BY <3>1, <3>3
        <4>2. \E r \in FoldedRows' : r.txn = asked
          BY <3>1, <3>3
        <4>. QED  BY <1>2, <1>3, <2>1, <3>3, <4>1, <4>2, LogGains
      <3>6. MarksHave(incident.own, FoldedRows', SettledRows', confirmed)
        <4>1. \A r \in SettledRows' \ SettledRows : ~r.fraud
          BY <2>4, <3>2, <3>4
        <4>. QED  BY <2>1, <3>3, <4>1, MarksStay
      <3>. QED  BY <1>3, <3>5, <3>6
    <2>. QED  BY <2>3, <2>4
  <1>8. TracesInv'
    BY <1>1, <1>7 DEF TracesInv
  <1>. QED  BY <1>5, <1>6, <1>8

LEMMA RowMarked ==
    ASSUME IncidentInv, MarkRow
    PROVE  PlanInv' /\ RowInv' /\ TracesInv'
  <1>0. ReplayInv
    BY DEF IncidentInv, FrameInv
  <1>. DEFINE m == MarkOf(pending.txn)
  <1>1. /\ pending.step = "mark" /\ confirmed' = Append(confirmed, m) /\ pending' = Idle
        /\ log' = log /\ asked' = asked /\ features' = features
        /\ incident' = incident /\ due' = due /\ current' = current
    BY DEF MarkRow, ReplayMark, incidentVars, MarkOf
  <1>2. pending # Idle /\ pending.txn = asked /\ asked \in Txns /\ asked # Nobody
    BY <1>0, <1>1, StepNames, NobodyAssumption DEF Idle
  <1>3. Horizon' = Horizon /\ confirmed \in Seq(Named)
    BY <1>0, <1>1 DEF Horizon, ReplayInv
  <1>4. m = MarkOf(asked) /\ m \in Named /\ m.device = asked.device
    <2>1. /\ asked.card \in Cards /\ asked.device \in Devices /\ asked.merchant \in Merchants
          /\ asked.ts \in 0 .. MaxTime
      BY <1>2, TxnOf DEF Times
    <2>2. asked.ts + LabelLatency \in 0 .. MaxTime + LabelLatency
      BY <2>1, TimeAssumption
    <2>. QED  BY <1>2, <2>1, <2>2 DEF MarkOf, Named
  <1>. HIDE DEF m
  <1>5. pending'.step = "idle"
    BY <1>1 DEF Idle
  <1>6. PlanInv'
    BY <1>1 DEF IncidentInv, PlanInv
  <1>7. RowInv'
    BY <1>1, <1>2, <1>3, <1>5 DEF IncidentInv, RowInv
  <1>8. ASSUME incident # NoIncident
        PROVE  /\ LogHas(incident.own, FoldedRows', log)
               /\ MarksHave(incident.own, FoldedRows', SettledRows', confirmed')
    <2>1. /\ LogHas(incident.own, FoldedRows, log)
          /\ MarksHave(incident.own, FoldedRows, SettledRows, confirmed)
      BY <1>8 DEF IncidentInv, TracesInv
    <2>2. /\ FoldedRows = incident.rows \ due /\ FoldedRows' = incident.rows \ due
          /\ SettledRows' = incident.rows \ due
      BY <1>1, <1>5 DEF InHand, FoldedRows, SettledRows
    <2>3. \A r \in SettledRows' \ SettledRows : m = MarkOf(r.txn)
      <3>1. \A r \in SettledRows' \ SettledRows : r = current /\ current # NoRow
        BY <2>2 DEF SettledRows, InHand
      <3>. QED  BY <1>2, <1>4, <3>1 DEF IncidentInv, RowInv
    <2>4. ASSUME m.device \in incident.own
          PROVE  \E r \in FoldedRows : r.fraud /\ m = MarkOf(r.txn)
      <3>1. current # NoRow
        BY <1>2, <1>4, <1>8, <2>4 DEF IncidentInv, RowInv
      <3>2. current \in FoldedRows /\ current.fraud /\ asked = current.txn
        BY <1>1, <1>2, <1>8, <2>2, <3>1 DEF IncidentInv, RowInv, PlanInv
      <3>. QED  BY <1>4, <3>2
    <2>5. MarksHave(incident.own, FoldedRows, SettledRows', Append(confirmed, m))
      BY <1>3, <1>4, <2>1, <2>3, <2>4, MarksGain
    <2>. QED  BY <1>1, <2>1, <2>2, <2>5
  <1>9. TracesInv'
    BY <1>1, <1>8 DEF TracesInv
  <1>. QED  BY <1>6, <1>7, <1>9

LEMMA IncidentStep ==
    ASSUME IncidentInv, [FrameNext]_frameVars
    PROVE  IncidentInv'
  <1>1. FrameInv'
    BY FrameStep DEF IncidentInv
  <1>2. ASSUME NEW ts \in Starts, NEW planned \in IncidentsAt(ts), Plan(planned)
        PROVE  PlanInv' /\ RowInv' /\ TracesInv'
    BY <1>2, IncidentPlanned
  <1>3. ASSUME NEW t \in Txns, ReadOther(t)
        PROVE  PlanInv' /\ RowInv' /\ TracesInv'
    BY <1>3, OtherRowRead
  <1>4. ASSUME UpdateDue PROVE PlanInv' /\ RowInv' /\ TracesInv'
    <2>1. ReplayUpdate(current.fraud) /\ UNCHANGED incidentVars
      BY <1>4 DEF UpdateDue
    <2>. QED  BY <2>1, RowFoldedIn
  <1>5. ASSUME NEW fraud \in BOOLEAN, UpdateOther(fraud)
        PROVE  PlanInv' /\ RowInv' /\ TracesInv'
    <2>1. ReplayUpdate(fraud) /\ UNCHANGED incidentVars /\ current = NoRow
      BY <1>5 DEF UpdateOther
    <2>. QED  BY <2>1, RowFoldedIn
  <1>6. ASSUME UNCHANGED frameVars PROVE PlanInv' /\ RowInv' /\ TracesInv'
    <2>1. /\ UNCHANGED <<log, confirmed, asked, features, pending>>
          /\ UNCHANGED <<incident, due, current>>
      BY <1>6 DEF frameVars, vars, storeVars, logVars, incidentVars
    <2>2. PlanInv'
      BY <2>1 DEF IncidentInv, PlanInv
    <2>3. FeaturesOf(asked)' = FeaturesOf(asked) /\ Horizon' = Horizon
      BY <2>1 DEF FeaturesOf, Earlier, Total, AgeOfFirst, Visible, Horizon
    <2>4. RowInv'
      BY <2>1, <2>3 DEF IncidentInv, RowInv
    <2>5. FoldedRows' = FoldedRows /\ SettledRows' = SettledRows
      BY <2>1 DEF FoldedRows, SettledRows, InHand
    <2>6. TracesInv'
      BY <2>1, <2>5 DEF IncidentInv, TracesInv
    <2>. QED  BY <2>2, <2>4, <2>6
  <1>7. PlanInv' /\ RowInv' /\ TracesInv'
    BY <1>2, <1>3, <1>4, <1>5, <1>6, RowOfIncidentRead, RowMarked DEF FrameNext, FrameDone
  <1>. QED  BY <1>1, <1>7 DEF IncidentInv

LEMMA IncidentBegins == FrameInit => IncidentInv
  <1>. SUFFICES ASSUME FrameInit PROVE IncidentInv
    OBVIOUS
  <1>1. /\ incident = NoIncident /\ due = {} /\ current = NoRow
        /\ pending = Idle /\ pending.step = "idle" /\ confirmed = <<>>
    BY DEF FrameInit, Init, LogInit, Idle
  <1>2. FrameInv
    BY ReplayBegins DEF FrameInit, FrameInv, RowsFit
  <1>. QED  BY <1>1, <1>2 DEF IncidentInv, PlanInv, RowInv, TracesInv

(* In a frame the log holds the rows of its incident that were folded in,  *)
(* and no other on the devices of the incident; the confirmations are      *)
(* those of its fraud rows; and the rows to come are no older than what    *)
(* was read.                                                               *)
THEOREM IncidentInvariant == FrameSpec => []IncidentInv
  <1>1. IncidentInv /\ [FrameNext]_frameVars => IncidentInv'
    BY IncidentStep
  <1>. QED  BY <1>1, IncidentBegins, PTL DEF FrameSpec

-----------------------------------------------------------------------------
(* What a row of the incident finds when it is read.                       *)
LEMMA ReadingRow ==
    ASSUME IncidentInv, NEW V, Reading(V)
    PROVE  LET before == incident.rows \ (due \cup {current})
           IN  /\ incident.variant \in V
               /\ \E ts \in Starts : incident \in IncidentsAt(ts)
               /\ current \in incident.rows /\ current \notin due
               /\ current.txn = asked /\ asked \in Txns /\ features = FeaturesOf(asked)
               /\ \A d \in due : asked.ts <= d.txn.ts
               /\ LogHas(incident.own, before, log)
               /\ MarksHave(incident.own, before, before, confirmed)
               /\ log \in Seq(Txns) /\ Ascending(log)
               /\ \A i \in DOMAIN log : log[i].ts <= asked.ts
               /\ confirmed \in Seq(Named)
  <1>1. pending.step = "update" /\ current # NoRow /\ incident.variant \in V
    BY DEF Reading
  <1>2. pending # Idle
    BY <1>1 DEF Idle
  <1>3. ReplayInv
    BY DEF IncidentInv, FrameInv
  <1>4. asked \in Txns /\ asked.ts = Horizon
    BY <1>2, <1>3, StepNames, NobodyAssumption
  <1>5. /\ incident # NoIncident /\ current \in incident.rows \ due
        /\ \E ts \in Starts : incident \in IncidentsAt(ts)
    BY <1>1 DEF IncidentInv, PlanInv
  <1>6. current.txn = asked /\ features = FeaturesOf(asked) /\ \A d \in due : asked.ts <= d.txn.ts
    BY <1>1, <1>2, <1>4 DEF IncidentInv, RowInv
  <1>7. /\ FoldedRows = incident.rows \ (due \cup {current})
        /\ SettledRows = incident.rows \ (due \cup {current})
    BY <1>1 DEF FoldedRows, SettledRows, InHand
  <1>8. /\ LogHas(incident.own, FoldedRows, log)
        /\ MarksHave(incident.own, FoldedRows, SettledRows, confirmed)
    BY <1>5 DEF IncidentInv, TracesInv
  <1>9. log \in Seq(Txns) /\ Ascending(log) /\ confirmed \in Seq(Named)
        /\ \A i \in DOMAIN log : log[i].ts <= asked.ts
    BY <1>3, <1>4 DEF ReplayInv
  <1>. QED  BY <1>1, <1>4, <1>5, <1>6, <1>7, <1>8, <1>9

LEMMA MarksOfRow ==
    ASSUME NEW t, features = FeaturesOf(t)
    PROVE  /\ features.device_confirmed_fraud_links =
                Cardinality({j \in DOMAIN confirmed : confirmed[j].visible <= t.ts
                                                      /\ confirmed[j].device = t.device})
           /\ features.card_prior_confirmed_fraud =
                AtMost(Cardinality({j \in DOMAIN confirmed : confirmed[j].visible <= t.ts
                                                      /\ confirmed[j].card = t.card}), MarkCap)
           /\ features.merchant_confirmed_fraud_links =
                Cardinality({j \in DOMAIN confirmed : confirmed[j].visible <= t.ts
                                                      /\ confirmed[j].merchant = t.merchant})
  BY DEF FeaturesOf, Visible

LEMMA HistoryOfRow ==
    ASSUME NEW t, features = FeaturesOf(t)
    PROVE  LET D == {i \in DOMAIN log : log[i].device = t.device}
           IN  /\ features.is_new_device_for_card =
                    ({i \in DOMAIN log : log[i].card = t.card} \cap D = {})
               /\ features.device_observed_age = AgeOfFirst(D, t.ts)
               /\ features.device_alltime_cards = Cardinality({log[i].card : i \in D})
  BY DEF FeaturesOf, Earlier

LEMMA WindowsOfRow ==
    ASSUME NEW t, features = FeaturesOf(t)
    PROVE  LET D == {i \in DOMAIN log : log[i].device = t.device}
               M == {i \in DOMAIN log : log[i].merchant = t.merchant}
               U == {i \in D : log[i].ts >= t.ts - Hour}
               Z == {i \in M : log[i].ts >= t.ts - TenMinutes}
           IN  /\ features.device_card_count_1h = Cardinality({log[i].card : i \in U})
               /\ features.merchant_small_amt_10m =
                    Cardinality({i \in Z : log[i].amount < SmallAmount})
  BY DEF FeaturesOf, Earlier

-----------------------------------------------------------------------------
(* The shapes of the incidents.                                            *)
LEMMA DaysApart ==
    ASSUME NEW k \in Nat, NEW n \in Nat, k < n
    PROVE  k * Day \in Nat /\ n * Day \in Nat /\ k * Day + Day <= n * Day
  <1>1. Day \in Nat /\ n - k - 1 \in Nat
    BY TimeAssumption
  <1>2. k * Day \in Nat /\ n * Day \in Nat /\ (n - k - 1) * Day \in Nat
    BY <1>1
  <1>3. n * Day = k * Day + Day + (n - k - 1) * Day
    BY <1>1
  <1>. QED  BY <1>1, <1>2, <1>3

LEMMA BurstRowsFinite ==
    ASSUME NEW S, NEW f, \A r \in S : \E k \in Burst : r = f[k]
    PROVE  IsFiniteSet(S)
  <1>. DEFINE T == {f[k] : k \in Burst}
              g == [k \in Burst |-> f[k]]
  <1>1. IsFiniteSet(Burst)
    BY IncidentAssumption, FS_Interval DEF Burst
  <1>2. g \in Surjection(Burst, T)
    BY DEF Surjection
  <1>3. IsFiniteSet(T)
    BY <1>1, <1>2, FS_Surjection
  <1>4. S \in SUBSET T
    OBVIOUS
  <1>. QED  BY <1>3, <1>4, FS_Subset

LEMMA OffsetsFit ==
    ASSUME NEW ts \in Starts
    PROVE  /\ ts \in Nat /\ LabelLatency \in Nat /\ TenMinutes \in Nat
           /\ TenMinutes < LabelLatency /\ LabelLatency <= Day
           /\ \A o \in BurstOffsets : o \in Nat /\ o < LabelLatency
           /\ \A o \in ProbeOffsets : o \in Nat /\ o <= TenMinutes
           /\ \A o \in LaterOffsets : o \in Nat
           /\ \A hour \in Daytime : hour \in Nat /\ hour < Day
  BY IncidentAssumption, TimeAssumption

LEMMA OnDeviceShape ==
    ASSUME NEW ts \in Starts, NEW card, NEW d, NEW p \in Plans(BurstOffsets),
           NEW r \in OnDevice(card, d, p, ts)
    PROVE  /\ r.part = "burst" /\ r.txn.device = d /\ r.txn.ts \in Nat
           /\ ts <= r.txn.ts /\ r.txn.ts < ts + LabelLatency
  <1>1. PICK k \in Burst : r = DeviceRow(card, d, p, ts, k)
    BY OnDeviceRows
  <1>2. r.part = "burst" /\ r.txn.device = d /\ r.txn.ts = ts + p[k][2]
    BY <1>1 DEF DeviceRow, Row
  <1>3. p[k][2] \in BurstOffsets
    BY DEF Plans
  <1>. QED  BY <1>2, <1>3, OffsetsFit

LEMMA OnDeviceFinite ==
    ASSUME NEW ts, NEW card, NEW d, NEW p
    PROVE  IsFiniteSet(OnDevice(card, d, p, ts))
  <1>. DEFINE f == [k \in Burst |-> DeviceRow(card, d, p, ts, k)]
  <1>1. \A r \in OnDevice(card, d, p, ts) : \E k \in Burst : r = f[k]
    BY OnDeviceRows
  <1>. HIDE DEF f
  <1>. QED  BY <1>1, BurstRowsFinite

LEMMA WarmUpShape ==
    ASSUME NEW ts \in Starts, NEW card, NEW d, NEW m, NEW warm \in WarmUp(card, d, m, ts),
           NEW r \in warm
    PROVE  /\ r.part = "warm-up" /\ r.fraud = FALSE /\ r.txn.card = card /\ r.txn.device = d
           /\ r.txn.ts \in Int /\ r.txn.ts < ts
  <1>1. PICK days \in SUBSET (0 .. WarmDays - 1), hour \in [0 .. WarmDays - 1 -> Daytime] :
            warm = WarmUpOf(card, d, m, ts, days, hour)
    BY WarmUpForm
  <1>2. PICK k \in days : r = GenuineRow(card, d, m, ts, hour, k)
    BY <1>1 DEF WarmUpOf
  <1>3. /\ r.part = "warm-up" /\ r.fraud = FALSE /\ r.txn.card = card /\ r.txn.device = d
        /\ r.txn.ts = WarmStart(ts) + k * Day + hour[k]
    BY <1>2 DEF GenuineRow, Row
  <1>4. k \in Nat /\ WarmDays \in Nat /\ k < WarmDays
    BY IncidentAssumption
  <1>5. k * Day \in Nat /\ WarmDays * Day \in Nat /\ k * Day + Day <= WarmDays * Day
    BY <1>4, DaysApart
  <1>6. ts \in Nat /\ hour[k] \in Nat /\ hour[k] < Day /\ Day \in Nat
    BY OffsetsFit, TimeAssumption
  <1>. QED  BY <1>3, <1>5, <1>6 DEF WarmStart

(* A device with a past: one card in the warm-up, which is over before the *)
(* burst begins.                                                           *)
Trusted(x, card, d, ts) ==
    /\ x.own = {d} /\ x.ts = ts
    /\ \A r \in x.rows :
         /\ r.txn.device = d
         /\ \/ /\ r.part = "warm-up" /\ r.fraud = FALSE
               /\ r.txn.card = card /\ r.txn.ts < ts
            \/ /\ r.part = "burst" /\ ts <= r.txn.ts
               /\ x.variant = "bust_out_synthetic" => r.txn.ts < ts + LabelLatency
    /\ IsFiniteSet({r \in x.rows : r.part = "burst"})

LEMMA TrustedShape ==
    ASSUME NEW ts \in Starts, NEW x \in IncidentsAt(ts),
           x.variant \in {"sleeper_device", "bust_out_synthetic"}
    PROVE  \E card, d : Trusted(x, card, d, ts)
  <1>1. CASE x.variant = "sleeper_device"
    <2>1. PICK card \in Cards : x \in SleeperDevice(card, ts)
      BY <1>1, KindIs
    <2>2. PICK d \in Devices, m \in Merchants : \E warm \in WarmUp(card, d, m, ts) :
              \E victim \in [Burst -> Cards] : \E at \in [Burst -> LaterOffsets] :
              x = SleeperOf(ts, d, m, warm, victim, at)
      BY <2>1, SleeperForm
    <2>3. PICK warm \in WarmUp(card, d, m, ts), victim \in [Burst -> Cards], at \in [Burst -> LaterOffsets] :
              x = SleeperOf(ts, d, m, warm, victim, at)
      BY <2>2
    <2>. DEFINE R == {TurnedRow(ts, d, m, victim, at, k) : k \in Burst}
    <2>4. x.rows = warm \cup R /\ x.own = {d} /\ x.ts = ts
      BY <2>3, IncidentFields DEF SleeperOf
    <2>5. \A r \in R : \E k \in Burst : r = TurnedRow(ts, d, m, victim, at, k)
      OBVIOUS
    <2>. HIDE DEF R
    <2>6. ASSUME NEW r \in R
          PROVE  r.part = "burst" /\ r.txn.device = d /\ ts <= r.txn.ts
      <3>1. PICK k \in Burst : r = TurnedRow(ts, d, m, victim, at, k)
        BY <2>5
      <3>2. r.part = "burst" /\ r.txn.device = d /\ r.txn.ts = ts + at[k]
        BY <3>1 DEF TurnedRow, Row
      <3>3. at[k] \in LaterOffsets
        OBVIOUS
      <3>. QED  BY <3>2, <3>3, OffsetsFit
    <2>7. ASSUME NEW r \in warm
          PROVE  /\ r.part = "warm-up" /\ r.fraud = FALSE
                 /\ r.txn.card = card /\ r.txn.device = d /\ r.txn.ts < ts
      <3>1. ts \in Nat
        BY OffsetsFit
      <3>2. /\ r.part = "warm-up" /\ r.fraud = FALSE /\ r.txn.card = card /\ r.txn.device = d
            /\ r.txn.ts \in Int /\ r.txn.ts < ts
        BY <3>1, WarmUpShape
      <3>. QED  BY <3>2
    <2>8. {r \in x.rows : r.part = "burst"} \in SUBSET R
      <3>. SUFFICES ASSUME NEW r \in x.rows, r.part = "burst" PROVE r \in R
        OBVIOUS
      <3>1. r \notin warm
        BY <2>7
      <3>. QED  BY <2>4, <3>1
    <2>9. IsFiniteSet(R)
      <3>. DEFINE f == [k \in Burst |-> TurnedRow(ts, d, m, victim, at, k)]
      <3>1. \A r \in R : \E k \in Burst : r = f[k]
        BY <2>5
      <3>. HIDE DEF f
      <3>. QED  BY <3>1, BurstRowsFinite
    <2>10. IsFiniteSet({r \in x.rows : r.part = "burst"})
      BY <2>8, <2>9, FS_Subset
    <2>11. Trusted(x, card, d, ts)
      BY <1>1, <2>4, <2>6, <2>7, <2>10 DEF Trusted
    <2>. QED  BY <2>11
  <1>2. CASE x.variant = "bust_out_synthetic"
    <2>1. PICK card \in Cards : x \in BustOutSynthetic(card, ts)
      BY <1>2, KindIs
    <2>2. PICK d \in Devices, m \in Merchants : \E warm \in WarmUp(card, d, m, ts) :
              \E p \in Plans(BurstOffsets) : x = BustOutOf(card, ts, d, warm, p)
      BY <2>1, BustOutForm
    <2>3. PICK warm \in WarmUp(card, d, m, ts), p \in Plans(BurstOffsets) :
              x = BustOutOf(card, ts, d, warm, p)
      BY <2>2
    <2>. DEFINE R == OnDevice(card, d, p, ts)
    <2>4. x.rows = warm \cup R /\ x.own = {d} /\ x.ts = ts
      BY <2>3, IncidentFields DEF BustOutOf
    <2>5. \A r \in R : /\ r.part = "burst" /\ r.txn.device = d
                       /\ ts <= r.txn.ts /\ r.txn.ts < ts + LabelLatency
      BY OnDeviceShape
    <2>6. IsFiniteSet(R)
      BY OnDeviceFinite
    <2>. HIDE DEF R
    <2>7. ASSUME NEW r \in warm
          PROVE  /\ r.part = "warm-up" /\ r.fraud = FALSE
                 /\ r.txn.card = card /\ r.txn.device = d /\ r.txn.ts < ts
      <3>1. ts \in Nat
        BY OffsetsFit
      <3>2. /\ r.part = "warm-up" /\ r.fraud = FALSE /\ r.txn.card = card /\ r.txn.device = d
            /\ r.txn.ts \in Int /\ r.txn.ts < ts
        BY <3>1, WarmUpShape
      <3>. QED  BY <3>2
    <2>8. {r \in x.rows : r.part = "burst"} \in SUBSET R
      <3>. SUFFICES ASSUME NEW r \in x.rows, r.part = "burst" PROVE r \in R
        OBVIOUS
      <3>1. r \notin warm
        BY <2>7
      <3>. QED  BY <2>4, <3>1
    <2>9. IsFiniteSet({r \in x.rows : r.part = "burst"})
      BY <2>6, <2>8, FS_Subset
    <2>10. Trusted(x, card, d, ts)
      BY <2>4, <2>5, <2>7, <2>9 DEF Trusted
    <2>. QED  BY <2>10
  <1>. QED  BY <1>1, <1>2

(* A card test: one merchant, one device, a card for each probe.           *)
Probing(x, d, m, ts) ==
    /\ x.own = {d} /\ x.ts = ts
    /\ \A r \in x.rows :
         /\ r.part = "burst" /\ r.txn.device = d /\ r.txn.merchant = m
         /\ r.txn.amount = Tiny /\ r.txn.ts \in Nat
         /\ ts <= r.txn.ts /\ r.txn.ts <= ts + TenMinutes
    /\ \A r, q \in x.rows : r.txn.card = q.txn.card => r = q
    /\ IsFiniteSet(x.rows)

LEMMA ProbeShape ==
    ASSUME NEW ts \in Starts, NEW x \in IncidentsAt(ts), x.variant = "card_testing"
    PROVE  \E d, m : Probing(x, d, m, ts)
  <1>1. x \in CardTestingBurst(ts)
    BY KindIs
  <1>2. PICK card \in Injection(Burst, Cards), d \in Devices, m \in Merchants,
               at \in [Burst -> ProbeTimes] : x = CardTestOf(ts, card, d, m, at)
    BY <1>1, CardTestForm
  <1>3. \A r \in x.rows : \E k \in Burst : r = ProbeRow(ts, card, d, m, at, k)
    BY <1>2, IncidentFields DEF CardTestOf
  <1>4. x.own = {d} /\ x.ts = ts
    BY <1>2, IncidentFields DEF CardTestOf
  <1>5. ASSUME NEW k \in Burst, NEW r, r = ProbeRow(ts, card, d, m, at, k)
        PROVE  /\ r.part = "burst" /\ r.txn.device = d /\ r.txn.merchant = m
               /\ r.txn.card = card[k] /\ r.txn.amount = Tiny /\ r.txn.ts \in Nat
               /\ ts <= r.txn.ts /\ r.txn.ts <= ts + TenMinutes
    <2>1. /\ r.part = "burst" /\ r.txn.device = d /\ r.txn.merchant = m
          /\ r.txn.card = card[k] /\ r.txn.amount = Tiny /\ r.txn.ts = ts + at[k]
      BY <1>5 DEF ProbeRow, Row
    <2>2. at[k] \in ProbeOffsets
      BY DEF ProbeTimes
    <2>. QED  BY <2>1, <2>2, OffsetsFit
  <1>6. \A j, k \in Burst : card[j] = card[k] => j = k
    BY DEF Injection, IsInjective
  <1>7. \A r, q \in x.rows : r.txn.card = q.txn.card => r = q
    <2>. SUFFICES ASSUME NEW r \in x.rows, NEW q \in x.rows, r.txn.card = q.txn.card
                  PROVE  r = q
      OBVIOUS
    <2>1. PICK j \in Burst : r = ProbeRow(ts, card, d, m, at, j)
      BY <1>3
    <2>2. PICK k \in Burst : q = ProbeRow(ts, card, d, m, at, k)
      BY <1>3
    <2>3. card[j] = card[k]
      BY <1>5, <2>1, <2>2
    <2>. QED  BY <1>6, <2>1, <2>2, <2>3
  <1>8. IsFiniteSet(x.rows)
    <2>. DEFINE f == [k \in Burst |-> ProbeRow(ts, card, d, m, at, k)]
    <2>1. \A r \in x.rows : \E k \in Burst : r = f[k]
      BY <1>3
    <2>. HIDE DEF f
    <2>. QED  BY <2>1, BurstRowsFinite
  <1>9. \A r \in x.rows :
            /\ r.part = "burst" /\ r.txn.device = d /\ r.txn.merchant = m
            /\ r.txn.amount = Tiny /\ r.txn.ts \in Nat
            /\ ts <= r.txn.ts /\ r.txn.ts <= ts + TenMinutes
    BY <1>3, <1>5
  <1>10. Probing(x, d, m, ts)
    BY <1>4, <1>7, <1>8, <1>9 DEF Probing
  <1>. QED  BY <1>10

(* The kinds that are over within the label latency.                       *)
Outrunning == {"label_latency_ring", "card_testing", "card_testing_evasive", "cnp_burst",
               "ato_burst", "bust_out_synthetic"}

LEMMA OutrunShape ==
    ASSUME NEW ts \in Starts, NEW x \in IncidentsAt(ts), x.variant \in Outrunning
    PROVE  /\ x.ts = ts
           /\ \A r \in x.rows : /\ r.txn.device \in x.own
                                /\ r.txn.ts < ts + LabelLatency
                                /\ r.fraud => ts <= r.txn.ts
  <1>0. /\ ts \in Nat /\ LabelLatency \in Nat /\ TenMinutes \in Nat /\ TenMinutes < LabelLatency
        /\ \A r \in x.rows : r.txn.ts \in Nat
    BY OffsetsFit, PlannedFits, TxnOf DEF RowsFit
  <1>1. CASE x.variant = "card_testing"
    <2>1. PICK d, m : Probing(x, d, m, ts)
      BY <1>1, ProbeShape
    <2>. QED  BY <1>0, <2>1 DEF Probing
  <1>2. CASE x.variant \in {"label_latency_ring", "card_testing_evasive"}
    <2>1. x \in CardTestingEvasive(ts) \cup LabelLatencyRing(ts)
      BY <1>2, KindIs
    <2>2. PICK v \in {"card_testing_evasive", "label_latency_ring"} :
            \E card \in [Burst -> Cards], d \in [Burst -> Devices],
               p \in Plans(BurstOffsets), amount \in Amounts : x = SpreadOf(v, ts, card, d, p, amount)
      BY <2>1, SpreadForm
    <2>3. PICK card \in [Burst -> Cards], d \in [Burst -> Devices],
               p \in Plans(BurstOffsets), amount \in Amounts : x = SpreadOf(v, ts, card, d, p, amount)
      BY <2>2
    <2>4. /\ \A r \in x.rows : \E k \in Burst : r = SpreadRow(ts, card, d, p, amount, k)
          /\ x.own = Range(d) /\ x.ts = ts
      BY <2>3, IncidentFields DEF SpreadOf
    <2>5. ASSUME NEW r \in x.rows
          PROVE  r.txn.device \in x.own /\ r.txn.ts < ts + LabelLatency /\ ts <= r.txn.ts
      <3>1. PICK k \in Burst : r = SpreadRow(ts, card, d, p, amount, k)
        BY <2>4
      <3>2. r.txn.device = d[k] /\ r.txn.ts = ts + p[k][2]
        BY <3>1 DEF SpreadRow, Row
      <3>3. p[k][2] \in BurstOffsets
        BY DEF Plans
      <3>4. d[k] \in x.own
        BY <2>4 DEF Range
      <3>. QED  BY <3>2, <3>3, <3>4, OffsetsFit
    <2>. QED  BY <2>4, <2>5
  <1>3. CASE x.variant \in {"cnp_burst", "ato_burst"}
    <2>1. PICK c \in Cards : x \in CnpBurst(c, ts) \cup CnpEvasive(c, ts) \cup AtoBurst(c, ts)
                                       \cup LowSlowProfile(c, ts)
      BY <1>3, KindIs
    <2>2. \E d \in Devices, p \in Plans(BurstOffsets) : x.rows = OnDevice(c, d, p, ts) /\ x.own = {d} /\ x.ts = ts
      <3>. DEFINE S == Plans({k * Day : k \in Burst})
      <3>1. \E d \in Devices :
              \/ \E v \in {"cnp_burst", "ato_burst"}, p \in Plans(BurstOffsets) :
                   x = BurstOf(v, c, ts, d, p)
              \/ \E p \in Plans(LaterOffsets) : x = BurstOf("cnp_evasive", c, ts, d, p)
              \/ \E p \in S : x = LowSlowOf(c, ts, d, p)
        BY <2>1, OnDeviceForm
      <3>. HIDE DEF S
      <3>2. /\ \A v, d, p : /\ BurstOf(v, c, ts, d, p).variant = v
                            /\ BurstOf(v, c, ts, d, p).rows = OnDevice(c, d, p, ts)
                            /\ BurstOf(v, c, ts, d, p).own = {d}
                            /\ BurstOf(v, c, ts, d, p).ts = ts
            /\ \A d, p : LowSlowOf(c, ts, d, p).variant = "low_slow_profile"
        BY IncidentFields DEF BurstOf, LowSlowOf
      <3>. QED  BY <1>3, <3>1, <3>2
    <2>3. PICK d \in Devices, p \in Plans(BurstOffsets) :
              x.rows = OnDevice(c, d, p, ts) /\ x.own = {d} /\ x.ts = ts
      BY <2>2
    <2>. QED  BY <2>3, OnDeviceShape
  <1>4. CASE x.variant = "bust_out_synthetic"
    <2>1. PICK card, d : Trusted(x, card, d, ts)
      BY <1>4, TrustedShape
    <2>2. ASSUME NEW r \in x.rows
          PROVE  /\ r.txn.device \in x.own /\ r.txn.ts < ts + LabelLatency
                 /\ r.fraud => ts <= r.txn.ts
      BY <1>0, <1>4, <2>1 DEF Trusted
    <2>3. x.ts = ts
      BY <2>1 DEF Trusted
    <2>. QED  BY <2>2, <2>3
  <1>. QED  BY <1>1, <1>2, <1>3, <1>4 DEF Outrunning
LEMMA LaterDay ==
    ASSUME NEW ts \in Nat, NEW a \in Nat, NEW b \in Nat, NEW c \in Nat, NEW g \in Nat,
           NEW h \in Nat, NEW day \in Nat, h < day, a + day <= b, b + day <= c
    PROVE  ts + a + h < ts + b + g /\ ts + a + h + day <= ts + c + g
  OBVIOUS

(* The days of a slow burn: each small purchase is before the next, and    *)
(* all but the last are a day or more before the cash-out.                 *)
LEMMA SlowBurnDays ==
    ASSUME NEW ts \in Nat, NEW hour \in [0 .. WarmDays -> Daytime],
           NEW at, at = [k \in 0 .. WarmDays |-> ts + k * Day + hour[k]]
    PROVE  /\ \A k \in 0 .. WarmDays : at[k] \in Nat
           /\ \A j, k \in 0 .. WarmDays : j < k => at[j] < at[k]
           /\ \A k \in 0 .. WarmDays - 2 : at[k] + Day <= at[WarmDays]
           /\ at[0] + (WarmDays - 1) * Day <= at[WarmDays]
  <1>0. WarmDays \in Nat /\ WarmDays >= 1 /\ Day \in Nat
    BY IncidentAssumption, TimeAssumption
  <1>1. \A k \in 0 .. WarmDays : hour[k] \in Nat /\ hour[k] < Day
    <2>. SUFFICES ASSUME NEW k \in 0 .. WarmDays PROVE hour[k] \in Nat /\ hour[k] < Day
      OBVIOUS
    <2>1. hour[k] \in Daytime
      OBVIOUS
    <2>2. \A h \in Daytime : h \in Nat /\ h < Day
      BY IncidentAssumption, TimeAssumption
    <2>. QED  BY <2>1, <2>2
  <1>2. \A k \in 0 .. WarmDays : k * Day \in Nat
    BY <1>0, DaysFit
  <1>3. \A k \in 0 .. WarmDays : at[k] = ts + k * Day + hour[k]
    OBVIOUS
  <1>4. \A k \in 0 .. WarmDays : at[k] \in Nat
    BY <1>1, <1>2, <1>3
  <1>5. ASSUME NEW j \in 0 .. WarmDays, NEW k \in 0 .. WarmDays, j < k
        PROVE  at[j] < at[k]
    <2>1. j \in Nat /\ k \in Nat
      BY <1>0
    <2>2. j * Day + Day <= k * Day
      BY <1>5, <2>1, DaysApart
    <2>3. /\ j * Day \in Nat /\ k * Day \in Nat /\ hour[j] \in Nat /\ hour[j] < Day /\ hour[k] \in Nat
          /\ at[j] = ts + j * Day + hour[j] /\ at[k] = ts + k * Day + hour[k]
      BY <1>1, <1>2, <1>3
    <2>4. k * Day + Day \in Nat /\ k * Day + Day <= k * Day + Day
      BY <1>0, <2>3
    <2>5. ts + j * Day + hour[j] < ts + k * Day + hour[k]
      BY <1>0, <2>2, <2>3, <2>4, LaterDay
    <2>. QED  BY <2>3, <2>5
  <1>6. ASSUME NEW k \in 0 .. WarmDays - 2
        PROVE  at[k] + Day <= at[WarmDays]
    <2>1. k \in Nat /\ k + 1 \in Nat /\ k < k + 1 /\ k + 1 < WarmDays
          /\ k \in 0 .. WarmDays /\ k + 1 \in 0 .. WarmDays /\ WarmDays \in 0 .. WarmDays
      BY <1>0
    <2>2. k * Day + Day <= (k + 1) * Day
      BY <2>1, DaysApart
    <2>3. (k + 1) * Day + Day <= WarmDays * Day
      BY <1>0, <2>1, DaysApart
    <2>4. /\ k * Day \in Nat /\ (k + 1) * Day \in Nat /\ WarmDays * Day \in Nat
          /\ hour[k] \in Nat /\ hour[k] < Day /\ hour[WarmDays] \in Nat
          /\ at[k] = ts + k * Day + hour[k] /\ at[WarmDays] = ts + WarmDays * Day + hour[WarmDays]
      BY <1>1, <1>2, <1>3, <2>1
    <2>5. ts + k * Day + hour[k] + Day <= ts + WarmDays * Day + hour[WarmDays]
      BY <1>0, <2>2, <2>3, <2>4, LaterDay
    <2>. QED  BY <2>4, <2>5
  <1>7. at[0] + (WarmDays - 1) * Day <= at[WarmDays]
    <2>1. WarmDays - 1 \in Nat /\ WarmDays - 1 < WarmDays /\ WarmDays - 1 \in 0 .. WarmDays
          /\ 0 \in 0 .. WarmDays /\ WarmDays \in 0 .. WarmDays
      BY <1>0
    <2>2. (WarmDays - 1) * Day + Day <= WarmDays * Day
      BY <1>0, <2>1, DaysApart
    <2>3. /\ (WarmDays - 1) * Day \in Nat /\ WarmDays * Day \in Nat /\ 0 * Day = 0
          /\ hour[0] \in Nat /\ hour[0] < Day /\ hour[WarmDays] \in Nat
          /\ at[0] = ts + 0 * Day + hour[0] /\ at[WarmDays] = ts + WarmDays * Day + hour[WarmDays]
      BY <1>0, <1>1, <1>2, <1>3, <2>1
    <2>. QED  BY <1>0, <2>2, <2>3
  <1>. QED  BY <1>4, <1>5, <1>6, <1>7

(* Its purchases are on one card and one device, at the times `at`.        *)
SlowBurns(x, card, d, at) ==
    /\ x.own = {d}
    /\ \A r \in x.rows : r.txn.device = d /\ r.txn.card = card /\ r.fraud = TRUE
    /\ \A k \in 0 .. WarmDays - 1 : \E r \in x.rows : r.txn.ts = at[k]
    /\ \A r \in x.rows : r.part = "cash-out" => r.txn.ts = at[WarmDays]
    /\ \A k \in 0 .. WarmDays : at[k] \in Nat
    /\ \A j, k \in 0 .. WarmDays : j < k => at[j] < at[k]
    /\ \A k \in 0 .. WarmDays - 2 : at[k] + Day <= at[WarmDays]
    /\ at[0] + (WarmDays - 1) * Day <= at[WarmDays]

LEMMA SlowBurnShape ==
    ASSUME NEW ts \in Starts, NEW x \in IncidentsAt(ts), x.variant = "ato_slow_burn"
    PROVE  \E card, d, at : SlowBurns(x, card, d, at)
  <1>0. WarmDays \in Nat /\ WarmDays >= 1 /\ ts \in Nat
    BY IncidentAssumption, OffsetsFit
  <1>1. PICK card \in Cards : x \in AtoSlowBurn(card, ts)
    BY KindIs
  <1>2. PICK d \in Devices, m \in Merchants, hour \in [0 .. WarmDays -> Daytime] :
            x = SlowBurnOf(card, ts, d, m, hour)
    BY <1>1, SlowBurnForm
  <1>. DEFINE R == {WarmRow(card, ts, d, m, hour, k) : k \in 0 .. WarmDays - 1}
              at == [k \in 0 .. WarmDays |-> ts + k * Day + hour[k]]
  <1>3. x.rows = R \cup {CashOutRow(card, ts, d, m, hour)} /\ x.own = {d}
    BY <1>2, IncidentFields DEF SlowBurnOf
  <1>4. /\ \A r \in R : \E k \in 0 .. WarmDays - 1 : r = WarmRow(card, ts, d, m, hour, k)
        /\ \A k \in 0 .. WarmDays - 1 : WarmRow(card, ts, d, m, hour, k) \in R
    OBVIOUS
  <1>5. /\ \A k \in 0 .. WarmDays : at[k] \in Nat
        /\ \A j, k \in 0 .. WarmDays : j < k => at[j] < at[k]
        /\ \A k \in 0 .. WarmDays - 2 : at[k] + Day <= at[WarmDays]
        /\ at[0] + (WarmDays - 1) * Day <= at[WarmDays]
    <2>. HIDE DEF R
    <2>. QED  BY <1>0, SlowBurnDays
  <1>6. \A k \in 0 .. WarmDays : at[k] = ts + k * Day + hour[k]
    OBVIOUS
  <1>. HIDE DEF R, at
  <1>7. ASSUME NEW k \in 0 .. WarmDays - 1, NEW r, r = WarmRow(card, ts, d, m, hour, k)
        PROVE  /\ r.txn.device = d /\ r.txn.card = card /\ r.fraud = TRUE
               /\ r.part = "warm-up" /\ r.txn.ts = at[k]
    <2>1. k \in 0 .. WarmDays
      BY <1>0
    <2>. QED  BY <1>6, <1>7, <2>1 DEF WarmRow, Row
  <1>8. ASSUME NEW r, r = CashOutRow(card, ts, d, m, hour)
        PROVE  /\ r.txn.device = d /\ r.txn.card = card /\ r.fraud = TRUE
               /\ r.txn.ts = at[WarmDays]
    <2>1. WarmDays \in 0 .. WarmDays
      BY <1>0
    <2>. QED  BY <1>6, <1>8, <2>1 DEF CashOutRow, Row, CashOutDay
  <1>9. \A r \in x.rows : r.txn.device = d /\ r.txn.card = card /\ r.fraud = TRUE
    BY <1>3, <1>4, <1>7, <1>8
  <1>10. \A k \in 0 .. WarmDays - 1 : \E r \in x.rows : r.txn.ts = at[k]
    BY <1>3, <1>4, <1>7
  <1>11. \A r \in x.rows : r.part = "cash-out" => r.txn.ts = at[WarmDays]
    BY <1>3, <1>4, <1>7, <1>8
  <1>12. SlowBurns(x, card, d, at)
    BY <1>3, <1>5, <1>9, <1>10, <1>11 DEF SlowBurns
  <1>. QED  BY <1>12

-----------------------------------------------------------------------------
(* Counting: a set into which another has an injection has as many         *)
(* elements, and the image of a set has no more.                           *)
LEMMA OneForEach ==
    ASSUME NEW S, NEW T, IsFiniteSet(T), NEW f \in [S -> T],
           \A a, b \in S : f[a] = f[b] => a = b
    PROVE  /\ IsFiniteSet(S) /\ Cardinality(S) \in Nat /\ Cardinality(T) \in Nat
           /\ Cardinality(S) <= Cardinality(T)
  <1>1. f \in Injection(S, T)
    BY DEF Injection, IsInjective
  <1>. QED  BY <1>1, FS_Injection, FS_CardinalityType

LEMMA NoMoreImages ==
    ASSUME NEW S, NEW T, IsFiniteSet(S), NEW f \in [S -> T], \A t \in T : \E a \in S : f[a] = t
    PROVE  /\ IsFiniteSet(T) /\ Cardinality(S) \in Nat /\ Cardinality(T) \in Nat
           /\ Cardinality(T) <= Cardinality(S)
           /\ (\A a, b \in S : f[a] = f[b] => a = b) => Cardinality(T) = Cardinality(S)
  <1>1. f \in Surjection(S, T)
    BY DEF Surjection
  <1>2. (\A a, b \in S : f[a] = f[b] => a = b) => f \in Injection(S, T)
    BY DEF Injection, IsInjective
  <1>. QED  BY <1>1, <1>2, FS_Surjection, FS_CardinalityType

LEMMA FewerMarks ==
    ASSUME NEW M \in Seq(Named), NEW S \in SUBSET DOMAIN M, NEW T \in SUBSET S
    PROVE  /\ IsFiniteSet(S) /\ Cardinality(S) \in Nat /\ Cardinality(T) \in Nat
           /\ Cardinality(T) <= Cardinality(S)
  <1>1. IsFiniteSet(DOMAIN M)
    <2>1. DOMAIN M = 1 .. Len(M) /\ Len(M) \in Nat
      OBVIOUS
    <2>. QED  BY <2>1, FS_Interval
  <1>2. IsFiniteSet(S)
    BY <1>1, FS_Subset
  <1>. QED  BY <1>2, FS_Subset, FS_CardinalityType

-----------------------------------------------------------------------------
(* The features of the rows of an incident.                                *)

(* An incident that is over within the label latency is never marked by    *)
(* its own confirmations (datagen.py, _label_latency_ring), whatever the   *)
(* rows around it are and however they interleave with its own.            *)
THEOREM IncidentsOutrunLabels == FrameSpec => []BurstsOutrunLabels
  <1>1. ASSUME IncidentInv PROVE BurstsOutrunLabels
    <2>. SUFFICES ASSUME Reading(Outrunning)
                  PROVE  /\ features.device_confirmed_fraud_links = 0
                         /\ features.card_prior_confirmed_fraud
                              <= Cardinality({i \in DOMAIN confirmed :
                                    /\ confirmed[i].card = current.txn.card
                                    /\ confirmed[i].visible < incident.ts + LabelLatency})
                         /\ features.merchant_confirmed_fraud_links
                              <= Cardinality({i \in DOMAIN confirmed :
                                    /\ confirmed[i].merchant = current.txn.merchant
                                    /\ confirmed[i].visible < incident.ts + LabelLatency})
      BY DEF BurstsOutrunLabels, Outrunning
    <2>. DEFINE before == incident.rows \ (due \cup {current})
                VD == {j \in DOMAIN confirmed : confirmed[j].visible <= asked.ts
                                                /\ confirmed[j].device = asked.device}
                VC == {j \in DOMAIN confirmed : confirmed[j].visible <= asked.ts
                                                /\ confirmed[j].card = asked.card}
                VM == {j \in DOMAIN confirmed : confirmed[j].visible <= asked.ts
                                                /\ confirmed[j].merchant = asked.merchant}
                EC == {i \in DOMAIN confirmed : /\ confirmed[i].card = current.txn.card
                                                /\ confirmed[i].visible < incident.ts + LabelLatency}
                EM == {i \in DOMAIN confirmed : /\ confirmed[i].merchant = current.txn.merchant
                                                /\ confirmed[i].visible < incident.ts + LabelLatency}
    <2>1. /\ incident.variant \in Outrunning
          /\ current \in incident.rows /\ current.txn = asked /\ asked \in Txns
          /\ features = FeaturesOf(asked)
          /\ MarksHave(incident.own, before, before, confirmed)
          /\ confirmed \in Seq(Named)
          /\ \E s \in Starts : incident \in IncidentsAt(s)
      BY <1>1, ReadingRow
    <2>2. PICK s \in Starts : incident \in IncidentsAt(s)
      BY <2>1
    <2>3. /\ incident.ts = s
          /\ \A r \in incident.rows : /\ r.txn.device \in incident.own
                                      /\ r.txn.ts < s + LabelLatency
                                      /\ r.fraud => s <= r.txn.ts
      BY <2>1, <2>2, OutrunShape
    <2>4. /\ s \in Nat /\ LabelLatency \in Nat /\ asked.ts \in Nat
          /\ asked.ts < s + LabelLatency /\ asked.device \in incident.own
      BY <2>1, <2>3, OffsetsFit, TxnOf
    <2>5. \A j \in DOMAIN confirmed : confirmed[j].visible \in Nat
      <3>1. \A j \in DOMAIN confirmed : confirmed[j] \in Named
        BY <2>1
      <3>2. \A m \in Named : m.visible \in Nat
        BY DEF Named
      <3>. QED  BY <3>1, <3>2
    <2>6. VD = {}
      <3>. SUFFICES ASSUME NEW j \in DOMAIN confirmed, confirmed[j].visible <= asked.ts,
                           confirmed[j].device = asked.device
                    PROVE  FALSE
        OBVIOUS
      <3>1. PICK r \in before : r.fraud /\ confirmed[j] = MarkOf(r.txn)
        BY <2>1, <2>4 DEF MarksHave
      <3>2. confirmed[j].visible = r.txn.ts + LabelLatency /\ s <= r.txn.ts
        BY <2>3, <3>1 DEF MarkOf
      <3>3. r.txn.ts \in Nat
        BY <2>2, <3>1, PlannedFits, TxnOf DEF RowsFit
      <3>. QED  BY <2>4, <3>2, <3>3
    <2>7. VC \in SUBSET EC /\ VM \in SUBSET EM
      BY <2>1, <2>3, <2>4, <2>5
    <2>8. /\ Cardinality(VC) <= Cardinality(EC)
          /\ Cardinality(VM) <= Cardinality(EM)
          /\ Cardinality(VC) \in Nat /\ Cardinality(EC) \in Nat
      BY <2>1, <2>7, FewerMarks
    <2>9. /\ features.device_confirmed_fraud_links = Cardinality(VD)
          /\ features.card_prior_confirmed_fraud = AtMost(Cardinality(VC), MarkCap)
          /\ features.merchant_confirmed_fraud_links = Cardinality(VM)
      <3>1. features = FeaturesOf(asked)
        BY <2>1
      <3>. QED  BY <3>1, MarksOfRow
    <2>10. Cardinality({}) = 0
      BY FS_EmptySet
    <2>11. AtMost(Cardinality(VC), MarkCap) <= Cardinality(EC)
      BY <2>8, AmountAssumption DEF AtMost
    <2>. QED  BY <2>6, <2>8, <2>9, <2>10, <2>11
  <1>. QED  BY <1>1, IncidentInvariant, PTL

(* The age of a device is at least that of any row on it.                  *)
LEMMA AgeIsOfFirst ==
    ASSUME log \in Seq(Txns), Ascending(log), NEW S \in SUBSET DOMAIN log, NEW i \in S,
           NEW now \in Nat
    PROVE  AgeOfFirst(S, now) \in Int /\ now - log[i].ts <= AgeOfFirst(S, now)
  <1>1. /\ DOMAIN log \in SUBSET Nat
        /\ \A k \in DOMAIN log : log[k].ts \in Nat
    BY LogFacts
  <1>2. Min(S) \in S /\ Min(S) <= i
    BY <1>1, MinIsLeast
  <1>3. log[Min(S)].ts <= log[i].ts
    BY <1>2 DEF Ascending
  <1>4. AgeOfFirst(S, now) = now - log[Min(S)].ts
    BY DEF AgeOfFirst
  <1>5. log[Min(S)].ts \in Nat /\ log[i].ts \in Nat
    BY <1>1, <1>2
  <1>. QED  BY <1>3, <1>4, <1>5

(* A slow burn does not outrun the label loop: when the cash-out is read   *)
(* the small purchases were read, each on its day, and all but the last    *)
(* have been confirmed for LABEL_LATENCY (datagen.py, _ato_slow_burn).     *)
THEOREM CashOutsAreMarked == FrameSpec => []CashOutIsMarked
  <1>1. ASSUME IncidentInv PROVE CashOutIsMarked
    <2>. SUFFICES ASSUME Reading({"ato_slow_burn"}), current.part = "cash-out"
                  PROVE  /\ ~features.is_new_device_for_card
                         /\ features.device_confirmed_fraud_links >= WarmDays - 1
                         /\ features.device_observed_age >= (WarmDays - 1) * Day
      BY DEF CashOutIsMarked
    <2>. DEFINE before == incident.rows \ (due \cup {current})
                C == {i \in DOMAIN log : log[i].card = asked.card}
                D == {i \in DOMAIN log : log[i].device = asked.device}
                V == {j \in DOMAIN confirmed : confirmed[j].visible <= asked.ts
                                               /\ confirmed[j].device = asked.device}
    <2>0. incident.variant = "ato_slow_burn"
      BY DEF Reading
    <2>1. /\ incident.variant \in {"ato_slow_burn"}
          /\ \E s \in Starts : incident \in IncidentsAt(s)
          /\ current \in incident.rows /\ current.txn = asked /\ asked \in Txns
          /\ features = FeaturesOf(asked)
          /\ \A r \in due : asked.ts <= r.txn.ts
          /\ LogHas(incident.own, before, log)
          /\ MarksHave(incident.own, before, before, confirmed)
          /\ log \in Seq(Txns) /\ Ascending(log)
          /\ confirmed \in Seq(Named)
      BY <1>1, ReadingRow
    <2>2. PICK s \in Starts : incident \in IncidentsAt(s)
      BY <2>1
    <2>3. PICK card, d, at : SlowBurns(incident, card, d, at)
      BY <2>0, <2>2, SlowBurnShape
    <2>4. /\ asked.card = card /\ asked.device = d /\ asked.ts = at[WarmDays]
          /\ asked.ts \in Nat
      BY <2>1, <2>3, TxnOf DEF SlowBurns
    <2>5. /\ WarmDays \in Nat /\ WarmDays >= 1 /\ Day \in Nat /\ LabelLatency \in Nat
          /\ LabelLatency <= Day /\ (WarmDays - 1) * Day \in Nat
      BY IncidentAssumption, TimeAssumption, DaysFit
    <2>6. ASSUME NEW k \in 0 .. WarmDays - 1
          PROVE  \E r \in before : /\ r.txn.ts = at[k] /\ r.txn.device = d
                                   /\ r.txn.card = card /\ r.fraud = TRUE
      <3>1. PICK r \in incident.rows : r.txn.ts = at[k]
        BY <2>3 DEF SlowBurns
      <3>2. k \in 0 .. WarmDays /\ WarmDays \in 0 .. WarmDays /\ k < WarmDays
        BY <2>5
      <3>3. at[k] < at[WarmDays] /\ at[k] \in Nat /\ at[WarmDays] \in Nat
        BY <2>3, <3>2 DEF SlowBurns
      <3>4. r # current
        BY <2>1, <2>4, <3>1, <3>3
      <3>5. r \notin due
        BY <2>1, <2>4, <3>1, <3>3
      <3>6. r.txn.device = d /\ r.txn.card = card /\ r.fraud = TRUE
        BY <2>3 DEF SlowBurns
      <3>. QED  BY <3>1, <3>4, <3>5, <3>6
    <2>7. PICK i \in D : log[i].ts = at[0] /\ i \in C
      <3>1. 0 \in 0 .. WarmDays - 1
        BY <2>5
      <3>2. PICK r \in before : r.txn.ts = at[0] /\ r.txn.device = d /\ r.txn.card = card
        BY <2>6, <3>1
      <3>3. PICK i \in DOMAIN log : log[i] = r.txn
        BY <2>1, <3>2 DEF LogHas
      <3>. QED  BY <2>4, <3>2, <3>3
    <2>8. /\ features.is_new_device_for_card = (C \cap D = {})
          /\ features.device_observed_age = AgeOfFirst(D, asked.ts)
      <3>1. features = FeaturesOf(asked)
        BY <2>1
      <3>. QED  BY <3>1, HistoryOfRow
    <2>9. features.device_confirmed_fraud_links = Cardinality(V)
      <3>1. features = FeaturesOf(asked)
        BY <2>1
      <3>. QED  BY <3>1, MarksOfRow
    <2>10. ~features.is_new_device_for_card
      BY <2>7, <2>8
    <2>11. features.device_observed_age >= (WarmDays - 1) * Day
      <3>1. D \in SUBSET DOMAIN log
        OBVIOUS
      <3>2. AgeOfFirst(D, asked.ts) \in Int /\ asked.ts - at[0] <= AgeOfFirst(D, asked.ts)
        BY <2>1, <2>4, <2>7, <3>1, AgeIsOfFirst
      <3>3. at[0] + (WarmDays - 1) * Day <= asked.ts /\ at[0] \in Nat
        <4>1. 0 \in 0 .. WarmDays
          BY <2>5
        <4>. QED  BY <2>3, <2>4, <4>1 DEF SlowBurns
      <3>. HIDE DEF D
      <3>. QED  BY <2>4, <2>5, <2>8, <3>2, <3>3
    <2>12. Cardinality(V) >= WarmDays - 1
      <3>. DEFINE S == 0 .. WarmDays - 2
                  Mark(k) == CHOOSE j \in V : confirmed[j].visible = at[k] + LabelLatency
                  f == [k \in S |-> Mark(k)]
      <3>1. ASSUME NEW k \in S
            PROVE  \E j \in V : confirmed[j].visible = at[k] + LabelLatency
        <4>1. k \in 0 .. WarmDays - 1
          BY <2>5
        <4>2. PICK r \in before : r.txn.ts = at[k] /\ r.txn.device = d /\ r.fraud = TRUE
          BY <2>6, <4>1
        <4>3. PICK j \in DOMAIN confirmed : confirmed[j] = MarkOf(r.txn)
          BY <2>1, <4>2 DEF MarksHave
        <4>4. confirmed[j].visible = at[k] + LabelLatency /\ confirmed[j].device = d
          BY <4>2, <4>3 DEF MarkOf
        <4>5. k \in 0 .. WarmDays
          BY <2>5
        <4>6. at[k] \in Nat /\ at[k] + Day <= asked.ts
          BY <2>3, <2>4, <4>5 DEF SlowBurns
        <4>7. confirmed[j].visible <= asked.ts
          BY <2>4, <2>5, <4>4, <4>6
        <4>. QED  BY <2>4, <4>4, <4>7
      <3>2. \A k \in S : Mark(k) \in V /\ confirmed[Mark(k)].visible = at[k] + LabelLatency
        BY <3>1
      <3>. HIDE DEF Mark
      <3>3. f \in [S -> V] /\ \A k \in S : confirmed[f[k]].visible = at[k] + LabelLatency
        BY <3>2
      <3>. HIDE DEF f
      <3>4. \A j, k \in S : f[j] = f[k] => j = k
        <4>. SUFFICES ASSUME NEW j \in S, NEW k \in S, f[j] = f[k] PROVE j = k
          OBVIOUS
        <4>1. j \in 0 .. WarmDays /\ k \in 0 .. WarmDays /\ j \in Int /\ k \in Int
          BY <2>5
        <4>2. at[j] \in Nat /\ at[k] \in Nat /\ (j < k => at[j] < at[k]) /\ (k < j => at[k] < at[j])
          BY <2>3, <4>1 DEF SlowBurns
        <4>3. at[j] + LabelLatency = at[k] + LabelLatency
          BY <3>3
        <4>4. at[j] = at[k]
          BY <2>5, <4>2, <4>3
        <4>. QED  BY <4>1, <4>2, <4>4
      <3>5. IsFiniteSet(V)
        <4>1. V \in SUBSET DOMAIN confirmed /\ {} \in SUBSET V
          OBVIOUS
        <4>. QED  BY <2>1, <4>1, FewerMarks
      <3>6. Cardinality(S) <= Cardinality(V) /\ Cardinality(V) \in Nat
        <4>. HIDE DEF S, V
        <4>. QED  BY <3>3, <3>4, <3>5, OneForEach
      <3>7. Cardinality(S) = WarmDays - 1
        <4>1. 0 \in Int /\ WarmDays - 2 \in Int
          BY <2>5
        <4>2. Cardinality(S) = IF 0 > WarmDays - 2 THEN 0 ELSE WarmDays - 2 - 0 + 1
          BY <4>1, FS_Interval
        <4>. QED  BY <2>5, <4>2
      <3>. HIDE DEF S, V
      <3>. QED  BY <2>5, <3>6, <3>7
    <2>. HIDE DEF V
    <2>. QED  BY <2>9, <2>10, <2>11, <2>12
  <1>. QED  BY <1>1, IncidentInvariant, PTL

(* A trusted device gains a card at most with each row of the burst, and   *)
(* is as old as its first purchase (datagen.py, _sleeper_device_burst:     *)
(* device_alltime_cards "stays at 1 through the whole warm-up and only     *)
(* creeps up card-by-card").                                               *)
THEOREM TrustedDevicesCreepUp == FrameSpec => []TrustedDeviceCreepsUp
  <1>1. ASSUME IncidentInv PROVE TrustedDeviceCreepsUp
    <2>. SUFFICES ASSUME Reading({"sleeper_device", "bust_out_synthetic"})
                  PROVE  /\ features.device_alltime_cards <= 1 + Cardinality(ReadBefore("burst"))
                         /\ current.part = "warm-up" => ReadBefore("burst") = {}
                         /\ \A r \in ReadBefore("warm-up") :
                              features.device_observed_age >= current.txn.ts - r.txn.ts
      BY DEF TrustedDeviceCreepsUp
    <2>. DEFINE before == incident.rows \ (due \cup {current})
                D == {i \in DOMAIN log : log[i].device = asked.device}
                K == {log[i].card : i \in D}
                B == ReadBefore("burst")
    <2>0. /\ \A r \in B : r \in before /\ r.part = "burst"
          /\ \A r \in before : r.part = "burst" => r \in B
          /\ \A r \in ReadBefore("warm-up") : r \in before
      BY DEF ReadBefore
    <2>1. /\ incident.variant \in {"sleeper_device", "bust_out_synthetic"}
          /\ \E s \in Starts : incident \in IncidentsAt(s)
          /\ current \in incident.rows /\ current.txn = asked /\ asked \in Txns
          /\ features = FeaturesOf(asked)
          /\ LogHas(incident.own, before, log)
          /\ log \in Seq(Txns) /\ Ascending(log)
          /\ \A i \in DOMAIN log : log[i].ts <= asked.ts
      BY <1>1, ReadingRow
    <2>2. PICK s \in Starts : incident \in IncidentsAt(s)
      BY <2>1
    <2>3. PICK card, d : Trusted(incident, card, d, s)
      BY <2>1, <2>2, TrustedShape
    <2>4. asked.device = d /\ asked.ts \in Nat /\ s \in Nat
      BY <2>1, <2>3, TxnOf, OffsetsFit DEF Trusted
    <2>5. \A r \in before : \E i \in D : log[i] = r.txn
      <3>. SUFFICES ASSUME NEW r \in before PROVE \E i \in D : log[i] = r.txn
        OBVIOUS
      <3>1. PICK i \in DOMAIN log : log[i] = r.txn
        BY <2>1 DEF LogHas
      <3>2. r.txn.device = d
        BY <2>3 DEF Trusted
      <3>. QED  BY <2>4, <3>1, <3>2
    <2>6. \A i \in D : \E r \in before : log[i] = r.txn
      <3>1. incident.own = {d}
        BY <2>3 DEF Trusted
      <3>. QED  BY <2>1, <2>4, <3>1 DEF LogHas
    <2>7. /\ features.device_observed_age = AgeOfFirst(D, asked.ts)
          /\ features.device_alltime_cards = Cardinality(K)
      <3>1. features = FeaturesOf(asked)
        BY <2>1
      <3>. QED  BY <3>1, HistoryOfRow
    <2>8. Cardinality(K) <= 1 + Cardinality(B)
      <3>. DEFINE cardOf == [r \in B |-> r.txn.card]
                  BC == {cardOf[r] : r \in B}
      <3>1. IsFiniteSet(B)
        <4>1. B \in SUBSET {r \in incident.rows : r.part = "burst"}
          BY <2>0
        <4>. QED  BY <2>3, <4>1, FS_Subset DEF Trusted
      <3>2. cardOf \in [B -> BC] /\ \A c \in BC : \E r \in B : cardOf[r] = c
        OBVIOUS
      <3>3. \A r \in B : r.txn.card \in BC
        OBVIOUS
      <3>. HIDE DEF cardOf, BC, B
      <3>4. IsFiniteSet(BC) /\ Cardinality(BC) <= Cardinality(B)
            /\ Cardinality(BC) \in Nat /\ Cardinality(B) \in Nat
        BY <3>1, <3>2, NoMoreImages
      <3>5. IsFiniteSet(BC \cup {card}) /\ Cardinality(BC \cup {card}) <= Cardinality(BC) + 1
            /\ Cardinality(BC \cup {card}) \in Nat
        <4>1. /\ IsFiniteSet(BC \cup {card})
              /\ Cardinality(BC \cup {card}) =
                   IF card \in BC THEN Cardinality(BC) ELSE Cardinality(BC) + 1
          BY <3>4, FS_AddElement
        <4>. QED  BY <3>4, <4>1
      <3>6. \A i \in D : log[i].card \in BC \cup {card}
        <4>. SUFFICES ASSUME NEW i \in D PROVE log[i].card \in BC \cup {card}
          OBVIOUS
        <4>1. PICK r \in before : log[i] = r.txn
          BY <2>6
        <4>2. r.part = "burst" \/ r.txn.card = card
          BY <2>3 DEF Trusted
        <4>3. r.part = "burst" => r.txn.card \in BC
          BY <2>0, <3>3
        <4>. QED  BY <4>1, <4>2, <4>3
      <3>7. K \in SUBSET (BC \cup {card})
        BY <3>6
      <3>. HIDE DEF K
      <3>8. Cardinality(K) <= Cardinality(BC \cup {card}) /\ Cardinality(K) \in Nat
        BY <3>5, <3>7, FS_Subset, FS_CardinalityType
      <3>. QED  BY <3>4, <3>5, <3>8
    <2>9. ASSUME current.part = "warm-up", NEW r \in B PROVE FALSE
      <3>1. asked.ts < s
        BY <2>1, <2>3, <2>9 DEF Trusted
      <3>2. s <= r.txn.ts
        BY <2>0, <2>3 DEF Trusted
      <3>3. r.txn.ts <= asked.ts /\ r.txn.ts \in Nat
        <4>1. PICK i \in D : log[i] = r.txn
          BY <2>0, <2>5
        <4>. QED  BY <2>1, <4>1, LogFacts
      <3>. QED  BY <2>4, <3>1, <3>2, <3>3
    <2>10. ASSUME NEW r \in ReadBefore("warm-up")
           PROVE  features.device_observed_age >= current.txn.ts - r.txn.ts
      <3>1. PICK i \in D : log[i] = r.txn
        BY <2>0, <2>5
      <3>2. r.txn.ts \in Nat
        BY <2>1, <3>1, LogFacts
      <3>3. D \in SUBSET DOMAIN log
        OBVIOUS
      <3>. HIDE DEF D
      <3>4. AgeOfFirst(D, asked.ts) \in Int /\ asked.ts - log[i].ts <= AgeOfFirst(D, asked.ts)
        BY <2>1, <2>4, <3>3, AgeIsOfFirst
      <3>. QED  BY <2>1, <2>4, <2>7, <3>1, <3>2, <3>4
    <2>. HIDE DEF K
    <2>11. features.device_alltime_cards <= 1 + Cardinality(ReadBefore("burst"))
      BY <2>7, <2>8
    <2>12. current.part = "warm-up" => ReadBefore("burst") = {}
      BY <2>9
    <2>. QED  BY <2>10, <2>11, <2>12
  <1>. QED  BY <1>1, IncidentInvariant, PTL

LEMMA TinyIsSmall == Tiny \in Nat /\ Tiny < SmallAmount
  <1>1. PICK amount \in Amounts : amount < SmallAmount
    BY FrameAssumption
  <1>2. Amounts \in SUBSET Nat /\ Amounts # {}
    BY AmountAssumption
  <1>3. Min(Amounts) \in Amounts /\ Min(Amounts) <= amount
    BY <1>2, MinIsLeast
  <1>4. Tiny \in Amounts /\ Tiny <= amount
    BY <1>3 DEF Tiny
  <1>5. Tiny \in Nat /\ amount \in Nat /\ SmallAmount \in Nat
    BY <1>2, <1>4, AmountAssumption
  <1>. QED  BY <1>1, <1>4, <1>5

(* Every probe of a card test sees all the probes before it, at the        *)
(* merchant and on the device (datagen.py, _card_testing_burst), however   *)
(* many there are and whatever else is bought in between.                  *)
THEOREM ProbesAreSeen == FrameSpec => []ProbesAddUp
  <1>1. ASSUME IncidentInv PROVE ProbesAddUp
    <2>. SUFFICES ASSUME Reading({"card_testing"})
                  PROVE  /\ features.merchant_small_amt_10m >= Cardinality(ReadBefore("burst"))
                         /\ features.device_card_count_1h = Cardinality(ReadBefore("burst"))
      BY DEF ProbesAddUp
    <2>. DEFINE before == incident.rows \ (due \cup {current})
                D == {i \in DOMAIN log : log[i].device = asked.device}
                M == {i \in DOMAIN log : log[i].merchant = asked.merchant}
                U == {i \in D : log[i].ts >= asked.ts - Hour}
                Z == {i \in M : log[i].ts >= asked.ts - TenMinutes}
                K == {log[i].card : i \in U}
                Y == {i \in Z : log[i].amount < SmallAmount}
                B == ReadBefore("burst")
    <2>0. incident.variant = "card_testing"
      BY DEF Reading
    <2>1. /\ incident.variant \in {"card_testing"}
          /\ \E s \in Starts : incident \in IncidentsAt(s)
          /\ current \in incident.rows /\ current.txn = asked /\ asked \in Txns
          /\ features = FeaturesOf(asked)
          /\ LogHas(incident.own, before, log)
          /\ log \in Seq(Txns)
      BY <1>1, ReadingRow
    <2>2. PICK s \in Starts : incident \in IncidentsAt(s)
      BY <2>1
    <2>3. PICK d, m : Probing(incident, d, m, s)
      BY <2>0, <2>2, ProbeShape
    <2>4. /\ asked.device = d /\ asked.merchant = m /\ asked.ts \in Nat /\ s \in Nat
          /\ asked.ts <= s + TenMinutes
      BY <2>1, <2>3, TxnOf, OffsetsFit DEF Probing
    <2>5. B = before
      BY <2>3 DEF Probing, ReadBefore
    <2>6. ASSUME NEW r \in B
          PROVE  \E i \in DOMAIN log : log[i] = r.txn /\ i \in U /\ i \in Y
      <3>1. PICK i \in DOMAIN log : log[i] = r.txn
        BY <2>1, <2>5 DEF LogHas
      <3>2. /\ r.txn.device = d /\ r.txn.merchant = m /\ r.txn.amount = Tiny
            /\ r.txn.ts \in Nat /\ s <= r.txn.ts
        BY <2>3, <2>5 DEF Probing
      <3>3. r.txn.ts >= asked.ts - TenMinutes /\ r.txn.ts >= asked.ts - Hour
        BY <2>4, <3>2, TimeAssumption
      <3>. QED  BY <2>4, <3>1, <3>2, <3>3, TinyIsSmall
    <2>7. \A i \in D : \E r \in B : log[i] = r.txn
      <3>1. incident.own = {d}
        BY <2>3 DEF Probing
      <3>. QED  BY <2>1, <2>4, <2>5, <3>1 DEF LogHas
    <2>8. \A r, q \in B : r.txn.card = q.txn.card => r = q
      BY <2>3, <2>5 DEF Probing
    <2>9. IsFiniteSet(B)
      BY <2>3, <2>5, FS_Subset DEF Probing
    <2>10. /\ features.device_card_count_1h = Cardinality(K)
           /\ features.merchant_small_amt_10m = Cardinality(Y)
      <3>1. features = FeaturesOf(asked)
        BY <2>1
      <3>. QED  BY <3>1, WindowsOfRow
    <2>. HIDE DEF B
    <2>11. Cardinality(K) = Cardinality(B)
      <3>. DEFINE cardOf == [r \in B |-> r.txn.card]
      <3>1. \A r \in B : r.txn.card \in K
        BY <2>6
      <3>2. \A c \in K : \E r \in B : r.txn.card = c
        BY <2>7
      <3>. HIDE DEF K
      <3>3. cardOf \in [B -> K] /\ \A r \in B : cardOf[r] = r.txn.card
        BY <3>1
      <3>. HIDE DEF cardOf
      <3>4. \A c \in K : \E r \in B : cardOf[r] = c
        BY <3>2, <3>3
      <3>5. \A r, q \in B : cardOf[r] = cardOf[q] => r = q
        BY <2>8, <3>3
      <3>. QED  BY <2>9, <3>3, <3>4, <3>5, NoMoreImages
    <2>12. Cardinality(Y) >= Cardinality(B)
      <3>. DEFINE Place(r) == CHOOSE i \in Y : log[i] = r.txn
                  f == [r \in B |-> Place(r)]
      <3>1. \A r \in B : Place(r) \in Y /\ log[Place(r)] = r.txn
        BY <2>6
      <3>. HIDE DEF Place
      <3>2. f \in [B -> Y] /\ \A r \in B : log[f[r]] = r.txn
        BY <3>1
      <3>. HIDE DEF f
      <3>3. \A r, q \in B : f[r] = f[q] => r = q
        BY <2>8, <3>2
      <3>4. IsFiniteSet(Y)
        <4>1. Y \in SUBSET DOMAIN log
          OBVIOUS
        <4>. HIDE DEF Y
        <4>. QED  BY <2>1, <4>1, LogFacts, FS_Subset
      <3>. HIDE DEF Y
      <3>5. /\ Cardinality(B) <= Cardinality(Y)
            /\ Cardinality(B) \in Nat /\ Cardinality(Y) \in Nat
        BY <3>2, <3>3, <3>4, OneForEach
      <3>. QED  BY <3>5
    <2>. HIDE DEF K, Y
    <2>13. ReadBefore("burst") = B
      BY DEF B
    <2>. QED  BY <2>10, <2>11, <2>12, <2>13
  <1>. QED  BY <1>1, IncidentInvariant, PTL

=============================================================================
