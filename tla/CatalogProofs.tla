--------------------------- MODULE CatalogProofs ---------------------------
(***************************************************************************)
(* Proofs about Catalog, for any size of digits, bytes and words: what the *)
(* codecs return, and that decode undoes encode.                           *)
(***************************************************************************)
EXTENDS Catalog, SequenceTheorems, WellFoundedInduction, TLAPS

(***************************************************************************)
(* Induction, for what the codecs compute digit by digit.                  *)
(***************************************************************************)

LEMMA Least ==
  ASSUME NEW S \in SUBSET Nat, S # {}
  PROVE  \E m \in S : \A k \in S : m <= k
<1>1. \A k, m \in Nat : k < m => <<k, m>> \in OpToRel(<, Nat)
  BY Zenon DEF OpToRel
<1>2. PICK m \in S : \A k \in S : ~(<<k, m>> \in OpToRel(<, Nat))
  BY Zenon, NatLessThanWellFounded, WFMin
<1>3. \A k \in S : ~(k < m)
  <2> TAKE k \in S
  <2>1. k \in Nat /\ m \in Nat
    OBVIOUS
  <2>2. QED
    BY Zenon, <1>1, <1>2, <2>1
<1>4. QED
  BY <1>3

\* Induction up to n, over a set in place of a predicate.
LEMMA UpTo ==
  ASSUME NEW n \in Nat, NEW M, 0 \in M, \A m \in 0 .. n - 1 : m \in M => m + 1 \in M
  PROVE  \A m \in 0 .. n : m \in M
<1> DEFINE R == (0 .. n) \ M
<1> SUFFICES ASSUME R # {} PROVE FALSE
  OBVIOUS
<1>1. PICK m \in R : \A k \in R : m <= k
  <2>1. R \in SUBSET Nat
    OBVIOUS
  <2> HIDE DEF R
  <2>2. QED
    BY <2>1, Least
<1>2. m # 0 /\ m - 1 \in 0 .. n - 1
  BY <1>1
<1>3. m - 1 \in M
  BY <1>1, <1>2
<1>4. m - 1 + 1 = m /\ (m - 1) + 1 \in M
  BY <1>1, <1>2, <1>3
<1>5. QED
  BY <1>1, <1>4

\* A function may be defined by recursion: its value at i by that at i - 1.
Steps(n, S, base, F) == n \in Nat /\ base \in S /\ F \in [1 .. n -> [S -> S]]
Follows(n, base, F, g) == g[0] = base /\ \A i \in 1 .. n : g[i] = F[i][g[i - 1]]

LEMMA Recursion ==
  ASSUME NEW n, NEW S, NEW base, NEW F, Steps(n, S, base, F)
  PROVE  \E g \in [0 .. n -> S] : Follows(n, base, F, g)
<1> USE DEF Steps, Follows
<1> DEFINE Good(m, g) == g[0] = base /\ \A i \in 1 .. m : g[i] = F[i][g[i - 1]]
           M == {m \in 0 .. n : \E g \in [0 .. m -> S] : Good(m, g)}
<1>1. 0 \in M
  <2> DEFINE g == [i \in 0 .. 0 |-> base]
  <2>1. g \in [0 .. 0 -> S] /\ g[0] = base
    OBVIOUS
  <2>2. \A i \in 1 .. 0 : g[i] = F[i][g[i - 1]]
    OBVIOUS
  <2>3. 0 \in 0 .. n
    OBVIOUS
  <2> HIDE DEF g
  <2>4. QED
    BY <2>1, <2>2, <2>3
<1>2. ASSUME NEW m \in 0 .. n - 1, m \in M PROVE m + 1 \in M
  <2>1. PICK g \in [0 .. m -> S] : Good(m, g)
    BY <1>2
  <2> DEFINE h == [i \in 0 .. m + 1 |-> IF i = m + 1 THEN F[m + 1][g[m]] ELSE g[i]]
  <2>2. h \in [0 .. m + 1 -> S]
    OBVIOUS
  <2>3. h[0] = base
    BY <2>1
  <2>4. ASSUME NEW i \in 1 .. m + 1 PROVE h[i] = F[i][h[i - 1]]
    <3>1. CASE i = m + 1
      BY <3>1
    <3>2. CASE i \in 1 .. m
      <4>1. h[i] = g[i] /\ h[i - 1] = g[i - 1]
        BY <3>2
      <4>2. QED
        BY <2>1, <3>2, <4>1
    <3>3. QED
      BY <3>1, <3>2
  <2>5. m + 1 \in 0 .. n
    OBVIOUS
  <2> HIDE DEF h
  <2>6. QED
    BY <2>2, <2>3, <2>4, <2>5
<1>3. n \in M
  <2>1. \A m \in 0 .. n - 1 : m \in M => m + 1 \in M
    BY <1>2
  <2> HIDE DEF M
  <2>2. \A m \in 0 .. n : m \in M
    BY Zenon, <1>1, <2>1, UpTo
  <2>3. QED
    BY <2>2
<1>4. QED
  BY <1>3

(***************************************************************************)
(* Division.                                                               *)
(***************************************************************************)

LEMMA Division ==
  ASSUME NEW n \in Int, NEW m \in Nat \ {0}
  PROVE  /\ n \div m \in Int /\ n % m \in 0 .. m - 1
         /\ n = m * (n \div m) + (n % m)
         /\ n \in Nat => n \div m \in 0 .. n
<1> DEFINE q == n \div m
           r == n % m
<1>1. q \in Int /\ r \in 0 .. m - 1 /\ n = m * q + r
  OBVIOUS
<1> HIDE DEF q, r
<1>2. n \in Nat => q \in 0 .. n
  <2>1. q < 0 => m * q <= -m
    BY <1>1
  <2>2. q > n /\ n >= 0 => m * q > n
    BY <1>1
  <2>3. QED
    BY <1>1, <2>1, <2>2
<1>3. QED
  BY <1>1, <1>2 DEF q, r

LEMMA DivisionUnique ==
  ASSUME NEW n \in Int, NEW m \in Nat \ {0}, NEW q \in Int, NEW r \in 0 .. m - 1, n = m * q + r
  PROVE  n \div m = q /\ n % m = r
<1> DEFINE p == n \div m
           s == n % m
<1>1. p \in Int /\ s \in 0 .. m - 1 /\ n = m * p + s
  BY Division
<1> HIDE DEF p, s
<1>2. m * (p - q) = r - s
  BY <1>1
<1>3. CASE p - q >= 1
  <2>1. m * (p - q) >= m
    BY <1>1, <1>3
  <2>2. QED
    BY <1>1, <1>2, <2>1
<1>4. CASE p - q <= -1
  <2>1. m * (p - q) <= -m
    BY <1>1, <1>4
  <2>2. QED
    BY <1>1, <1>2, <2>1
<1>5. p = q
  BY <1>1, <1>3, <1>4
<1>6. s = r
  BY <1>1, <1>2, <1>5
<1>7. QED
  BY <1>5, <1>6 DEF p, s

LEMMA DivisionTwice ==
  ASSUME NEW n \in Int, NEW b \in Nat \ {0}, NEW c \in Nat \ {0}
  PROVE  n \div (b * c) = (n \div b) \div c
<1> DEFINE q == n \div b
           r == n % b
           s == q \div c
           t == q % c
<1>1. q \in Int /\ r \in 0 .. b - 1 /\ n = b * q + r
  BY Division
<1>2. s \in Int /\ t \in 0 .. c - 1 /\ q = c * s + t
  <2> HIDE DEF q
  <2>1. QED
    BY <1>1, Division
<1> HIDE DEF q, r, s, t
<1>3. n = (b * c) * s + (b * t + r)
  BY <1>1, <1>2
<1>4. b * c \in Nat \ {0}
  OBVIOUS
<1>5. b * t + r \in 0 .. b * c - 1
  <2>1. b * t <= b * (c - 1) /\ b * t >= 0 /\ b * t \in Int
    BY <1>2
  <2>2. b * (c - 1) = b * c - b
    OBVIOUS
  <2>3. QED
    BY <1>1, <1>4, <2>1, <2>2
<1>6. n \div (b * c) = s
  BY <1>2, <1>3, <1>4, <1>5, DivisionUnique
<1>7. QED
  BY <1>6 DEF s, q

(***************************************************************************)
(* Places.                                                                 *)
(***************************************************************************)

LEMMA Base == ByteBase \in Nat /\ ByteBase > 1 /\ HexBase \in Nat /\ HexBase > 1 /\ WordBytes \in Nat \ {0}
<1>1. HexBase \in Nat /\ HexBase > 1
  BY CatalogAssumption
<1>2. HexBase * HexBase > 1
  BY <1>1
<1>3. QED
  BY <1>1, <1>2, CatalogAssumption DEF ByteBase

LEMMA Places ==
  /\ Place \in [0 .. WordBytes -> Nat \ {0}]
  /\ Place[0] = 1
  /\ \A k \in 1 .. WordBytes : Place[k] = Place[k - 1] * ByteBase
<1> DEFINE S == Nat \ {0}
           F == [i \in 1 .. WordBytes |-> [v \in S |-> v * ByteBase]]
           Def(g) == g = [k \in 0 .. WordBytes |-> IF k = 0 THEN 1 ELSE g[k - 1] * ByteBase]
<1>1. \A v \in S : v * ByteBase \in S
  BY Base
<1>2. Steps(WordBytes, S, 1, F)
  BY <1>1, Base DEF Steps
<1>3. PICK g \in [0 .. WordBytes -> S] : Follows(WordBytes, 1, F, g)
  <2> HIDE DEF S, F
  <2>1. QED
    BY <1>2, Recursion
<1>4. ASSUME NEW i \in 1 .. WordBytes PROVE g[i] = g[i - 1] * ByteBase
  <2>1. i - 1 \in 0 .. WordBytes
    BY Base
  <2>2. g[i - 1] \in S
    BY <2>1
  <2>3. F[i][g[i - 1]] = g[i - 1] * ByteBase
    BY <2>2
  <2> HIDE DEF F
  <2>4. QED
    BY <1>3, <2>3 DEF Follows
<1>5. Def(g)
  BY <1>3, <1>4 DEF Follows
<1>6. Def(Place)
  BY <1>5 DEF Place
<1>7. Place[0] = 1 /\ \A k \in 1 .. WordBytes : Place[k] = Place[k - 1] * ByteBase
  BY <1>6, Base
<1>8. \A k \in 0 .. WordBytes : k \in {j \in 0 .. WordBytes : Place[j] \in S}
  <2> DEFINE M == {j \in 0 .. WordBytes : Place[j] \in S}
  <2>1. 0 \in M
    BY <1>7, Base
  <2>2. ASSUME NEW m \in 0 .. WordBytes - 1, m \in M PROVE m + 1 \in M
    <3>1. m + 1 \in 1 .. WordBytes /\ (m + 1) - 1 = m /\ Place[m] \in S
      BY <2>2, Base
    <3>2. Place[m + 1] = Place[m] * ByteBase
      BY <1>7, <3>1
    <3>3. QED
      BY <1>1, <3>1, <3>2
  <2> HIDE DEF M
  <2>3. \A k \in 0 .. WordBytes : k \in M
    <3>1. WordBytes \in Nat
      BY Base
    <3>2. QED
      BY Zenon, <2>1, <2>2, <3>1, UpTo
  <2>4. QED
    BY <2>3 DEF M
<1>9. QED
  BY <1>6, <1>7, <1>8
LEMMA PlacesGrow == \A n \in 0 .. WordBytes : \A k \in 0 .. n : Place[k] <= Place[n]
<1> DEFINE M == {n \in 0 .. WordBytes : \A k \in 0 .. n : Place[k] <= Place[n]}
<1>1. 0 \in M
  BY Places, Base
<1>2. ASSUME NEW n \in 0 .. WordBytes - 1, n \in M PROVE n + 1 \in M
  <2>1. n + 1 \in 0 .. WordBytes /\ n \in 0 .. WordBytes /\ Place[n] \in Nat /\ Place[n + 1] \in Nat
    BY Places, Base
  <2>2. Place[n + 1] = Place[n] * ByteBase
    <3>1. n + 1 \in 1 .. WordBytes /\ (n + 1) - 1 = n
      BY Base
    <3>2. QED
      BY <3>1, Places
  <2>3. Place[n] <= Place[n + 1]
    BY <2>1, <2>2, Base
  <2>4. ASSUME NEW k \in 0 .. n + 1 PROVE Place[k] <= Place[n + 1]
    <3>1. CASE k = n + 1
      BY <2>1, <3>1
    <3>2. CASE k \in 0 .. n
      <4>1. Place[k] <= Place[n] /\ k \in 0 .. WordBytes /\ Place[k] \in Nat
        BY <1>2, <3>2, Places, Base
      <4>2. QED
        BY <2>1, <2>3, <4>1
    <3>3. QED
      BY <2>1, <3>1, <3>2
  <2>5. QED
    BY <2>1, <2>4
<1>3. \A n \in 0 .. WordBytes : n \in M
  <2>1. WordBytes \in Nat
    BY Base
  <2> HIDE DEF M
  <2>2. QED
    BY Zenon, <1>1, <1>2, <2>1, UpTo
<1>4. QED
  BY <1>3

LEMMA WordSize == Word \in Nat \ {0} /\ ByteBase <= Word
<1>1. WordBytes \in 0 .. WordBytes /\ 1 \in 0 .. WordBytes /\ 1 \in 1 .. WordBytes
  BY Base
<1>2. Place[1] = ByteBase
  BY <1>1, Places, Base
<1>3. QED
  BY <1>1, <1>2, Places, PlacesGrow DEF Word

\* bytes_to_uint goes through the bytes, the most significant one first.
Significant(bytes, big, i) == bytes[IF big THEN i ELSE Len(bytes) + 1 - i]

LEMMA BytesToUintGoes ==
  ASSUME NEW bytes \in Texts, NEW big \in BOOLEAN
  PROVE  \E word \in [0 .. Len(bytes) -> 0 .. Word - 1] :
           /\ word[0] = 0
           /\ \A i \in 1 .. Len(bytes) :
                word[i] = (word[i - 1] * ByteBase + Significant(bytes, big, i)) % Word
           /\ BytesToUint(bytes, big) = word[Len(bytes)]
<1> DEFINE n == Len(bytes)
           S == 0 .. Word - 1
           next(v, i) == (v * ByteBase + Significant(bytes, big, i)) % Word
           F == [i \in 1 .. n |-> [v \in S |-> next(v, i)]]
           Def(g) == g = [i \in 0 .. n |-> IF i = 0 THEN 0 ELSE next(g[i - 1], i)]
<1>1. n \in Nat /\ \A i \in 1 .. n : Significant(bytes, big, i) \in Int
  <2>1. n \in Nat /\ bytes \in [1 .. n -> Bytes]
    BY DEF Texts
  <2>2. \A i \in 1 .. n : (IF big THEN i ELSE n + 1 - i) \in 1 .. n
    BY <2>1
  <2>3. QED
    BY <2>1, <2>2, Base DEF Significant, Bytes
<1>2. ASSUME NEW v \in S, NEW i \in 1 .. n PROVE next(v, i) \in S
  <2>1. v * ByteBase \in Int
    BY WordSize, Base
  <2>2. v * ByteBase + Significant(bytes, big, i) \in Int
    BY <1>1, <2>1
  <2>3. QED
    BY <2>2, WordSize
<1>3. Steps(n, S, 0, F)
  <2>1. 0 \in S
    BY WordSize
  <2> HIDE DEF next, S, n
  <2>2. F \in [1 .. n -> [S -> S]]
    BY <1>2
  <2>3. QED
    BY <1>1, <2>1, <2>2 DEF Steps
<1>4. PICK g \in [0 .. n -> S] : Follows(n, 0, F, g)
  <2> HIDE DEF S, F, n
  <2>1. QED
    BY <1>3, Recursion
<1>5. ASSUME NEW i \in 1 .. n PROVE g[i] = next(g[i - 1], i)
  <2>1. i - 1 \in 0 .. n
    BY <1>1
  <2>2. g[i - 1] \in S
    BY <2>1
  <2> HIDE DEF next, S
  <2>3. F[i][g[i - 1]] = next(g[i - 1], i)
    BY <2>2
  <2> HIDE DEF F
  <2>4. QED
    BY <1>4, <2>3 DEF Follows
<1>6. Def(g)
  <2> HIDE DEF next
  <2>1. g = [i \in 0 .. n |-> g[i]] /\ g[0] = 0
    BY <1>4 DEF Follows
  <2>2. \A i \in 0 .. n : g[i] = IF i = 0 THEN 0 ELSE next(g[i - 1], i)
    <3>1. \A i \in 0 .. n : i # 0 => i \in 1 .. n
      BY <1>1
    <3>2. QED
      BY <1>5, <2>1, <3>1
  <2>3. QED
    BY <2>1, <2>2
<1> DEFINE word == CHOOSE h : Def(h)
<1>7. Def(word)
  BY <1>6
<1>8. BytesToUint(bytes, big) = word[n]
  BY DEF BytesToUint, Significant
<1> HIDE DEF word
<1>9. word[0] = 0 /\ \A i \in 1 .. n : word[i] = next(word[i - 1], i)
  BY <1>1, <1>7
<1>10. \A i \in 0 .. n : word[i] \in S
  <2> DEFINE M == {i \in 0 .. n : word[i] \in S}
  <2>1. 0 \in M
    BY <1>1, <1>9, WordSize
  <2>2. ASSUME NEW i \in 0 .. n - 1, i \in M PROVE i + 1 \in M
    <3>1. i + 1 \in 1 .. n /\ i + 1 \in 0 .. n /\ (i + 1) - 1 = i /\ word[i] \in S
      BY <1>1, <2>2
    <3> HIDE DEF next, S
    <3>2. word[i + 1] = next(word[i], i + 1)
      BY <1>9, <3>1
    <3>3. QED
      BY <1>2, <3>1, <3>2
  <2> HIDE DEF M
  <2>3. \A i \in 0 .. n : i \in M
    BY Zenon, <1>1, <2>1, <2>2, UpTo
  <2>4. QED
    BY <2>3 DEF M
<1>11. word \in [0 .. n -> S]
  BY <1>7, <1>10
<1>12. QED
  BY <1>8, <1>9, <1>11

\* decode's integer of encode's bytes is the integer, in either order.
LEMMA UintToBytesAndBack ==
  ASSUME NEW n \in 1 .. WordBytes, NEW u \in 0 .. Place[n] - 1, NEW big \in BOOLEAN
  PROVE  /\ UintToBytes(u, n, big) \in Texts
         /\ Len(UintToBytes(u, n, big)) = n
         /\ BytesToUint(UintToBytes(u, n, big), big) = u
<1> DEFINE bytes == UintToBytes(u, n, big)
           shifted(k) == u \div Place[k]
<1>1. n \in Nat /\ n \in 0 .. WordBytes /\ Place[n] \in Nat /\ u \in Nat
  BY Places, Base
<1>2. ASSUME NEW k \in 0 .. n PROVE k \in 0 .. WordBytes /\ Place[k] \in Nat \ {0}
  <2>1. k \in 0 .. WordBytes
    BY Base
  <2>2. QED
    BY <2>1, Places
<1>3. ASSUME NEW k \in 0 .. n PROVE shifted(k) \in 0 .. u
  <2>1. u \in Int /\ Place[k] \in Nat \ {0}
    BY <1>1, <1>2
  <2>2. QED
    BY <1>1, <2>1, Division
<1>4. \A k \in 0 .. n : shifted(k) % ByteBase \in Bytes
  <2> HIDE DEF shifted
  <2> SUFFICES ASSUME NEW k \in 0 .. n PROVE shifted(k) % ByteBase \in Bytes
    OBVIOUS
  <2>1. shifted(k) \in Int
    BY <1>1, <1>3
  <2>2. ByteBase \in Nat \ {0}
    BY Base
  <2>3. QED
    BY <2>1, <2>2, Division DEF Bytes
<1> HIDE DEF shifted
<1>5. bytes = [i \in 1 .. n |-> shifted(IF big THEN n - i ELSE i - 1) % ByteBase]
  BY DEF UintToBytes, shifted
<1>6. \A i \in 1 .. n : (IF big THEN n - i ELSE i - 1) \in 0 .. n
  BY <1>1
<1>7. bytes \in Texts /\ Len(bytes) = n
  <2>1. bytes \in [1 .. n -> Bytes]
    BY <1>4, <1>5, <1>6
  <2>2. QED
    BY <1>1, <2>1 DEF Texts
<1>8. ASSUME NEW i \in 1 .. n PROVE Significant(bytes, big, i) = shifted(n - i) % ByteBase
  <2>1. (IF big THEN i ELSE n + 1 - i) \in 1 .. n
    BY <1>1
  <2>2. CASE big
    BY <1>5, <1>7, <2>2 DEF Significant
  <2>3. CASE ~big
    <3>1. n + 1 - i \in 1 .. n /\ (n + 1 - i) - 1 = n - i
      BY <1>1
    <3>2. bytes[n + 1 - i] = shifted((n + 1 - i) - 1) % ByteBase
      BY <1>5, <2>3, <3>1
    <3>3. QED
      BY <1>7, <2>3, <3>1, <3>2 DEF Significant
  <2>4. QED
    BY <2>2, <2>3
<1> HIDE DEF bytes
<1>9. PICK word \in [0 .. n -> 0 .. Word - 1] :
        /\ word[0] = 0
        /\ \A i \in 1 .. n : word[i] = (word[i - 1] * ByteBase + (shifted(n - i) % ByteBase)) % Word
        /\ BytesToUint(bytes, big) = word[n]
  <2>1. PICK word \in [0 .. Len(bytes) -> 0 .. Word - 1] :
          /\ word[0] = 0
          /\ \A i \in 1 .. Len(bytes) :
               word[i] = (word[i - 1] * ByteBase + Significant(bytes, big, i)) % Word
          /\ BytesToUint(bytes, big) = word[Len(bytes)]
    BY <1>7, BytesToUintGoes
  <2>2. QED
    BY <1>7, <1>8, <2>1
<1>10. shifted(n) = 0
  BY <1>1, <1>2, DivisionUnique DEF shifted
<1>11. shifted(0) = u
  BY <1>1, Places, DivisionUnique DEF shifted
<1>12. ASSUME NEW k \in 0 .. n - 1
       PROVE  shifted(k) = shifted(k + 1) * ByteBase + (shifted(k) % ByteBase)
  <2>1. k \in 0 .. n /\ k + 1 \in 1 .. WordBytes /\ (k + 1) - 1 = k
    BY <1>1, Base
  <2>2. Place[k + 1] = Place[k] * ByteBase
    BY <2>1, Places
  <2>3. shifted(k + 1) = shifted(k) \div ByteBase
    <3>1. u \in Int /\ Place[k] \in Nat \ {0} /\ ByteBase \in Nat \ {0}
      BY <1>1, <1>2, <2>1, Base
    <3>2. u \div (Place[k] * ByteBase) = (u \div Place[k]) \div ByteBase
      BY <3>1, DivisionTwice
    <3>3. QED
      BY <2>2, <3>2 DEF shifted
  <2>4. shifted(k) \in Int
    BY <1>3, <1>1, <2>1
  <2>5. ByteBase \in Nat \ {0}
    BY Base
  <2>6. /\ shifted(k) \div ByteBase \in Int
        /\ shifted(k) = ByteBase * (shifted(k) \div ByteBase) + (shifted(k) % ByteBase)
    BY <2>4, <2>5, Division
  <2>7. ByteBase * (shifted(k) \div ByteBase) = (shifted(k) \div ByteBase) * ByteBase
    BY <2>5, <2>6
  <2>8. QED
    BY Zenon, <2>3, <2>6, <2>7
<1>13. \A k \in 0 .. n : shifted(k) \in 0 .. Word - 1
  <2>1. Place[n] <= Word
    BY <1>1, PlacesGrow, Base DEF Word
  <2>2. u \in 0 .. Word - 1 /\ Word \in Int
    BY <1>1, <1>2, <2>1, WordSize
  <2>3. ASSUME NEW k \in 0 .. n PROVE shifted(k) \in 0 .. Word - 1
    <3>1. shifted(k) \in 0 .. u
      BY <1>3
    <3>2. QED
      BY <2>2, <3>1
  <2>4. QED
    BY <2>3
<1>14. \A i \in 0 .. n : word[i] = shifted(n - i)
  <2> DEFINE M == {i \in 0 .. n : word[i] = shifted(n - i)}
  <2>1. 0 \in M
    BY <1>1, <1>9, <1>10
  <2>2. ASSUME NEW i \in 0 .. n - 1, i \in M PROVE i + 1 \in M
    <3> DEFINE k == n - (i + 1)
    <3>1. i + 1 \in 1 .. n /\ (i + 1) - 1 = i /\ k \in 0 .. n - 1 /\ k + 1 = n - i /\ k \in 0 .. n
      BY <1>1
    <3>2. word[i] = shifted(k + 1)
      BY <2>2, <3>1
    <3> HIDE DEF k
    <3>3. word[i + 1] = (shifted(k + 1) * ByteBase + (shifted(k) % ByteBase)) % Word
      BY <1>9, <3>1, <3>2 DEF k
    <3>4. word[i + 1] = shifted(k) % Word
      BY <1>12, <3>1, <3>3
    <3>5. shifted(k) % Word = shifted(k)
      <4>1. shifted(k) = Word * 0 + shifted(k) /\ shifted(k) \in Int
        BY <1>13, <3>1, WordSize
      <4>2. QED
        BY <1>13, <3>1, <4>1, WordSize, DivisionUnique
    <3>6. QED
      BY <3>1, <3>4, <3>5 DEF k
  <2> HIDE DEF M
  <2>3. \A i \in 0 .. n : i \in M
    BY Zenon, <1>1, <2>1, <2>2, UpTo
  <2>4. QED
    BY <2>3 DEF M
<1>15. word[n] = u
  <2>1. n \in 0 .. n /\ n - n = 0
    BY <1>1
  <2>2. QED
    BY <1>11, <1>14, <2>1
<1>16. QED
  BY <1>7, <1>9, <1>15 DEF bytes

(***************************************************************************)
(* Items, as parse_data_item leaves them.                                  *)
(***************************************************************************)

\* A scale other than zero, and a type and a size that decode can do something with.
Parsed(item) ==
  /\ item.did \in 0 .. MaxDid /\ item.did # Missing
  /\ item.type \in {"string", "float", "enum", "raw"}
  /\ item.type = "float" =>
       /\ item.encoding.bytes \in 1 .. WordBytes
       /\ item.encoding.scale \in Int
  /\ item.type = "enum" => item.values \in Seq(EnumValue)

LEMMA ParsedItem ==
  ASSUME NEW y, YamlItem(y), WellFormed(y)
  PROVE  Parsed(ParseDataItem(y)) /\ ParseDataItem(y).id = y.id
<1> DEFINE type == IF y.type \in {"string", "float", "enum"} THEN y.type ELSE "raw"
           item == ParseDataItem(y)
<1>1. item = [y EXCEPT !.type = type]
  BY DEF ParseDataItem
<1>2. y = [field \in DOMAIN y |-> y[field]]
      /\ DOMAIN y = {"id", "did", "type", "access", "io_control", "session", "security",
                     "length", "encoding", "values"}
  BY DEF YamlItem
<1>3. /\ item.type = type /\ item.did = y.did /\ item.id = y.id
      /\ item.encoding = y.encoding /\ item.values = y.values
  BY <1>1, <1>2
<1>4. Parsed(item)
  BY <1>3 DEF Parsed, YamlItem, WellFormed, ValidEncoding
<1>5. QED
  BY <1>3, <1>4

\* FindFirst finds one of the items that match, if there is any.
LEMMA MinAmong ==
  ASSUME NEW n \in Nat, NEW I \in SUBSET (1 .. n), I # {}
  PROVE  Min(I) \in I
<1>1. I \in SUBSET Nat
  OBVIOUS
<1>2. PICK m \in I : \A k \in I : m <= k
  BY <1>1, Least
<1>3. QED
  BY <1>2 DEF Min

LEMMA FoundById ==
  ASSUME NEW S, NEW items \in Seq(S), NEW id
  PROVE  \/ FindById(items, id) = Missing /\ \A i \in DOMAIN items : items[i].id # id
         \/ \E i \in DOMAIN items : FindById(items, id) = items[i] /\ items[i].id = id
<1> DEFINE I == {i \in 1 .. Len(items) : items[i].id = id}
           k == IF I # {} THEN Min(I) ELSE 0
<1>1. FindById(items, id) = IF k = 0 THEN Missing ELSE items[k]
  BY DEF FindById, FindFirst, SelectInSeq
<1>2. Len(items) \in Nat /\ DOMAIN items = 1 .. Len(items)
  OBVIOUS
<1>3. I # {} => Min(I) \in I
  <2>1. I \in SUBSET (1 .. Len(items))
    OBVIOUS
  <2> HIDE DEF I
  <2>2. QED
    BY <1>2, <2>1, MinAmong
<1>4. CASE I = {}
  BY <1>1, <1>2, <1>4
<1>5. CASE I # {}
  <2>1. Min(I) \in 1 .. Len(items) /\ items[Min(I)].id = id /\ Min(I) # 0
    BY <1>2, <1>3, <1>5
  <2> HIDE DEF I
  <2>2. QED
    BY <1>1, <1>2, <1>5, <2>1
<1>6. QED
  BY <1>4, <1>5

LEMMA FoundByRaw ==
  ASSUME NEW items \in Seq(EnumValue), NEW raw,
         NEW found, found = FindFirst(items, LAMBDA ev : ev.raw % Word = raw),
         \E i \in DOMAIN items : items[i].raw % Word = raw
  PROVE  \E i \in DOMAIN items : found = items[i] /\ items[i].raw % Word = raw
<1> DEFINE I == {i \in 1 .. Len(items) : items[i].raw % Word = raw}
           k == IF I # {} THEN Min(I) ELSE 0
<1>1. found = IF k = 0 THEN Missing ELSE items[k]
  BY DEF FindFirst, SelectInSeq
<1>2. Len(items) \in Nat /\ DOMAIN items = 1 .. Len(items)
  OBVIOUS
<1>3. Min(I) \in I /\ I # {}
  <2>1. I \in SUBSET (1 .. Len(items)) /\ I # {}
    OBVIOUS
  <2> HIDE DEF I
  <2>2. QED
    BY <1>2, <2>1, MinAmong
<1>4. Min(I) \in 1 .. Len(items) /\ items[Min(I)].raw % Word = raw
  BY Zenon, <1>3
<1> HIDE DEF I
<1>5. found = items[Min(I)]
  BY <1>1, <1>2, <1>3, <1>4
<1>6. QED
  BY Zenon, <1>2, <1>4, <1>5

(***************************************************************************)
(* What encode returns are bytes.                                          *)
(***************************************************************************)

LEMMA AbsNat == \A n \in Int : Abs(n) \in Nat /\ (n # 0 => Abs(n) > 0)
  BY DEF Abs

LEMMA RoundedInt ==
  ASSUME NEW v \in Int, NEW scale \in Int
  PROVE  Rounded(v, scale) \in Int
<1>1. CASE scale = 0
  BY <1>1 DEF Rounded
<1>2. CASE scale # 0
  <2> DEFINE magnitude == (2 * Abs(v) + Abs(scale)) \div (2 * Abs(scale))
  <2>1. 2 * Abs(v) + Abs(scale) \in Int /\ 2 * Abs(scale) \in Nat \ {0}
    BY <1>2, AbsNat
  <2>2. magnitude \in Int
    BY <2>1, Division
  <2>3. Rounded(v, scale) = magnitude \/ Rounded(v, scale) = -magnitude
    BY <1>2 DEF Rounded
  <2>4. QED
    BY <2>2, <2>3
<1>3. QED
  BY <1>1, <1>2

\* A float's bytes are those of an integer that fits them.  It is the
\* rounded value unless the cast to a word was undefined.
LEMMA EncodedFloat ==
  ASSUME NEW item, Parsed(item), item.type = "float", NEW v \in Int,
         NEW bytes \in EncodeFloat(item, v)
  PROVE  \E u \in 0 .. Place[item.encoding.bytes] - 1 :
           /\ bytes = UintToBytes(u, item.encoding.bytes, item.encoding.endian = "big")
           /\ item.encoding.bytes < WordBytes => u = Rounded(v, item.encoding.scale)
<1> DEFINE n == item.encoding.bytes
           raw == Rounded(v, item.encoding.scale)
<1>1. n \in 1 .. WordBytes /\ n \in 0 .. WordBytes /\ item.encoding.scale \in Int
  BY Base DEF Parsed
<1>2. raw \in Int
  BY <1>1, RoundedInt
<1> HIDE DEF n, raw
<1>3. raw >= 0 /\ raw <= MaxRaw(n)
  <2>1. EncodeFloat(item, v) # {}
    OBVIOUS
  <2>2. ~(raw < 0 \/ raw > MaxRaw(n))
    BY Zenon, <2>1 DEF EncodeFloat, n, raw
  <2>3. MaxRaw(n) \in Int
    BY <1>1, Places, WordSize DEF MaxRaw
  <2>4. QED
    BY <1>2, <2>2, <2>3
<1> DEFINE big == item.encoding.endian = "big"
<1>4. PICK u \in ToUint(raw) : bytes = UintToBytes(u, n, big)
  <2>1. bytes \in {UintToBytes(u, n, big) : u \in ToUint(raw)}
    BY Zenon DEF EncodeFloat, n, raw
  <2> HIDE DEF big
  <2>2. QED
    BY <2>1
<1>5. Place[n] \in Nat \ {0} /\ Word = Place[WordBytes] /\ Word \in Nat \ {0} /\ WordBytes \in Nat
  BY <1>1, Places, WordSize, Base DEF Word
<1>6. CASE n < WordBytes
  <2>1. raw <= Place[n] - 1
    BY <1>1, <1>3, <1>5, <1>6 DEF MaxRaw
  <2>2. Place[n] <= Word
    BY <1>1, <1>5, PlacesGrow
  <2>3. u = raw
    BY <1>2, <1>4, <1>5, <2>1, <2>2 DEF ToUint
  <2>4. QED
    BY <1>2, <1>3, <1>4, <1>5, <2>1, <2>3 DEF n, raw
<1>7. CASE n = WordBytes
  <2>1. u \in 0 .. Place[n] - 1
    BY <1>2, <1>3, <1>4, <1>5, <1>7 DEF ToUint
  <2>2. QED
    BY <1>4, <1>5, <1>7, <2>1 DEF n
<1>8. QED
  BY <1>1, <1>5, <1>6, <1>7

\* The pairs of digits of a hex text are its bytes, which read as it again.
LEMMA HexAndBack ==
  ASSUME NEW digits \in Texts, NEW bytes \in FromHex(digits)
  PROVE  bytes \in Texts /\ ToHex(bytes) = digits
<1> DEFINE n == Len(digits) \div 2
<1>1. /\ Len(digits) \in Nat /\ Len(digits) % 2 = 0 /\ digits # <<>>
      /\ DOMAIN digits = 1 .. Len(digits)
      /\ \A i \in 1 .. Len(digits) : digits[i] \in 0 .. HexBase - 1
      /\ bytes = [i \in 1 .. n |-> digits[2 * i - 1] * HexBase + digits[2 * i]]
  BY DEF FromHex, Texts
<1>2. n \in Nat /\ Len(digits) = 2 * n
  <2>1. \A k \in Nat : k % 2 = 0 => k \div 2 \in Nat /\ k = 2 * (k \div 2)
    OBVIOUS
  <2>2. Len(digits) \in Nat /\ Len(digits) % 2 = 0
    BY <1>1
  <2>3. QED
    BY Zenon, <2>1, <2>2
<1> HIDE DEF n
<1>3. ASSUME NEW i \in 1 .. n
      PROVE  /\ bytes[i] \in Bytes
             /\ bytes[i] \div HexBase = digits[2 * i - 1]
             /\ bytes[i] % HexBase = digits[2 * i]
  <2> DEFINE hi == digits[2 * i - 1]
             lo == digits[2 * i]
  <2>1. hi \in 0 .. HexBase - 1 /\ lo \in 0 .. HexBase - 1 /\ bytes[i] = hi * HexBase + lo
    BY <1>1, <1>2
  <2> HIDE DEF hi, lo
  <2>2. HexBase \in Nat \ {0} /\ bytes[i] = HexBase * hi + lo /\ bytes[i] \in Int
    BY <2>1, Base
  <2>3. bytes[i] \div HexBase = hi /\ bytes[i] % HexBase = lo
    BY <2>1, <2>2, DivisionUnique
  <2>4. bytes[i] \in Bytes
    <3>1. HexBase * hi <= HexBase * (HexBase - 1) /\ HexBase * hi >= 0
      BY <2>1, <2>2
    <3>2. HexBase * (HexBase - 1) = HexBase * HexBase - HexBase
      BY <2>2
    <3>3. QED
      BY <2>1, <2>2, <3>1, <3>2 DEF Bytes, ByteBase
  <2>5. QED
    BY <2>3, <2>4 DEF hi, lo
<1>4. bytes \in Texts /\ Len(bytes) = n
  <2>1. bytes \in [1 .. n -> Bytes]
    BY <1>1, <1>3
  <2>2. QED
    BY <1>2, <2>1 DEF Texts
<1>5. ASSUME NEW i \in 1 .. 2 * n
      PROVE  (IF i % 2 = 1 THEN bytes[(i + 1) \div 2] \div HexBase ELSE bytes[i \div 2] % HexBase) = digits[i]
  <2>1. CASE i % 2 = 1
    <3>1. (i + 1) \div 2 \in 1 .. n /\ 2 * ((i + 1) \div 2) - 1 = i
      BY <1>2, <2>1
    <3>2. QED
      BY <1>3, <2>1, <3>1
  <2>2. CASE i % 2 # 1
    <3>1. i \div 2 \in 1 .. n /\ 2 * (i \div 2) = i
      BY <1>2, <2>2
    <3>2. QED
      BY <1>3, <2>2, <3>1
  <2>3. QED
    BY <2>1, <2>2
<1>6. ToHex(bytes) = [i \in 1 .. 2 * n |-> digits[i]]
  BY <1>4, <1>5 DEF ToHex
<1>7. digits = [i \in 1 .. Len(digits) |-> digits[i]]
  BY DEF Texts
<1>8. QED
  BY <1>2, <1>4, <1>6, <1>7

\* A JSON value, as nlohmann::json has converted it.
Json(body) ==
  /\ body.is = "number" => body.value \in Int
  /\ body.is = "string" => body.value \in Texts

LEMMA EncodedEnum ==
  ASSUME NEW item, Parsed(item), item.type = "enum", NEW label,
         NEW bytes \in EncodeEnum(item, label)
  PROVE  \E i \in DOMAIN item.values :
           /\ item.values[i].label = label
           /\ bytes = <<item.values[i].raw % ByteBase>>
<1> DEFINE found == FindFirst(item.values, LAMBDA ev : ev.label = label)
<1>1. found # Missing /\ bytes = <<found.raw % ByteBase>>
  BY DEF EncodeEnum
<1>2. item.values \in Seq(EnumValue)
  BY DEF Parsed
<1>3. PICK i \in DOMAIN item.values : found = item.values[i] /\ item.values[i].label = label
  <2> DEFINE items == item.values
             I == {i \in 1 .. Len(items) : items[i].label = label}
             k == IF I # {} THEN Min(I) ELSE 0
  <2>1. found = IF k = 0 THEN Missing ELSE items[k]
    BY DEF FindFirst, SelectInSeq
  <2>2. Len(items) \in Nat /\ DOMAIN items = 1 .. Len(items)
    BY <1>2
  <2>3. I # {} => Min(I) \in I
    <3>1. I \in SUBSET (1 .. Len(items))
      OBVIOUS
    <3> HIDE DEF I
    <3>2. QED
      BY <2>2, <3>1, MinAmong
  <2> HIDE DEF found
  <2>4. QED
    BY <1>1, <2>1, <2>2, <2>3
<1> HIDE DEF found
<1>4. QED
  BY <1>1, <1>3

\* encode returns bytes, whatever the item and the value.
LEMMA EncodeReturnsBytes ==
  ASSUME NEW item, Parsed(item), NEW body, Json(body), NEW bytes \in Encode(item, body)
  PROVE  bytes \in Texts
<1>1. CASE item.type = "float"
  <2>1. body.is = "number" /\ bytes \in EncodeFloat(item, body.value)
    BY <1>1 DEF Encode
  <2> DEFINE big == item.encoding.endian = "big"
  <2>2. item.encoding.bytes \in 1 .. WordBytes /\ body.value \in Int /\ big \in BOOLEAN
    BY <1>1, <2>1 DEF Parsed, Json
  <2>3. PICK u \in 0 .. Place[item.encoding.bytes] - 1 : bytes = UintToBytes(u, item.encoding.bytes, big)
    BY Zenon, <1>1, <2>1, <2>2, EncodedFloat
  <2> HIDE DEF big
  <2>4. QED
    BY Zenon, <2>2, <2>3, UintToBytesAndBack
<1>2. CASE item.type # "float"
  <2>1. body.is = "string" /\ body.value \in Texts
    BY <1>2 DEF Encode, Json
  <2>2. CASE item.type = "string"
    BY <1>2, <2>1, <2>2 DEF Encode, EncodeText
  <2>3. CASE item.type = "enum"
    <3>1. bytes \in EncodeEnum(item, body.value)
      BY <1>2, <2>1, <2>3 DEF Encode, EncodeText
    <3>2. PICK i \in DOMAIN item.values : bytes = <<item.values[i].raw % ByteBase>>
      BY <2>3, <3>1, EncodedEnum
    <3>3. item.values[i] \in EnumValue
      BY <2>3, <3>2 DEF Parsed
    <3> DEFINE raw == item.values[i].raw
    <3>4. raw \in Int
      BY <3>3 DEF EnumValue
    <3>5. bytes = <<raw % ByteBase>>
      BY <3>2
    <3> HIDE DEF raw
    <3>6. raw % ByteBase \in Bytes
      <4>1. ByteBase \in Nat \ {0}
        BY Base
      <4>2. QED
        BY <3>4, <4>1, Division DEF Bytes
    <3>7. QED
      BY <3>5, <3>6 DEF Texts
  <2>4. CASE item.type = "raw"
    <3>1. bytes \in FromHex(body.value)
      BY <1>2, <2>1, <2>4 DEF Encode, EncodeText
    <3>2. QED
      BY <2>1, <3>1, HexAndBack
  <2>5. QED
    BY <1>2, <2>2, <2>3, <2>4 DEF Parsed
<1>3. QED
  BY <1>1, <1>2

(***************************************************************************)
(* decode undoes encode.                                                   *)
(***************************************************************************)

\* One byte is its own integer.
LEMMA OneByte ==
  ASSUME NEW b \in Bytes
  PROVE  BytesToUint(<<b>>, TRUE) = b /\ b % Word = b /\ b % ByteBase = b
<1>1. b \in 0 .. ByteBase - 1 /\ b \in 0 .. Word - 1 /\ b \in Int
  BY Base, WordSize DEF Bytes
<1>2. b % Word = b
  <2>1. b = Word * 0 + b
    BY <1>1, WordSize
  <2>2. QED
    BY <1>1, <2>1, WordSize, DivisionUnique
<1>3. b % ByteBase = b
  <2>1. b = ByteBase * 0 + b
    BY <1>1, Base
  <2>2. QED
    BY <1>1, <2>1, Base, DivisionUnique
<1>4. <<b>> \in Texts /\ Len(<<b>>) = 1 /\ <<b>>[1] = b
  BY DEF Texts
<1>5. Significant(<<b>>, TRUE, 1) = b
  BY <1>4 DEF Significant
<1> DEFINE bytes == <<b>>
<1>6. PICK word \in [0 .. Len(bytes) -> 0 .. Word - 1] :
        /\ word[0] = 0
        /\ \A i \in 1 .. Len(bytes) :
             word[i] = (word[i - 1] * ByteBase + Significant(bytes, TRUE, i)) % Word
        /\ BytesToUint(bytes, TRUE) = word[Len(bytes)]
  <2>1. bytes \in Texts
    BY <1>4
  <2> HIDE DEF bytes
  <2>2. QED
    BY Zenon, <2>1, BytesToUintGoes
<1>7. word[1] = (0 * ByteBase + b) % Word /\ BytesToUint(<<b>>, TRUE) = word[1]
  <2>1. 1 \in 1 .. Len(bytes) /\ 1 - 1 = 0 /\ Len(bytes) = 1
    BY <1>4
  <2> HIDE DEF bytes
  <2>2. word[1] = (word[0] * ByteBase + Significant(bytes, TRUE, 1)) % Word
    BY <1>6, <2>1
  <2>3. BytesToUint(bytes, TRUE) = word[1]
    BY <1>6, <2>1
  <2>4. QED
    BY Zenon, <1>5, <1>6, <2>2, <2>3 DEF bytes
<1>8. 0 * ByteBase + b = b
  BY <1>1, Base
<1>9. word[1] = b
  BY Zenon, <1>2, <1>7, <1>8
<1>10. QED
  BY Zenon, <1>2, <1>3, <1>7, <1>9

LEMMA EnumAndBack ==
  ASSUME NEW item, Parsed(item), item.type = "enum", Faithful(item), NEW label,
         NEW bytes \in EncodeEnum(item, label)
  PROVE  DecodeEnum(item, BytesToUint(bytes, TRUE)) = label
<1> DEFINE values == item.values
<1>1. /\ values \in Seq(EnumValue)
      /\ \A j, k \in DOMAIN values :
           values[j].raw \in Bytes /\ (values[j].raw = values[k].raw => j = k)
  BY DEF Parsed, Faithful
<1>2. PICK i \in DOMAIN values : values[i].label = label /\ bytes = <<values[i].raw % ByteBase>>
  BY EncodedEnum
<1> DEFINE raw == values[i].raw
<1>3. bytes = <<raw>> /\ BytesToUint(bytes, TRUE) = raw /\ raw % Word = raw
  <2>1. raw \in Bytes
    BY <1>1
  <2>2. QED
    BY <1>2, <2>1, OneByte
<1> DEFINE I == {j \in 1 .. Len(values) : values[j].raw % Word = raw}
           k == IF I # {} THEN Min(I) ELSE 0
           found == IF k = 0 THEN Missing ELSE values[k]
<1>4. DecodeEnum(item, raw) = IF found = Missing THEN raw ELSE found.label
  BY DEF DecodeEnum, FindFirst, SelectInSeq
<1>5. Len(values) \in Nat /\ DOMAIN values = 1 .. Len(values)
  BY <1>1
<1>6. Min(I) \in I /\ I # {}
  <2>1. I \in SUBSET (1 .. Len(values)) /\ I # {}
    BY <1>3, <1>5
  <2> HIDE DEF I
  <2>2. QED
    BY <1>5, <2>1, MinAmong
<1>7. Min(I) \in 1 .. Len(values) /\ values[Min(I)].raw % Word = raw
  BY Zenon, <1>6
<1> HIDE DEF I
<1>8. values[Min(I)].raw \in Bytes
  BY <1>1, <1>5, <1>7
<1>9. values[Min(I)].raw % Word = values[Min(I)].raw
  BY <1>8, OneByte
<1>10. Min(I) = i
  BY <1>1, <1>5, <1>7, <1>9
<1>11. found = values[i]
  BY <1>6, <1>5, <1>10
<1>12. values[i] # Missing
  <2>1. values[i] \in EnumValue
    BY <1>1
  <2>2. QED
    BY Zenon, <2>1, CatalogAssumption
<1> HIDE DEF found, raw, values
<1>13. DecodeEnum(item, raw) = label
  BY <1>2, <1>4, <1>11, <1>12
<1>14. QED
  BY Zenon, <1>3, <1>13

\* What the bytes of an accepted value decode to.
ReadBack(item, body) ==
  IF item.type = "float" THEN Rounded(body.value, item.encoding.scale) * item.encoding.scale
  ELSE body.value

\* Of a faithful item, every value that encode accepts is read back, a float
\* as the multiple of its scale that it was rounded to
\* (did_catalog.cpp:309-336,338-397).
THEOREM DecodeUndoesEncode ==
  ASSUME NEW item, Parsed(item), Faithful(item),
         NEW body, Json(body), NEW bytes \in Encode(item, body)
  PROVE  Decode(item, bytes) = {ReadBack(item, body)}
<1>1. CASE item.type = "float"
  <2> DEFINE n == item.encoding.bytes
             big == item.encoding.endian = "big"
             scale == item.encoding.scale
  <2>1. body.is = "number" /\ bytes \in EncodeFloat(item, body.value)
    BY <1>1 DEF Encode
  <2>2. n \in 1 .. WordBytes /\ n < WordBytes /\ body.value \in Int /\ big \in BOOLEAN
    BY <1>1, <2>1 DEF Parsed, Json, Faithful
  <2>3. PICK u \in 0 .. Place[n] - 1 : bytes = UintToBytes(u, n, big) /\ u = Rounded(body.value, scale)
    BY Zenon, <1>1, <2>1, <2>2, EncodedFloat
  <2>4. Len(bytes) = n /\ BytesToUint(bytes, big) = u
    <3> HIDE DEF n, big
    <3>1. QED
      BY Zenon, <2>2, <2>3, UintToBytesAndBack
  <2>5. Decode(item, bytes) = {BytesToUint(bytes, big) * scale}
    BY <1>1, <2>4 DEF Decode
  <2>6. QED
    BY <1>1, <2>3, <2>4, <2>5 DEF ReadBack
<1>2. CASE item.type # "float"
  <2>1. body.value \in Texts /\ bytes \in EncodeText(item, body.value)
    BY <1>2 DEF Encode, Json
  <2>2. CASE item.type = "string"
    <3>1. bytes = body.value
      BY <2>1, <2>2 DEF EncodeText
    <3>2. QED
      BY <2>2, <3>1 DEF Decode, ReadBack
  <2>3. CASE item.type = "enum"
    <3>1. bytes \in EncodeEnum(item, body.value)
      BY <2>1, <2>3 DEF EncodeText
    <3>2. DecodeEnum(item, BytesToUint(bytes, TRUE)) = body.value
      BY <2>3, <3>1, EnumAndBack
    <3>3. QED
      BY <2>3, <3>2 DEF Decode, ReadBack
  <2>4. CASE item.type = "raw"
    <3>1. bytes \in FromHex(body.value)
      BY <2>1, <2>4 DEF EncodeText
    <3>2. ToHex(bytes) = body.value
      BY <2>1, <3>1, HexAndBack
    <3>3. QED
      BY <2>4, <3>2 DEF Decode, ReadBack
  <2>5. QED
    BY <1>2, <2>2, <2>3, <2>4 DEF Parsed
<1>3. QED
  BY <1>1, <1>2

=============================================================================
