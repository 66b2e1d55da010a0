----------------------------- MODULE SceneProofs -----------------------------
(***************************************************************************)
(* Proofs about offline packages, for any scene, manifest and time.         *)
(***************************************************************************)
EXTENDS ScenePackage, FiniteSetTheorems, WellFoundedInduction, TLAPS

-----------------------------------------------------------------------------
(* Recursion along a sequence. *)

\* Induction, for a set of natural numbers.
LEMMA UpFromZero ==
  ASSUME NEW S, 0 \in S, \A n \in Nat : n \in S => n + 1 \in S
  PROVE  \A n \in Nat : n \in S
<1> DEFINE T == {n \in Nat : n \notin S}
<1>1. SUFFICES ASSUME T # {} PROVE FALSE
  OBVIOUS
<1>2. PICK x \in T : \A y \in T : ~(<<y, x>> \in OpToRel(<, Nat))
  BY <1>1, WFMin, NatLessThanWellFounded
<1>3. \A y \in T : ~(y < x)
  BY <1>2 DEF OpToRel
<1>4. x \in Nat /\ x \notin S /\ x # 0
  OBVIOUS
<1>5. x - 1 \in Nat /\ x - 1 < x /\ (x - 1) + 1 = x
  BY <1>4
<1>6. x - 1 \in S
  BY <1>3, <1>5
<1>7. QED
  BY <1>4, <1>5, <1>6

\* f is computed from the left, from base on, a step for each of the n elements.
Computed(f, base, n, step) ==
  f = [i \in 0..n |-> IF i = 0 THEN base ELSE step[i][f[i - 1]]]

\* What is computed from the left, one element after the other, exists.
LEMMA LeftToRight ==
  ASSUME NEW T, NEW base \in T, NEW n \in Nat, NEW step \in [1..n -> [T -> T]]
  PROVE  \E f \in [0..n -> T] : Computed(f, base, n, step)
<1> DEFINE Upto(f, m) == f \in [0..m -> T] /\ f[0] = base /\ \A i \in 1..m : f[i] = step[i][f[i - 1]]
           S == {m \in Nat : m <= n => \E f : Upto(f, m)}
<1>1. 0 \in S
  <2> DEFINE f == [i \in 0..0 |-> base]
  <2>1. Upto(f, 0)
    OBVIOUS
  <2>2. QED
    BY <2>1
<1>2. ASSUME NEW m \in Nat, m \in S PROVE m + 1 \in S
  <2>1. SUFFICES ASSUME m + 1 <= n PROVE \E f : Upto(f, m + 1)
    <3>1. m + 1 \in Nat
      OBVIOUS
    <3> HIDE DEF Upto
    <3>2. QED
      BY <3>1, Zenon
  <2>2. PICK f : Upto(f, m)
    <3>1. m <= n
      BY <2>1
    <3> HIDE DEF Upto
    <3>2. QED
      BY <1>2, <3>1, Zenon
  <2> DEFINE last == step[m + 1][f[m]]
             g == [i \in 0..(m + 1) |-> IF i = m + 1 THEN last ELSE f[i]]
  <2>3. f[m] \in T /\ m + 1 \in 1..n
    BY <2>1, <2>2
  <2>4. last \in T
    BY <2>3
  <2> HIDE DEF last
  <2>5. g \in [0..(m + 1) -> T] /\ g[0] = base
    BY <2>2, <2>4
  <2>6. ASSUME NEW i \in 1..(m + 1) PROVE g[i] = step[i][g[i - 1]]
    <3>1. i - 1 \in 0..m /\ g[i - 1] = f[i - 1]
      OBVIOUS
    <3>2. CASE i = m + 1
      BY <3>1, <3>2 DEF last
    <3>3. CASE i # m + 1
      <4>1. i \in 1..m /\ g[i] = f[i]
        BY <3>3
      <4>2. QED
        BY <2>2, <3>1, <4>1
    <3>4. QED
      BY <3>2, <3>3
  <2>7. Upto(g, m + 1)
    BY <2>5, <2>6
  <2>8. QED
    BY <2>7
<1> HIDE DEF S
<1>3. n \in S
  BY <1>1, <1>2, UpFromZero
<1>4. PICK f : Upto(f, n)
  BY <1>3 DEF S
<1> DEFINE body(i) == IF i = 0 THEN base ELSE step[i][f[i - 1]]
<1>5. \A i \in 0..n : f[i] = body(i)
  <2>1. \A i \in 0..n : i = 0 \/ i \in 1..n
    OBVIOUS
  <2>2. QED
    BY <1>4, <2>1
<1>6. f = [i \in 0..n |-> f[i]] /\ f \in [0..n -> T]
  BY <1>4
<1>7. f = [i \in 0..n |-> body(i)]
  <2> HIDE DEF body
  <2>1. QED
    BY <1>5, <1>6
<1>8. Computed(f, base, n, step)
  BY <1>7 DEF Computed
<1>9. QED
  BY <1>6, <1>8

-----------------------------------------------------------------------------
(* Sums of sizes. *)

LEMMA SumsAddUp ==
  ASSUME NEW assets \in Seq(Assets)
  PROVE  \E sum \in [0..Len(assets) -> Int] :
           /\ sum[0] = 0 /\ \A i \in 1..Len(assets) : sum[i] = sum[i - 1] + assets[i].bytes
           /\ SumBytes(assets) = sum[Len(assets)]
<1> DEFINE n == Len(assets)
           Sum(g) == [i \in 0..n |-> IF i = 0 THEN 0 ELSE g[i - 1] + assets[i].bytes]
           sum == CHOOSE g : g = Sum(g)
           step == [i \in 1..n |-> [x \in Int |-> x + assets[i].bytes]]
<1>1. n \in Nat /\ \A i \in 1..n : assets[i].bytes \in Int
  <2>1. n \in Nat /\ \A i \in 1..n : assets[i] \in Assets
    OBVIOUS
  <2>2. \A a \in Assets : a.bytes \in Int
    BY DEF Assets
  <2>3. QED
    BY <2>1, <2>2
<1>2. step \in [1..n -> [Int -> Int]]
  BY <1>1
<1> HIDE DEF n
<1>3. PICK f \in [0..n -> Int] : Computed(f, 0, n, step)
  <2> HIDE DEF step
  <2>1. 0 \in Int /\ n \in Nat
    BY <1>1
  <2>2. QED
    BY <1>2, <2>1, LeftToRight
<1>4. \A i \in 1..n : i - 1 \in 0..n /\ f[i - 1] \in Int /\ step[i][f[i - 1]] = f[i - 1] + assets[i].bytes
  BY <1>1
<1> HIDE DEF step
<1>5. f = Sum(f)
  <2>1. \A i \in 0..n : i # 0 => step[i][f[i - 1]] = f[i - 1] + assets[i].bytes
    BY <1>1, <1>4
  <2>2. \A i \in 0..n : (IF i = 0 THEN 0 ELSE step[i][f[i - 1]]) = IF i = 0 THEN 0 ELSE f[i - 1] + assets[i].bytes
    BY <2>1
  <2>3. QED
    BY <1>3, <2>2 DEF Computed
<1>6. sum = Sum(sum)
  BY <1>5
<1>7. SumBytes(assets) = sum[n]
  BY DEF SumBytes, n
<1>8. sum[0] = 0 /\ \A i \in 1..n : sum[i] = sum[i - 1] + assets[i].bytes
  <2>1. \A i \in 0..n : sum[i] = IF i = 0 THEN 0 ELSE sum[i - 1] + assets[i].bytes
    BY <1>6
  <2>2. 0 \in 0..n /\ \A i \in 1..n : i \in 0..n /\ i # 0
    BY <1>1
  <2>3. QED
    BY <2>1, <2>2
<1>9. DOMAIN sum = 0..n /\ sum = [i \in 0..n |-> sum[i]]
  BY <1>6
<1> HIDE DEF sum
<1> DEFINE S == {i \in Nat : i <= n => sum[i] \in Int}
<1>10. 0 \in S
  BY <1>8
<1>11. ASSUME NEW i \in Nat, i \in S PROVE i + 1 \in S
  <2>1. SUFFICES ASSUME i + 1 <= n PROVE sum[i + 1] \in Int
    OBVIOUS
  <2>2. i + 1 \in 1..n /\ (i + 1) - 1 = i /\ sum[i] \in Int
    BY <1>1, <1>11, <2>1
  <2>3. sum[i + 1] = sum[i] + assets[i + 1].bytes /\ assets[i + 1].bytes \in Int
    BY <1>1, <1>8, <2>2
  <2>4. QED
    BY <2>2, <2>3
<1>12. \A i \in 0..n : sum[i] \in Int
  <2> HIDE DEF S
  <2>1. \A i \in Nat : i \in S
    BY <1>10, <1>11, UpFromZero
  <2>2. QED
    BY <1>1, <2>1 DEF S
<1>13. sum \in [0..n -> Int]
  BY <1>9, <1>12
<1>14. QED
  BY <1>7, <1>8, <1>13 DEF n

Sums == [total : Int, over : BOOLEAN]

LEMMA CountsAreSums ==
  ASSUME NEW x \in Sums, NEW bytes \in Int, NEW max \in Int
  PROVE  /\ Count(x, bytes, max) \in Sums
         /\ bytes > 0 => /\ x.over => Count(x, bytes, max).over
                         /\ Count(x, bytes, max).over \/ Count(x, bytes, max).total = x.total + bytes
BY DEF Count, Sums

\* Sizes that are all positive are added up, unless the sum goes over.
LEMMA BudgetsAddUp ==
  ASSUME NEW m, m.assets \in Seq(Assets), m.max \in Int,
         \A i \in 1..Len(m.assets) : m.assets[i].bytes > 0
  PROVE  Counted(m).over \/ Counted(m).total = SumBytes(m.assets)
<1> DEFINE assets == m.assets
           n == Len(assets)
           Sum(g) == [i \in 0..n |-> IF i = 0 THEN [total |-> 0, over |-> FALSE]
                                     ELSE Count(g[i - 1], assets[i].bytes, m.max)]
           counted == CHOOSE g : g = Sum(g)
           step == [i \in 1..n |-> [x \in Sums |-> Count(x, assets[i].bytes, m.max)]]
           none == [total |-> 0, over |-> FALSE]
<1>1. n \in Nat /\ \A i \in 1..n : assets[i].bytes \in Int
  <2>1. n \in Nat /\ \A i \in 1..n : assets[i] \in Assets
    OBVIOUS
  <2>2. \A a \in Assets : a.bytes \in Int
    BY DEF Assets
  <2>3. QED
    BY <2>1, <2>2
<1>2. none \in Sums /\ none.total = 0
  BY DEF Sums
<1>3. step \in [1..n -> [Sums -> Sums]]
  BY <1>1, CountsAreSums
<1>4. Counted(m) = counted[n]
  BY DEF Counted
<1> HIDE DEF assets, n
<1>5. PICK f \in [0..n -> Sums] : Computed(f, none, n, step)
  <2> HIDE DEF step, none
  <2>1. QED
    BY <1>1, <1>2, <1>3, LeftToRight
<1>6. \A i \in 0..n : i # 0 => step[i][f[i - 1]] = Count(f[i - 1], assets[i].bytes, m.max)
  <2>1. \A i \in 0..n : i # 0 => i - 1 \in 0..n /\ f[i - 1] \in Sums /\ i \in 1..n
    BY <1>1
  <2>2. QED
    BY <2>1
<1> HIDE DEF step
<1>7. f = Sum(f)
  <2>1. \A i \in 0..n : (IF i = 0 THEN none ELSE step[i][f[i - 1]])
                        = IF i = 0 THEN none ELSE Count(f[i - 1], assets[i].bytes, m.max)
    BY <1>6
  <2>2. QED
    BY <1>5, <2>1 DEF Computed
<1>8. counted = Sum(counted)
  BY <1>7
<1> HIDE DEF none
<1>9. \A i \in 0..n : counted[i] = IF i = 0 THEN none ELSE Count(counted[i - 1], assets[i].bytes, m.max)
  BY <1>8 DEF none
<1> HIDE DEF counted
<1>10. PICK sum \in [0..n -> Int] :
           /\ sum[0] = 0 /\ \A i \in 1..n : sum[i] = sum[i - 1] + assets[i].bytes
           /\ SumBytes(assets) = sum[n]
  BY SumsAddUp DEF assets, n
<1> DEFINE Right(i) == counted[i] \in Sums /\ (counted[i].over \/ counted[i].total = sum[i])
           S == {i \in Nat : i <= n => Right(i)}
<1>11. 0 \in S
  BY <1>1, <1>2, <1>9, <1>10
<1>12. ASSUME NEW i \in Nat, i \in S PROVE i + 1 \in S
  <2>1. SUFFICES ASSUME i + 1 <= n PROVE Right(i + 1)
    OBVIOUS
  <2>2. i + 1 \in 1..n /\ i + 1 \in 0..n /\ i + 1 # 0 /\ (i + 1) - 1 = i /\ Right(i)
    BY <1>1, <1>12, <2>1
  <2>3. counted[i + 1] = Count(counted[i], assets[i + 1].bytes, m.max)
    BY <1>9, <2>2
  <2>4. assets[i + 1].bytes \in Int /\ assets[i + 1].bytes > 0
    BY <1>1, <2>2 DEF assets, n
  <2>5. counted[i + 1] \in Sums
        /\ (counted[i].over => counted[i + 1].over)
        /\ (counted[i + 1].over \/ counted[i + 1].total = counted[i].total + assets[i + 1].bytes)
    BY <2>2, <2>3, <2>4, CountsAreSums
  <2>6. sum[i + 1] = sum[i] + assets[i + 1].bytes
    BY <1>10, <2>2
  <2>7. QED
    BY <2>2, <2>5, <2>6
<1> HIDE DEF S
<1>13. n \in S
  BY <1>1, <1>11, <1>12, UpFromZero
<1>14. Right(n)
  BY <1>1, <1>13 DEF S
<1>15. QED
  BY <1>4, <1>10, <1>14 DEF assets

-----------------------------------------------------------------------------
(* The references of a document, and the entries of a manifest. *)

LEMMA AppendedOnce ==
  ASSUME NEW R, NEW s \in Seq(R), NEW e \in R
  PROVE  LET t == IF Contains(s, e) THEN s ELSE Append(s, e)
         IN t \in Seq(R) /\ ToSet(t) = ToSet(s) \cup {e}
<1>1. CASE Contains(s, e)
  BY <1>1 DEF Contains, ToSet
<1>2. CASE ~Contains(s, e)
  <2> DEFINE t == Append(s, e)
  <2>1. t \in Seq(R) /\ Len(t) = Len(s) + 1 /\ Len(s) \in Nat
    OBVIOUS
  <2>2. t[Len(s) + 1] = e /\ \A i \in 1..Len(s) : t[i] = s[i]
    BY <2>1
  <2>3. ToSet(t) = {t[i] : i \in 1..(Len(s) + 1)} /\ ToSet(s) = {s[i] : i \in 1..Len(s)}
    BY <2>1 DEF ToSet
  <2> HIDE DEF t
  <2>4. \A i \in 1..(Len(s) + 1) : i = Len(s) + 1 \/ i \in 1..Len(s)
    BY <2>1
  <2>5. Len(s) + 1 \in 1..(Len(s) + 1) /\ \A i \in 1..Len(s) : i \in 1..(Len(s) + 1)
    BY <2>1
  <2>6. ToSet(t) \subseteq ToSet(s) \cup {e}
    BY <2>2, <2>3, <2>4
  <2>7. e \in ToSet(t)
    BY <2>2, <2>3, <2>5
  <2>8. ToSet(s) \subseteq ToSet(t)
    <3>1. ASSUME NEW i \in 1..Len(s) PROVE s[i] \in ToSet(t)
      BY <2>2, <2>3, <2>5
    <3>2. QED
      BY <2>3, <3>1
  <2>9. QED
    BY <1>2, <2>1, <2>6, <2>7, <2>8 DEF t
<1>3. QED
  BY <1>1, <1>2

\* A document's references are kept, each once.
LEMMA ContentsAreKept ==
  ASSUME NEW R, NEW document \in Seq(R)
  PROVE  Contents(document) \in Seq(R) /\ ToSet(Contents(document)) = ToSet(document)
<1> DEFINE n == Len(document)
           One(x, i) == IF Contains(x, document[i]) THEN x ELSE Append(x, document[i])
           Find(g) == [i \in 0..n |-> IF i = 0 THEN <<>> ELSE One(g[i - 1], i)]
           found == CHOOSE g : g = Find(g)
           step == [i \in 1..n |-> [x \in Seq(R) |-> One(x, i)]]
<1>1. n \in Nat /\ \A i \in 1..n : document[i] \in R
  OBVIOUS
<1>2. \A x \in Seq(R), i \in 1..n : One(x, i) \in Seq(R) /\ ToSet(One(x, i)) = ToSet(x) \cup {document[i]}
  BY <1>1, AppendedOnce
<1>3. Contents(document) = found[n]
  BY DEF Contents
<1>4. step \in [1..n -> [Seq(R) -> Seq(R)]] /\ <<>> \in Seq(R)
  BY <1>2
<1> HIDE DEF One, n
<1>5. PICK f \in [0..n -> Seq(R)] : Computed(f, <<>>, n, step)
  <2> HIDE DEF step
  <2>1. QED
    BY <1>1, <1>4, LeftToRight
<1>6. \A i \in 0..n : i # 0 => step[i][f[i - 1]] = One(f[i - 1], i)
  <2>1. \A i \in 0..n : i # 0 => i - 1 \in 0..n /\ f[i - 1] \in Seq(R) /\ i \in 1..n
    BY <1>1
  <2>2. QED
    BY <2>1
<1> HIDE DEF step
<1>7. f = Find(f)
  <2>1. \A i \in 0..n : (IF i = 0 THEN <<>> ELSE step[i][f[i - 1]]) = IF i = 0 THEN <<>> ELSE One(f[i - 1], i)
    BY <1>6
  <2>2. QED
    BY <1>5, <2>1 DEF Computed
<1>8. found = Find(found)
  BY <1>7
<1>9. \A i \in 0..n : found[i] = IF i = 0 THEN <<>> ELSE One(found[i - 1], i)
  BY <1>8
<1> HIDE DEF found
<1> DEFINE Right(i) == found[i] \in Seq(R) /\ ToSet(found[i]) = {document[j] : j \in 1..i}
           S == {i \in Nat : i <= n => Right(i)}
<1>10. 0 \in S
  <2>1. found[0] = <<>>
    BY <1>1, <1>9
  <2>2. ToSet(<<>>) = {} /\ 1..0 = {}
    BY DEF ToSet
  <2>3. QED
    BY <1>4, <2>1, <2>2
<1>11. ASSUME NEW i \in Nat, i \in S PROVE i + 1 \in S
  <2>1. SUFFICES ASSUME i + 1 <= n PROVE Right(i + 1)
    OBVIOUS
  <2>2. i + 1 \in 1..n /\ i + 1 \in 0..n /\ i + 1 # 0 /\ (i + 1) - 1 = i /\ Right(i)
    BY <1>1, <1>11, <2>1
  <2>3. found[i + 1] = One(found[i], i + 1)
    BY <1>9, <2>2
  <2>4. found[i + 1] \in Seq(R) /\ ToSet(found[i + 1]) = {document[j] : j \in 1..i} \cup {document[i + 1]}
    BY <1>2, <2>2, <2>3
  <2>5. 1..(i + 1) = 1..i \cup {i + 1}
    OBVIOUS
  <2>6. QED
    BY <2>4, <2>5
<1> HIDE DEF S
<1>12. n \in S
  BY <1>1, <1>10, <1>11, UpFromZero
<1>13. Right(n)
  BY <1>1, <1>12 DEF S
<1>14. ToSet(document) = {document[j] : j \in 1..n}
  BY DEF ToSet, n
<1>15. QED
  BY <1>3, <1>13, <1>14

\* The entries that are objects make a manifest.
LEMMA ManifestsParse ==
  ASSUME NEW document \in Documents
  PROVE  ParseManifest(document) \in Documents
<1> DEFINE assets == document.assets
           n == Len(assets)
           One(x, i) == IF assets[i].object THEN Append(x, assets[i]) ELSE x
           Keep(g) == [i \in 0..n |-> IF i = 0 THEN <<>> ELSE One(g[i - 1], i)]
           kept == CHOOSE g : g = Keep(g)
           step == [i \in 1..n |-> [x \in Seq(Assets) |-> One(x, i)]]
<1>1. assets \in Seq(Assets)
  BY DEF Documents
<1>2. n \in Nat /\ \A i \in 1..n : assets[i] \in Assets
  BY <1>1
<1>3. ParseManifest(document) = [document EXCEPT !.assets = kept[n]]
  BY DEF ParseManifest
<1> HIDE DEF assets
<1>4. \A x \in Seq(Assets), i \in 1..n : One(x, i) \in Seq(Assets)
  BY <1>2
<1>5. step \in [1..n -> [Seq(Assets) -> Seq(Assets)]] /\ <<>> \in Seq(Assets)
  BY <1>4
<1> HIDE DEF One, n
<1>6. PICK f \in [0..n -> Seq(Assets)] : Computed(f, <<>>, n, step)
  <2> HIDE DEF step
  <2>1. QED
    BY <1>2, <1>5, LeftToRight
<1>7. \A i \in 0..n : i # 0 => step[i][f[i - 1]] = One(f[i - 1], i)
  <2>1. \A i \in 0..n : i # 0 => i - 1 \in 0..n /\ f[i - 1] \in Seq(Assets) /\ i \in 1..n
    BY <1>2
  <2>2. QED
    BY <2>1
<1> HIDE DEF step
<1>8. f = Keep(f)
  <2>1. \A i \in 0..n : (IF i = 0 THEN <<>> ELSE step[i][f[i - 1]]) = IF i = 0 THEN <<>> ELSE One(f[i - 1], i)
    BY <1>7
  <2>2. QED
    BY <1>6, <2>1 DEF Computed
<1>9. kept = Keep(kept)
  BY <1>8
<1>10. \A i \in 0..n : kept[i] = IF i = 0 THEN <<>> ELSE One(kept[i - 1], i)
  BY <1>9
<1> HIDE DEF kept
<1> DEFINE S == {i \in Nat : i <= n => kept[i] \in Seq(Assets)}
<1>11. 0 \in S
  <2>1. kept[0] = <<>>
    BY <1>2, <1>10
  <2>2. QED
    BY <1>5, <2>1
<1>12. ASSUME NEW i \in Nat, i \in S PROVE i + 1 \in S
  <2>1. SUFFICES ASSUME i + 1 <= n PROVE kept[i + 1] \in Seq(Assets)
    OBVIOUS
  <2>2. i + 1 \in 1..n /\ i + 1 \in 0..n /\ i + 1 # 0 /\ (i + 1) - 1 = i /\ kept[i] \in Seq(Assets)
    BY <1>2, <1>12, <2>1
  <2>3. kept[i + 1] = One(kept[i], i + 1)
    BY <1>10, <2>2
  <2>4. QED
    BY <1>4, <2>2, <2>3
<1> HIDE DEF S
<1>13. n \in S
  BY <1>2, <1>11, <1>12, UpFromZero
<1>14. kept[n] \in Seq(Assets)
  BY <1>2, <1>13 DEF S
<1>15. QED
  BY <1>3, <1>14 DEF Documents

-----------------------------------------------------------------------------
(* What a verdict says of a manifest. *)

\* Usable at a time, with these files at hand.
Usable(m, t, known) ==
  /\ t < m.expires /\ (State(m, t, known) = "ready" => t < m.stale)
  /\ \A a \in ToSet(m.assets) : a.safe /\ (a.required => a.folded \in known)
  /\ Cardinality({a.folded : a \in ToSet(m.assets)}) = Len(m.assets)
  /\ SumBytes(m.assets) <= m.max

\* A manifest that passes is usable at that time, with these files at hand.
LEMMA PassingIsUsable ==
  ASSUME NEW m \in Documents, NEW t \in Int, NEW known, State(m, t, known) \in {"ready", "stale"}
  PROVE  Usable(m, t, known)
<1> DEFINE n == Len(m.assets)
<1>1. /\ m.created \in Int /\ m.stale \in Int /\ m.expires \in Int /\ m.max \in Int
      /\ m.assets \in Seq(Assets)
  BY DEF Documents
<1>2. /\ ~DatesInvalid(m) /\ ~Budget(m) /\ ~AssetsInvalid(m) /\ ~Partial(m, known) /\ ~Expired(m, t)
      /\ State(m, t, known) = "ready" => ~Stale(m, t)
  BY DEF State
<1>3. m.stale # None /\ m.expires # None
  BY <1>2 DEF DatesInvalid
<1>4. t < m.expires
  BY <1>1, <1>2, <1>3 DEF Expired
<1>5. State(m, t, known) = "ready" => t < m.stale
  BY <1>1, <1>2, <1>3 DEF Stale
<1>6. n \in Nat /\ (\A i \in 1..n : m.assets[i] \in Assets) /\ ToSet(m.assets) = {m.assets[i] : i \in 1..n}
  BY <1>1 DEF ToSet
<1>7. \A i \in 1..n : ~AssetInvalid(m, i)
  BY <1>2 DEF AssetsInvalid
<1>8. \A i \in 1..n : m.assets[i].bytes \in Int /\ m.assets[i].bytes > 0 /\ m.assets[i].safe
  <2>1. \A a \in Assets : a.bytes \in Int /\ a.safe \in BOOLEAN
    BY DEF Assets
  <2>2. \A i \in 1..n : ~(m.assets[i].bytes <= 0) /\ m.assets[i].safe
    BY <1>7 DEF AssetInvalid
  <2>3. QED
    BY <1>6, <2>1, <2>2
<1>9. \A i \in 1..n : m.assets[i].required => m.assets[i].folded \in known
  BY <1>2, <1>7 DEF Partial, AssetInvalid
<1>10. \A i \in 1..n : m.assets[i].folded \notin {m.assets[j].folded : j \in 1..(i - 1)}
  BY <1>7 DEF AssetInvalid
<1>11. Cardinality({a.folded : a \in ToSet(m.assets)}) = n
  <2> DEFINE names == {a.folded : a \in ToSet(m.assets)}
             name == [i \in 1..n |-> m.assets[i].folded]
  <2>1. names = {m.assets[i].folded : i \in 1..n}
    BY <1>6
  <2>2. name \in [1..n -> names] /\ \A x \in names : \E i \in 1..n : name[i] = x
    BY <2>1
  <2>3. ASSUME NEW i \in 1..n, NEW j \in 1..n, name[i] = name[j] PROVE i = j
    <3>1. ~(i < j)
      <4>1. SUFFICES ASSUME i < j PROVE FALSE
        OBVIOUS
      <4>2. i \in 1..(j - 1)
        BY <4>1
      <4>3. QED
        BY <1>10, <2>3, <4>2
    <3>2. ~(j < i)
      <4>1. SUFFICES ASSUME j < i PROVE FALSE
        OBVIOUS
      <4>2. j \in 1..(i - 1)
        BY <4>1
      <4>3. QED
        BY <1>10, <2>3, <4>2
    <3>3. QED
      BY <3>1, <3>2
  <2> HIDE DEF name, names
  <2>4. name \in Surjection(1..n, names)
    BY <2>2 DEF Surjection
  <2>5. name \in Injection(1..n, names)
    BY <2>2, <2>3 DEF Injection, IsInjective
  <2>6. IsFiniteSet(1..n) /\ Cardinality(1..n) = n
    BY <1>6, FS_Interval
  <2>7. Cardinality(names) = n
    BY <2>4, <2>5, <2>6, FS_Surjection
  <2>8. QED
    BY <2>7 DEF names
<1>12. SumBytes(m.assets) <= m.max
  <2>1. Counted(m).over \/ Counted(m).total = SumBytes(m.assets)
    BY <1>1, <1>8, BudgetsAddUp
  <2>2. ~Counted(m).over /\ ~(Counted(m).total > m.max)
    BY <1>2 DEF Budget
  <2>3. SumBytes(m.assets) \in Int
    <3>1. Len(m.assets) \in 0..Len(m.assets)
      BY <1>6
    <3>2. QED
      BY <1>1, <3>1, SumsAddUp
  <2>4. QED
    BY <1>1, <2>1, <2>2, <2>3
<1>13. QED
  BY <1>4, <1>5, <1>6, <1>8, <1>9, <1>11, <1>12 DEF Usable

-----------------------------------------------------------------------------
(* What holds throughout. *)

SceneTypes ==
  /\ scene \in Scenes /\ build \in Builds /\ now \in Int /\ created \in Int
  /\ pending \in Seq(AllRefs) /\ fetched \subseteq AllRefs /\ tiles \in Seq(AllRefs)
  /\ processed \in Nat /\ requests \in [AllRefs -> Nat]
  /\ manifest = NoManifest \/ manifest \in Documents
  /\ verdict.now \in Int

\* The walk: what has been fetched or waits is reached from the root, and as long as
\* documents are followed it is all that the documents followed refer to.
Walked ==
  /\ ToSet(tiles) = fetched
  /\ ToSet(scene.root) \subseteq fetched \cup ToSet(pending)
  /\ fetched \cup ToSet(pending) \subseteq Reachable
  /\ processed < build.maxTilesets => RefersTo(fetched) \subseteq fetched \cup ToSet(pending)

\* What has been fetched has been asked for once, the root document once more.
AskedFor(r) ==
  LET n == IF r \in fetched THEN 1 ELSE 0
  IN requests[r] = n \/ (r = RootDocument /\ requests[r] = n + 1)

BundleInv ==
  /\ \A r \in AllRefs : AskedFor(r)
  /\ phase \in {"call", "metadata", "root"} =>
       /\ fetched = {} /\ tiles = <<>> /\ pending = <<>> /\ processed = 0
       /\ \A r \in AllRefs : requests[r] = 0
  /\ phase \in {"metadata", "root", "walk", "built"} => build.maxTilesets > 0
  /\ processed > 0 => processed <= build.maxTilesets
  /\ phase = "built" => pending = <<>>
  /\ phase \in {"walk", "built"} => Walked

\* A verdict is about the manifest at hand.
VerdictInv ==
  /\ phase \in {"call", "metadata", "root", "walk"} => manifest = NoManifest
  /\ verdict.state # "none" =>
       manifest # NoManifest /\ verdict.state = State(manifest, verdict.now, verdict.known)

\* A bundle's manifest is one.
LEMMA BundlesHaveManifests ==
  ASSUME SceneTypes
  PROVE  Assemble \in Documents
<1> DEFINE files == [i \in 1..Len(tiles) |-> TileAsset(tiles[i])]
           assets == <<SceneAsset, RootAsset>> \o files
           expires == IF build.expires = None THEN created + build.ttl ELSE build.expires
           stale == IF build.stale = None THEN StaleAt(expires) ELSE build.stale
           max == IF build.max = None THEN SumBytes(assets) ELSE build.max
<1>1. /\ created \in Int /\ tiles \in Seq(AllRefs)
      /\ build.expires \in Int /\ build.ttl \in Int /\ build.stale \in Int /\ build.max \in Int
  BY SceneAssumption DEF SceneTypes
<1>2. \A r \in AllRefs : TileAsset(r) \in Assets
  <2>1. /\ scene.bytes \in [AllRefs -> Int]
        /\ \A r \in AllRefs : r.key \in Keys /\ r.folded \in Keys /\ r.safe \in BOOLEAN
    BY SceneAssumption DEF SceneTypes, AllRefs
  <2>2. \A r \in AllRefs : r.key \in Keys /\ r.folded \in Keys /\ r.safe \in BOOLEAN /\ scene.bytes[r] \in Int
    BY <2>1
  <2>3. QED
    BY <2>2 DEF TileAsset, Asset, Assets
<1>3. SceneAsset \in Assets /\ RootAsset \in Assets
  <2>1. \A k \in Keys, b \in BOOLEAN : Asset(k, k, TRUE, b, TRUE, 1, TRUE, TRUE) \in Assets
    BY DEF Asset, Assets
  <2>2. "scene-metadata" \in Keys /\ "tileset" \in Keys
    BY SceneAssumption
  <2>3. QED
    BY <2>1, <2>2 DEF SceneAsset, RootAsset
<1>4. files \in Seq(Assets)
  BY <1>1, <1>2
<1> HIDE DEF files
<1>5. assets \in Seq(Assets)
  BY <1>3, <1>4
<1> HIDE DEF assets
<1>6. SumBytes(assets) \in Int
  <2>1. Len(assets) \in 0..Len(assets)
    BY <1>5
  <2>2. QED
    BY <1>5, <2>1, SumsAddUp
<1>7. expires \in Int
  BY <1>1
<1> HIDE DEF expires
<1>8. stale \in Int
  BY <1>1, <1>7 DEF StaleAt
<1>9. max \in Int
  BY <1>1, <1>6
<1> HIDE DEF stale, max
<1>10. (HasBounds /\ scene.onGlobe) \in BOOLEAN
  OBVIOUS
<1>11. Assemble = [object |-> TRUE, schema |-> TRUE, identity |-> TRUE, created |-> created,
                   stale |-> stale, expires |-> expires, extent |-> HasBounds /\ scene.onGlobe, lod |-> TRUE,
                   max |-> max, declared |-> SumBytes(assets), assets |-> assets]
  BY DEF Assemble, stale, expires, max, assets, files
<1>12. QED
  BY <1>1, <1>5, <1>6, <1>7, <1>8, <1>9, <1>10, <1>11 DEF Documents

\* A document that parses holds references to files of the scene.
LEMMA DocumentsRefer ==
  ASSUME SceneTypes
  PROVE  /\ scene.root # Malformed => scene.root \in Seq(AllRefs)
         /\ \A r \in AllRefs : r.tileset /\ scene.nested[r] # Malformed => scene.nested[r] \in Seq(AllRefs)
BY SceneAssumption DEF SceneTypes, AllRefs

\* The file fetched next, and the queue after it.
LEMMA QueuesGoOn ==
  ASSUME SceneTypes, pending # <<>>
  PROVE  /\ Head(pending) \in AllRefs /\ Tail(pending) \in Seq(AllRefs)
         /\ ToSet(pending) = {Head(pending)} \cup ToSet(Tail(pending))
<1>1. pending \in Seq(AllRefs) /\ Len(pending) \in Nat \ {0}
  BY DEF SceneTypes
<1>2. /\ Head(pending) = pending[1] /\ Tail(pending) \in Seq(AllRefs) /\ Len(Tail(pending)) = Len(pending) - 1
      /\ \A i \in 1..(Len(pending) - 1) : Tail(pending)[i] = pending[i + 1]
  BY <1>1
<1>3. ToSet(pending) = {pending[i] : i \in 1..Len(pending)}
  BY <1>1 DEF ToSet
<1>4. ToSet(Tail(pending)) = {pending[i + 1] : i \in 1..(Len(pending) - 1)}
  <2>1. DOMAIN Tail(pending) = 1..(Len(pending) - 1)
    BY <1>2
  <2>2. ToSet(Tail(pending)) = {Tail(pending)[i] : i \in 1..(Len(pending) - 1)}
    BY <2>1 DEF ToSet
  <2>3. QED
    BY <1>2, <2>2
<1>5. 1 \in 1..Len(pending) /\ (\A i \in 1..(Len(pending) - 1) : i + 1 \in 1..Len(pending))
  BY <1>1
<1>6. \A i \in 1..Len(pending) : i = 1 \/ (i - 1 \in 1..(Len(pending) - 1) /\ (i - 1) + 1 = i)
  BY <1>1
<1>7. ToSet(pending) \subseteq {pending[1]} \cup ToSet(Tail(pending))
  <2>1. ASSUME NEW i \in 1..Len(pending) PROVE pending[i] \in {pending[1]} \cup ToSet(Tail(pending))
    BY <1>4, <1>6
  <2>2. QED
    BY <1>3, <2>1
<1>8. {pending[1]} \cup ToSet(Tail(pending)) \subseteq ToSet(pending)
  BY <1>3, <1>4, <1>5
<1>9. QED
  BY <1>1, <1>2, <1>5, <1>7, <1>8

LEMMA JoinedRows ==
  ASSUME NEW R, NEW s \in Seq(R), NEW t \in Seq(R)
  PROVE  s \o t \in Seq(R) /\ ToSet(s \o t) = ToSet(s) \cup ToSet(t)
<1>1. Len(s) \in Nat /\ Len(t) \in Nat /\ Len(s \o t) = Len(s) + Len(t) /\ s \o t \in Seq(R)
  OBVIOUS
<1>2. \A q \in Seq(R) : ToSet(q) = {q[i] : i \in 1..Len(q)}
  BY DEF ToSet
<1>3. \A i \in 1..Len(s) : (s \o t)[i] = s[i] /\ i \in 1..Len(s \o t)
  BY <1>1
<1>4. \A i \in 1..Len(t) : (s \o t)[Len(s) + i] = t[i] /\ Len(s) + i \in 1..Len(s \o t)
  BY <1>1
<1>5. \A i \in 1..Len(s \o t) : i \in 1..Len(s) \/ (i - Len(s) \in 1..Len(t) /\ Len(s) + (i - Len(s)) = i)
  BY <1>1
<1>6. ToSet(s) \cup ToSet(t) \subseteq ToSet(s \o t)
  <2>1. \A i \in 1..Len(s) : s[i] \in ToSet(s \o t)
    BY <1>1, <1>2, <1>3
  <2>2. \A i \in 1..Len(t) : t[i] \in ToSet(s \o t)
    BY <1>1, <1>2, <1>4
  <2>3. QED
    BY <1>2, <2>1, <2>2
<1>7. \A i \in 1..Len(s \o t) : (s \o t)[i] \in ToSet(s) \cup ToSet(t)
  <2>1. TAKE i \in 1..Len(s \o t)
  <2>2. CASE i \in 1..Len(s)
    BY <1>2, <1>3, <2>2
  <2>3. CASE i - Len(s) \in 1..Len(t) /\ Len(s) + (i - Len(s)) = i
    <3>1. (s \o t)[i] = t[i - Len(s)]
      BY <1>4, <2>3
    <3>2. QED
      BY <1>2, <2>3, <3>1
  <2>4. QED
    BY <1>5, <2>2, <2>3
<1>8. ToSet(s \o t) = {(s \o t)[i] : i \in 1..Len(s \o t)}
  BY <1>1, <1>2
<1>9. QED
  BY <1>1, <1>6, <1>7, <1>8

\* What a fetch does: the next file is kept, and its references join the queue when
\* it is a tileset and the bound allows.
LEMMA FetchKeeps ==
  ASSUME SceneTypes, Fetch
  PROVE  LET r == Head(pending)
             expand == r.tileset /\ processed < build.maxTilesets
         IN /\ phase = "walk" /\ pending # <<>> /\ r \in AllRefs /\ r \notin fetched
            /\ fetched' = fetched \cup {r} /\ requests' = [requests EXCEPT ![r] = @ + 1]
            /\ UNCHANGED <<now, scene, build, created, manifest, verdict>>
            /\ \/ phase' = "raised" /\ UNCHANGED <<pending, tiles, processed>>
               \/ /\ phase' = phase /\ tiles' = Append(tiles, r)
                  /\ processed' = IF expand THEN processed + 1 ELSE processed
                  /\ pending' \in Seq(AllRefs)
                  /\ expand => /\ scene.nested[r] # Malformed
                               /\ ToSet(pending') = ToSet(Tail(pending)) \cup ToSet(scene.nested[r])
                  /\ ~expand => ToSet(pending') = ToSet(Tail(pending))
<1> DEFINE r == Head(pending)
           expand == r.tileset /\ processed < build.maxTilesets
<1>1. /\ phase = "walk" /\ pending # <<>> /\ r \notin fetched
      /\ fetched' = fetched \cup {r} /\ requests' = [requests EXCEPT ![r] = @ + 1]
      /\ UNCHANGED <<now, scene, build, created, manifest, verdict>>
  BY DEF Fetch
<1>2. r \in AllRefs /\ Tail(pending) \in Seq(AllRefs)
  BY <1>1, QueuesGoOn
<1>3. CASE expand /\ scene.nested[r] = Malformed
  <2>1. phase' = "raised" /\ UNCHANGED <<pending, tiles, processed>>
    BY <1>3 DEF Fetch
  <2>2. QED
    BY <1>1, <1>2, <2>1
<1>4. CASE expand /\ scene.nested[r] # Malformed
  <2>1. /\ phase' = phase /\ tiles' = Append(tiles, r) /\ processed' = processed + 1
        /\ pending' = Tail(pending) \o Contents(scene.nested[r])
    BY <1>4 DEF Fetch
  <2>2. scene.nested[r] \in Seq(AllRefs)
    BY <1>2, <1>4, DocumentsRefer
  <2>3. Contents(scene.nested[r]) \in Seq(AllRefs) /\ ToSet(Contents(scene.nested[r])) = ToSet(scene.nested[r])
    BY <2>2, ContentsAreKept
  <2>4. pending' \in Seq(AllRefs) /\ ToSet(pending') = ToSet(Tail(pending)) \cup ToSet(scene.nested[r])
    <3> DEFINE c == Contents(scene.nested[r])
    <3>1. c \in Seq(AllRefs) /\ ToSet(c) = ToSet(scene.nested[r]) /\ pending' = Tail(pending) \o c
      BY <2>1, <2>3
    <3> HIDE DEF c
    <3>2. Tail(pending) \o c \in Seq(AllRefs) /\ ToSet(Tail(pending) \o c) = ToSet(Tail(pending)) \cup ToSet(c)
      <4>1. c \in Seq(AllRefs)
        BY <3>1
      <4>2. QED
        BY ONLY <1>2, <4>1, JoinedRows, Zenon
    <3>3. QED
      BY <3>1, <3>2
  <2>5. QED
    BY <1>1, <1>2, <1>4, <2>1, <2>4
<1>5. CASE ~expand
  <2>1. /\ phase' = phase /\ tiles' = Append(tiles, r) /\ processed' = processed
        /\ pending' = Tail(pending) \o <<>>
    BY <1>5 DEF Fetch
  <2>2. pending' = Tail(pending)
    BY <1>2, <2>1
  <2>3. QED
    BY <1>1, <1>2, <1>5, <2>1, <2>2
<1>6. QED
  BY <1>3, <1>4, <1>5

LEMMA SceneTypesHold == SceneInit => SceneTypes
<1> SUFFICES ASSUME SceneInit PROVE SceneTypes
  OBVIOUS
<1>1. created \in Int /\ now \in Int /\ verdict.now \in Int
  BY DEF SceneInit, None, NoVerdict
<1>2. pending \in Seq(AllRefs) /\ tiles \in Seq(AllRefs) /\ requests \in [AllRefs -> Nat]
  BY DEF SceneInit
<1>3. QED
  BY <1>1, <1>2 DEF SceneInit, SceneTypes

LEMMA SceneTypesStay == SceneTypes /\ [SceneNext]_sceneVars => SceneTypes'
<1> SUFFICES ASSUME SceneTypes, [SceneNext]_sceneVars PROVE SceneTypes'
  OBVIOUS
<1>1. CASE Call \/ GetScene \/ FetchFails \/ CancelBuild \/ Lose \/ UNCHANGED sceneVars
  <2>1. /\ UNCHANGED <<now, scene, build, pending, fetched, tiles, processed, manifest, verdict, requests>>
        /\ created' = created \/ created' = now
    BY <1>1 DEF Call, GetScene, FetchFails, CancelBuild, Lose, sceneVars, walkVars
  <2>2. QED
    BY <2>1 DEF SceneTypes, AllRefs
<1>2. CASE GetTileset
  <2>1. /\ UNCHANGED <<now, scene, build, fetched, tiles, created, manifest, verdict>>
        /\ requests' = [r \in AllRefs |-> requests[r] + (IF r = RootDocument THEN 1 ELSE 0)]
        /\ \/ UNCHANGED <<pending, processed>>
           \/ scene.root # Malformed /\ pending' = Contents(scene.root) /\ processed' = 1
    BY <1>2 DEF GetTileset
  <2>requests. requests' \in [AllRefs -> Nat]
    BY <2>1 DEF SceneTypes
  <2>2. pending' \in Seq(AllRefs)
    BY <2>1, DocumentsRefer, ContentsAreKept DEF SceneTypes
  <2>3. QED
    BY <2>1, <2>2, <2>requests DEF SceneTypes, AllRefs
<1>3. CASE SkipSeen
  <2>1. /\ UNCHANGED <<now, scene, build, fetched, tiles, processed, created, manifest, verdict, requests>>
        /\ pending # <<>> /\ pending' = Tail(pending)
    BY <1>3 DEF SkipSeen
  <2>2. pending' \in Seq(AllRefs)
    BY <2>1, QueuesGoOn
  <2>3. QED
    BY <2>1, <2>2 DEF SceneTypes, AllRefs
<1>4. CASE Fetch
  <2> DEFINE r == Head(pending)
  <2>1. /\ r \in AllRefs /\ fetched' = fetched \cup {r} /\ requests' = [requests EXCEPT ![r] = @ + 1]
        /\ UNCHANGED <<now, scene, build, created, manifest, verdict>>
        /\ \/ UNCHANGED <<pending, tiles, processed>>
           \/ /\ tiles' = Append(tiles, r) /\ pending' \in Seq(AllRefs)
              /\ processed' = processed + 1 \/ processed' = processed
    BY <1>4, FetchKeeps
  <2>2. tiles' \in Seq(AllRefs) /\ pending' \in Seq(AllRefs) /\ processed' \in Nat
        /\ fetched' \subseteq AllRefs /\ requests' \in [AllRefs -> Nat]
    <3> HIDE DEF r
    <3>1. /\ tiles \in Seq(AllRefs) /\ pending \in Seq(AllRefs) /\ processed \in Nat
          /\ fetched \subseteq AllRefs /\ requests \in [AllRefs -> Nat]
      BY DEF SceneTypes
    <3>2. requests' \in [AllRefs -> Nat] /\ fetched' \subseteq AllRefs
      BY <2>1, <3>1
    <3>3. CASE UNCHANGED <<pending, tiles, processed>>
      BY <3>1, <3>2, <3>3
    <3>4. CASE ~UNCHANGED <<pending, tiles, processed>>
      <4>1. /\ tiles' = Append(tiles, r) /\ pending' \in Seq(AllRefs)
            /\ processed' = processed + 1 \/ processed' = processed
        BY <2>1, <3>4
      <4>2. tiles' \in Seq(AllRefs) /\ processed' \in Nat
        BY <2>1, <3>1, <4>1
      <4>3. QED
        BY <3>2, <4>1, <4>2
    <3>5. QED
      BY <3>3, <3>4
  <2>3. QED
    BY <2>1, <2>2 DEF SceneTypes, AllRefs
<1>5. CASE Bundle
  <2>1. UNCHANGED <<now, scene, build, pending, fetched, tiles, processed, created, requests, verdict>>
        /\ manifest' = Assemble
    BY <1>5 DEF Bundle, walkVars
  <2>2. manifest' \in Documents
    BY <2>1, BundlesHaveManifests
  <2>3. QED
    BY <2>1, <2>2 DEF SceneTypes, AllRefs
<1>6. CASE Receive
  <2>1. UNCHANGED <<now, scene, build, pending, fetched, tiles, processed, created, requests, verdict>>
    BY <1>6 DEF Receive, walkVars
  <2>2. PICK document \in Manifests :
             \/ document.object /\ manifest' = ParseManifest(document)
             \/ manifest' = manifest
    BY <1>6 DEF Receive
  <2>3. document.object => document \in Documents
    BY SceneAssumption
  <2>4. manifest' = NoManifest \/ manifest' \in Documents
    BY <2>2, <2>3, ManifestsParse DEF SceneTypes
  <2>5. QED
    BY <2>1, <2>4 DEF SceneTypes, AllRefs
<1>7. CASE Validate
  <2>1. UNCHANGED <<now, scene, build, manifest, pending, fetched, tiles, processed, created, requests>>
        /\ verdict'.now = now
    BY <1>7 DEF Validate, walkVars
  <2>2. QED
    BY <2>1 DEF SceneTypes, AllRefs
<1>8. CASE Tick
  <2>1. UNCHANGED <<scene, build, manifest, pending, fetched, tiles, processed, created, requests, verdict>>
        /\ now' = now + 1
    BY <1>8 DEF Tick, walkVars
  <2>2. QED
    BY <2>1 DEF SceneTypes, AllRefs
<1>9. QED
  BY <1>1, <1>2, <1>3, <1>4, <1>5, <1>6, <1>7, <1>8 DEF SceneNext

\* The lengths and times, numbers and files of a package are of their types, in every
\* state of build_offline_package and validate_scene_package_manifest.
THEOREM PackagesAreTyped == SceneSpec => []SceneTypes
BY SceneTypesHold, SceneTypesStay, PTL DEF SceneSpec

-----------------------------------------------------------------------------
(* What can be reached. *)

\* What a document refers to are files of the scene.
LEMMA RowsAreRefs ==
  ASSUME NEW R, NEW s \in Seq(R)
  PROVE  ToSet(s) \subseteq R
<1>1. ToSet(s) = {s[i] : i \in 1..Len(s)} /\ \A i \in 1..Len(s) : s[i] \in R
  BY DEF ToSet
<1>2. QED
  BY <1>1

\* The root's references can be reached, and those of what can be reached.
LEMMA ReachingGoesOn ==
  ASSUME SceneTypes
  PROVE  /\ scene.root # Malformed => ToSet(scene.root) \subseteq Reachable
         /\ \A r \in Reachable : r.tileset /\ scene.nested[r] # Malformed => ToSet(scene.nested[r]) \subseteq Reachable
<1> DEFINE Closed(S) == ToSet(scene.root) \cup RefersTo(S) \subseteq S
<1>1. Reachable = {r \in AllRefs : \A S \in SUBSET AllRefs : Closed(S) => r \in S}
  BY DEF Reachable
<1>2. ASSUME scene.root # Malformed PROVE ToSet(scene.root) \subseteq Reachable
  <2>1. ToSet(scene.root) \subseteq AllRefs
    BY <1>2, DocumentsRefer, RowsAreRefs
  <2>2. QED
    BY <1>1, <2>1
<1>3. ASSUME NEW r \in Reachable, r.tileset, scene.nested[r] # Malformed
      PROVE  ToSet(scene.nested[r]) \subseteq Reachable
  <2>1. r \in AllRefs
    BY <1>1
  <2>2. ToSet(scene.nested[r]) \subseteq AllRefs
    BY <1>3, <2>1, DocumentsRefer, RowsAreRefs
  <2>3. ASSUME NEW S \in SUBSET AllRefs, Closed(S) PROVE ToSet(scene.nested[r]) \subseteq S
    <3>1. r \in S
      BY <1>1, <2>3
    <3>2. ToSet(scene.nested[r]) \subseteq RefersTo(S)
      BY <1>3, <3>1 DEF RefersTo
    <3>3. QED
      BY <2>3, <3>2
  <2> HIDE DEF Closed
  <2>4. QED
    BY <1>1, <2>2, <2>3
<1>4. QED
  BY <1>2, <1>3

\* A walk whose files refer to nothing else has reached everything.
LEMMA NothingElseIsReached ==
  ASSUME SceneTypes, ToSet(scene.root) \subseteq fetched, RefersTo(fetched) \subseteq fetched
  PROVE  Reachable \subseteq fetched
BY DEF SceneTypes, Reachable

LEMMA ScenesStay ==
  ASSUME scene' = scene
  PROVE  AllRefs' = AllRefs /\ Reachable' = Reachable
BY DEF AllRefs, Reachable, RefersTo

-----------------------------------------------------------------------------
(* Bundles. *)

LEMMA BundleInvHolds == SceneInit => BundleInv
<1> SUFFICES ASSUME SceneInit PROVE BundleInv
  OBVIOUS
<1>1. phase = "call" /\ fetched = {} /\ tiles = <<>> /\ pending = <<>> /\ processed = 0
  BY DEF SceneInit
<1>2. \A r \in AllRefs : requests[r] = 0
  BY DEF SceneInit
<1>3. QED
  BY <1>1, <1>2 DEF BundleInv, AskedFor

\* A step of a walk keeps what the walk has reached.
LEMMA WalksGoOn ==
  ASSUME SceneTypes, SceneTypes', Walked, Fetch, phase' = "walk"
  PROVE  Walked'
<1> DEFINE r == Head(pending)
           expand == r.tileset /\ processed < build.maxTilesets
<1>1. /\ r \in AllRefs /\ fetched' = fetched \cup {r} /\ UNCHANGED <<scene, build>> /\ pending # <<>>
      /\ tiles' = Append(tiles, r) /\ processed' = IF expand THEN processed + 1 ELSE processed
      /\ expand => /\ scene.nested[r] # Malformed
                   /\ ToSet(pending') = ToSet(Tail(pending)) \cup ToSet(scene.nested[r])
      /\ ~expand => ToSet(pending') = ToSet(Tail(pending))
  BY FetchKeeps
<1>2. ToSet(pending) = {r} \cup ToSet(Tail(pending))
  BY <1>1, QueuesGoOn
<1> HIDE DEF r
<1>4. ToSet(tiles') = fetched'
  <2>1. tiles \in Seq(AllRefs) /\ tiles' = tiles \o <<r>> /\ <<r>> \in Seq(AllRefs)
    BY <1>1 DEF SceneTypes
  <2>2. ToSet(tiles \o <<r>>) = ToSet(tiles) \cup ToSet(<<r>>)
    BY ONLY <2>1, JoinedRows, Zenon
  <2>3. ToSet(<<r>>) = {r}
    BY DEF ToSet
  <2>4. QED
    BY <1>1, <2>1, <2>2, <2>3 DEF Walked
<1>5. ToSet(scene'.root) \subseteq fetched' \cup ToSet(pending')
  BY <1>1, <1>2 DEF Walked
<1>6. r \in Reachable /\ ToSet(Tail(pending)) \subseteq Reachable /\ fetched \subseteq Reachable
  BY <1>2 DEF Walked
<1>7. fetched' \cup ToSet(pending') \subseteq Reachable
  <2>1. CASE expand
    <3>1. ToSet(scene.nested[r]) \subseteq Reachable
      BY <1>1, <1>6, <2>1, ReachingGoesOn
    <3>2. QED
      BY <1>1, <1>6, <2>1, <3>1
  <2>2. CASE ~expand
    BY <1>1, <1>6, <2>2
  <2>3. QED
    BY <2>1, <2>2
<1>8. Reachable' = Reachable
  BY <1>1, ScenesStay
<1>9. ASSUME processed' < build.maxTilesets PROVE RefersTo(fetched') \subseteq fetched' \cup ToSet(pending')
  <2>1. processed < build.maxTilesets
    <3>1. processed \in Nat /\ build.maxTilesets \in Int
      BY SceneAssumption DEF SceneTypes
    <3>2. QED
      BY <1>1, <1>9, <3>1
  <2>2. RefersTo(fetched) \subseteq fetched \cup ToSet(pending)
    BY <2>1 DEF Walked
  <2>3. ASSUME NEW q \in fetched', q.tileset, scene.nested[q] # Malformed
        PROVE  ToSet(scene.nested[q]) \subseteq fetched' \cup ToSet(pending')
    <3>1. CASE q = r
      BY <1>1, <2>1, <2>3, <3>1
    <3>2. CASE q # r
      <4>1. q \in fetched
        BY <1>1, <2>3, <3>2
      <4>2. ToSet(scene.nested[q]) \subseteq RefersTo(fetched)
        BY <2>3, <4>1 DEF RefersTo
      <4>3. fetched \cup ToSet(pending) \subseteq fetched' \cup ToSet(pending')
        BY <1>1, <1>2
      <4>4. QED
        BY <2>2, <4>2, <4>3
    <3>3. QED
      BY <3>1, <3>2
  <2>4. QED
    BY <2>3 DEF RefersTo
<1>10. (RefersTo(fetched))' = RefersTo(fetched')
  BY <1>1 DEF RefersTo
<1>11. QED
  BY <1>1, <1>4, <1>5, <1>7, <1>8, <1>9, <1>10 DEF Walked

LEMMA BundleInvStays == SceneTypes /\ SceneTypes' /\ BundleInv /\ [SceneNext]_sceneVars => BundleInv'
<1> SUFFICES ASSUME SceneTypes, SceneTypes', BundleInv, [SceneNext]_sceneVars PROVE BundleInv'
  OBVIOUS
<1> DEFINE Still == UNCHANGED <<scene, build, pending, fetched, tiles, processed, requests>>
<1>1. CASE Call \/ GetScene \/ FetchFails \/ CancelBuild \/ Bundle \/ Receive \/ Validate \/ Lose \/ Tick \/ UNCHANGED sceneVars
  <2>1. /\ Still
        /\ \/ phase' = phase \/ phase' = "raised" \/ phase' = "received"
           \/ phase = "call" /\ phase' = "metadata" /\ build.maxTilesets > 0
           \/ phase = "metadata" /\ phase' = "root"
           \/ phase = "walk" /\ phase' = "built" /\ pending = <<>>
    <3>1. CASE Call \/ GetScene
      BY <3>1 DEF Call, GetScene, walkVars
    <3>2. CASE FetchFails \/ CancelBuild \/ Bundle \/ Receive
      BY <3>2 DEF FetchFails, CancelBuild, Bundle, Receive, walkVars
    <3>3. CASE Validate \/ Lose \/ Tick \/ UNCHANGED sceneVars
      BY <3>3 DEF Validate, Lose, Tick, walkVars, sceneVars
    <3>4. QED
      BY <1>1, <3>1, <3>2, <3>3
  <2>2. AllRefs' = AllRefs /\ (Walked => Walked')
    BY <2>1 DEF Walked, Reachable, RefersTo, AllRefs
  <2>3. QED
    BY <2>1, <2>2 DEF BundleInv, AskedFor
<1>2. CASE GetTileset
  <2>1. /\ phase = "root" /\ UNCHANGED <<scene, build, fetched, tiles>>
        /\ \/ phase' = "raised" /\ UNCHANGED <<pending, processed>>
           \/ scene.root # Malformed /\ phase' = "walk" /\ pending' = Contents(scene.root) /\ processed' = 1
    BY <1>2 DEF GetTileset
  <2>2. fetched = {} /\ tiles = <<>> /\ build.maxTilesets > 0 /\ build.maxTilesets \in Int
    BY <2>1, SceneAssumption DEF BundleInv, SceneTypes
  <2>3. AllRefs' = AllRefs /\ Reachable' = Reachable
    BY <2>1, ScenesStay
  <2>asked. ASSUME NEW r \in AllRefs PROVE AskedFor(r)'
    <3>1. requests[r] = 0 /\ requests'[r] = requests[r] + (IF r = RootDocument THEN 1 ELSE 0)
      BY <1>2, <2>1 DEF GetTileset, BundleInv
    <3>2. QED
      BY <2>1, <2>2, <3>1 DEF AskedFor
  <2>4. CASE phase' = "raised"
    BY <2>1, <2>3, <2>4, <2>asked DEF BundleInv
  <2>5. CASE phase' # "raised"
    <3>1. scene.root # Malformed /\ phase' = "walk" /\ pending' = Contents(scene.root) /\ processed' = 1
      BY <2>1, <2>5
    <3>2. ToSet(pending') = ToSet(scene.root) /\ ToSet(scene.root) \subseteq Reachable
      BY <3>1, DocumentsRefer, ContentsAreKept, ReachingGoesOn
    <3>3. ToSet(tiles') = {} /\ fetched' = {}
      BY <2>1, <2>2 DEF ToSet
    <3>4. (RefersTo(fetched))' = {}
      BY <3>3 DEF RefersTo
    <3>5. Walked'
      BY <2>1, <2>3, <3>2, <3>3, <3>4 DEF Walked
    <3>6. QED
      BY <2>1, <2>2, <2>3, <2>asked, <3>1, <3>5 DEF BundleInv
  <2>6. QED
    BY <2>4, <2>5
<1>3. CASE SkipSeen
  <2>1. /\ phase = "walk" /\ UNCHANGED <<scene, build, phase, fetched, tiles, processed, requests>>
        /\ pending # <<>> /\ Head(pending) \in fetched /\ pending' = Tail(pending)
    BY <1>3 DEF SkipSeen
  <2>2. ToSet(pending) = {Head(pending)} \cup ToSet(pending')
    BY <2>1, QueuesGoOn
  <2>3. fetched \cup ToSet(pending') = fetched \cup ToSet(pending)
    BY <2>1, <2>2
  <2>4. AllRefs' = AllRefs /\ Reachable' = Reachable
    BY <2>1, ScenesStay
  <2>5. (RefersTo(fetched))' = RefersTo(fetched)
    BY <2>1 DEF RefersTo
  <2>6. Walked'
    BY <2>1, <2>3, <2>4, <2>5 DEF Walked, BundleInv
  <2>7. QED
    BY <2>1, <2>4, <2>6 DEF BundleInv, AskedFor
<1>4. CASE Fetch
  <2> DEFINE r == Head(pending)
  <2>1. /\ phase = "walk" /\ r \in AllRefs /\ r \notin fetched /\ UNCHANGED <<scene, build>>
        /\ fetched' = fetched \cup {r} /\ requests' = [requests EXCEPT ![r] = @ + 1]
        /\ \/ phase' = "raised" /\ UNCHANGED processed
           \/ /\ phase' = phase
              /\ (processed' = processed + 1 /\ processed < build.maxTilesets) \/ processed' = processed
    BY <1>4, FetchKeeps
  <2>2. AllRefs' = AllRefs
    BY <2>1, ScenesStay
  <2> HIDE DEF r
  <2>3. ASSUME NEW q \in AllRefs PROVE AskedFor(q)'
    <3>1. requests \in [AllRefs -> Nat] /\ AskedFor(q)
      BY DEF SceneTypes, BundleInv
    <3>2. QED
      BY <2>1, <3>1 DEF AskedFor
  <2>4. build.maxTilesets > 0 /\ build.maxTilesets \in Int /\ processed \in Nat
        /\ (processed > 0 => processed <= build.maxTilesets)
    BY <2>1, SceneAssumption DEF BundleInv, SceneTypes
  <2>5. processed' > 0 => processed' <= build'.maxTilesets
    BY <2>1, <2>4
  <2>6. CASE phase' = "raised"
    BY <2>1, <2>2, <2>3, <2>5, <2>6 DEF BundleInv
  <2>7. CASE phase' = "walk"
    <3>1. Walked'
      BY <1>4, <2>1, <2>7, WalksGoOn DEF BundleInv
    <3>2. QED
      BY <2>1, <2>2, <2>3, <2>4, <2>5, <2>7, <3>1 DEF BundleInv
  <2>8. QED
    BY <2>1, <2>6, <2>7
<1>5. QED
  BY <1>1, <1>2, <1>3, <1>4 DEF SceneNext

LEMMA WholeBundles == SceneTypes /\ BundleInv => BundleIsWhole
<1> SUFFICES ASSUME SceneTypes, BundleInv PROVE BundleIsWhole
  OBVIOUS
<1>1. \A r \in AllRefs : requests[r] <= IF r = RootDocument THEN 2 ELSE 1
  BY DEF BundleInv, AskedFor, SceneTypes
<1>2. ASSUME phase = "built"
      PROVE  /\ ToSet(tiles) = fetched /\ fetched \subseteq Reachable
             /\ processed < build.maxTilesets => fetched = Reachable
             /\ fetched # Reachable => processed = build.maxTilesets
  <2>1. Walked /\ pending = <<>> /\ build.maxTilesets > 0 /\ processed \in Nat /\ build.maxTilesets \in Int
    BY <1>2, SceneAssumption DEF BundleInv, SceneTypes
  <2>2. ToSet(pending) = {}
    BY <2>1 DEF ToSet
  <2>3. ToSet(tiles) = fetched /\ fetched \subseteq Reachable /\ ToSet(scene.root) \subseteq fetched
    BY <2>1, <2>2 DEF Walked
  <2>4. processed < build.maxTilesets => Reachable \subseteq fetched
    BY <2>1, <2>2, <2>3, NothingElseIsReached DEF Walked
  <2>5. ~(processed < build.maxTilesets) => processed = build.maxTilesets
    BY <2>1 DEF BundleInv
  <2>6. QED
    BY <2>3, <2>4, <2>5
<1>3. QED
  BY <1>1, <1>2 DEF BundleInv, BundleIsWhole

\* A bundle holds each file that can be reached from the root document, once, unless
\* the bound on tilesets is reached, and follows no more documents than the bound,
\* whatever the documents refer to, in whatever cycles (build_offline_package).
THEOREM BundlesAreWhole == SceneSpec => []BundleIsWhole
<1>1. SceneInit => SceneTypes /\ BundleInv
  BY SceneTypesHold, BundleInvHolds
<1>2. SceneTypes /\ BundleInv /\ [SceneNext]_sceneVars => (SceneTypes /\ BundleInv)'
  BY SceneTypesStay, BundleInvStays
<1>3. QED
  BY <1>1, <1>2, WholeBundles, PTL DEF SceneSpec

-----------------------------------------------------------------------------
(* Verdicts. *)

LEMMA VerdictInvHolds == SceneInit => VerdictInv
BY DEF SceneInit, VerdictInv, NoVerdict

LEMMA VerdictInvStays == VerdictInv /\ [SceneNext]_sceneVars => VerdictInv'
<1> SUFFICES ASSUME VerdictInv, [SceneNext]_sceneVars PROVE VerdictInv'
  OBVIOUS
<1>1. ASSUME UNCHANGED <<manifest, verdict>>, phase' \in {"call", "metadata", "root", "walk"} => manifest = NoManifest
      PROVE  VerdictInv'
  <2>1. (State(manifest, verdict.now, verdict.known))' = State(manifest, verdict.now, verdict.known)
    BY <1>1
  <2>2. QED
    BY <1>1, <2>1 DEF VerdictInv
<1>2. CASE Call \/ GetScene \/ GetTileset \/ SkipSeen \/ Lose \/ Tick \/ UNCHANGED sceneVars
  <2>1. UNCHANGED <<manifest, verdict>> /\ (phase' \in {"call", "metadata", "root", "walk"} => manifest = NoManifest)
    <3>1. CASE Call \/ GetScene \/ GetTileset \/ SkipSeen
      BY <3>1 DEF Call, GetScene, GetTileset, SkipSeen, VerdictInv
    <3>2. CASE Lose \/ Tick \/ UNCHANGED sceneVars
      BY <3>2 DEF Lose, Tick, sceneVars, VerdictInv
    <3>3. QED
      BY <1>2, <3>1, <3>2
  <2>2. QED
    BY <1>1, <2>1
<1>3. CASE Fetch \/ FetchFails \/ CancelBuild
  <2>1. UNCHANGED <<manifest, verdict>> /\ (phase' \in {"call", "metadata", "root", "walk"} => manifest = NoManifest)
    BY <1>3 DEF Fetch, FetchFails, CancelBuild, VerdictInv
  <2>2. QED
    BY <1>1, <2>1
<1>4. CASE Bundle \/ Receive
  <2>1. phase \in {"walk", "call"} /\ verdict' = verdict /\ phase' \notin {"call", "metadata", "root", "walk"}
    BY <1>4 DEF Bundle, Receive
  <2>2. verdict.state = "none"
    BY <2>1 DEF VerdictInv
  <2>3. QED
    BY <2>1, <2>2 DEF VerdictInv
<1>5. CASE Validate
  <2>1. PICK known : verdict' = [state |-> State(manifest, now, known), now |-> now, known |-> known]
    BY <1>5 DEF Validate
  <2>2. manifest' = manifest /\ phase' = phase /\ manifest # NoManifest
    BY <1>5 DEF Validate
  <2>3. verdict'.state = State(manifest, now, known) /\ verdict'.now = now /\ verdict'.known = known
    BY <2>1
  <2>4. QED
    BY <2>2, <2>3 DEF VerdictInv
<1>6. QED
  BY <1>2, <1>3, <1>4, <1>5 DEF SceneNext

\* A manifest that passes as ready or stale is usable: within its dates, its required
\* files at hand, no two of one name, none outside the package, and no more bytes
\* than the budget, for any manifest another program wrote
\* (validate_scene_package_manifest).
THEOREM UsableManifestsAreUsable == SceneSpec => []UsableIsUsable
<1>1. SceneInit => SceneTypes /\ VerdictInv
  BY SceneTypesHold, VerdictInvHolds
<1>2. SceneTypes /\ VerdictInv /\ [SceneNext]_sceneVars => (SceneTypes /\ VerdictInv)'
  BY SceneTypesStay, VerdictInvStays
<1>3. SceneTypes /\ VerdictInv => UsableIsUsable
  <2> SUFFICES ASSUME SceneTypes, VerdictInv PROVE UsableIsUsable
    OBVIOUS
  <2>1. CASE verdict.state \notin {"ready", "stale"}
    BY <2>1 DEF UsableIsUsable
  <2>2. CASE verdict.state \in {"ready", "stale"}
    <3>1. manifest \in Documents /\ verdict.now \in Int
          /\ verdict.state = State(manifest, verdict.now, verdict.known)
      BY <2>2 DEF VerdictInv, SceneTypes
    <3>2. State(manifest, verdict.now, verdict.known) \in {"ready", "stale"}
      BY <2>2, <3>1
    <3>3. Usable(manifest, verdict.now, verdict.known)
      BY <3>1, <3>2, PassingIsUsable
    <3>4. QED
      BY <3>1, <3>3 DEF UsableIsUsable, Usable
  <2>3. QED
    BY <2>1, <2>2
<1>4. QED
  BY <1>1, <1>2, <1>3, PTL DEF SceneSpec
=============================================================================
