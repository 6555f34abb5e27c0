---------------------------- MODULE DeltaProofs -----------------------------
(***************************************************************************)
(* The byte loops of filesave::process, for files and deltas of any length *)
(* over any alphabet, any block size, hash and size of the literal buffer: *)
(* the signature of the first version is right, and the delta of the       *)
(* second one loses no byte and no match and can be read back.  And the    *)
(* block sizes, for every file size, and the headers, for every size of an *)
(* object and any width of bytes and sizes.                                *)
(*                                                                         *)
(* What recursive functions compute (PolyHash, dhashmul, WordAt, Decode,   *)
(* Shift, ReadInteger) is shown with functions that list the intermediate  *)
(* values, and induction over the set of indices at which the list is      *)
(* right.                                                                  *)
(***************************************************************************)
EXTENDS VersionPair, WellFoundedInduction, SequenceTheorems, TLAPS

-----------------------------------------------------------------------------
(* Numbers.                                                                *)

\* Induction from 0 to n, for a set: it holds the number 0, and each number
\* whose predecessor it holds.
LEMMA UpTo ==
  ASSUME NEW n \in Nat, NEW T, 0 \in T, \A i \in 1 .. n : i - 1 \in T => i \in T
  PROVE  \A i \in 0 .. n : i \in T
  <1> DEFINE U == {i \in 0 .. n : i \notin T}
  <1>1. U \subseteq Nat
    OBVIOUS
  <1>2. ASSUME U # {} PROVE FALSE
    <2>1. IsWellFoundedOn(OpToRel(<, Nat), Nat)
      BY NatLessThanWellFounded
    <2>2. PICK x \in U : \A y \in U : ~ (<<y, x>> \in OpToRel(<, Nat))
      <3> HIDE DEF U
      <3> QED
        BY <1>1, <1>2, <2>1, WFMin
    <2>3. \A m, k \in Nat : m < k => <<m, k>> \in OpToRel(<, Nat)
      BY DEF OpToRel
    <2>4. x \in 0 .. n /\ x \notin T /\ x # 0
      BY <2>2
    <2>5. x - 1 \in Nat /\ x \in Nat /\ x - 1 < x
      BY <2>4
    <2>6. x - 1 \notin U
      BY <2>2, <2>3, <2>5
    <2>7. x - 1 \in 0 .. n /\ x \in 1 .. n
      BY <2>4
    <2> QED
      BY <2>4, <2>6, <2>7
  <1> QED
    BY <1>2

\* What is left of a division is unique.
LEMMA Modulo ==
  ASSUME NEW m \in Nat \ {0}, NEW x \in Int
  PROVE  /\ (x % m) \in 0 .. m - 1 /\ x \div m \in Int
         /\ x = m * (x \div m) + (x % m)
         /\ \A y \in 0 .. m - 1, q \in Int : x = y + q * m => (x % m) = y /\ x \div m = q
  <1>1. (x % m) \in 0 .. m - 1 /\ x \div m \in Int /\ x = m * (x \div m) + (x % m)
    OBVIOUS
  <1>2. ASSUME NEW y \in 0 .. m - 1, NEW q \in Int, x = y + q * m
        PROVE  (x % m) = y /\ x \div m = q
    <2> DEFINE r == x % m
               d == x \div m
    <2>1. r \in 0 .. m - 1 /\ d \in Int /\ y + q * m = m * d + r
      BY <1>1, <1>2
    <2> HIDE DEF r, d
    <2>2. CASE q = d
      BY <2>1, <2>2 DEF r, d
    <2>3. CASE q < d
      <3>1. d - q >= 1 /\ (d - q) * m = y - r
        BY <2>1, <2>3
      <3>2. (d - q) * m >= m
        BY <3>1, <2>1
      <3> QED
        BY <3>1, <3>2, <2>1
    <2>4. CASE q > d
      <3>1. q - d >= 1 /\ (q - d) * m = r - y
        BY <2>1, <2>4
      <3>2. (q - d) * m >= m
        BY <3>1, <2>1
      <3> QED
        BY <3>1, <3>2, <2>1
    <2> QED
      BY <2>1, <2>2, <2>3, <2>4
  <1> QED
    BY <1>1, <1>2

\* A number below m is what is left of it.
LEMMA SmallModulo ==
  ASSUME NEW m \in Nat \ {0}, NEW y \in 0 .. m - 1
  PROVE  (y % m) = y
  <1>1. y = y + 0 * m /\ y \in Int /\ 0 \in Int
    OBVIOUS
  <1> QED
    BY <1>1, Modulo

\* Numbers that differ by a multiple of m leave the same
LEMMA SameModulo ==
  ASSUME NEW m \in Nat \ {0}, NEW x \in Int, NEW y \in Int, NEW q \in Int, x = y + q * m
  PROVE  (x % m) = (y % m)
  <1>1. (y % m) \in 0 .. m - 1 /\ y \div m \in Int /\ y = m * (y \div m) + (y % m)
    BY Modulo
  <1> DEFINE r == y % m
             d == y \div m
  <1>2. x = r + (d + q) * m /\ d + q \in Int /\ r \in 0 .. m - 1
    <2>1. r \in 0 .. m - 1 /\ d \in Int /\ y = m * d + r
      BY <1>1
    <2> HIDE DEF r, d
    <2> QED
      BY <2>1
  <1> HIDE DEF r, d
  <1>3. (x % m) = r
    BY <1>2, Modulo
  <1> QED
    BY <1>3 DEF r

\* The full blocks of a file lie in it
LEMMA Division ==
  ASSUME NEW l \in Nat, NEW b \in Nat \ {0}
  PROVE  /\ l \div b \in Nat /\ (l \div b) * b <= l /\ l < (l \div b + 1) * b
         /\ \A m \in 1 .. l \div b : (m - 1) * b \in Nat /\ (m - 1) * b + b = m * b /\ m * b <= l
         /\ \A k \in 0 .. l : k \div b \in Nat /\ k \div b <= l \div b
  <1> DEFINE d == l \div b
             r == l % b
  <1>1. r \in 0 .. b - 1 /\ d \in Int /\ l = b * d + r
    BY Modulo
  <1>2. d \in Nat /\ d * b <= l /\ l < (d + 1) * b
    <2> HIDE DEF d, r
    <2>1. l < (d + 1) * b /\ d * b <= l
      BY <1>1
    <2>2. ASSUME d < 0 PROVE FALSE
      <3>1. (d + 1) * b <= 0
        BY <1>1, <2>2
      <3> QED
        BY <2>1, <3>1, <1>1
    <2> QED
      BY <1>1, <2>1, <2>2
  <1>3. ASSUME NEW m \in 1 .. d PROVE (m - 1) * b \in Nat /\ (m - 1) * b + b = m * b /\ m * b <= l
    <2> HIDE DEF d
    <2>1. m * b <= d * b /\ (m - 1) * b >= 0
      BY <1>2
    <2> QED
      BY <1>2, <2>1
  <1>4. ASSUME NEW k \in 0 .. l PROVE k \div b \in Nat /\ k \div b <= d
    <2> DEFINE e == k \div b
               s == k % b
    <2>1. s \in 0 .. b - 1 /\ e \in Int /\ k = b * e + s
      BY Modulo
    <2> HIDE DEF d, r, e, s
    <2>2. ASSUME e < 0 PROVE FALSE
      <3>1. b * e <= -b
        BY <2>1, <2>2
      <3> QED
        BY <2>1, <3>1
    <2>3. ASSUME e > d PROVE FALSE
      <3>1. b * e >= b * (d + 1)
        BY <1>2, <2>1, <2>3
      <3> QED
        BY <1>2, <2>1, <3>1
    <2> QED
      BY <1>2, <2>1, <2>2, <2>3 DEF e
  <1> QED
    BY <1>2, <1>3, <1>4

-----------------------------------------------------------------------------
(* The polynomial hash, which is recursive.                                *)

Residues == 0 .. HashMod - 1

LEMMA ExtendIs ==
  ASSUME NEW h \in Int, NEW c \in Int
  PROVE  Extend(h, c) \in Residues /\ \E q \in Int : Extend(h, c) = h * K + c + q * HashMod
  <1> DEFINE x == h * K + c
  <1>1. x \in Int
    BY HashAssumption
  <1> HIDE DEF x
  <1>2. (x % HashMod) \in Residues /\ x \div HashMod \in Int
        /\ x = HashMod * (x \div HashMod) + (x % HashMod)
    BY <1>1, Modulo, HashAssumption DEF Residues
  <1>3. \A d, r \in Int : x = HashMod * d + r => -d \in Int /\ r = x + (-d) * HashMod
    BY <1>1, HashAssumption
  <1>4. \E q \in Int : (x % HashMod) = x + q * HashMod
    BY <1>2, <1>3 DEF Residues
  <1> QED
    BY <1>2, <1>4 DEF Extend, x

\* f lists the hashes of the beginnings of w
Hashing(w, f) ==
  /\ f \in [0 .. Len(w) -> Residues] /\ f[0] = 0
  /\ \A i \in 1 .. Len(w) : f[i] = Extend(f[i - 1], w[i])

LEMMA HashingIs ==
  ASSUME NEW w \in Seq(Nat), NEW f, Hashing(w, f)
  PROVE  PolyHash(w) = f[Len(w)]
  <1> DEFINE h[i \in 0 .. Len(w)] == IF i = 0 THEN 0 ELSE Extend(h[i - 1], w[i])
  <1>1. h = [i \in 0 .. Len(w) |-> IF i = 0 THEN 0 ELSE Extend(h[i - 1], w[i])]
    <2>1. f = [i \in 0 .. Len(w) |-> IF i = 0 THEN 0 ELSE Extend(f[i - 1], w[i])]
      BY DEF Hashing
    <2>2. \E g : g = [i \in 0 .. Len(w) |-> IF i = 0 THEN 0 ELSE Extend(g[i - 1], w[i])]
      BY <2>1
    <2> QED
      BY <2>2
  <1>2. PolyHash(w) = h[Len(w)]
    BY DEF PolyHash
  <1> HIDE DEF h
  <1> DEFINE T == {i \in 0 .. Len(w) : h[i] = f[i]}
  <1>3. 0 \in T
    BY <1>1 DEF Hashing
  <1>4. \A i \in 1 .. Len(w) : i - 1 \in T => i \in T
    BY <1>1 DEF Hashing
  <1> DEFINE n == Len(w)
  <1>5. n \in T
    <2>1. n \in Nat /\ n \in 0 .. n /\ \A i \in 1 .. n : i - 1 \in T => i \in T
      BY <1>4
    <2> HIDE DEF T, n
    <2> QED
      BY <1>3, <2>1, UpTo
  <1> QED
    BY <1>2, <1>5

LEMMA HashingExists ==
  ASSUME NEW w \in Seq(Nat)
  PROVE  \E f : Hashing(w, f)
  <1> DEFINE Up(n, f) == /\ f \in [0 .. n -> Residues] /\ f[0] = 0
                         /\ \A i \in 1 .. n : f[i] = Extend(f[i - 1], w[i])
             T == {n \in 0 .. Len(w) : \E f : Up(n, f)}
  <1>1. 0 \in T
    <2> DEFINE z == [i \in 0 .. 0 |-> 0]
    <2>1. Up(0, z)
      BY HashAssumption DEF Residues
    <2>2. 0 \in 0 .. Len(w)
      OBVIOUS
    <2> HIDE DEF z, Up
    <2> QED
      BY <2>1, <2>2
  <1>2. ASSUME NEW n \in 1 .. Len(w), n - 1 \in T PROVE n \in T
    <2>1. PICK f : Up(n - 1, f)
      BY <1>2
    <2> DEFINE x == Extend(f[n - 1], w[n])
               g == [i \in 0 .. n |-> IF i = n THEN x ELSE f[i]]
    <2>2. x \in Residues
      <3>1. f[n - 1] \in Int /\ w[n] \in Int
        BY <2>1 DEF Residues
      <3> QED
        BY <3>1, ExtendIs
    <2> HIDE DEF x
    <2>3. g \in [0 .. n -> Residues] /\ g[0] = 0
      BY <2>1, <2>2
    <2>4. ASSUME NEW i \in 1 .. n PROVE g[i] = Extend(g[i - 1], w[i])
      BY <2>1 DEF x
    <2> QED
      BY <2>3, <2>4
  <1> DEFINE l == Len(w)
  <1>3. l \in T
    <2> HIDE DEF T
    <2>1. l \in Nat /\ l \in 0 .. l /\ \A i \in 1 .. l : i - 1 \in T => i \in T
      BY <1>2
    <2> HIDE DEF l
    <2> QED
      BY <1>1, <2>1, UpTo
  <1> QED
    BY <1>3 DEF Hashing

\* The hash of a sequence grows with it by one step of the loop.
LEMMA HashOfAppend ==
  /\ PolyHash(<< >>) = 0
  /\ \A w \in Seq(Nat) : PolyHash(w) \in Residues
  /\ \A w \in Seq(Nat), c \in Nat : PolyHash(Append(w, c)) = Extend(PolyHash(w), c)
  <1>1. PolyHash(<< >>) = 0
    <2>1. PICK f : Hashing(<< >>, f)
      BY HashingExists, EmptySeq
    <2> QED
      BY <2>1, HashingIs, EmptySeq DEF Hashing
  <1>2. ASSUME NEW w \in Seq(Nat) PROVE PolyHash(w) \in Residues
    <2>1. PICK f : Hashing(w, f)
      BY HashingExists
    <2> QED
      BY <2>1, HashingIs DEF Hashing
  <1>3. ASSUME NEW w \in Seq(Nat), NEW c \in Nat
        PROVE  PolyHash(Append(w, c)) = Extend(PolyHash(w), c)
    <2> DEFINE v == Append(w, c)
               n == Len(w)
    <2>1. v \in Seq(Nat) /\ Len(v) = n + 1 /\ n \in Nat /\ v[n + 1] = c
          /\ \A i \in 1 .. n : v[i] = w[i]
      OBVIOUS
    <2> HIDE DEF v
    <2>2. PICK f : Hashing(v, f)
      BY <2>1, HashingExists
    <2> DEFINE g == [i \in 0 .. n |-> f[i]]
    <2>3. Hashing(w, g)
      BY <2>1, <2>2 DEF Hashing
    <2>4. PolyHash(w) = f[n]
      BY <2>1, <2>3, HashingIs
    <2>5. PolyHash(v) = f[n + 1]
      BY <2>1, <2>2, HashingIs
    <2>6. f[n + 1] = Extend(f[n], c)
      <3>1. n + 1 \in 1 .. Len(v) /\ (n + 1) - 1 = n
        BY <2>1
      <3> QED
        BY <2>1, <2>2, <3>1 DEF Hashing
    <2> QED
      BY <2>4, <2>5, <2>6 DEF v
  <1> QED
    BY <1>1, <1>2, <1>3

\* The hash of the bytes of f behind the first i, up to the one with number j
Seg(f, i, j) == PolyHash(SubSeq(f, i + 1, j))

LEMMA Segments ==
  ASSUME NEW f \in Seq(Nat), NEW i \in 0 .. Len(f), NEW j \in i .. Len(f)
  PROVE  /\ Seg(f, i, j) \in Residues /\ Seg(f, i, i) = 0
         /\ j < Len(f) => Seg(f, i, j + 1) = Extend(Seg(f, i, j), f[j + 1])
  <1>1. SubSeq(f, i + 1, j) \in Seq(Nat) /\ SubSeq(f, i + 1, i) = << >>
    OBVIOUS
  <1>2. j < Len(f) => SubSeq(f, i + 1, j + 1) = Append(SubSeq(f, i + 1, j), f[j + 1])
                      /\ f[j + 1] \in Nat
    OBVIOUS
  <1> QED
    BY <1>1, <1>2, HashOfAppend DEF Seg

\* p lists the powers of K up to dhashmul
Powers(p) ==
  /\ p \in [0 .. blocksize -> Nat] /\ p[0] = 1
  /\ \A i \in 1 .. blocksize : \E q \in Int : p[i] = p[i - 1] * K + q * HashMod

LEMMA PowersAre ==
  ASSUME blocksize \in Nat
  PROVE  \E p : Powers(p) /\ p[blocksize] = dhashmul
  <1> DEFINE Up(n, f) == /\ f \in [0 .. n -> Nat] /\ f[0] = 1
                         /\ \A i \in 1 .. n : f[i] = (f[i - 1] * K) % HashMod
             T == {n \in 0 .. blocksize : \E f : Up(n, f)}
  <1>1. ASSUME NEW h \in Nat
        PROVE  (h * K) % HashMod \in Nat /\ \E q \in Int : (h * K) % HashMod = h * K + q * HashMod
    <2>1. Extend(h, 0) \in Residues /\ \E q \in Int : Extend(h, 0) = h * K + 0 + q * HashMod
      BY ExtendIs
    <2>2. Extend(h, 0) = (h * K) % HashMod /\ h * K + 0 = h * K
      BY HashAssumption DEF Extend
    <2> QED
      BY <2>1, <2>2 DEF Residues
  <1>2. 0 \in T
    <2> DEFINE z == [i \in 0 .. 0 |-> 1]
    <2>1. Up(0, z)
      OBVIOUS
    <2>2. 0 \in 0 .. blocksize
      OBVIOUS
    <2> HIDE DEF z, Up
    <2> QED
      BY <2>1, <2>2
  <1>3. ASSUME NEW n \in 1 .. blocksize, n - 1 \in T PROVE n \in T
    <2>1. PICK f : Up(n - 1, f)
      BY <1>3
    <2> DEFINE x == (f[n - 1] * K) % HashMod
               g == [i \in 0 .. n |-> IF i = n THEN x ELSE f[i]]
    <2>2. x \in Nat
      BY <2>1, <1>1
    <2> HIDE DEF x
    <2>3. g \in [0 .. n -> Nat] /\ g[0] = 1
      BY <2>1, <2>2
    <2>4. ASSUME NEW i \in 1 .. n PROVE g[i] = (g[i - 1] * K) % HashMod
      BY <2>1 DEF x
    <2> HIDE DEF g
    <2>5. Up(n, g) /\ n \in 0 .. blocksize
      BY <2>3, <2>4
    <2> HIDE DEF Up
    <2> QED
      BY <2>5
  <1> DEFINE b == blocksize
  <1>4. b \in T
    <2> HIDE DEF T
    <2>1. b \in Nat /\ b \in 0 .. b /\ \A i \in 1 .. b : i - 1 \in T => i \in T
      BY <1>3
    <2> HIDE DEF b
    <2> QED
      BY <1>2, <2>1, UpTo
  <1>5. PICK f : Up(blocksize, f)
    BY <1>4
  <1> DEFINE p[i \in 0 .. blocksize] == IF i = 0 THEN 1 ELSE (p[i - 1] * K) % HashMod
  <1>6. p = [i \in 0 .. blocksize |-> IF i = 0 THEN 1 ELSE (p[i - 1] * K) % HashMod]
    <2>1. f = [i \in 0 .. blocksize |-> IF i = 0 THEN 1 ELSE (f[i - 1] * K) % HashMod]
      BY <1>5
    <2>2. \E g : g = [i \in 0 .. blocksize |-> IF i = 0 THEN 1 ELSE (g[i - 1] * K) % HashMod]
      BY <2>1
    <2> QED
      BY <2>2
  <1>7. dhashmul = p[blocksize]
    BY DEF dhashmul
  <1> HIDE DEF p
  <1> DEFINE E == {i \in 0 .. blocksize : p[i] = f[i]}
  <1>8. b \in E
    <2>1. 0 \in E /\ \A i \in 1 .. b : i - 1 \in E => i \in E
      BY <1>5, <1>6
    <2>2. b \in Nat /\ b \in 0 .. b
      OBVIOUS
    <2> HIDE DEF b, E
    <2> QED
      BY <2>1, <2>2, UpTo
  <1>9. Powers(f)
    <2>1. ASSUME NEW i \in 1 .. blocksize
          PROVE  \E q \in Int : f[i] = f[i - 1] * K + q * HashMod
      <3>1. f[i - 1] \in Nat /\ f[i] = (f[i - 1] * K) % HashMod
        BY <1>5
      <3> QED
        BY <3>1, <1>1
    <2> QED
      BY <1>5, <2>1 DEF Powers
  <1> QED
    BY <1>7, <1>8, <1>9

\* Rolling: the hash of the last blocksize bytes comes out of two hashes that
\* began together, one of them blocksize bytes ago.
LEMMA Rolling ==
  ASSUME NEW f \in Seq(Nat), blocksize \in Nat,
         NEW s \in 0 .. Len(f), NEW i \in s .. Len(f), i + blocksize <= Len(f)
  PROVE  Seg(f, i, i + blocksize)
           = (Seg(f, s, i + blocksize) - Seg(f, s, i) * dhashmul) % HashMod
  <1>1. PICK p : Powers(p) /\ p[blocksize] = dhashmul
    BY PowersAre
  <1> DEFINE Sum(k) == \E q \in Int : Seg(f, s, i + k)
                         = Seg(f, s, i) * p[k] + Seg(f, i, i + k) + q * HashMod
             T == {k \in 0 .. blocksize : Sum(k)}
             h == Seg(f, s, i)
  <1>2. \A k \in 0 .. blocksize : /\ Seg(f, s, i + k) \in Residues /\ Seg(f, i, i + k) \in Residues
                                  /\ p[k] \in Nat /\ i + k \in i .. Len(f)
    BY <1>1, Segments DEF Powers
  <1>3. h \in Nat /\ HashMod \in Nat \ {0} /\ K \in Nat
    BY Segments, HashAssumption DEF Residues
  <1> HIDE DEF h
  <1>4. 0 \in T
    <2>1. i + 0 = i /\ p[0] = 1 /\ Seg(f, i, i) = 0 /\ 0 \in 0 .. blocksize
      BY <1>1, Segments DEF Powers
    <2>2. h = h * p[0] + Seg(f, i, i) + 0 * HashMod
      BY <1>3, <2>1
    <2>3. Sum(0)
      BY <2>1, <2>2 DEF h
    <2> QED
      BY <2>1, <2>3
  <1>5. ASSUME NEW k \in 1 .. blocksize, k - 1 \in T PROVE k \in T
    <2> DEFINE c == f[i + k]
               a0 == Seg(f, s, i + (k - 1))
               a1 == Seg(f, s, i + k)
               b0 == Seg(f, i, i + (k - 1))
               b1 == Seg(f, i, i + k)
    <2>1. i + (k - 1) \in i .. Len(f) /\ i + (k - 1) < Len(f) /\ (i + (k - 1)) + 1 = i + k
          /\ k - 1 \in 0 .. blocksize /\ i + (k - 1) \in s .. Len(f)
      OBVIOUS
    <2>2. /\ c \in Nat /\ a0 \in Int /\ a1 \in Int /\ b0 \in Int /\ b1 \in Int
          /\ p[k] \in Int /\ p[k - 1] \in Int
      <3>1. \A r \in Residues : r \in Int
        BY DEF Residues
      <3>2. i + k \in 1 .. Len(f) /\ f \in [1 .. Len(f) -> Nat]
        BY LenProperties
      <3>3. c \in Nat
        BY <3>2
      <3>4. k \in 0 .. blocksize
        OBVIOUS
      <3>5. a1 \in Residues /\ b1 \in Residues /\ p[k] \in Nat
        BY <1>2, <3>4
      <3>6. a0 \in Residues /\ b0 \in Residues /\ p[k - 1] \in Nat
        BY <1>2, <2>1
      <3> QED
        BY <3>1, <3>3, <3>5, <3>6
    <2>3. a1 = Extend(a0, c) /\ b1 = Extend(b0, c)
      BY <2>1, Segments, SMTT(30)
    <2>4. PICK q \in Int : a0 = h * p[k - 1] + b0 + q * HashMod
      BY <1>5 DEF h, a0, b0
    <2> HIDE DEF a0, a1, b0, b1, c
    <2>5. PICK q1 \in Int : a1 = a0 * K + c + q1 * HashMod
      BY <2>2, <2>3, ExtendIs
    <2>6. PICK q2 \in Int : b1 = b0 * K + c + q2 * HashMod
      BY <2>2, <2>3, ExtendIs
    <2>7. PICK q3 \in Int : p[k] = p[k - 1] * K + q3 * HashMod
      BY <1>1 DEF Powers
    <2> DEFINE z == q * K + q1 - q2 - h * q3
    <2>8. a1 = h * p[k] + b1 + z * HashMod /\ z \in Int
      <3> DEFINE u == p[k - 1]
                 v == p[k]
      <3>1. a0 = h * u + b0 + q * HashMod /\ v = u * K + q3 * HashMod /\ u \in Int /\ v \in Int
        BY <2>2, <2>4, <2>7
      <3> HIDE DEF u, v
      <3>2. h * v = h * u * K + (h * q3) * HashMod
        BY <3>1, <1>3
      <3>3. a0 * K = h * u * K + b0 * K + (q * K) * HashMod
        BY <3>1, <1>3, <2>2
      <3>4. z * HashMod = (q * K) * HashMod + q1 * HashMod - q2 * HashMod - (h * q3) * HashMod
        BY <1>3
      <3>5. z \in Int
        BY <1>3
      <3> HIDE DEF z
      <3>6. a1 = h * v + b1 + z * HashMod
        <4> DEFINE M1 == h * u * K
                   M2 == b0 * K
                   M3 == (q * K) * HashMod
                   M4 == (h * q3) * HashMod
                   N1 == q1 * HashMod
                   N2 == q2 * HashMod
        <4>1. /\ M1 \in Int /\ M2 \in Int /\ M3 \in Int /\ M4 \in Int /\ N1 \in Int /\ N2 \in Int
              /\ a0 * K \in Int /\ h * v \in Int /\ z * HashMod \in Int
          BY <1>3, <2>2, <3>1, <3>5
        <4>2. /\ h * v = M1 + M4 /\ a0 * K = M1 + M2 + M3
              /\ z * HashMod = M3 + N1 - N2 - M4
              /\ a1 = a0 * K + c + N1 /\ b1 = M2 + c + N2
          BY <3>2, <3>3, <3>4, <2>5, <2>6
        <4> HIDE DEF M1, M2, M3, M4, N1, N2
        <4> QED
          BY <4>1, <4>2, <2>2
      <3> QED
        BY <3>5, <3>6 DEF v
    <2> HIDE DEF z
    <2>9. Sum(k)
      BY <2>8 DEF h, a1, b1
    <2> QED
      BY <2>9
  <1> DEFINE b == blocksize
  <1>6. b \in T
    <2>1. b \in Nat /\ b \in 0 .. b /\ \A k \in 1 .. b : k - 1 \in T => k \in T
      <3> HIDE DEF T
      <3> QED
        BY <1>5
    <2> HIDE DEF b, T
    <2> QED
      BY <1>4, <2>1, UpTo
  <1>7. PICK q \in Int : Seg(f, s, i + b) = h * dhashmul + Seg(f, i, i + b) + q * HashMod
    BY <1>1, <1>6 DEF h
  <1>8. dhashmul \in Nat
    BY <1>1, <1>2
  <1> DEFINE x == Seg(f, s, i + b)
             y == Seg(f, i, i + b)
             d == dhashmul
  <1>9. x \in Int /\ y \in 0 .. HashMod - 1 /\ d \in Int /\ x = h * d + y + q * HashMod
    <2>1. blocksize \in 0 .. blocksize
      OBVIOUS
    <2>2. x \in Residues /\ y \in Residues
      BY <1>2, <2>1
    <2> QED
      BY <1>7, <1>8, <2>2, <1>3 DEF Residues
  <1>10. ((x - h * d) % HashMod) = y
    <2> HIDE DEF x, y, d
    <2> DEFINE e == x - h * d
    <2>1. e = y + q * HashMod /\ e \in Int
      BY <1>3, <1>9
    <2> HIDE DEF e
    <2>2. (e % HashMod) = y
      BY <1>3, <1>9, <2>1, Modulo
    <2> QED
      BY <2>2 DEF e
  <1> QED
    BY <1>10 DEF h

-----------------------------------------------------------------------------
(* ring_buffer: what serialize hands out moves on by one with each push.   *)

Ring(r, b, S) == r \in [buffer : [1 .. b -> S], bufsz : {b}, ptr : 0 .. b - 1]

LEMMA RingInit ==
  ASSUME NEW b \in Nat \ {0}, NEW S, Uninit \in S
  PROVE  Ring(init(b), b, S)
  BY DEF Ring, init

LEMMA SerializeIs ==
  ASSUME NEW b \in Nat \ {0}, NEW S, NEW r, Ring(r, b, S)
  PROVE  /\ serialize(r) \in Seq(S) /\ Len(serialize(r)) = b
         /\ \A j \in 1 .. b :
              serialize(r)[j] = r.buffer[IF r.ptr + j <= b THEN r.ptr + j ELSE r.ptr + j - b]
  <1> DEFINE f == r.buffer
             p == r.ptr
  <1>1. f \in [1 .. b -> S] /\ f \in Seq(S) /\ Len(f) = b /\ p \in 0 .. b - 1 /\ r.bufsz = b
    BY DEF Ring
  <1> DEFINE u == SubSeq(f, p + 1, b)
             v == SubSeq(f, 1, p)
  <1>2. serialize(r) = IF p = 0 THEN f ELSE u \o v
    BY <1>1 DEF serialize
  <1> HIDE DEF f, p
  <1>3. /\ u \in Seq(S) /\ Len(u) = b - p /\ \A j \in 1 .. b - p : u[j] = f[p + j]
        /\ v \in Seq(S) /\ Len(v) = p /\ \A j \in 1 .. p : v[j] = f[j]
    <2>1. p + 1 \in Int /\ p \in Int /\ b \in Int /\ \A i \in 1 .. b : f[i] \in S
      BY <1>1
    <2>2. \A i \in p + 1 .. b : f[i] \in S
      BY <1>1, <2>1
    <2>3. \A i \in 1 .. p : f[i] \in S
      BY <1>1, <2>1
    <2>4. /\ u \in Seq(S) /\ Len(u) = IF p + 1 <= b THEN b - (p + 1) + 1 ELSE 0
          /\ \A j \in 1 .. b - (p + 1) + 1 : u[j] = f[(p + 1) + j - 1]
      BY <2>1, <2>2, SubSeqProperties
    <2>5. /\ v \in Seq(S) /\ Len(v) = IF 1 <= p THEN p - 1 + 1 ELSE 0
          /\ \A j \in 1 .. p - 1 + 1 : v[j] = f[1 + j - 1]
      BY <2>1, <2>3, SubSeqProperties
    <2> HIDE DEF u, v
    <2>6. \A j \in 1 .. b - p : u[j] = f[p + j]
      BY <1>1, <2>4
    <2>7. \A j \in 1 .. p : v[j] = f[j]
      BY <1>1, <2>5
    <2> QED
      BY <1>1, <2>4, <2>5, <2>6, <2>7
  <1> HIDE DEF u, v
  <1>4. /\ u \o v \in Seq(S) /\ Len(u \o v) = b
        /\ \A j \in 1 .. b : (u \o v)[j] = IF p + j <= b THEN f[p + j] ELSE f[p + j - b]
    <2>1. /\ u \o v \in Seq(S) /\ Len(u \o v) = Len(u) + Len(v)
          /\ \A j \in 1 .. Len(u) + Len(v) :
               (u \o v)[j] = IF j <= Len(u) THEN u[j] ELSE v[j - Len(u)]
      BY <1>3, ConcatProperties
    <2> DEFINE w == u \o v
    <2> HIDE DEF w
    <2>2. ASSUME NEW j \in 1 .. b
          PROVE  w[j] = IF p + j <= b THEN f[p + j] ELSE f[p + j - b]
      <3>1. j <= b - p => w[j] = u[j] /\ u[j] = f[p + j]
        BY <1>1, <1>3, <2>1 DEF w
      <3>2. ~(j <= b - p) => w[j] = v[j - (b - p)] /\ v[j - (b - p)] = f[j - (b - p)]
        BY <1>1, <1>3, <2>1 DEF w
      <3>3. j - (b - p) = p + j - b /\ (j <= b - p <=> p + j <= b)
        BY <1>1
      <3> QED
        BY <3>1, <3>2, <3>3
    <2> QED
      BY <1>1, <1>3, <2>1, <2>2 DEF w
  <1>5. p = 0 => \A j \in 1 .. b : f[j] = IF p + j <= b THEN f[p + j] ELSE f[p + j - b]
    BY <1>1
  <1> QED
    BY <1>1, <1>2, <1>4, <1>5 DEF f, p

\* A push forgets the oldest entry, appends a new one and keeps the others.
LEMMA RingPush ==
  ASSUME NEW b \in Nat \ {0}, NEW S, NEW r, Ring(r, b, S), NEW x \in S
  PROVE  /\ Ring(push(r, x), b, S)
         /\ oldest(r) = serialize(r)[1]
         /\ serialize(push(r, x))[b] = x
         /\ \A j \in 1 .. b - 1 : serialize(push(r, x))[j] = serialize(r)[j + 1]
         /\ push(r, x).ptr = IF r.ptr + 1 = b THEN 0 ELSE r.ptr + 1
  <1> DEFINE f == r.buffer
             p == r.ptr
             n == push(r, x)
             At(i, j) == IF i + j <= b THEN i + j ELSE i + j - b
  <1>1. f \in [1 .. b -> S] /\ p \in 0 .. b - 1 /\ r.bufsz = b
    BY DEF Ring
  <1>2. /\ n.buffer = [f EXCEPT ![p + 1] = x] /\ n.bufsz = b
        /\ n.ptr = IF p + 1 = b THEN 0 ELSE p + 1
        /\ n \in [buffer : [1 .. b -> S], bufsz : {b}, ptr : 0 .. b - 1]
    <2> DEFINE g == [f EXCEPT ![p + 1] = x]
               o == IF p + 1 = b THEN 0 ELSE p + 1
    <2>1. r \in [buffer : [1 .. b -> S], bufsz : {b}, ptr : 0 .. b - 1]
      BY DEF Ring
    <2>2. n.buffer = g /\ n.bufsz = b /\ n.ptr = o
      BY <1>1, <2>1 DEF push
    <2>3. g \in [1 .. b -> S] /\ o \in 0 .. b - 1
      BY <1>1
    <2>4. n \in [buffer : [1 .. b -> S], bufsz : {b}, ptr : 0 .. b - 1]
      BY <1>1, <2>1, <2>3 DEF push
    <2> QED
      BY <2>2, <2>4 DEF g, o
  <1>3. Ring(n, b, S)
    BY <1>2 DEF Ring
  <1> HIDE DEF n
  <1>4. \A j \in 1 .. b : serialize(n)[j] = n.buffer[At(n.ptr, j)]
    BY <1>3, SerializeIs
  <1>5. \A j \in 1 .. b : serialize(r)[j] = f[At(p, j)]
    BY SerializeIs
  <1> HIDE DEF f, p
  <1>6. oldest(r) = serialize(r)[1]
    BY <1>1, <1>5 DEF oldest, f, p
  <1>7. serialize(n)[b] = x
    <2>1. At(n.ptr, b) = p + 1 /\ b \in 1 .. b
      BY <1>1, <1>2
    <2> QED
      BY <1>1, <1>2, <1>4, <2>1
  <1>8. ASSUME NEW j \in 1 .. b - 1 PROVE serialize(n)[j] = serialize(r)[j + 1]
    <2>1. At(n.ptr, j) = At(p, j + 1) /\ At(n.ptr, j) # p + 1 /\ At(n.ptr, j) \in 1 .. b
      BY <1>1, <1>2
    <2>2. n.buffer[At(n.ptr, j)] = f[At(p, j + 1)]
      BY <1>1, <1>2, <2>1
    <2>3. j \in 1 .. b /\ j + 1 \in 1 .. b
      OBVIOUS
    <2> QED
      BY <1>4, <1>5, <2>2, <2>3
  <1> QED
    BY <1>2, <1>3, <1>6, <1>7, <1>8 DEF n, p

\* The window holds the last of the first n values of f, those behind number lo
Remembers(r, b, f, n, lo) ==
  \A j \in 1 .. b : n - b + j > lo => serialize(r)[j] = f[n - b + j]

LEMMA RemembersMore ==
  ASSUME NEW b \in Nat \ {0}, NEW S, NEW r, Ring(r, b, S), NEW x \in S,
         NEW f, NEW n \in Nat, NEW lo \in 0 .. n, Remembers(r, b, f, n, lo), f[n + 1] = x
  PROVE  Remembers(push(r, x), b, f, n + 1, lo)
  <1> SUFFICES ASSUME NEW j \in 1 .. b, (n + 1) - b + j > lo
               PROVE  serialize(push(r, x))[j] = f[(n + 1) - b + j]
    BY DEF Remembers
  <1>1. CASE j = b
    <2>1. (n + 1) - b + j = n + 1
      BY <1>1
    <2> QED
      BY <1>1, <2>1, RingPush
  <1>2. CASE j # b
    <2>1. j \in 1 .. b - 1 /\ j + 1 \in 1 .. b /\ n - b + (j + 1) = (n + 1) - b + j
      BY <1>2
    <2>2. serialize(push(r, x))[j] = serialize(r)[j + 1]
      BY <2>1, RingPush
    <2>3. serialize(r)[j + 1] = f[n - b + (j + 1)]
      BY <2>1 DEF Remembers
    <2> QED
      BY <2>1, <2>2, <2>3
  <1> QED
    BY <1>1, <1>2

-----------------------------------------------------------------------------
(* Reading a delta back.  `o' is a sequence of items, w lists the words    *)
(* behind each of them, undone from difference coding, and r what has been *)
(* restored by then.                                                       *)

\* What is in a window before the first push is no byte
Bytes0 == Alphabet \cup {Uninit}
Items  == [cmd : Nat] \cup [bytes : Seq(Bytes0)]

Undone(x, prev) ==
  IF "cmd" \notin DOMAIN x THEN prev
  ELSE IF use_zlib THEN (prev + x.cmd) % CmdMod ELSE x.cmd
Signed(v) == IF v >= CmdMod \div 2 THEN v - CmdMod ELSE v
Means(x, v) ==
  IF "bytes" \in DOMAIN x THEN x.bytes
  ELSE IF Signed(v) >= 0 THEN Block(source, blocksize, Signed(v) + 1)
  ELSE << >>

Parsed(o, w, r) ==
  /\ o \in Seq(Items)
  /\ w \in [0 .. Len(o) -> Nat] /\ w[0] = 0
  /\ r \in [0 .. Len(o) -> Seq(Bytes0)] /\ r[0] = << >>
  /\ \A i \in 1 .. Len(o) : w[i] = Undone(o[i], w[i - 1]) /\ r[i] = r[i - 1] \o Means(o[i], w[i])

Readable(o, w, i) ==
  "cmd" \in DOMAIN o[i] =>
    IF Signed(w[i]) >= 0 THEN Signed(w[i]) < Len(source) \div blocksize
    ELSE i < Len(o) /\ "bytes" \in DOMAIN o[i + 1] /\ Len(o[i + 1].bytes) = -Signed(w[i])

\* o, whose last word was prev, restores d
ReadsAs(o, prev, d) ==
  \E w, r : /\ Parsed(o, w, r) /\ \A i \in 1 .. Len(o) : Readable(o, w, i)
            /\ r[Len(o)] = d /\ (use_zlib => w[Len(o)] = prev)

\* One more value of a function from 0
Plus(f, n, v) == [i \in 0 .. n |-> IF i = n THEN v ELSE f[i]]

LEMMA ParseItem ==
  ASSUME NEW o, NEW w, NEW r, Parsed(o, w, r), NEW x \in Items, NEW v \in Nat,
         v = Undone(x, w[Len(o)]), Means(x, v) \in Seq(Bytes0)
  PROVE  LET n == Len(o) + 1
         IN /\ Append(o, x) \in Seq(Items) /\ n \in Nat \ {0} /\ Len(Append(o, x)) = n
            /\ Append(o, x)[n] = x /\ \A i \in 1 .. n - 1 : Append(o, x)[i] = o[i]
            /\ Parsed(Append(o, x), Plus(w, n, v), Plus(r, n, r[n - 1] \o Means(x, v)))
  <1> DEFINE n == Len(o) + 1
             e == Append(o, x)
             m == Means(x, v)
             s == r[n - 1] \o m
             w1 == Plus(w, n, v)
             r1 == Plus(r, n, s)
  <1>1. /\ e \in Seq(Items) /\ n \in Nat \ {0} /\ Len(e) = n /\ e[n] = x
        /\ \A i \in 1 .. n - 1 : e[i] = o[i]
    BY AppendProperties DEF Parsed
  <1>2. /\ w \in [0 .. n - 1 -> Nat] /\ w[0] = 0 /\ Len(o) = n - 1
        /\ r \in [0 .. n - 1 -> Seq(Bytes0)] /\ r[0] = << >>
        /\ \A i \in 1 .. n - 1 : w[i] = Undone(o[i], w[i - 1]) /\ r[i] = r[i - 1] \o Means(o[i], w[i])
    <2>1. Len(o) \in Nat
      BY DEF Parsed
    <2>2. n - 1 = Len(o)
      BY <2>1
    <2> HIDE DEF n, e, m
    <2> QED
      BY <2>2 DEF Parsed
  <1> HIDE DEF n, e, m
  <1>3. s \in Seq(Bytes0)
    <2>1. r[n - 1] \in Seq(Bytes0) /\ m \in Seq(Bytes0)
      BY <1>1, <1>2 DEF m
    <2> QED
      BY <2>1, ConcatProperties
  <1> HIDE DEF s
  <1>4. /\ w1 \in [0 .. n -> Nat] /\ w1[0] = 0 /\ r1 \in [0 .. n -> Seq(Bytes0)] /\ r1[0] = << >>
        /\ w1[n] = v /\ r1[n] = s
        /\ \A i \in 0 .. n - 1 : w1[i] = w[i] /\ r1[i] = r[i]
    <2>1. n \in 0 .. n /\ 0 \in 0 .. n - 1 /\ \A i \in 0 .. n - 1 : i \in 0 .. n /\ i # n
      BY <1>1
    <2>2. \A i \in 0 .. n : i # n => i \in 0 .. n - 1
      BY <1>1
    <2>3. w1 \in [0 .. n -> Nat] /\ r1 \in [0 .. n -> Seq(Bytes0)]
      BY <1>2, <1>3, <2>2 DEF Plus
    <2>4. w1[n] = v /\ r1[n] = s /\ \A i \in 0 .. n - 1 : w1[i] = w[i] /\ r1[i] = r[i]
      BY <2>1 DEF Plus
    <2> QED
      BY <1>2, <2>1, <2>3, <2>4
  <1> HIDE DEF w1, r1
  <1>5. ASSUME NEW i \in 1 .. n
        PROVE  w1[i] = Undone(e[i], w1[i - 1]) /\ r1[i] = r1[i - 1] \o Means(e[i], w1[i])
    <2>1. CASE i = n
      <3>1. w1[n - 1] = w[n - 1] /\ r1[n - 1] = r[n - 1] /\ n - 1 \in 0 .. n - 1
        BY <1>1, <1>4
      <3> QED
        BY <2>1, <3>1, <1>1, <1>2, <1>4 DEF s, m
    <2>2. CASE i # n
      <3>1. i \in 1 .. n - 1 /\ i - 1 \in 0 .. n - 1 /\ i \in 0 .. n - 1
        BY <2>2, <1>1
      <3> QED
        BY <3>1, <1>1, <1>2, <1>4
    <2> QED
      BY <2>1, <2>2
  <1>6. Parsed(e, w1, r1)
    BY <1>1, <1>4, <1>5 DEF Parsed
  <1> QED
    BY <1>1, <1>6 DEF n, e, m, s, w1, r1

\* The words

LEMMA SignedWord ==
  ASSUME NEW c \in Int, -(CmdMod \div 2) <= c, c < CmdMod \div 2
  PROVE  (c % CmdMod) \in Nat /\ Signed(c % CmdMod) = c
  <1>1. CmdMod \in Nat \ {0} /\ CmdMod \div 2 \in Nat /\ 2 * (CmdMod \div 2) <= CmdMod
    BY DeltaAssumption
  <1>2. CASE c >= 0
    <2>1. c \in 0 .. CmdMod - 1 /\ c = c + 0 * CmdMod
      BY <1>1, <1>2
    <2>2. (c % CmdMod) = c
      BY <1>1, <2>1, Modulo
    <2> QED
      BY <1>1, <1>2, <2>2 DEF Signed
  <1>3. CASE c < 0
    <2> DEFINE y == c + CmdMod
    <2>1. y \in 0 .. CmdMod - 1 /\ c = y + (-1) * CmdMod
      BY <1>1, <1>3
    <2> HIDE DEF y
    <2>2. (c % CmdMod) = y
      BY <1>1, <2>1, Modulo
    <2> QED
      BY <1>1, <1>3, <2>2 DEF Signed, y
  <1> QED
    BY <1>2, <1>3

LEMMA CommandWord ==
  ASSUME NEW prev \in Int, NEW c \in Int, NEW p, use_zlib => p = prev
  PROVE  \E x \in [cmd : Nat] :
           /\ Command(prev, c).items = <<x>> /\ Undone(x, p) = c % CmdMod /\ DOMAIN x = {"cmd"}
           /\ (use_zlib => Command(prev, c).prev = c % CmdMod)
           /\ Command(prev, c).prev \in {prev, c % CmdMod}
  <1>1. CmdMod \in Nat \ {0}
    BY DeltaAssumption
  <1> DEFINE k == c % CmdMod
             e == (c - prev) % CmdMod
  <1>2. k \in 0 .. CmdMod - 1 /\ e \in 0 .. CmdMod - 1
    BY <1>1, Modulo
  <1>3. ((prev + e) % CmdMod) = k
    <2> DEFINE d == (c - prev) \div CmdMod
    <2>1. d \in Int /\ c - prev = CmdMod * d + e
      BY <1>1, Modulo
    <2> HIDE DEF d, e
    <2>2. prev + e = c + (-d) * CmdMod /\ -d \in Int /\ prev + e \in Int
      BY <1>1, <1>2, <2>1
    <2> QED
      BY <1>1, <2>2, SameModulo
  <1>4. CASE use_zlib
    <2> DEFINE x == [cmd |-> e]
    <2>1. Command(prev, c) = [prev |-> k, items |-> <<x>>]
      BY <1>4 DEF Command
    <2> HIDE DEF e, k
    <2>2. x \in [cmd : Nat] /\ DOMAIN x = {"cmd"} /\ x.cmd = e
      BY <1>2
    <2>3. Undone(x, p) = k
      BY <1>3, <1>4, <2>2 DEF Undone
    <2> QED
      BY <2>1, <2>2, <2>3 DEF k
  <1>5. CASE ~use_zlib
    <2> DEFINE x == [cmd |-> k]
    <2>1. Command(prev, c) = [prev |-> prev, items |-> <<x>>]
      BY <1>5 DEF Command
    <2> HIDE DEF e, k
    <2>2. x \in [cmd : Nat] /\ DOMAIN x = {"cmd"} /\ x.cmd = k
      BY <1>2
    <2>3. Undone(x, p) = k
      BY <1>5, <2>2 DEF Undone
    <2> QED
      BY <1>5, <2>1, <2>2, <2>3 DEF k
  <1> QED
    BY <1>4, <1>5

\* What commands and literals need to be told apart, and blocks to be found
Geometry ==
  /\ source \in Seq(Alphabet) /\ blocksize \in Nat \ {0} /\ use_zlib \in BOOLEAN
  /\ Len(source) \div blocksize <= CmdMod \div 2

LEMMA BlockIs ==
  ASSUME Geometry, NEW m \in 1 .. Len(source) \div blocksize
  PROVE  /\ Block(source, blocksize, m) \in Seq(Alphabet)
         /\ Block(source, blocksize, m) \in Seq(Bytes0)
         /\ Len(Block(source, blocksize, m)) = blocksize
  <1> DEFINE b == blocksize
             l == Len(source)
             i == (m - 1) * b
             j == m * b
  <1>1. b \in Nat \ {0} /\ l \in Nat /\ source \in [1 .. l -> Alphabet]
    BY LenProperties DEF Geometry
  <1>2. i \in Nat /\ i + b = j /\ j <= l
    BY <1>1, Division
  <1>3. Block(source, b, m) = SubSeq(source, i + 1, j)
    BY DEF Block
  <1> HIDE DEF b, l, i, j
  <1>4. i + 1 \in Int /\ j \in Int /\ \A k \in i + 1 .. j : source[k] \in Alphabet
    BY <1>1, <1>2
  <1>5. /\ SubSeq(source, i + 1, j) \in Seq(Alphabet)
        /\ Len(SubSeq(source, i + 1, j)) = IF i + 1 <= j THEN j - (i + 1) + 1 ELSE 0
    BY <1>4, SubSeqProperties
  <1>6. Seq(Alphabet) \subseteq Seq(Bytes0)
    BY SeqMonotonic DEF Bytes0
  <1>7. Len(SubSeq(source, i + 1, j)) = b
    BY <1>1, <1>2, <1>5
  <1> QED
    BY <1>3, <1>5, <1>6, <1>7 DEF b

\* An item more leaves the items before it readable, if the last of them was
\* not waiting for its literals.
LEMMA StillReadable ==
  ASSUME NEW o, NEW w, NEW e, NEW v, NEW n \in Nat,
         Len(o) = n, Len(e) > n, Len(e) \in Nat,
         \A i \in 1 .. n : e[i] = o[i] /\ v[i] = w[i],
         \A i \in 1 .. n : Readable(o, w, i)
  PROVE  \A i \in 1 .. n : Readable(e, v, i)
  <1> SUFFICES ASSUME NEW i \in 1 .. n PROVE Readable(e, v, i)
    OBVIOUS
  <1>1. e[i] = o[i] /\ v[i] = w[i] /\ Readable(o, w, i) /\ i < Len(e)
    OBVIOUS
  <1>2. i < n => e[i + 1] = o[i + 1]
    OBVIOUS
  <1> QED
    BY <1>1, <1>2 DEF Readable

\* _send_delta_command appends a block of the predecessor
LEMMA CommandReads ==
  ASSUME Geometry, NEW o, NEW prev \in Int, NEW d, ReadsAs(o, prev, d),
         NEW m \in 1 .. Len(source) \div blocksize
  PROVE  LET c == Command(prev, m - 1)
         IN /\ ReadsAs(o \o c.items, c.prev, d \o Block(source, blocksize, m)) /\ c.prev \in Int
            /\ o \o c.items \in Seq(Items) /\ c.items \in Seq(Items)
  <1> DEFINE c == Command(prev, m - 1)
             k == (m - 1) % CmdMod
             b == Block(source, blocksize, m)
             n == Len(o) + 1
  <1>1. PICK w, r : /\ Parsed(o, w, r) /\ \A i \in 1 .. Len(o) : Readable(o, w, i)
                    /\ r[Len(o)] = d /\ (use_zlib => w[Len(o)] = prev)
    BY DEF ReadsAs
  <1>2. m - 1 \in Int /\ -(CmdMod \div 2) <= m - 1 /\ m - 1 < CmdMod \div 2 /\ (m - 1) + 1 = m
    BY Division, DeltaAssumption DEF Geometry
  <1>3. k \in Nat /\ Signed(k) = m - 1
    BY <1>2, SignedWord
  <1>4. PICK x \in [cmd : Nat] :
           /\ c.items = <<x>> /\ Undone(x, w[Len(o)]) = k /\ DOMAIN x = {"cmd"}
           /\ (use_zlib => c.prev = k) /\ c.prev \in {prev, k}
    <2> DEFINE p == w[Len(o)]
               a == m - 1
    <2>1. (use_zlib => p = prev) /\ a \in Int
      BY <1>1, <1>2
    <2> HIDE DEF p, a
    <2>2. \E x \in [cmd : Nat] :
            /\ Command(prev, a).items = <<x>> /\ Undone(x, p) = a % CmdMod /\ DOMAIN x = {"cmd"}
            /\ (use_zlib => Command(prev, a).prev = a % CmdMod)
            /\ Command(prev, a).prev \in {prev, a % CmdMod}
      BY <2>1, CommandWord
    <2> QED
      BY <2>2 DEF p, a
  <1> HIDE DEF c, k
  <1>5. Means(x, k) = b /\ b \in Seq(Bytes0)
    BY <1>2, <1>3, <1>4, BlockIs DEF Means
  <1> HIDE DEF b
  <1> DEFINE e == Append(o, x)
             v == Plus(w, n, k)
             s == Plus(r, n, r[n - 1] \o b)
  <1>6. o \in Seq(Items) /\ Len(o) \in Nat /\ n - 1 = Len(o) /\ x \in Items
    BY <1>1 DEF Parsed, Items
  <1>7. /\ e \in Seq(Items) /\ n \in Nat \ {0} /\ Len(e) = n /\ e[n] = x
        /\ \A i \in 1 .. n - 1 : e[i] = o[i]
        /\ Parsed(e, v, s)
    BY <1>1, <1>3, <1>4, <1>5, <1>6, ParseItem
  <1>8. o \o c.items = e
    BY <1>4, <1>6, AppendIsConcat
  <1>9. v[n] = k /\ s[n] = d \o b /\ \A i \in 1 .. n - 1 : v[i] = w[i]
    <2>1. r[n - 1] = d /\ n \in 0 .. n /\ \A i \in 1 .. n - 1 : i \in 0 .. n /\ i # n
      BY <1>1, <1>6, <1>7
    <2> HIDE DEF n
    <2> QED
      BY <2>1 DEF Plus
  <1> HIDE DEF e, v, s, n
  <1>10. \A i \in 1 .. n : Readable(e, v, i)
    <2>1. Readable(e, v, n)
      <3>1. Signed(v[n]) = m - 1 /\ m - 1 >= 0 /\ m - 1 < Len(source) \div blocksize
        BY <1>3, <1>9, Division DEF Geometry
      <3> QED
        BY <3>1 DEF Readable
    <2>2. \A i \in 1 .. n - 1 : Readable(o, w, i)
      BY <1>1, <1>6
    <2>3. \A i \in 1 .. n - 1 : Readable(e, v, i)
      <3> DEFINE l == n - 1
      <3>1. l \in Nat /\ Len(o) = l /\ Len(e) > l /\ Len(e) \in Nat
        BY <1>6, <1>7
      <3>2. (\A i \in 1 .. l : e[i] = o[i] /\ v[i] = w[i]) /\ \A i \in 1 .. l : Readable(o, w, i)
        BY <1>7, <1>9, <2>2
      <3> HIDE DEF l
      <3>3. \A i \in 1 .. l : Readable(e, v, i)
        BY <3>1, <3>2, StillReadable
      <3> QED
        BY <3>3 DEF l
    <2> QED
      BY <2>1, <2>3, <1>7
  <1>11. ReadsAs(e, c.prev, d \o b) /\ c.prev \in Int
    BY <1>3, <1>4, <1>7, <1>9, <1>10 DEF ReadsAs
  <1>12. c.items \in Seq(Items)
    BY <1>4, <1>6
  <1> QED
    BY <1>7, <1>8, <1>11, <1>12 DEF c, b

\* What the flush appends, item by item
LEMMA Pair ==
  ASSUME NEW S, NEW x \in S, NEW y \in S
  PROVE  Append(<<x>>, y) = <<x, y>>
  <1> DEFINE u == <<x>>
             s == Append(u, y)
             t == <<x, y>>
  <1>1. u \in Seq(S) /\ Len(u) = 1 /\ u[1] = x
    OBVIOUS
  <1>2. t \in Seq(S) /\ Len(t) = 2 /\ t[1] = x /\ t[2] = y
    OBVIOUS
  <1> HIDE DEF u, t
  <1>3. s \in Seq(S)
    BY <1>1, AppendProperties
  <1>4. Len(s) = Len(u) + 1
    BY <1>1, AppendProperties
  <1>5. s[1] = x
    BY <1>1, AppendProperties
  <1>6. s[2] = y
    BY <1>1, AppendProperties
  <1> HIDE DEF s
  <1>7. s = t
    <2>1. Len(s) = 2 /\ \A i \in 1 .. Len(s) : s[i] = t[i]
      BY <1>1, <1>2, <1>4, <1>5, <1>6
    <2> QED
      BY <1>2, <1>3, <2>1, SeqEqual
  <1> QED
    BY <1>7 DEF s, t, u

\* _flush_delta_buffer appends the literals
LEMMA FlushReads ==
  ASSUME Geometry, NEW o, NEW prev \in Int, NEW d, ReadsAs(o, prev, d), d \in Seq(Bytes0),
         NEW lits \in Seq(Bytes0), Len(lits) <= CmdMod \div 2
  PROVE  /\ ReadsAs(o \o Flush(prev, lits).items, Flush(prev, lits).prev, d \o lits)
         /\ Flush(prev, lits).prev \in Int
         /\ o \o Flush(prev, lits).items \in Seq(Items) /\ Flush(prev, lits).items \in Seq(Items)
  <1>1. PICK w, r : /\ Parsed(o, w, r) /\ \A i \in 1 .. Len(o) : Readable(o, w, i)
                    /\ r[Len(o)] = d /\ (use_zlib => w[Len(o)] = prev)
    BY DEF ReadsAs
  <1>2. o \in Seq(Items) /\ Len(o) \in Nat /\ Len(lits) \in Nat
    BY <1>1 DEF Parsed
  <1>3. CASE lits = << >>
    <2>1. Flush(prev, lits).items = << >> /\ Flush(prev, lits).prev = prev
      BY <1>3 DEF Flush
    <2>2. o \o << >> = o /\ d \o lits = d
      BY <1>2, <1>3, ConcatEmptySeq
    <2>3. << >> \in Seq(Items)
      BY EmptySeq
    <2> QED
      BY <1>2, <2>1, <2>2, <2>3
  <1>4. CASE lits # << >>
    <2> DEFINE c == Command(prev, -Len(lits))
               k == (-Len(lits)) % CmdMod
    <2>1. -Len(lits) \in Int /\ -(CmdMod \div 2) <= -Len(lits) /\ -Len(lits) < CmdMod \div 2
          /\ Len(lits) > 0
      <3>1. Len(lits) \in Nat \ {0}
        BY <1>4, EmptySeq
      <3>2. CmdMod \div 2 \in Nat
        BY DeltaAssumption
      <3> QED
        BY <3>1, <3>2
    <2>2. k \in Nat /\ Signed(k) = -Len(lits)
      BY <2>1, SignedWord
    <2>3. PICK x \in [cmd : Nat] :
             /\ c.items = <<x>> /\ Undone(x, w[Len(o)]) = k /\ DOMAIN x = {"cmd"}
             /\ (use_zlib => c.prev = k) /\ c.prev \in {prev, k}
      <3> DEFINE p == w[Len(o)]
                 a == -Len(lits)
      <3>1. (use_zlib => p = prev) /\ a \in Int
        BY <1>1, <2>1
      <3> HIDE DEF p, a
      <3>2. \E x \in [cmd : Nat] :
              /\ Command(prev, a).items = <<x>> /\ Undone(x, p) = a % CmdMod /\ DOMAIN x = {"cmd"}
              /\ (use_zlib => Command(prev, a).prev = a % CmdMod)
              /\ Command(prev, a).prev \in {prev, a % CmdMod}
        BY <3>1, CommandWord
      <3> QED
        BY <3>2 DEF p, a
    <2> DEFINE y == [bytes |-> lits]
               n == Len(o) + 1
               e == Append(o, x)
               v == Plus(w, n, k)
               s == Plus(r, n, r[n - 1] \o << >>)
    <2>4. /\ Flush(prev, lits).items = <<x, y>> /\ Flush(prev, lits).prev = c.prev
      <3>1. c = [prev |-> c.prev, items |-> c.items]
        BY DEF Command
      <3>2. Flush(prev, lits) = [c EXCEPT !.items = Append(@, y)]
        BY <1>4 DEF Flush
      <3> HIDE DEF c, y
      <3>3. Append(<<x>>, y) = <<x, y>>
        <4>1. x \in {x, y} /\ y \in {x, y}
          OBVIOUS
        <4> QED
          BY <4>1, Pair
      <3> QED
        BY <2>3, <3>1, <3>2, <3>3
    <2> HIDE DEF c, k
    <2>5. x \in Items /\ y \in Items /\ y.bytes = lits /\ DOMAIN y = {"bytes"}
      BY <2>3 DEF Items
    <2>6. Means(x, k) = << >> /\ << >> \in Seq(Bytes0) /\ Undone(y, k) = k /\ Means(y, k) = lits
      <3>1. "bytes" \notin DOMAIN x /\ "cmd" \notin DOMAIN y /\ "bytes" \in DOMAIN y
        BY <2>3, <2>5
      <3> QED
        BY <2>1, <2>2, <2>5, <3>1, EmptySeq DEF Means, Undone
    <2> HIDE DEF y
    <2>7. /\ e \in Seq(Items) /\ n \in Nat \ {0} /\ Len(e) = n /\ e[n] = x
          /\ \A i \in 1 .. n - 1 : e[i] = o[i]
          /\ Parsed(e, v, s)
      <3>1. /\ n \in Nat \ {0} /\ n - 1 = Len(o)
        BY <1>2
      <3> DEFINE l == Len(o) + 1
      <3>2. /\ e \in Seq(Items) /\ l \in Nat \ {0} /\ Len(e) = l /\ e[l] = x
            /\ \A i \in 1 .. l - 1 : e[i] = o[i]
            /\ Parsed(e, Plus(w, l, k), Plus(r, l, r[l - 1] \o Means(x, k)))
        <4>1. Parsed(o, w, r) /\ k \in Nat /\ k = Undone(x, w[Len(o)]) /\ Means(x, k) \in Seq(Bytes0)
          BY <1>1, <2>2, <2>3, <2>6
        <4> QED
          BY <2>5, <4>1, ParseItem
      <3> QED
        BY <2>6, <3>2
    <2>8. n - 1 = Len(o) /\ v[n] = k /\ s[n] = d /\ \A i \in 1 .. n - 1 : v[i] = w[i]
      <3>1. n - 1 = Len(o) /\ d \o << >> = d
        BY <1>2, ConcatEmptySeq
      <3> QED
        BY <1>1, <1>2, <2>7, <3>1 DEF Plus
    <2> HIDE DEF e, v, s, n
    <2> DEFINE f == Append(e, y)
               v2 == Plus(v, n + 1, k)
               s2 == Plus(s, n + 1, s[n] \o lits)
    <2>9. /\ f \in Seq(Items) /\ n + 1 \in Nat \ {0} /\ Len(f) = n + 1 /\ f[n + 1] = y
          /\ \A i \in 1 .. n : f[i] = e[i]
          /\ Parsed(f, v2, s2)
      <3>1. v[Len(e)] = k /\ (n + 1) - 1 = n
        BY <2>7, <2>8
      <3>2. LET l == Len(e) + 1
            IN /\ f \in Seq(Items) /\ l \in Nat \ {0} /\ Len(f) = l
               /\ f[l] = y /\ \A i \in 1 .. l - 1 : f[i] = e[i]
               /\ Parsed(f, Plus(v, l, k), Plus(s, l, s[l - 1] \o Means(y, k)))
        BY <2>2, <2>5, <2>6, <2>7, <3>1, ParseItem
      <3> QED
        BY <2>6, <2>7, <3>1, <3>2
    <2>10. v2[n + 1] = k /\ s2[n + 1] = d \o lits /\ \A i \in 1 .. n : v2[i] = v[i]
      BY <2>7, <2>8 DEF Plus
    <2>11. o \o <<x, y>> = f
      <3>1. o \o <<x, y>> \in Seq(Items) /\ Len(o \o <<x, y>>) = Len(o) + 2
        BY <1>2, <2>5, ConcatProperties
      <3> QED
        BY <1>2, <2>5, AppendIsConcat, ConcatAssociative DEF e
    <2> HIDE DEF f, v2, s2
    <2>12. \A i \in 1 .. n + 1 : Readable(f, v2, i)
      <3>1. Readable(f, v2, n + 1)
        BY <2>5, <2>9 DEF Readable
      <3>2. Readable(f, v2, n)
        <4>1. Signed(v2[n]) = -Len(lits) /\ Len(lits) > 0 /\ n \in 1 .. n /\ n < Len(f)
          <5>1. n \in 1 .. n /\ n < Len(f)
            BY <2>7, <2>9
          <5>2. v2[n] = k
            BY <2>8, <2>10, <5>1
          <5> QED
            BY <2>1, <2>2, <5>1, <5>2
        <4>2. "bytes" \in DOMAIN f[n + 1] /\ f[n + 1].bytes = lits
          BY <2>5, <2>9
        <4> QED
          BY <1>2, <4>1, <4>2 DEF Readable
      <3>3. \A i \in 1 .. n - 1 : f[i] = o[i] /\ v2[i] = w[i]
        BY <2>7, <2>8, <2>9, <2>10
      <3>4. \A i \in 1 .. n - 1 : Readable(o, w, i)
        BY <1>1, <2>8
      <3>5. \A i \in 1 .. n - 1 : Readable(f, v2, i)
        <4> DEFINE l == n - 1
        <4>1. l \in Nat /\ Len(o) = l /\ Len(f) > l /\ Len(f) \in Nat
          BY <1>2, <2>7, <2>8, <2>9
        <4>2. (\A i \in 1 .. l : f[i] = o[i] /\ v2[i] = w[i]) /\ \A i \in 1 .. l : Readable(o, w, i)
          BY <3>3, <3>4
        <4> HIDE DEF l
        <4>3. \A i \in 1 .. l : Readable(f, v2, i)
          BY <4>1, <4>2, StillReadable
        <4> QED
          BY <4>3 DEF l
      <3> QED
        BY <2>7, <3>1, <3>2, <3>5
    <2>13. ReadsAs(f, c.prev, d \o lits) /\ c.prev \in Int
      <3>1. use_zlib => v2[Len(f)] = c.prev
        BY <2>3, <2>9, <2>10
      <3>2. s2[Len(f)] = d \o lits /\ \A i \in 1 .. Len(f) : Readable(f, v2, i)
        BY <2>9, <2>10, <2>12
      <3>3. c.prev \in Int
        BY <2>2, <2>3
      <3>4. Parsed(f, v2, s2)
        BY <2>9
      <3> QED
        BY <3>1, <3>2, <3>3, <3>4 DEF ReadsAs
    <2>14. <<x, y>> \in Seq(Items)
      BY <2>5
    <2> QED
      BY <2>4, <2>9, <2>11, <2>13, <2>14
  <1> QED
    BY <1>3, <1>4

\* The recursive definitions say of out what ReadsAs says.
LEMMA WordIs ==
  ASSUME NEW w, NEW r, Parsed(out, w, r), NEW i \in 1 .. Len(out)
  PROVE  WordAt(i) = Signed(w[i])
  <1>1. Len(out) \in Nat /\ w[0] = 0 /\ \A j \in 1 .. Len(out) : w[j] = Undone(out[j], w[j - 1])
    <2>1. out \in Seq(Items)
      BY DEF Parsed
    <2>2. Len(out) \in Nat
      BY <2>1
    <2> QED
      BY <2>2 DEF Parsed
  <1> DEFINE f == [j \in 0 .. i |-> w[j]]
             h[j \in 0 .. i] ==
               IF j = 0 THEN 0
               ELSE IF "cmd" \notin DOMAIN out[j] THEN h[j - 1]
               ELSE IF use_zlib THEN (h[j - 1] + out[j].cmd) % CmdMod ELSE out[j].cmd
  <1>2. f = [j \in 0 .. i |->
               IF j = 0 THEN 0
               ELSE IF "cmd" \notin DOMAIN out[j] THEN f[j - 1]
               ELSE IF use_zlib THEN (f[j - 1] + out[j].cmd) % CmdMod ELSE out[j].cmd]
    BY <1>1 DEF Undone
  <1>3. h = [j \in 0 .. i |->
               IF j = 0 THEN 0
               ELSE IF "cmd" \notin DOMAIN out[j] THEN h[j - 1]
               ELSE IF use_zlib THEN (h[j - 1] + out[j].cmd) % CmdMod ELSE out[j].cmd]
    <2>1. \E g : g = [j \in 0 .. i |->
               IF j = 0 THEN 0
               ELSE IF "cmd" \notin DOMAIN out[j] THEN g[j - 1]
               ELSE IF use_zlib THEN (g[j - 1] + out[j].cmd) % CmdMod ELSE out[j].cmd]
      <3> HIDE DEF f
      <3> QED
        BY <1>2
    <2> QED
      BY <2>1
  <1>4. WordAt(i) = Signed(h[i])
    BY DEF WordAt, Signed
  <1> HIDE DEF h
  <1> DEFINE T == {j \in 0 .. i : h[j] = w[j]}
  <1>5. 0 \in T
    BY <1>1, <1>3
  <1>6. ASSUME NEW j \in 1 .. i, j - 1 \in T PROVE j \in T
    <2>1. w[j] = Undone(out[j], h[j - 1])
      BY <1>1, <1>6
    <2>2. h[j] = Undone(out[j], h[j - 1])
      BY <1>3 DEF Undone
    <2> QED
      BY <2>1, <2>2
  <1>7. i \in T
    <2> HIDE DEF T
    <2>1. i \in Nat /\ i \in 0 .. i
      OBVIOUS
    <2> QED
      BY <1>5, <1>6, <2>1, UpTo
  <1> QED
    BY <1>4, <1>7

LEMMA DecodeIs ==
  ASSUME NEW prev, NEW d, ReadsAs(out, prev, d)
  PROVE  Decode = d /\ CommandsReadable
  <1>1. PICK w, r : Parsed(out, w, r) /\ (\A i \in 1 .. Len(out) : Readable(out, w, i)) /\ r[Len(out)] = d
    BY DEF ReadsAs
  <1>2. /\ Len(out) \in Nat /\ DOMAIN out = 1 .. Len(out)
        /\ r \in [0 .. Len(out) -> Seq(Bytes0)] /\ r[0] = << >>
        /\ \A j \in 1 .. Len(out) : r[j] = r[j - 1] \o Means(out[j], w[j])
    BY <1>1, LenProperties DEF Parsed
  <1>3. \A j \in 1 .. Len(out) : WordAt(j) = Signed(w[j]) /\ Restored(j) = Means(out[j], w[j])
    BY <1>1, WordIs DEF Restored, Means
  <1>4. CommandsReadable
    BY <1>1, <1>2, <1>3 DEF CommandsReadable, Readable
  <1> DEFINE n == Len(out)
             m(i) == IF i = 0 THEN << >> ELSE r[i - 1] \o Restored(i)
  <1>5. r = [i \in 0 .. n |-> IF i = 0 THEN << >> ELSE r[i - 1] \o Restored(i)]
    <2>1. ASSUME NEW i \in 0 .. n PROVE r[i] = m(i)
      <3>1. CASE i = 0
        BY <1>2, <3>1
      <3>2. CASE i # 0
        <4>1. i \in 1 .. Len(out)
          BY <1>2, <3>2
        <4> QED
          BY <1>2, <1>3, <3>2, <4>1
      <3> QED
        BY <3>1, <3>2
    <2>2. r = [i \in 0 .. n |-> r[i]]
      BY <1>2
    <2> HIDE DEF n
    <2> QED
      BY <2>1, <2>2
  <1> DEFINE h[i \in 0 .. n] == IF i = 0 THEN << >> ELSE h[i - 1] \o Restored(i)
  <1>6. h = [i \in 0 .. n |-> IF i = 0 THEN << >> ELSE h[i - 1] \o Restored(i)]
    <2>1. \E g : g = [i \in 0 .. n |-> IF i = 0 THEN << >> ELSE g[i - 1] \o Restored(i)]
      BY <1>5
    <2> QED
      BY <2>1
  <1>7. Decode = h[n]
    BY DEF Decode
  <1> HIDE DEF h
  <1> DEFINE T == {i \in 0 .. n : h[i] = r[i]}
  <1>8. 0 \in T
    BY <1>2, <1>6
  <1>9. ASSUME NEW i \in 1 .. n, i - 1 \in T PROVE i \in T
    <2>1. i \in 0 .. n /\ i # 0 /\ h[i - 1] = r[i - 1]
      BY <1>2, <1>9
    <2>2. h[i] = h[i - 1] \o Restored(i)
      BY <1>6, <2>1
    <2>3. r[i] = r[i - 1] \o Restored(i)
      BY <1>2, <1>3
    <2> QED
      BY <2>1, <2>2, <2>3
  <1>10. n \in T
    <2>1. n \in Nat /\ n \in 0 .. n
      BY <1>2
    <2> HIDE DEF T, n
    <2> QED
      BY <1>8, <1>9, <2>1, UpTo
  <1> QED
    BY <1>1, <1>4, <1>7, <1>10

-----------------------------------------------------------------------------
(* The inductive invariant.                                                *)

DeltaTypes ==
  /\ source \in Seq(Alphabet) /\ Len(source) <= MaxSource /\ target \in Seq(Alphabet)
  /\ blocksize \in Nat \ {0} /\ (target # << >> => blocksize \in BlockSizes)
  /\ use_zlib \in BOOLEAN /\ finished \in BOOLEAN
  /\ bytespassed \in 0 .. Len(target) /\ dcurbytes \in 0 .. blocksize
  /\ dcurbytes <= bytespassed /\ tail \in 0 .. blocksize
  /\ dprevcmd \in Int /\ dbuf \in Seq(Bytes0) /\ Len(dbuf) <= DELTA_BUFFER_SIZE

\* The hashes of the bytes from the one behind number s
HashesFrom(s) == [i \in s .. Len(target) |-> Seg(target, s, i)]

\* The last match, or the beginning of the file, was behind byte s: chash is
\* the hash of all bytes since, and dhashes has those of the steps before.
Since(s) ==
  /\ dcurbytes = IF bytespassed - s < blocksize THEN bytespassed - s ELSE blocksize
  /\ chash = Seg(target, s, bytespassed)
  /\ Remembers(dhashes, blocksize, HashesFrom(s), bytespassed, s)

Windows ==
  /\ Ring(dbuffer, blocksize, Bytes0)
  /\ Remembers(dbuffer, blocksize, target, bytespassed, 0)
  /\ Ring(dhashes, blocksize, Int \cup {Uninit})
  /\ ~finished => \E s \in 0 .. bytespassed : Since(s)

\* Up to here the delta restores the target for sure
Sure == Len(target) - (IF tail < blocksize THEN tail ELSE 0)

\* What has been written restores d
Wrote(d) ==
  /\ ReadsAs(out, dprevcmd, d)
  /\ IF finished
     THEN /\ dbuf = << >> /\ dcurbytes = 0 /\ bytespassed = Len(target)
          /\ Len(d) = Len(target) /\ SubSeq(d, 1, Sure) = SubSeq(target, 1, Sure)
     ELSE d \o dbuf = SubSeq(target, 1, bytespassed - dcurbytes)

DeltaInv ==
  /\ DeltaTypes
  /\ Windows
  /\ \E d \in Seq(Bytes0) : Wrote(d)
  /\ NothingMissed

-----------------------------------------------------------------------------
(* Steps.                                                                  *)

\* The last k bytes of the window are the last k bytes of the file
LEMMA WindowIs ==
  ASSUME NEW b \in Nat \ {0}, NEW r, Ring(r, b, Bytes0), NEW f \in Seq(Alphabet),
         NEW n \in 0 .. Len(f), Remembers(r, b, f, n, 0), NEW k \in 0 .. b, k <= n
  PROVE  /\ SubSeq(serialize(r), b - k + 1, b) = SubSeq(f, n - k + 1, n)
         /\ k = b => serialize(r) = SubSeq(f, n - k + 1, n)
         /\ SubSeq(f, n - k + 1, n) \in Seq(Alphabet)
  <1> DEFINE z == serialize(r)
             u == SubSeq(z, b - k + 1, b)
             v == SubSeq(f, n - k + 1, n)
  <1>1. z \in Seq(Bytes0) /\ Len(z) = b
    BY SerializeIs
  <1>2. \A j \in 1 .. b : n - b + j > 0 => z[j] = f[n - b + j]
    BY DEF Remembers
  <1> HIDE DEF z
  <1>3. Len(f) \in Nat /\ \A i \in 1 .. Len(f) : f[i] \in Alphabet /\ f[i] \in Bytes0
    BY DEF Bytes0
  <1>4. u \in Seq(Bytes0) /\ Len(u) = k /\ \A j \in 1 .. k : u[j] = z[b - k + j]
    <2>1. \A i \in b - k + 1 .. b : z[i] \in Bytes0
      BY <1>1, ElementOfSeq
    <2>2. b - k + 1 \in Int /\ b \in Int
      OBVIOUS
    <2>3. /\ u \in Seq(Bytes0) /\ Len(u) = IF b - k + 1 <= b THEN b - (b - k + 1) + 1 ELSE 0
          /\ \A j \in 1 .. b - (b - k + 1) + 1 : u[j] = z[(b - k + 1) + j - 1]
      BY <2>1, <2>2, SubSeqProperties
    <2> HIDE DEF u
    <2> QED
      BY <2>3
  <1>5. /\ v \in Seq(Alphabet) /\ v \in Seq(Bytes0)
        /\ Len(v) = k /\ \A j \in 1 .. k : v[j] = f[n - k + j]
    <2>1. \A i \in n - k + 1 .. n : f[i] \in Alphabet /\ f[i] \in Bytes0
      BY <1>3
    <2>2. n - k + 1 \in Int /\ n \in Int
      OBVIOUS
    <2>3. /\ Len(v) = IF n - k + 1 <= n THEN n - (n - k + 1) + 1 ELSE 0
          /\ \A j \in 1 .. n - (n - k + 1) + 1 : v[j] = f[(n - k + 1) + j - 1]
          /\ v \in Seq(Alphabet)
      BY <2>1, <2>2, SubSeqProperties
    <2>4. v \in Seq(Bytes0)
      BY <2>1, <2>2, SubSeqProperties
    <2> HIDE DEF v
    <2> QED
      BY <2>3, <2>4
  <1> HIDE DEF u, v
  <1>6. u = v
    <2>1. ASSUME NEW j \in 1 .. k PROVE u[j] = v[j]
      <3>1. b - k + j \in 1 .. b /\ n - b + (b - k + j) > 0 /\ n - b + (b - k + j) = n - k + j
        OBVIOUS
      <3> QED
        BY <1>2, <1>4, <1>5, <3>1
    <2> QED
      BY <1>4, <1>5, <2>1, SeqEqual
  <1>7. k = b => u = z
    <2> SUFFICES ASSUME k = b PROVE u = z
      OBVIOUS
    <2>1. \A j \in 1 .. k : u[j] = z[j]
      BY <1>4
    <2> QED
      BY <1>1, <1>4, <2>1, SeqEqual
  <1> QED
    BY <1>5, <1>6, <1>7 DEF u, v, z

\* A window more, byte by byte and hash by hash
LEMMA PushByte ==
  ASSUME DeltaTypes, Windows, bytespassed < Len(target)
  PROVE  LET x   == target[bytespassed + 1]
             buf == push(dbuffer, x)
         IN /\ x \in Alphabet
            /\ Ring(buf, blocksize, Bytes0)
            /\ Remembers(buf, blocksize, target, bytespassed + 1, 0)
            /\ dcurbytes = blocksize => oldest(dbuffer) = target[bytespassed - blocksize + 1]
  <1> DEFINE x == target[bytespassed + 1]
             n == bytespassed
  <1>1. target \in Seq(Alphabet) /\ n \in Nat /\ n + 1 \in 1 .. Len(target) /\ blocksize \in Nat \ {0}
        /\ dcurbytes <= n
    BY DEF DeltaTypes
  <1>2. x \in Alphabet /\ x \in Bytes0
    BY <1>1, ElementOfSeq DEF Bytes0
  <1>3. Ring(dbuffer, blocksize, Bytes0) /\ Remembers(dbuffer, blocksize, target, n, 0)
    BY DEF Windows
  <1> HIDE DEF x, n
  <1>4. Ring(push(dbuffer, x), blocksize, Bytes0)
    BY <1>1, <1>2, <1>3, RingPush
  <1>5. Remembers(push(dbuffer, x), blocksize, target, n + 1, 0)
    <2>1. target[n + 1] = x /\ 0 \in 0 .. n
      BY <1>1 DEF x, n
    <2> QED
      BY <1>1, <1>2, <1>3, <2>1, RemembersMore
  <1>6. dcurbytes = blocksize => oldest(dbuffer) = target[n - blocksize + 1]
    <2>1. oldest(dbuffer) = serialize(dbuffer)[1]
      BY <1>1, <1>2, <1>3, RingPush
    <2>2. dcurbytes = blocksize => n - blocksize + 1 > 0 /\ 1 \in 1 .. blocksize
      BY <1>1
    <2> QED
      BY <1>3, <2>1, <2>2 DEF Remembers
  <1> QED
    BY <1>2, <1>4, <1>5, <1>6 DEF x, n

\* The hash of the bytes since the last match and the next one
nexthash == Extend(chash, target[bytespassed + 1])

LEMMA PushHash ==
  ASSUME DeltaTypes, Windows, bytespassed < Len(target),
         NEW s \in 0 .. bytespassed, Since(s)
  PROVE  /\ nexthash = Seg(target, s, bytespassed + 1)
         /\ Ring(push(dhashes, nexthash), blocksize, Int \cup {Uninit})
         /\ Remembers(push(dhashes, nexthash), blocksize, HashesFrom(s), bytespassed + 1, s)
         /\ dcurbytes = blocksize - 1
              => nexthash = Seg(target, bytespassed + 1 - blocksize, bytespassed + 1)
         /\ dcurbytes = blocksize
              => (nexthash - oldest(dhashes) * dhashmul) % HashMod
                   = Seg(target, bytespassed + 1 - blocksize, bytespassed + 1)
  <1> DEFINE h == nexthash
             p == bytespassed
             b == blocksize
  <1>1. /\ target \in Seq(Alphabet) /\ p \in Nat /\ p + 1 <= Len(target) /\ b \in Nat \ {0}
        /\ Len(target) \in Nat /\ s \in 0 .. Len(target) /\ p \in s .. Len(target)
        /\ p < Len(target) /\ p + 1 \in s .. Len(target) /\ s \in 0 .. p
    BY DEF DeltaTypes
  <1>2. target \in Seq(Nat)
    BY <1>1, SeqMonotonic, DeltaAssumption
  <1>3. chash = Seg(target, s, p) /\ Remembers(dhashes, b, HashesFrom(s), p, s)
        /\ dcurbytes = IF p - s < b THEN p - s ELSE b
    BY DEF Since
  <1>4. Ring(dhashes, b, Int \cup {Uninit})
    BY DEF Windows
  <1>5. h = Seg(target, s, p + 1) /\ h \in Residues
    BY <1>1, <1>2, <1>3, Segments DEF nexthash
  <1>6. h \in Int \cup {Uninit} /\ HashesFrom(s)[p + 1] = h
    BY <1>1, <1>5 DEF Residues, HashesFrom
  <1> HIDE DEF h, p, b
  <1>7. Ring(push(dhashes, h), b, Int \cup {Uninit}) /\ oldest(dhashes) = serialize(dhashes)[1]
    BY <1>1, <1>4, <1>6, RingPush
  <1>8. Remembers(push(dhashes, h), b, HashesFrom(s), p + 1, s)
    BY <1>1, <1>3, <1>4, <1>6, RemembersMore
  <1>9. dcurbytes = b - 1 => h = Seg(target, p + 1 - b, p + 1)
    <2>1. dcurbytes = b - 1 => s = p + 1 - b
      BY <1>1, <1>3
    <2> QED
      BY <1>5, <2>1
  <1>10. ASSUME dcurbytes = b
         PROVE  (h - oldest(dhashes) * dhashmul) % HashMod = Seg(target, p + 1 - b, p + 1)
    <2> DEFINE i == p + 1 - b
    <2>1. p - b + 1 > s /\ i = p - b + 1 /\ i \in s .. Len(target) /\ i + b = p + 1
          /\ i + b <= Len(target) /\ 1 \in 1 .. b
      BY <1>1, <1>3, <1>10
    <2>2. oldest(dhashes) = Seg(target, s, i)
      BY <1>3, <1>7, <2>1 DEF Remembers, HashesFrom
    <2> HIDE DEF i
    <2>3. Seg(target, i, i + blocksize)
            = (Seg(target, s, i + blocksize) - Seg(target, s, i) * dhashmul) % HashMod
      BY <1>1, <1>2, <2>1, Rolling DEF b
    <2> QED
      BY <1>5, <2>1, <2>2, <2>3 DEF b, i
  <1>11. dcurbytes = b
           => (h - oldest(dhashes) * dhashmul) % HashMod = Seg(target, p + 1 - b, p + 1)
    BY <1>10
  <1>12. /\ h = Seg(target, s, p + 1) /\ Ring(push(dhashes, h), b, Int \cup {Uninit})
         /\ Remembers(push(dhashes, h), b, HashesFrom(s), p + 1, s)
    BY <1>5, <1>7, <1>8
  <1> QED
    BY <1>9, <1>11, <1>12 DEF h, p, b

LEMMA GeometryHolds ==
  ASSUME DeltaTypes, target # << >>
  PROVE  Geometry /\ DELTA_BUFFER_SIZE + blocksize <= CmdMod \div 2
         /\ CmdMod \div 2 \in Nat
  <1>1. blocksize \in BlockSizes /\ blocksize \in Nat \ {0}
    BY DEF DeltaTypes
  <1>2. MaxSource \in Nat /\ Len(source) \in 0 .. MaxSource
    BY DeltaAssumption DEF DeltaTypes
  <1>3. Len(source) \div blocksize <= MaxSource \div blocksize /\ MaxSource \div blocksize \in Nat
        /\ Len(source) \div blocksize \in Nat
    BY <1>1, <1>2, Division
  <1>4. MaxSource \div blocksize <= CmdMod \div 2 /\ DELTA_BUFFER_SIZE + blocksize <= CmdMod \div 2
    BY <1>1, CommandsFit
  <1>5. CmdMod \div 2 \in Nat
    BY DeltaAssumption
  <1> QED
    BY <1>1, <1>3, <1>4, <1>5 DEF Geometry, DeltaTypes

\* The BLAKE3 hash settles equality: the matches are the blocks that the window
\* is equal to, if the other hash is the one of the window.
LEMMA MatchesAre ==
  ASSUME Geometry, NEW hsh, NEW buf, hsh = PolyHash(serialize(buf))
  PROVE  Matches(hsh, buf)
           = {m \in 1 .. Len(source) \div blocksize : Block(source, blocksize, m) = serialize(buf)}
  <1> DEFINE w == serialize(buf)
             B(m) == Block(source, blocksize, m)
  <1>1. ASSUME NEW m \in 1 .. Len(source) \div blocksize
        PROVE  SignatureOf(source, blocksize)[m] = [hash |-> hsh, blake3 |-> w] <=> B(m) = w
    <2>1. SignatureOf(source, blocksize)[m] = [hash |-> PolyHash(B(m)), blake3 |-> B(m)]
      BY DEF SignatureOf
    <2> HIDE DEF w, B
    <2>2. ASSUME [hash |-> PolyHash(B(m)), blake3 |-> B(m)] = [hash |-> hsh, blake3 |-> w]
          PROVE  B(m) = w
      <3>1. [hash |-> PolyHash(B(m)), blake3 |-> B(m)].blake3 = [hash |-> hsh, blake3 |-> w].blake3
        BY <2>2
      <3> QED
        BY <3>1
    <2>3. ASSUME B(m) = w
          PROVE  [hash |-> PolyHash(B(m)), blake3 |-> B(m)] = [hash |-> hsh, blake3 |-> w]
      BY <2>3 DEF w
    <2> QED
      BY <2>1, <2>2, <2>3
  <1> QED
    BY <1>1 DEF Matches

\* Reading depends on what the step of a byte leaves alone
LEMMA ReadsAsStays ==
  ASSUME NEW d, ReadsAs(out', dprevcmd', d), UNCHANGED inputs
  PROVE  ReadsAs(out, dprevcmd, d)'
  <1>1. PICK w, r : /\ Parsed(out', w, r) /\ \A i \in 1 .. Len(out') : Readable(out', w, i)
                    /\ r[Len(out')] = d /\ (use_zlib => w[Len(out')] = dprevcmd')
    BY DEF ReadsAs
  <1>2. source' = source /\ blocksize' = blocksize /\ use_zlib' = use_zlib
    BY DEF inputs
  <1>3. Parsed(out, w, r)'
    BY <1>1, <1>2 DEF Parsed, Undone, Means, Signed
  <1>4. (\A i \in 1 .. Len(out) : Readable(out, w, i))'
    BY <1>1, <1>2 DEF Readable, Signed
  <1> QED
    BY <1>1, <1>2, <1>3, <1>4 DEF ReadsAs

\* The window when the next byte has been pushed, and what is in it
pushed == push(dbuffer, target[bytespassed + 1])
edge   == bytespassed + 1 - blocksize
latest == SubSeq(target, edge + 1, bytespassed + 1)

LEMMA FullWindow ==
  ASSUME DeltaTypes, Windows, bytespassed < Len(target), blocksize <= bytespassed + 1
  PROVE  /\ serialize(pushed) = latest
         /\ SubSeq(serialize(pushed), blocksize - blocksize + 1, blocksize) = latest
         /\ PolyHash(serialize(pushed)) = Seg(target, edge, bytespassed + 1)
         /\ latest \in Seq(Alphabet) /\ edge \in Nat
  <1> DEFINE n == bytespassed + 1
             b == blocksize
  <1>1. /\ target \in Seq(Alphabet) /\ n \in 0 .. Len(target) /\ b \in Nat \ {0} /\ b \in 0 .. b
        /\ b <= n /\ edge = n - b /\ edge \in Nat
    BY DEF DeltaTypes, edge
  <1>2. Ring(pushed, b, Bytes0) /\ Remembers(pushed, b, target, n, 0)
    BY PushByte DEF pushed
  <1>3. latest = SubSeq(target, n - b + 1, n)
    BY <1>1 DEF latest
  <1> HIDE DEF n, b
  <1>4. serialize(pushed) = latest /\ SubSeq(serialize(pushed), b - b + 1, b) = latest
        /\ latest \in Seq(Alphabet)
    BY <1>1, <1>2, <1>3, WindowIs
  <1>5. PolyHash(serialize(pushed)) = Seg(target, edge, n)
    BY <1>4 DEF Seg, latest, n
  <1> QED
    BY <1>1, <1>4, <1>5 DEF n, b

LEMMA ItemsAssociative ==
  ASSUME NEW o, NEW i, NEW j, o \in Seq(Items), i \in Seq(Items), j \in Seq(Items)
  PROVE  (o \o i) \o j = o \o (i \o j)
  BY ConcatAssociative

LEMMA FindKeeps ==
  ASSUME DeltaTypes, Windows, ~finished, bytespassed < Len(target),
         blocksize <= bytespassed + 1,
         UNCHANGED <<inputs, tail, finished>>, bytespassed' = bytespassed + 1, dbuffer' = pushed,
         NEW hsh, hsh = Seg(target, edge, bytespassed + 1), NEW h,
         NEW flushed, flushed.prev \in Int, out \o flushed.items \in Seq(Items),
         NEW lits \in Seq(Bytes0), Len(lits) <= DELTA_BUFFER_SIZE, NEW d \in Seq(Bytes0),
         ReadsAs(out \o flushed.items, flushed.prev, d),
         d \o lits = SubSeq(target, 1, edge),
         Find(hsh, pushed, h, blocksize, flushed, lits)
  PROVE  /\ (\E c \in Seq(Bytes0) : Wrote(c))'
         /\ NothingMissed'
         /\ dbuf' \in Seq(Bytes0) /\ Len(dbuf') <= DELTA_BUFFER_SIZE /\ dprevcmd' \in Int
         /\ \/ dcurbytes' = blocksize /\ chash' = h
            \/ dcurbytes' = 0 /\ chash' = 0
  <1> DEFINE n == bytespassed + 1
             b == blocksize
             o == out \o flushed.items
             Sent(m) == FlushAndSend(flushed.prev, lits, m - 1)
  <1>1. /\ target # << >> /\ target \in Seq(Alphabet) /\ n \in 1 .. Len(target)
        /\ b \in Nat \ {0} /\ n - b = edge
    BY DEF DeltaTypes, edge
  <1>2. Geometry /\ Len(lits) <= CmdMod \div 2
    <2>1. Len(lits) \in Nat /\ DELTA_BUFFER_SIZE \in Nat /\ b \in Nat
      BY <1>1, DeltaAssumption
    <2> QED
      BY <1>1, <2>1, GeometryHolds
  <1>3. /\ serialize(pushed) = latest /\ SubSeq(serialize(pushed), b - b + 1, b) = latest
        /\ hsh = PolyHash(serialize(pushed)) /\ latest \in Seq(Alphabet) /\ edge \in Nat
    BY FullWindow
  <1>4. Matches(hsh, pushed) = {m \in 1 .. Len(source) \div b : Block(source, b, m) = latest}
    <2>1. Matches(hsh, pushed)
            = {m \in 1 .. Len(source) \div blocksize : Block(source, blocksize, m) = serialize(pushed)}
      BY <1>2, <1>3, MatchesAre
    <2> QED
      BY <1>3, <2>1
  <1>5. /\ source' = source /\ target' = target /\ blocksize' = b /\ finished' = FALSE
        /\ bytespassed' = n /\ dbuffer' = pushed
    BY DEF inputs
  <1>6. o \in Seq(Items) /\ ReadsAs(o, flushed.prev, d) /\ d \o lits = SubSeq(target, 1, edge)
    OBVIOUS
  <1>7. \/ /\ Matches(hsh, pushed) = {}
           /\ dcurbytes' = b /\ chash' = h /\ dbuf' = lits
           /\ dprevcmd' = flushed.prev /\ out' = o
        \/ \E m \in Matches(hsh, pushed) :
             /\ dcurbytes' = 0 /\ chash' = 0 /\ dbuf' = << >>
             /\ dprevcmd' = Sent(m).prev /\ out' = o \o Sent(m).items
    BY DEF Find
  <1> HIDE DEF n, o
  <1>8. CASE /\ Matches(hsh, pushed) = {}
             /\ dcurbytes' = b /\ chash' = h /\ dbuf' = lits
             /\ dprevcmd' = flushed.prev /\ out' = o
    <2>1. ReadsAs(out', dprevcmd', d)
      BY <1>6, <1>8
    <2>2. ReadsAs(out, dprevcmd, d)'
      BY <2>1, ReadsAsStays
    <2>3. Wrote(d)'
      BY <1>1, <1>5, <1>6, <1>8, <2>2 DEF Wrote
    <2>4. NothingMissed'
      <3>1. Pending' = latest
        BY <1>3, <1>5, <1>8 DEF Pending
      <3>2. \A m \in 1 .. Len(source) \div b : latest # Block(source, b, m)
        BY <1>4, <1>8
      <3> QED
        BY <1>5, <3>1, <3>2 DEF NothingMissed
    <2> QED
      BY <1>8, <2>3, <2>4
  <1>9. ASSUME NEW m \in Matches(hsh, pushed),
               dcurbytes' = 0, dbuf' = << >>,
               dprevcmd' = Sent(m).prev, out' = o \o Sent(m).items
        PROVE  (\E c \in Seq(Bytes0) : Wrote(c))' /\ NothingMissed' /\ dprevcmd' \in Int
    <2> DEFINE f == Flush(flushed.prev, lits)
               c == Command(f.prev, m - 1)
               e == (d \o lits) \o latest
    <2>1. m \in 1 .. Len(source) \div b /\ Block(source, b, m) = latest
      BY <1>4, <1>9
    <2>2. /\ ReadsAs(o \o f.items, f.prev, d \o lits) /\ f.prev \in Int
          /\ o \o f.items \in Seq(Items) /\ f.items \in Seq(Items)
      BY <1>2, <1>6, FlushReads
    <2>3. Sent(m).prev = c.prev /\ Sent(m).items = f.items \o c.items
      BY DEF FlushAndSend
    <2> HIDE DEF f
    <2>4. /\ ReadsAs((o \o f.items) \o c.items, c.prev, (d \o lits) \o Block(source, blocksize, m))
          /\ c.prev \in Int /\ c.items \in Seq(Items)
      <3> DEFINE g == o \o f.items
                 z == d \o lits
      <3>1. ReadsAs(g, f.prev, z) /\ f.prev \in Int
        BY <2>2
      <3> HIDE DEF g, z
      <3>2. /\ ReadsAs(g \o c.items, c.prev, z \o Block(source, blocksize, m))
            /\ c.prev \in Int /\ c.items \in Seq(Items)
        BY <1>2, <2>1, <3>1, CommandReads
      <3> QED
        BY <3>2 DEF g, z
    <2> HIDE DEF c
    <2>5. out' = (o \o f.items) \o c.items /\ dprevcmd' = c.prev
      <3>1. out' = o \o (f.items \o c.items) /\ dprevcmd' = c.prev
        BY <1>9, <2>3
      <3> DEFINE i == f.items
                 j == c.items
      <3>2. i \in Seq(Items) /\ j \in Seq(Items) /\ out' = o \o (i \o j)
        BY <2>2, <2>4, <3>1
      <3> HIDE DEF i, j
      <3>3. out' = (o \o i) \o j
        <4>1. o \in Seq(Items) /\ i \in Seq(Items) /\ j \in Seq(Items)
          BY <1>6, <3>2
        <4>2. (o \o i) \o j = o \o (i \o j)
          BY ONLY <4>1, ItemsAssociative, SMTT(60)
        <4> QED
          BY <3>2, <4>2
      <3> QED
        BY <3>1, <3>3 DEF i, j
    <2>6. e = SubSeq(target, 1, n) /\ e \in Seq(Bytes0) /\ e \o << >> = e
      <3>1. e = SubSeq(target, 1, n)
        <4>1. 1 \in 1 .. Len(target) + 1 /\ edge \in 1 - 1 .. Len(target) /\ n \in edge .. Len(target)
          BY <1>1, <1>3
        <4>2. SubSeq(target, 1, edge) \o SubSeq(target, edge + 1, n) = SubSeq(target, 1, n)
          BY <1>1, <4>1, ConcatAdjacentSubSeq
        <4> QED
          BY <1>6, <4>2 DEF latest, n
      <3>2. e \in Seq(Bytes0)
        <4>1. latest \in Seq(Bytes0)
          BY <1>3, SeqMonotonic DEF Bytes0
        <4> QED
          BY <4>1, ConcatProperties
      <3> HIDE DEF e
      <3> QED
        BY <3>1, <3>2, ConcatEmptySeq
    <2>7. ReadsAs(out', dprevcmd', e)
      BY <2>1, <2>4, <2>5
    <2> HIDE DEF e
    <2>8. PICK z \in Seq(Bytes0) : z = e
      BY <2>6
    <2>9. Wrote(z)'
      <3>1. ReadsAs(out, dprevcmd, z)'
        BY <2>7, <2>8, ReadsAsStays
      <3>2. n - 0 = n
        BY <1>1
      <3>3. z \o << >> = SubSeq(target, 1, n)
        BY <2>6, <2>8
      <3> QED
        BY <1>5, <1>9, <3>1, <3>2, <3>3 DEF Wrote
    <2>10. NothingMissed'
      BY <1>1, <1>5, <1>9 DEF NothingMissed
    <2> QED
      BY <2>4, <2>5, <2>9, <2>10
  <1>10. << >> \in Seq(Bytes0) /\ Len(<< >>) <= DELTA_BUFFER_SIZE
    BY DeltaAssumption
  <1>11. CASE \E m \in Matches(hsh, pushed) :
                /\ dcurbytes' = 0 /\ chash' = 0 /\ dbuf' = << >>
                /\ dprevcmd' = Sent(m).prev /\ out' = o \o Sent(m).items
    BY <1>9, <1>10, <1>11
  <1> QED
    BY <1>7, <1>8, <1>11

\* Both windows move on by a byte; the bytes since the last match are counted
\* on, or there is a match.
LEMMA WindowsMove ==
  ASSUME DeltaTypes, Windows, ~finished, bytespassed < Len(target),
         UNCHANGED <<inputs, tail, finished>>, bytespassed' = bytespassed + 1,
         dbuffer' = pushed, dhashes' = push(dhashes, nexthash),
         \/ /\ dcurbytes' = IF dcurbytes < blocksize THEN dcurbytes + 1 ELSE blocksize
            /\ chash' = nexthash
         \/ dcurbytes' = 0 /\ chash' = 0
  PROVE  Windows'
  <1> DEFINE n == bytespassed + 1
             b == blocksize
  <1>1. /\ target' = target /\ blocksize' = b /\ bytespassed' = n /\ finished' = FALSE
        /\ target \in Seq(Alphabet) /\ n \in 1 .. Len(target) /\ bytespassed \in Nat
        /\ b \in Nat \ {0} /\ dcurbytes \in 0 .. b /\ Len(target) \in Nat
    BY DEF DeltaTypes, inputs
  <1>2. PICK s \in 0 .. bytespassed : Since(s)
    BY DEF Windows
  <1>3. /\ nexthash = Seg(target, s, n)
        /\ Ring(push(dhashes, nexthash), b, Int \cup {Uninit})
        /\ Remembers(push(dhashes, nexthash), b, HashesFrom(s), n, s)
    BY <1>2, PushHash
  <1>4. Ring(pushed, b, Bytes0) /\ Remembers(pushed, b, target, n, 0)
    BY PushByte DEF pushed
  <1>5. /\ (Ring(dbuffer, blocksize, Bytes0))' /\ (Remembers(dbuffer, blocksize, target, bytespassed, 0))'
        /\ (Ring(dhashes, blocksize, Int \cup {Uninit}))'
    <2>1. Ring(dbuffer', blocksize', Bytes0) /\ Remembers(dbuffer', blocksize', target', bytespassed', 0)
          /\ Ring(dhashes', blocksize', Int \cup {Uninit})
      BY <1>1, <1>3, <1>4
    <2> QED
      BY <2>1
  <1>6. HashesFrom(s)' = HashesFrom(s)
    BY <1>1 DEF HashesFrom
  <1> HIDE DEF n, b
  <1>7. CASE /\ dcurbytes' = IF dcurbytes < blocksize THEN dcurbytes + 1 ELSE blocksize
             /\ chash' = nexthash
    <2>1. dcurbytes' = IF n - s < b THEN n - s ELSE b
      <3>1. dcurbytes = IF bytespassed - s < b THEN bytespassed - s ELSE b
        BY <1>2 DEF Since, b
      <3> QED
        BY <1>1, <1>7, <3>1 DEF n, b
    <2>2. (Remembers(dhashes, blocksize, HashesFrom(s), bytespassed, s))'
      <3>1. Remembers(dhashes', blocksize', HashesFrom(s)', bytespassed', s)
        BY <1>1, <1>3, <1>6
      <3> QED
        BY <3>1
    <2>3. Since(s)'
      BY <1>1, <1>3, <1>7, <2>1, <2>2 DEF Since
    <2>4. s \in 0 .. bytespassed'
      BY <1>1 DEF n
    <2> QED
      BY <1>5, <2>3, <2>4 DEF Windows
  <1>8. CASE dcurbytes' = 0 /\ chash' = 0
    <2>1. PICK z \in 1 .. Len(target) : z = n
      BY <1>1
    <2>2. Since(z)'
      <3>1. z - z = 0 /\ b > 0
        BY <1>1
      <3>2. Seg(target, z, z) = 0
        <4>1. target \in Seq(Nat)
          BY <1>1, SeqMonotonic, DeltaAssumption
        <4>2. z \in 0 .. Len(target) /\ z \in z .. Len(target)
          BY <1>1
        <4> QED
          BY <4>1, <4>2, Segments
      <3>3. (Remembers(dhashes, blocksize, HashesFrom(z), bytespassed, z))'
        <4>1. \A j \in 1 .. b : ~(z - b + j > z)
          BY <1>1
        <4> QED
          BY <1>1, <2>1, <4>1 DEF Remembers
      <3> QED
        BY <1>1, <1>8, <2>1, <3>1, <3>2, <3>3 DEF Since
    <2>3. z \in 0 .. bytespassed'
      BY <1>1, <2>1
    <2> QED
      BY <1>5, <2>2, <2>3 DEF Windows
  <1> QED
    BY <1>7, <1>8

LEMMA BytesAssociative ==
  ASSUME NEW o, NEW i, NEW j, o \in Seq(Bytes0), i \in Seq(Bytes0), j \in Seq(Bytes0)
  PROVE  (o \o i) \o j = o \o (i \o j)
  BY ConcatAssociative

\* A byte that leaves the window goes to the literals, which may be flushed first.
LEMMA OldestSaved ==
  ASSUME DeltaTypes, Windows, bytespassed < Len(target), dcurbytes = blocksize,
         NEW d \in Seq(Bytes0), ReadsAs(out, dprevcmd, d),
         d \o dbuf = SubSeq(target, 1, bytespassed - dcurbytes)
  PROVE  /\ PushFlush(dprevcmd, dbuf).prev \in Int
         /\ out \o PushFlush(dprevcmd, dbuf).items \in Seq(Items)
         /\ PushBuf(dbuf, oldest(dbuffer)) \in Seq(Bytes0)
         /\ Len(PushBuf(dbuf, oldest(dbuffer))) <= DELTA_BUFFER_SIZE
         /\ \E c \in Seq(Bytes0) :
              /\ ReadsAs(out \o PushFlush(dprevcmd, dbuf).items, PushFlush(dprevcmd, dbuf).prev, c)
              /\ c \o PushBuf(dbuf, oldest(dbuffer)) = SubSeq(target, 1, edge)
  <1> DEFINE x == oldest(dbuffer)
             D == DELTA_BUFFER_SIZE
             v == IF Len(dbuf) = D THEN dbuf ELSE << >>
             f == Flush(dprevcmd, v)
             l == PushBuf(dbuf, x)
             p == bytespassed - dcurbytes
  <1>1. /\ target \in Seq(Alphabet) /\ bytespassed + 1 \in 1 .. Len(target) /\ p \in Nat
        /\ p + 1 \in 1 .. Len(target) /\ edge = p + 1 /\ bytespassed - blocksize + 1 = p + 1
        /\ dprevcmd \in Int /\ dbuf \in Seq(Bytes0) /\ Len(dbuf) <= D /\ D \in Nat \ {0}
    BY DeltaAssumption DEF DeltaTypes, edge
  <1>2. Geometry /\ D <= CmdMod \div 2
    <2>1. target # << >> /\ blocksize \in Nat
      BY <1>1 DEF DeltaTypes
    <2> QED
      BY <1>1, <2>1, GeometryHolds
  <1>3. x = target[p + 1] /\ x \in Alphabet /\ x \in Bytes0
    <2>1. x = target[bytespassed - blocksize + 1]
      BY PushByte
    <2> QED
      BY <1>1, <2>1, ElementOfSeq DEF Bytes0
  <1>4. v \in Seq(Bytes0) /\ Len(v) <= CmdMod \div 2
    <2>1. << >> \in Seq(Bytes0) /\ Len(<< >>) = 0
      BY EmptySeq
    <2> QED
      BY <1>1, <1>2, <2>1, DeltaAssumption
  <1>5. PushFlush(dprevcmd, dbuf) = f
    BY DEF PushFlush
  <1> HIDE DEF v, x, p
  <1>6. /\ ReadsAs(out \o f.items, f.prev, d \o v) /\ f.prev \in Int
        /\ out \o f.items \in Seq(Items)
    BY <1>1, <1>2, <1>4, FlushReads
  <1>7. d \o v \in Seq(Bytes0) /\ <<x>> \in Seq(Bytes0) /\ Len(<<x>>) = 1
    BY <1>3, <1>4, ConcatProperties
  <1>8. l \in Seq(Bytes0) /\ Len(l) <= D /\ v \o l = dbuf \o <<x>>
    <2>1. CASE Len(dbuf) = D
      BY <1>1, <1>7, <2>1 DEF PushBuf, v
    <2>2. CASE Len(dbuf) # D
      <3>1. l = Append(dbuf, x) /\ v = << >>
        BY <2>2 DEF PushBuf, v
      <3>2. /\ l \in Seq(Bytes0) /\ Len(l) = Len(dbuf) + 1
        BY <1>1, <1>3, <3>1, AppendProperties
      <3>3. l = dbuf \o <<x>>
        BY <1>1, <1>3, <3>1, AppendIsConcat
      <3>4. Len(dbuf) \in Nat
        BY <1>1
      <3>5. << >> \o l = l
        BY <3>2, ConcatEmptySeq
      <3> QED
        BY <1>1, <2>2, <3>1, <3>2, <3>3, <3>4, <3>5
    <2> QED
      BY <2>1, <2>2
  <1> HIDE DEF l
  <1>9. (d \o v) \o l = SubSeq(target, 1, edge)
    <2>0. d \in Seq(Bytes0) /\ v \in Seq(Bytes0) /\ l \in Seq(Bytes0) /\ dbuf \in Seq(Bytes0)
          /\ <<x>> \in Seq(Bytes0)
      BY <1>1, <1>4, <1>7, <1>8
    <2>1. (d \o v) \o l = d \o (v \o l)
      BY ONLY <2>0, BytesAssociative
    <2>2. d \o (dbuf \o <<x>>) = (d \o dbuf) \o <<x>>
      BY ONLY <2>0, BytesAssociative
    <2>3. SubSeq(target, 1, p + 1) = SubSeq(target, 1, p) \o <<target[p + 1]>>
      <3>1. 1 \in 1 .. Len(target) /\ p + 1 \in 1 .. Len(target) /\ (p + 1) - 1 = p
        BY <1>1
      <3> QED
        BY <1>1, <3>1, SubSeqRecursiveSecond
    <2>4. d \o dbuf = SubSeq(target, 1, p)
      BY DEF p
    <2> QED
      BY <1>1, <1>3, <1>8, <2>1, <2>2, <2>3, <2>4
  <1> QED
    BY <1>5, <1>6, <1>7, <1>8, <1>9 DEF l, x

LEMMA ByteKeeps ==
  ASSUME DeltaInv, ProcessByte
  PROVE  DeltaInv'
  <1> DEFINE b == blocksize
             n == bytespassed + 1
  <1>1. DeltaTypes /\ Windows /\ NothingMissed
    BY DEF DeltaInv
  <1>2. PICK d \in Seq(Bytes0) : Wrote(d)
    BY DEF DeltaInv
  <1>3. /\ bytespassed < Len(target) /\ bytespassed' = n /\ UNCHANGED <<inputs, tail, finished>>
        /\ dbuffer' = pushed /\ dhashes' = push(dhashes, nexthash)
        /\ \/ /\ dcurbytes < b - 1
              /\ dcurbytes' = dcurbytes + 1 /\ chash' = nexthash /\ UNCHANGED output
           \/ /\ dcurbytes = b - 1
              /\ Find(nexthash, pushed, nexthash, b, Nothing, dbuf)
           \/ /\ dcurbytes = b
              /\ Find((nexthash - oldest(dhashes) * dhashmul) % HashMod, pushed, nexthash, b,
                      PushFlush(dprevcmd, dbuf), PushBuf(dbuf, oldest(dbuffer)))
    BY DEF ProcessByte, Step, pushed, nexthash
  <1>4. /\ bytespassed \in Nat /\ Len(target) \in Nat /\ b \in Nat \ {0} /\ dcurbytes \in 0 .. b
        /\ dcurbytes <= bytespassed
    BY <1>1 DEF DeltaTypes
  <1>5. ~finished
    BY <1>2, <1>3, <1>4 DEF Wrote
  <1>6. /\ d \o dbuf = SubSeq(target, 1, bytespassed - dcurbytes) /\ ReadsAs(out, dprevcmd, d)
        /\ out \in Seq(Items)
    BY <1>2, <1>5 DEF Wrote, ReadsAs, Parsed
  <1>7. /\ dbuf \in Seq(Bytes0) /\ Len(dbuf) <= DELTA_BUFFER_SIZE /\ dprevcmd \in Int
    BY <1>1 DEF DeltaTypes
  <1>8. ASSUME dcurbytes' \in 0 .. b, dcurbytes' <= n,
               dbuf' \in Seq(Bytes0), Len(dbuf') <= DELTA_BUFFER_SIZE, dprevcmd' \in Int
        PROVE  DeltaTypes'
    <2>1. n \in 0 .. Len(target)
      BY <1>3, <1>4
    <2> QED
      BY <1>1, <1>3, <1>8, <2>1 DEF DeltaTypes, inputs
  <1>9. CASE /\ dcurbytes < b - 1
             /\ dcurbytes' = dcurbytes + 1 /\ chash' = nexthash /\ UNCHANGED output
    <2>1. dbuf' = dbuf /\ dprevcmd' = dprevcmd /\ out' = out
      BY <1>9 DEF output
    <2>2. DeltaTypes'
      BY <1>4, <1>7, <1>8, <1>9, <2>1
    <2>3. Windows'
      BY <1>1, <1>3, <1>4, <1>5, <1>9, WindowsMove
    <2>4. Wrote(d)'
      <3>1. ReadsAs(out', dprevcmd', d) /\ UNCHANGED inputs
        BY <1>3, <1>6, <2>1
      <3>2. ReadsAs(out, dprevcmd, d)'
        BY <3>1, ReadsAsStays
      <3>3. n - (dcurbytes + 1) = bytespassed - dcurbytes
        BY <1>4
      <3> QED
        BY <1>3, <1>5, <1>6, <1>9, <2>1, <3>2, <3>3 DEF Wrote, inputs
    <2>5. NothingMissed'
      <3>1. dcurbytes' # blocksize'
        BY <1>3, <1>4, <1>9 DEF inputs
      <3> QED
        BY <3>1 DEF NothingMissed
    <2> QED
      BY <2>2, <2>3, <2>4, <2>5 DEF DeltaInv
  <1>10. ASSUME NEW hsh, hsh = Seg(target, edge, n), NEW h, h = nexthash,
                NEW flushed, flushed.prev \in Int, out \o flushed.items \in Seq(Items),
                NEW lits \in Seq(Bytes0), Len(lits) <= DELTA_BUFFER_SIZE, NEW c \in Seq(Bytes0),
                ReadsAs(out \o flushed.items, flushed.prev, c),
                c \o lits = SubSeq(target, 1, edge), b - 1 <= dcurbytes,
                Find(hsh, pushed, h, blocksize, flushed, lits)
         PROVE  DeltaInv'
    <2>1. blocksize <= bytespassed + 1 /\ UNCHANGED <<inputs, tail, finished>>
          /\ bytespassed' = bytespassed + 1 /\ dbuffer' = pushed
      BY <1>3, <1>4, <1>10
    <2>2. /\ (\E e \in Seq(Bytes0) : Wrote(e))' /\ NothingMissed'
          /\ dbuf' \in Seq(Bytes0) /\ Len(dbuf') <= DELTA_BUFFER_SIZE /\ dprevcmd' \in Int
          /\ \/ dcurbytes' = blocksize /\ chash' = h
             \/ dcurbytes' = 0 /\ chash' = 0
      BY <1>1, <1>3, <1>5, <1>10, <2>1, FindKeeps
    <2>3. dcurbytes' \in 0 .. b /\ dcurbytes' <= n
      BY <1>4, <2>1, <2>2
    <2>4. DeltaTypes'
      BY <1>8, <2>2, <2>3
    <2>5. Windows'
      <3>1. b = IF dcurbytes < b THEN dcurbytes + 1 ELSE b
        BY <1>4, <1>10
      <3>2. \/ /\ dcurbytes' = IF dcurbytes < blocksize THEN dcurbytes + 1 ELSE blocksize
               /\ chash' = nexthash
            \/ dcurbytes' = 0 /\ chash' = 0
        BY <1>10, <2>2, <3>1
      <3> QED
        BY <1>1, <1>3, <1>5, <3>2, WindowsMove
    <2> QED
      BY <2>2, <2>4, <2>5 DEF DeltaInv
  <1>11. PICK s \in 0 .. bytespassed : Since(s)
    BY <1>1, <1>5 DEF Windows
  <1>12. /\ dcurbytes = b - 1 => nexthash = Seg(target, edge, n)
         /\ dcurbytes = b
              => (nexthash - oldest(dhashes) * dhashmul) % HashMod = Seg(target, edge, n)
    BY <1>1, <1>3, <1>11, PushHash DEF edge
  <1>13. CASE /\ dcurbytes = b - 1
              /\ Find(nexthash, pushed, nexthash, b, Nothing, dbuf)
    <2>1. PICK h, flushed, lits : h = nexthash /\ flushed = Nothing /\ lits = dbuf
      OBVIOUS
    <2>2. flushed.prev = dprevcmd /\ out \o flushed.items = out
      BY <1>6, <2>1, ConcatEmptySeq DEF Nothing
    <2>3. d \o lits = SubSeq(target, 1, edge)
      <3>1. bytespassed - dcurbytes = edge
        BY <1>4, <1>13 DEF edge
      <3> QED
        BY <1>6, <2>1, <3>1
    <2>4. Find(h, pushed, h, blocksize, flushed, lits)
      BY <1>13, <2>1 DEF Find
    <2>5. h = Seg(target, edge, n) /\ b - 1 <= dcurbytes
      BY <1>4, <1>12, <1>13, <2>1
    <2>6. /\ flushed.prev \in Int /\ out \o flushed.items \in Seq(Items)
          /\ lits \in Seq(Bytes0) /\ Len(lits) <= DELTA_BUFFER_SIZE
          /\ ReadsAs(out \o flushed.items, flushed.prev, d)
      BY <1>6, <1>7, <2>1, <2>2
    <2> QED
      BY <1>10, <2>1, <2>3, <2>4, <2>5, <2>6
  <1>14. CASE /\ dcurbytes = b
              /\ Find((nexthash - oldest(dhashes) * dhashmul) % HashMod, pushed, nexthash, b,
                      PushFlush(dprevcmd, dbuf), PushBuf(dbuf, oldest(dbuffer)))
    <2>1. PICK hsh, h, flushed, lits :
            /\ hsh = (nexthash - oldest(dhashes) * dhashmul) % HashMod /\ h = nexthash
            /\ flushed = PushFlush(dprevcmd, dbuf) /\ lits = PushBuf(dbuf, oldest(dbuffer))
      OBVIOUS
    <2>2. /\ PushFlush(dprevcmd, dbuf).prev \in Int
          /\ out \o PushFlush(dprevcmd, dbuf).items \in Seq(Items)
          /\ PushBuf(dbuf, oldest(dbuffer)) \in Seq(Bytes0)
          /\ Len(PushBuf(dbuf, oldest(dbuffer))) <= DELTA_BUFFER_SIZE
          /\ \E c \in Seq(Bytes0) :
               /\ ReadsAs(out \o PushFlush(dprevcmd, dbuf).items, PushFlush(dprevcmd, dbuf).prev, c)
               /\ c \o PushBuf(dbuf, oldest(dbuffer)) = SubSeq(target, 1, edge)
      BY <1>1, <1>3, <1>6, <1>14, OldestSaved
    <2>3. PICK c \in Seq(Bytes0) : /\ ReadsAs(out \o flushed.items, flushed.prev, c)
                                   /\ c \o lits = SubSeq(target, 1, edge)
      BY <2>1, <2>2
    <2>4. Find(hsh, pushed, h, blocksize, flushed, lits)
      BY <1>14, <2>1 DEF Find
    <2>5. hsh = Seg(target, edge, n) /\ b - 1 <= dcurbytes
      BY <1>4, <1>12, <1>14, <2>1
    <2>6. /\ flushed.prev \in Int /\ out \o flushed.items \in Seq(Items)
          /\ lits \in Seq(Bytes0) /\ Len(lits) <= DELTA_BUFFER_SIZE
      BY <2>1, <2>2
    <2> QED
      BY <1>10, <2>1, <2>3, <2>4, <2>5, <2>6
  <1> QED
    BY <1>3, <1>9, <1>13, <1>14

\* The beginning of a concatenation
LEMMA Beginning ==
  ASSUME NEW S, NEW u, NEW v, u \in Seq(S), v \in Seq(S)
  PROVE  SubSeq(u \o v, 1, Len(u)) = u
  <1>1. CASE u = << >>
    BY <1>1, EmptySeq
  <1>2. CASE u # << >>
    <2>1. 1 \in 1 .. Len(u) /\ Len(u) \in 1 .. Len(u)
      BY <1>2, EmptySeq
    <2> QED
      BY <2>1, SubSeqOfConcat1, SubSeqFull
  <1> QED
    BY <1>1, <1>2

\* What the end of the file leaves alone
LEMMA NothingChanges ==
  ASSUME DeltaInv, UNCHANGED vars
  PROVE  DeltaInv'
  <1>1. /\ UNCHANGED <<source, target, blocksize, use_zlib, dbuffer, dhashes, dcurbytes, chash>>
        /\ UNCHANGED <<dprevcmd, dbuf, out, bytespassed, tail, finished>> /\ UNCHANGED inputs
    BY DEF vars, inputs, window, output
  <1>2. DeltaTypes'
    BY <1>1 DEF DeltaInv, DeltaTypes
  <1>3. Windows'
    BY <1>1 DEF DeltaInv, Windows, Since, HashesFrom, Remembers
  <1>4. PICK d \in Seq(Bytes0) : Wrote(d)
    BY DEF DeltaInv
  <1>5. Wrote(d)'
    <2>1. ReadsAs(out', dprevcmd', d)
      BY <1>1, <1>4 DEF Wrote
    <2>2. ReadsAs(out, dprevcmd, d)'
      BY <1>1, <2>1, ReadsAsStays
    <2> QED
      BY <1>1, <1>4, <2>2 DEF Wrote, Sure
  <1>6. NothingMissed'
    BY <1>1 DEF DeltaInv, NothingMissed, Pending
  <1> QED
    BY <1>2, <1>3, <1>5, <1>6 DEF DeltaInv

\* The end of the file sends the literals with the whole window behind them,
\* which is right when the window is.
LEMMA EndKeeps ==
  ASSUME DeltaInv, ProcessEnd, target # << >>
  PROVE  DeltaInv'
  <1> DEFINE rest == SubSeq(serialize(dbuffer), 1, dcurbytes)
             lits == dbuf \o rest
             f == Flush(dprevcmd, lits)
             p == bytespassed - dcurbytes
  <1>1. DeltaTypes /\ Windows
    BY DEF DeltaInv
  <1>2. PICK d \in Seq(Bytes0) : Wrote(d)
    BY DEF DeltaInv
  <1>3. /\ bytespassed = Len(target) /\ bytespassed' = bytespassed
        /\ dprevcmd' = f.prev /\ out' = out \o f.items
        /\ dbuf' = << >> /\ dcurbytes' = 0 /\ finished' = TRUE
        /\ tail' = IF finished THEN tail ELSE dcurbytes
        /\ UNCHANGED <<inputs, dbuffer, dhashes, chash>>
    BY DEF ProcessEnd
  <1>4. /\ dbuf \in Seq(Bytes0) /\ Len(dbuf) <= DELTA_BUFFER_SIZE /\ dprevcmd \in Int
        /\ blocksize \in Nat \ {0} /\ dcurbytes \in 0 .. blocksize /\ dcurbytes <= bytespassed
        /\ bytespassed \in Nat /\ target \in Seq(Alphabet) /\ tail \in 0 .. blocksize
        /\ finished \in BOOLEAN /\ Len(target) \in Nat
    BY <1>1 DEF DeltaTypes
  <1>5. Ring(dbuffer, blocksize, Bytes0) /\ Remembers(dbuffer, blocksize, target, bytespassed, 0)
    BY <1>1 DEF Windows
  <1>6. /\ rest \in Seq(Bytes0) /\ Len(rest) = dcurbytes
        /\ dcurbytes = blocksize => rest = serialize(dbuffer)
    <2> DEFINE z == serialize(dbuffer)
    <2>1. z \in Seq(Bytes0) /\ Len(z) = blocksize
      BY <1>4, <1>5, SerializeIs
    <2> HIDE DEF z
    <2>2. \A i \in 1 .. dcurbytes : z[i] \in Bytes0
      BY <1>4, <2>1, ElementOfSeq
    <2>3. /\ SubSeq(z, 1, dcurbytes) \in Seq(Bytes0)
          /\ Len(SubSeq(z, 1, dcurbytes)) = IF 1 <= dcurbytes THEN dcurbytes - 1 + 1 ELSE 0
      BY <1>4, <2>2, SubSeqProperties
    <2>4. SubSeq(z, 1, Len(z)) = z
      BY <2>1
    <2> QED
      BY <1>4, <2>1, <2>3, <2>4 DEF z
  <1> HIDE DEF rest
  <1>7. CASE finished
    <2>1. dbuf = << >> /\ dcurbytes = 0
      BY <1>2, <1>7 DEF Wrote
    <2>2. rest = << >>
      BY <1>6, <2>1, EmptySeq
    <2>3. lits = << >>
      BY <2>1, <2>2
    <2>4. f.prev = dprevcmd /\ f.items = << >>
      BY <2>3 DEF Flush
    <2>5. out' = out
      <3>1. out \in Seq(Items)
        BY <1>2 DEF Wrote, ReadsAs, Parsed
      <3> QED
        BY <1>3, <2>4, <3>1, ConcatEmptySeq
    <2>6. UNCHANGED vars
      BY <1>3, <1>7, <2>1, <2>4, <2>5 DEF vars, window, output
    <2> QED
      BY <2>6, NothingChanges
  <1>8. CASE ~finished
    <2>1. lits \in Seq(Bytes0) /\ Len(lits) <= CmdMod \div 2
      <3>1. lits \in Seq(Bytes0) /\ Len(lits) = Len(dbuf) + dcurbytes
        BY <1>4, <1>6, ConcatProperties
      <3>2. Len(dbuf) \in Nat /\ DELTA_BUFFER_SIZE + blocksize <= CmdMod \div 2
            /\ DELTA_BUFFER_SIZE \in Nat /\ CmdMod \div 2 \in Nat
        BY <1>1, <1>4, GeometryHolds, DeltaAssumption
      <3> HIDE DEF lits
      <3> QED
        BY <1>4, <3>1, <3>2
    <2>2. ReadsAs(out, dprevcmd, d) /\ d \o dbuf = SubSeq(target, 1, p)
      BY <1>2, <1>8 DEF Wrote
    <2> DEFINE e == d \o lits
               u == SubSeq(target, 1, p)
    <2>3. ReadsAs(out', dprevcmd', e) /\ dprevcmd' \in Int
      <3>1. Geometry
        BY <1>1, GeometryHolds
      <3> HIDE DEF lits
      <3> QED
        BY <1>3, <1>4, <2>1, <2>2, <3>1, FlushReads
    <2>4. e = u \o rest /\ e \in Seq(Bytes0)
      <3>1. dbuf \in Seq(Bytes0) /\ rest \in Seq(Bytes0) /\ d \in Seq(Bytes0)
        BY <1>4, <1>6
      <3>2. (d \o dbuf) \o rest = d \o (dbuf \o rest)
        BY ONLY <3>1, BytesAssociative
      <3>3. e \in Seq(Bytes0)
        <4> HIDE DEF lits
        <4> QED
          BY <2>1, ConcatProperties
      <3> QED
        BY <2>2, <3>2, <3>3
    <2>5. u \in Seq(Bytes0) /\ Len(u) = p /\ p \in Nat
      <3>1. p \in Nat /\ p <= Len(target)
        BY <1>3, <1>4
      <3> HIDE DEF p
      <3>2. \A i \in 1 .. p : target[i] \in Bytes0
        BY <1>4, <3>1, ElementOfSeq DEF Bytes0
      <3>3. u \in Seq(Bytes0) /\ Len(u) = IF 1 <= p THEN p - 1 + 1 ELSE 0
        BY <3>1, <3>2, SubSeqProperties
      <3> HIDE DEF u
      <3> QED
        BY <3>1, <3>3
    <2> HIDE DEF e, u, lits, p
    <2>6. Len(e) = Len(target) /\ SubSeq(e, 1, p) = u
      <3>1. Len(e) = p + dcurbytes
        BY <1>6, <2>4, <2>5, ConcatProperties
      <3>2. SubSeq(u \o rest, 1, Len(u)) = u
        BY ONLY <1>6, <2>5, Beginning
      <3> QED
        BY <1>3, <1>4, <2>4, <2>5, <3>1, <3>2, SMTT(30) DEF p
    <2>7. dcurbytes = blocksize => e = target
      <3> SUFFICES ASSUME dcurbytes = blocksize PROVE e = target
        OBVIOUS
      <3> DEFINE n == Len(target)
                 b == blocksize
      <3>1. b \in 0 .. b /\ b <= n /\ n \in 0 .. Len(target) /\ p = n - b
        BY <1>3, <1>4 DEF p
      <3>2. rest = SubSeq(target, n - b + 1, n)
        <4>1. serialize(dbuffer) = SubSeq(target, n - b + 1, n)
          <5>1. Remembers(dbuffer, b, target, n, 0)
            BY <1>3, <1>5
          <5> HIDE DEF n, b
          <5>2. Ring(dbuffer, b, Bytes0) /\ b \in Nat \ {0}
            BY <1>4, <1>5 DEF b
          <5> QED
            BY <1>4, <3>1, <5>1, <5>2, WindowIs
        <4> QED
          BY <1>6, <4>1
      <3>3. u \o rest = SubSeq(target, 1, n)
        <4>1. 1 \in 1 .. Len(target) + 1 /\ p \in 1 - 1 .. Len(target) /\ n \in p .. Len(target)
          BY <1>3, <1>4, <2>5, <3>1
        <4>2. SubSeq(target, 1, p) \o SubSeq(target, p + 1, n) = SubSeq(target, 1, n)
          BY <1>4, <4>1, ConcatAdjacentSubSeq
        <4> QED
          BY <3>1, <3>2, <4>2 DEF u
      <3>4. SubSeq(target, 1, n) = target
        BY <1>4
      <3> QED
        BY <2>4, <3>3, <3>4
    <2>8. PICK z \in Seq(Bytes0) : z = e
      BY <2>4
    <2>9. Wrote(z)'
      <3>1. ReadsAs(out, dprevcmd, z)'
        BY <1>3, <2>3, <2>8, ReadsAsStays
      <3>2. target' = target /\ blocksize' = blocksize /\ tail' = dcurbytes
        BY <1>3, <1>8 DEF inputs
      <3>3. SubSeq(z, 1, Sure') = SubSeq(target', 1, Sure')
        <4>1. CASE dcurbytes < blocksize
          <5>1. Sure' = p
            BY <1>3, <1>4, <3>2, <4>1 DEF Sure, p
          <5> QED
            BY <2>6, <2>8, <3>2, <5>1 DEF u
        <4>2. CASE dcurbytes = blocksize
          BY <2>7, <2>8, <3>2, <4>2
        <4>3. dcurbytes < blocksize \/ dcurbytes = blocksize
          BY <1>4
        <4> QED
          BY <4>1, <4>2, <4>3
      <3> QED
        BY <1>3, <2>6, <2>8, <3>1, <3>2, <3>3 DEF Wrote
    <2>10. DeltaTypes'
      <3>1. << >> \in Seq(Bytes0) /\ Len(<< >>) <= DELTA_BUFFER_SIZE
        BY EmptySeq, DeltaAssumption
      <3> QED
        BY <1>1, <1>3, <1>4, <1>8, <2>3, <3>1 DEF DeltaTypes, inputs
    <2>11. Windows'
      <3>1. /\ (Remembers(dbuffer, blocksize, target, bytespassed, 0))'
            /\ (Ring(dbuffer, blocksize, Bytes0))' /\ (Ring(dhashes, blocksize, Int \cup {Uninit}))'
        BY <1>1, <1>3 DEF Windows, inputs, Remembers
      <3> QED
        BY <1>3, <3>1 DEF Windows
    <2>12. NothingMissed'
      BY <1>3 DEF NothingMissed
    <2> QED
      BY <2>9, <2>10, <2>11, <2>12 DEF DeltaInv
  <1> QED
    BY <1>4, <1>7, <1>8

-----------------------------------------------------------------------------
(* What the invariant says of the delta.                                   *)

LEMMA DeltaIsRight ==
  ASSUME DeltaInv
  PROVE  DeltaPrefix /\ NothingMissed /\ CommandsReadable /\ RestoresUpToTail
  <1> DEFINE n == bytespassed
             k == dcurbytes
             b == blocksize
  <1>1. PICK d \in Seq(Bytes0) : Wrote(d)
    BY DEF DeltaInv
  <1>2. Decode = d /\ CommandsReadable
    BY <1>1, DecodeIs DEF Wrote
  <1>3. /\ target \in Seq(Alphabet) /\ n \in 0 .. Len(target) /\ k \in 0 .. b /\ k <= n
        /\ b \in Nat \ {0} /\ Len(target) \in Nat
        /\ Ring(dbuffer, b, Bytes0) /\ Remembers(dbuffer, b, target, n, 0)
    BY DEF DeltaInv, DeltaTypes, Windows
  <1>4. ASSUME ~finished PROVE Decode \o dbuf \o Pending = SubSeq(target, 1, n)
    <2>1. d \o dbuf = SubSeq(target, 1, n - k)
      BY <1>1, <1>4 DEF Wrote
    <2>2. Pending = SubSeq(target, n - k + 1, n)
      <3>1. Pending = SubSeq(serialize(dbuffer), b - k + 1, b)
        BY DEF Pending
      <3> HIDE DEF n, k, b
      <3> QED
        BY <1>3, <3>1, WindowIs
    <2>3. 1 \in 1 .. Len(target) + 1 /\ n - k \in 1 - 1 .. Len(target) /\ n \in n - k .. Len(target)
      BY <1>3
    <2>4. SubSeq(target, 1, n - k) \o SubSeq(target, n - k + 1, n) = SubSeq(target, 1, n)
      BY <1>3, <2>3, ConcatAdjacentSubSeq
    <2> QED
      BY <1>2, <2>1, <2>2, <2>4
  <1>5. RestoresUpToTail
    BY <1>1, <1>2 DEF RestoresUpToTail, Wrote, Sure
  <1> QED
    BY <1>2, <1>4, <1>5 DEF DeltaPrefix, DeltaInv

\* A delta that has not begun
Fresh ==
  /\ dcurbytes = 0 /\ chash = 0 /\ dprevcmd = 0 /\ dbuf = << >> /\ out = << >>
  /\ bytespassed = 0 /\ tail = 0 /\ finished = FALSE

Begun ==
  /\ source \in Seq(Alphabet) /\ Len(source) <= MaxSource /\ target \in Seq(Alphabet)
  /\ blocksize \in Nat \ {0} /\ (target # << >> => blocksize \in BlockSizes)
  /\ use_zlib \in BOOLEAN
  /\ dbuffer = init(blocksize) /\ dhashes = init(blocksize)
  /\ Fresh

LEMMA BegunRight == Begun => DeltaInv
  <1> SUFFICES ASSUME Begun PROVE DeltaInv
    OBVIOUS
  <1> USE DEF Fresh
  <1>1. << >> \in Seq(Bytes0) /\ Len(<< >>) = 0 /\ << >> \in Seq(Items) /\ Len(target) \in Nat
    BY EmptySeq DEF Begun
  <1>2. DeltaTypes
    <2>1. /\ source \in Seq(Alphabet) /\ Len(source) <= MaxSource /\ target \in Seq(Alphabet)
          /\ blocksize \in Nat \ {0} /\ (target # << >> => blocksize \in BlockSizes)
          /\ use_zlib \in BOOLEAN /\ finished \in BOOLEAN
      BY DEF Begun
    <2>2. /\ bytespassed = 0 /\ dcurbytes = 0 /\ tail = 0 /\ dprevcmd = 0 /\ dbuf = << >>
      BY DEF Begun
    <2>3. 0 \in 0 .. Len(target) /\ 0 \in 0 .. blocksize /\ 0 <= DELTA_BUFFER_SIZE /\ 0 \in Int
      BY <1>1, <2>1, DeltaAssumption
    <2> QED
      BY <1>1, <2>1, <2>2, <2>3 DEF DeltaTypes
  <1>3. Windows
    <2>1. Ring(dbuffer, blocksize, Bytes0) /\ Ring(dhashes, blocksize, Int \cup {Uninit})
      BY RingInit DEF Begun, Bytes0
    <2>2. \A j \in 1 .. blocksize : ~(0 - blocksize + j > 0)
      BY DEF Begun
    <2>3. Remembers(dbuffer, blocksize, target, bytespassed, 0)
          /\ Remembers(dhashes, blocksize, HashesFrom(0), bytespassed, 0)
      BY <2>2 DEF Begun, Remembers
    <2>4. Seg(target, 0, 0) = 0
      <3>1. target \in Seq(Nat)
        <4>1. target \in Seq(Alphabet) /\ Alphabet \subseteq Nat
          BY DeltaAssumption DEF Begun
        <4> QED
          BY <4>1, SeqMonotonic
      <3>2. 0 \in 0 .. Len(target)
        BY <1>1
      <3> QED
        BY <3>1, <3>2, Segments
    <2>5. Since(0)
      BY <2>3, <2>4 DEF Begun, Since
    <2>6. 0 \in 0 .. bytespassed
      BY DEF Begun
    <2> QED
      BY <2>1, <2>3, <2>5, <2>6 DEF Windows
  <1>4. ReadsAs(out, dprevcmd, << >>)
    <2> DEFINE w == [i \in 0 .. 0 |-> 0]
               r == [i \in 0 .. 0 |-> << >>]
    <2>1. w \in [0 .. 0 -> Nat] /\ w[0] = 0 /\ r \in [0 .. 0 -> Seq(Bytes0)] /\ r[0] = << >>
      BY <1>1
    <2> HIDE DEF w, r
    <2>2. out = << >> /\ Len(out) = 0 /\ dprevcmd = 0
      BY <1>1 DEF Begun
    <2>3. Parsed(out, w, r)
      BY <1>1, <2>1, <2>2 DEF Parsed
    <2>4. \A i \in 1 .. Len(out) : Readable(out, w, i)
      BY <2>2
    <2> QED
      BY <2>1, <2>2, <2>3, <2>4 DEF ReadsAs
  <1>5. Wrote(<< >>)
    <2>1. << >> \o << >> = << >> /\ SubSeq(target, 1, 0) = << >> /\ 0 - 0 = 0
      OBVIOUS
    <2> QED
      BY <1>4, <2>1 DEF Begun, Wrote
  <1>6. NothingMissed
    BY DEF Begun, NothingMissed
  <1> QED
    BY <1>1, <1>2, <1>3, <1>5, <1>6 DEF DeltaInv

LEMMA FilesAre ==
  ASSUME NEW n, NEW f \in FilesUpTo(n, Alphabet)
  PROVE  f \in Seq(Alphabet)
  <1>1. PICK m \in 0 .. n : f \in [1 .. m -> Alphabet]
    BY DEF FilesUpTo
  <1> QED
    BY <1>1

-----------------------------------------------------------------------------
(* The signature of the first version.                                     *)

\* The operators that Signature uses are those of this module.
LEMMA SameOperators ==
  /\ \A r, x : Sign!push(r, x) = push(r, x)
  /\ \A r : Sign!serialize(r) = serialize(r) /\ (Sign!full(r) <=> r.ptr = 0)
  /\ \A n : Sign!init(n) = init(n)
  /\ \A h, c : Sign!Extend(h, c) = Extend(h, c)
  /\ \A f, b : Sign!SignatureOf(f, b) = SignatureOf(f, b)
  /\ \A n, a : Sign!FilesUpTo(n, a) = FilesUpTo(n, a)
  <1>1. \A w : Sign!PolyHash(w) = PolyHash(w)
    BY DEF Sign!PolyHash, PolyHash, Sign!Extend, Extend
  <1>2. \A f, b, m : Sign!Block(f, b, m) = Block(f, b, m)
    BY DEF Sign!Block, Block
  <1>3. \A f, b : Sign!SignatureOf(f, b) = SignatureOf(f, b)
    BY <1>1, <1>2 DEF Sign!SignatureOf, SignatureOf
  <1> QED
    BY <1>3 DEF Sign!push, push, Sign!serialize, serialize, Sign!full, Sign!init, init,
                Sign!Extend, Extend, Sign!FilesUpTo, FilesUpTo

\* A block of a beginning of a file is the file's
LEMMA PrefixBlock ==
  ASSUME NEW f, f \in Seq(Alphabet), NEW n \in 0 .. Len(f), NEW b \in Nat \ {0}
  PROVE  /\ SubSeq(f, 1, n) \in Seq(Alphabet) /\ Len(SubSeq(f, 1, n)) = n
         /\ \A m \in 1 .. n \div b : Block(SubSeq(f, 1, n), b, m) = Block(f, b, m)
  <1> DEFINE u == SubSeq(f, 1, n)
  <1>1. u \in Seq(Alphabet) /\ Len(u) = n /\ Len(f) \in Nat /\ \A i \in 1 .. n : u[i] = f[i]
    OBVIOUS
  <1> HIDE DEF u
  <1>2. ASSUME NEW m \in 1 .. n \div b PROVE Block(u, b, m) = Block(f, b, m)
    <2> DEFINE i == (m - 1) * b
               j == m * b
               v == SubSeq(u, i + 1, j)
               w == SubSeq(f, i + 1, j)
    <2>1. i \in Nat /\ i + b = j /\ j <= n
      BY Division
    <2> HIDE DEF i, j
    <2>2. \A k \in i + 1 .. j : u[k] = f[k] /\ f[k] \in Alphabet
      BY <1>1, <2>1, ElementOfSeq, SMTT(30)
    <2>3. /\ v \in Seq(Alphabet) /\ Len(v) = (IF i + 1 <= j THEN j - (i + 1) + 1 ELSE 0)
          /\ \A k \in 1 .. j - (i + 1) + 1 : v[k] = u[(i + 1) + k - 1]
      BY <2>1, <2>2, SubSeqProperties
    <2>4. /\ w \in Seq(Alphabet) /\ Len(w) = (IF i + 1 <= j THEN j - (i + 1) + 1 ELSE 0)
          /\ \A k \in 1 .. j - (i + 1) + 1 : w[k] = f[(i + 1) + k - 1]
      BY <2>1, <2>2, SubSeqProperties
    <2> HIDE DEF v, w
    <2>5. \A k \in 1 .. Len(v) : v[k] = w[k]
      BY <2>1, <2>2, <2>3, <2>4
    <2>6. v = w
      BY <2>3, <2>4, <2>5, SeqEqual
    <2> QED
      BY <2>6 DEF Block, v, w, i, j
  <1> QED
    BY <1>1, <1>2 DEF u

\* The signature's entry for a block
Entry(m) == [hash |-> PolyHash(Block(file, bsnt, m)), blake3 |-> Block(file, bsnt, m)]

SignInv ==
  /\ file \in Seq(Alphabet) /\ bsnt \in Nat \ {0} /\ passed \in 0 .. Len(file)
  /\ Ring(sigbuf, bsnt, Bytes0) /\ Remembers(sigbuf, bsnt, file, passed, 0)
  /\ passed = (passed \div bsnt) * bsnt + sigbuf.ptr
  /\ shash = Seg(file, passed - sigbuf.ptr, passed)
  /\ nsstore = [m \in 1 .. passed \div bsnt |-> Entry(m)]
  /\ capacity = Len(file) \div bsnt

LEMMA SignInvIs ==
  ASSUME SignInv
  PROVE  Sign!SignaturePrefix
  <1>1. /\ file \in Seq(Alphabet) /\ bsnt \in Nat \ {0} /\ passed \in 0 .. Len(file)
        /\ nsstore = [m \in 1 .. passed \div bsnt |-> Entry(m)]
        /\ capacity = Len(file) \div bsnt /\ Len(file) \in Nat
    BY DEF SignInv
  <1>2. Len(nsstore) = passed \div bsnt /\ passed \div bsnt <= Len(file) \div bsnt
    <2>1. passed \div bsnt \in Nat /\ passed \div bsnt <= Len(file) \div bsnt
      BY <1>1, Division
    <2> QED
      BY <1>1, <2>1
  <1>3. nsstore = SignatureOf(SubSeq(file, 1, passed), bsnt)
    <2>1. /\ Len(SubSeq(file, 1, passed)) = passed
          /\ \A m \in 1 .. passed \div bsnt :
               Block(SubSeq(file, 1, passed), bsnt, m) = Block(file, bsnt, m)
      BY <1>1, PrefixBlock
    <2> QED
      BY <1>1, <2>1 DEF SignatureOf, Entry
  <1> QED
    BY <1>1, <1>2, <1>3, SameOperators DEF Sign!SignaturePrefix

LEMMA SignInit ==
  ASSUME Sign!Init
  PROVE  SignInv
  <1>1. /\ file \in FilesUpTo(MaxFile, Alphabet) /\ bsnt \in SignatureBlocks /\ passed = 0
        /\ sigbuf = init(bsnt) /\ shash = 0 /\ nsstore = << >> /\ capacity = Len(file) \div bsnt
    BY SameOperators DEF Sign!Init
  <1>2. file \in Seq(Alphabet) /\ bsnt \in Nat \ {0} /\ Len(file) \in Nat
    BY <1>1, FilesAre, PairAssumption
  <1>3. Ring(sigbuf, bsnt, Bytes0) /\ sigbuf.ptr = 0
    BY <1>1, <1>2, RingInit DEF Bytes0, init
  <1>4. Remembers(sigbuf, bsnt, file, passed, 0)
    <2>1. \A j \in 1 .. bsnt : ~(0 - bsnt + j > 0)
      BY <1>2
    <2> QED
      BY <1>1, <2>1 DEF Remembers
  <1>5. passed \div bsnt = 0
    <2>1. 0 \in 0 .. bsnt - 1 /\ 0 = 0 + 0 * bsnt
      BY <1>2
    <2> QED
      BY <1>1, <1>2, <2>1, Modulo
  <1>6. Seg(file, 0, 0) = 0
    <2>1. file \in Seq(Nat)
      BY <1>2, SeqMonotonic, DeltaAssumption
    <2>2. 0 \in 0 .. Len(file)
      BY <1>2
    <2> QED
      BY <2>1, <2>2, Segments
  <1>7. nsstore = [m \in 1 .. 0 |-> Entry(m)]
    BY <1>1
  <1>8. 0 = 0 * bsnt + 0 /\ 0 - 0 = 0 /\ 0 \in 0 .. Len(file)
    BY <1>2
  <1> QED
    BY <1>1, <1>2, <1>3, <1>4, <1>5, <1>6, <1>7, <1>8 DEF SignInv

\* The signature grows by an entry when a block is full, and only then.
LEMMA SignKeeps ==
  ASSUME SignInv, Sign!SignByte
  PROVE  SignInv'
  <1> DEFINE b == bsnt
             n == passed + 1
             q == passed \div bsnt
             p == sigbuf.ptr
             ch == file[n]
             buf == push(sigbuf, ch)
             h == Extend(shash, ch)
  <1>1. /\ file \in Seq(Alphabet) /\ b \in Nat \ {0} /\ passed \in 0 .. Len(file) /\ Len(file) \in Nat
        /\ Ring(sigbuf, b, Bytes0) /\ Remembers(sigbuf, b, file, passed, 0)
        /\ passed = q * b + p /\ shash = Seg(file, passed - p, passed)
        /\ nsstore = [m \in 1 .. q |-> Entry(m)] /\ capacity = Len(file) \div b
    BY DEF SignInv
  <1>2. /\ passed < Len(file) /\ sigbuf' = buf /\ passed' = n
        /\ file' = file /\ bsnt' = b /\ capacity' = capacity
        /\ IF buf.ptr = 0
           THEN /\ nsstore' = Append(nsstore, [hash |-> h, blake3 |-> serialize(buf)])
                /\ shash' = 0
           ELSE shash' = h /\ nsstore' = nsstore
    BY SameOperators DEF Sign!SignByte
  <1>3. p \in 0 .. b - 1 /\ q \in Nat /\ n \in 1 .. Len(file) /\ n \in 0 .. Len(file)
    <2>1. p \in 0 .. b - 1
      BY <1>1 DEF Ring
    <2>2. q \in Nat
      BY <1>1, Division
    <2> QED
      BY <1>1, <1>2, <2>1, <2>2
  <1>4. ch \in Alphabet /\ ch \in Bytes0 /\ file \in Seq(Nat)
    <2>1. file \in Seq(Nat)
      BY <1>1, SeqMonotonic, DeltaAssumption
    <2> QED
      BY <1>1, <1>3, <2>1, ElementOfSeq DEF Bytes0
  <1> HIDE DEF b, q, p
  <1>5. Ring(buf, b, Bytes0) /\ buf.ptr = IF p + 1 = b THEN 0 ELSE p + 1
    BY <1>1, <1>4, RingPush DEF p
  <1>6. Remembers(buf, b, file, n, 0)
    <2>1. passed \in Nat /\ 0 \in 0 .. passed
      BY <1>1
    <2> HIDE DEF n
    <2>2. file[passed + 1] = ch
      BY DEF n
    <2> QED
      BY <1>1, <1>4, <2>1, <2>2, RemembersMore DEF n
  <1>7. h = Seg(file, passed - p, n)
    <2> DEFINE i == passed - p
    <2>1. i \in 0 .. Len(file) /\ passed \in i .. Len(file) /\ passed < Len(file)
      <3>1. q * b \in Nat
        BY <1>1, <1>3
      <3> DEFINE qb == q * b
      <3>2. passed = qb + p /\ qb \in Nat
        BY <1>1, <3>1
      <3> HIDE DEF qb
      <3> QED
        BY <1>1, <1>2, <1>3, <3>2
    <2> HIDE DEF i
    <2>2. Seg(file, i, passed + 1) = Extend(Seg(file, i, passed), file[passed + 1])
      BY <1>4, <2>1, Segments
    <2> QED
      BY <1>1, <2>2 DEF i
  <1>8. (Ring(sigbuf, bsnt, Bytes0) /\ Remembers(sigbuf, bsnt, file, passed, 0))'
    <2>1. Ring(sigbuf', bsnt', Bytes0) /\ Remembers(sigbuf', bsnt', file', passed', 0)
      BY <1>2, <1>5, <1>6
    <2> QED
      BY <2>1
  <1>9. \A m : Entry(m)' = Entry(m)
    BY <1>2 DEF Entry, b
  <1> HIDE DEF n, ch, buf, h
  <1>10. CASE p + 1 # b
    <2>1. buf.ptr = p + 1 /\ buf.ptr # 0 /\ p + 1 \in 0 .. b - 1
      BY <1>1, <1>3, <1>5, <1>10
    <2>2. n = q * b + (p + 1) /\ n - (p + 1) = passed - p
      <3>1. q * b \in Nat
        BY <1>1, <1>3
      <3> QED
        BY <1>1, <1>3, <3>1 DEF n
    <2>3. n \div b = q
      <3>1. n = (p + 1) + q * b
        <4>1. q * b \in Nat
          BY <1>1, <1>3
        <4> QED
          BY <1>3, <2>2, <4>1
      <3>2. n \in Int /\ q \in Int /\ b \in Nat \ {0} /\ p + 1 \in 0 .. b - 1
        BY <1>1, <1>3, <2>1
      <3> QED
        BY ONLY <3>1, <3>2, Modulo
    <2>4. nsstore' = nsstore /\ shash' = h /\ sigbuf'.ptr = p + 1
      BY <1>2, <2>1
    <2>5. passed' \div bsnt' = q /\ passed' = q * b + (p + 1)
      BY <1>2, <2>2, <2>3
    <2>6. shash' = Seg(file', passed' - sigbuf'.ptr, passed')
      BY <1>2, <1>7, <2>2, <2>4
    <2>7. nsstore' = [m \in 1 .. q |-> Entry(m)']
      BY <1>1, <1>9, <2>4
    <2> QED
      BY <1>1, <1>2, <1>3, <1>8, <2>4, <2>5, <2>6, <2>7 DEF SignInv, b
  <1>11. CASE p + 1 = b
    <2>1. buf.ptr = 0
      BY <1>5, <1>11
    <2>2. n = (q + 1) * b /\ passed - p = q * b /\ n - b = q * b
      <3>1. q * b \in Nat /\ (q + 1) * b = q * b + b
        BY <1>1, <1>3
      <3> QED
        BY <1>1, <1>3, <1>11, <3>1 DEF n
    <2>3. n \div b = q + 1
      <3>1. n = 0 + (q + 1) * b /\ 0 \in 0 .. b - 1 /\ q + 1 \in Int
        <4>1. (q + 1) * b \in Nat
          BY <1>1, <1>3
        <4> QED
          BY <1>1, <1>3, <2>2, <4>1
      <3> QED
        BY <1>1, <1>3, <3>1, Modulo
    <2>4. Block(file, b, q + 1) = SubSeq(file, q * b + 1, n)
      <3>1. (q + 1) - 1 = q
        BY <1>3
      <3> QED
        BY <2>2, <3>1 DEF Block
    <2>5. h = PolyHash(Block(file, b, q + 1))
      BY <1>7, <2>2, <2>4 DEF Seg
    <2>6. serialize(buf) = Block(file, b, q + 1)
      <3>1. b \in 0 .. b /\ b <= n
        BY <1>1, <1>3, <1>11 DEF n
      <3>2. serialize(buf) = SubSeq(file, n - b + 1, n)
        BY <1>1, <1>3, <1>5, <1>6, <3>1, WindowIs
      <3> QED
        BY <2>2, <2>4, <3>2
    <2>7. /\ nsstore' = Append(nsstore, Entry(q + 1)) /\ shash' = 0 /\ sigbuf'.ptr = 0
      BY <1>2, <2>1, <2>5, <2>6 DEF Entry, b
    <2>8. nsstore' = [m \in 1 .. q + 1 |-> Entry(m)]
      <3> DEFINE S == {Entry(m) : m \in 1 .. q + 1}
                 s == [m \in 1 .. q |-> Entry(m)]
                 t == [m \in 1 .. q + 1 |-> Entry(m)]
                 a == Append(s, Entry(q + 1))
      <3>1. s \in Seq(S) /\ Len(s) = q /\ t \in Seq(S) /\ Len(t) = q + 1
        BY <1>3
      <3>2. /\ \A m \in 1 .. q : s[m] = Entry(m)
            /\ \A m \in 1 .. q + 1 : t[m] = Entry(m)
            /\ Entry(q + 1) \in S
        BY <1>3
      <3> HIDE DEF s, t, S
      <3>3. a \in Seq(S) /\ Len(a) = q + 1 /\ a[q + 1] = Entry(q + 1)
            /\ \A m \in 1 .. q : a[m] = s[m]
        BY <3>1, <3>2, AppendProperties
      <3> HIDE DEF a
      <3>4. ASSUME NEW m \in 1 .. Len(a) PROVE a[m] = t[m]
        <4>1. m \in 1 .. q \/ m = q + 1
          BY <1>3, <3>3
        <4>2. q + 1 \in 1 .. q + 1
          BY <1>3
        <4> QED
          BY <3>2, <3>3, <4>1, <4>2
      <3>5. a = t
        BY <3>1, <3>3, <3>4, SeqEqual
      <3> QED
        BY <1>1, <2>7, <3>5 DEF a, s, t
    <2>9. shash' = Seg(file', passed' - sigbuf'.ptr, passed')
      <3>1. Seg(file, n, n) = 0
        <4>1. n \in n .. Len(file)
          BY <1>3
        <4> QED
          BY <1>3, <1>4, <4>1, Segments
      <3>2. n - 0 = n
        BY <1>3
      <3> QED
        BY <1>2, <2>7, <3>1, <3>2
    <2>10. passed' \div bsnt' = q + 1 /\ passed' = (q + 1) * b + 0
      <3>1. (q + 1) * b \in Nat
        BY <1>1, <1>3
      <3> QED
        BY <1>2, <2>2, <2>3, <3>1
    <2>11. nsstore' = [m \in 1 .. q + 1 |-> Entry(m)']
      BY <1>9, <2>8
    <2> QED
      BY <1>1, <1>2, <1>3, <1>8, <2>7, <2>9, <2>10, <2>11 DEF SignInv, b
  <1> QED
    BY <1>10, <1>11

-----------------------------------------------------------------------------
(* Block sizes.                                                            *)

\* There is a rounded root
LEMMA RoundedRootIs ==
  ASSUME NEW x \in Nat \ {0}
  PROVE  /\ RoundedRoot(x) \in 1 .. x
         /\ RoundedRoot(x) * (RoundedRoot(x) - 1) < x
         /\ x <= RoundedRoot(x) * (RoundedRoot(x) + 1)
  <1> DEFINE T == {i \in 0 .. x : i * (i + 1) < x}
             R(r) == r * (r - 1) < x /\ x <= r * (r + 1)
  <1>1. x \notin T /\ 0 \in T
    <2>1. x * (x + 1) >= x /\ 0 * (0 + 1) = 0 /\ 0 \in 0 .. x
      OBVIOUS
    <2> QED
      BY <2>1
  <1>2. \E i \in 1 .. x : i - 1 \in T /\ i \notin T
    <2>1. x \in 0 .. x /\ x \in Nat
      OBVIOUS
    <2> HIDE DEF T
    <2> QED
      BY <1>1, <2>1, UpTo
  <1>3. PICK i \in 1 .. x : i - 1 \in T /\ i \notin T
    BY <1>2
  <1>4. i \in 0 .. x /\ R(i)
    <2>1. (i - 1) * ((i - 1) + 1) < x /\ i \in 0 .. x
      BY <1>3
    <2>2. (i - 1) * ((i - 1) + 1) = i * (i - 1) /\ ~(i * (i + 1) < x)
      BY <1>3
    <2>3. i * (i + 1) \in Nat
      OBVIOUS
    <2> QED
      BY <2>1, <2>2, <2>3
  <1>5. RoundedRoot(x) \in 0 .. x /\ R(RoundedRoot(x))
    <2>1. RoundedRoot(x) = CHOOSE r \in 0 .. x : R(r)
      BY DEF RoundedRoot
    <2> HIDE DEF R
    <2> QED
      BY <1>4, <2>1
  <1>6. RoundedRoot(x) # 0
    BY <1>5
  <1> QED
    BY <1>5, <1>6

\* From a file of the threshold's size on, the blocks are neither so short
\* that the signature outgrows the file, nor longer than the file.
LEMMA Threshold == THRESHOLD_DELTA = 581
  <1>1. THRESHOLD_DELTA = 6400 \div 11
    BY DEF THRESHOLD_DELTA
  <1>2. 9 \in 0 .. 11 - 1 /\ 6400 = 9 + 581 * 11 /\ 11 \in Nat \ {0} /\ 6400 \in Int /\ 581 \in Int
    OBVIOUS
  <1> QED
    BY <1>1, <1>2, Modulo

LEMMA BlockSizeIs ==
  ASSUME NEW n \in Nat, n > 581, NEW emb \in BOOLEAN
  PROVE  /\ bsntFor(n, emb) \in 49 .. n
         /\ emb => /\ 12 * n + 2 <= (bsntFor(n, emb) - 1) * bsntFor(n, emb)
                   /\ (bsntFor(n, emb) - 2) * (bsntFor(n, emb) - 1) < 12 * n + 2
  <1> DEFINE x == (IF emb THEN 12 ELSE 4) * n + 2
             r == RoundedRoot(x)
  <1>1. x \in Nat \ {0} /\ x >= 2330 /\ x <= 12 * n + 2 /\ (emb => x = 12 * n + 2)
    OBVIOUS
  <1> HIDE DEF x
  <1>2. r \in 1 .. x /\ r * (r - 1) < x /\ x <= r * (r + 1)
    BY <1>1, RoundedRootIs
  <1>3. bsntFor(n, emb) = r + 1
    BY DEF bsntFor, x
  <1> HIDE DEF r
  <1>4. r \in Nat /\ r >= 48
    <2>1. ASSUME r <= 47 PROVE FALSE
      <3>1. r * (r + 1) <= 47 * 48
        <4>1. r \in Nat
          BY <1>1, <1>2
        <4>2. r * (r + 1) <= 47 * (r + 1) /\ 47 * (r + 1) <= 47 * 48
          BY <2>1, <4>1
        <4> QED
          BY <4>1, <4>2
      <3> QED
        BY <1>1, <1>2, <3>1
    <2> QED
      BY <1>1, <1>2, <2>1
  <1>5. r <= n - 1
    <2>1. ASSUME r >= n PROVE FALSE
      <3>1. r * (r - 1) >= n * (n - 1)
        <4>1. r * (r - 1) >= n * (r - 1) /\ n * (r - 1) >= n * (n - 1)
          BY <1>4, <2>1
        <4>2. r * (r - 1) \in Int /\ n * (r - 1) \in Int /\ n * (n - 1) \in Int
          BY <1>4
        <4> QED
          BY <4>1, <4>2
      <3>2. n * (n - 1) >= 581 * n
        BY <1>4
      <3>3. r * (r - 1) \in Int /\ n * (n - 1) \in Int
        BY <1>4
      <3> QED
        BY <1>1, <1>2, <3>1, <3>2, <3>3
    <2> QED
      BY <1>4, <2>1
  <1>6. ((r + 1) - 1) * (r + 1) = r * (r + 1) /\ ((r + 1) - 2) * ((r + 1) - 1) = r * (r - 1)
    BY <1>4
  <1> QED
    BY <1>1, <1>2, <1>3, <1>4, <1>5, <1>6

LEMMA SignaturePaysFor ==
  ASSUME NEW n \in Nat, ~no_signature(n), NEW emb \in BOOLEAN
  PROVE  bsntFor(n, emb) \in 1 .. n /\ 8 + sbl(n, emb) < n
  <1> DEFINE b == bsntFor(n, emb)
             d == n \div b
  <1>1. n > 581
    <2>1. ~(n <= THRESHOLD_DELTA)
      BY DEF no_signature
    <2> QED
      BY <2>1, Threshold
  <1>2. b \in 49 .. n
    BY <1>1, BlockSizeIs
  <1>3. sbl(n, emb) = d * 40
    BY DEF sbl
  <1> HIDE DEF b
  <1>4. d \in Nat /\ d * b <= n
    BY <1>2, Division
  <1> HIDE DEF d
  <1>5. 49 * d <= n
    <2>1. 49 * d <= b * d /\ b * d = d * b
      BY <1>2, <1>4
    <2>2. b * d \in Nat
      BY <1>2, <1>4
    <2> QED
      BY <1>4, <2>1, <2>2
  <1>6. 8 + d * 40 < n
    BY <1>1, <1>4, <1>5
  <1> QED
    BY <1>2, <1>3, <1>6 DEF b

\* Completing the square: with D the difference of the two sides, 84 b D is the
\* square of 42 b c - 20 (11 n + b^2) and a rest, which is not negative for
\* block sizes whose squares are between 6 n and 20 n.
LEMMA NearlyOptimalFor ==
  ASSUME NEW n \in Nat, n > 581, NEW c \in Nat
  PROVE  20 * AddedTimes(n, bsntFor(n, TRUE)) * c <= 21 * AddedTimes(n, c) * bsntFor(n, TRUE)
  <1> DEFINE b == bsntFor(n, TRUE)
             B == b * b
             E == 11 * n + B
  <1>1. b \in 49 .. n /\ 12 * n + 2 <= (b - 1) * b /\ (b - 2) * (b - 1) < 12 * n + 2
    BY BlockSizeIs
  <1> HIDE DEF b
  <1>2. B \in Nat /\ 6 * n <= B /\ B <= 20 * n
    <2>1. (b - 1) * b = B - b /\ (b - 2) * (b - 1) = B - 3 * b + 2 /\ B \in Nat
      BY <1>1
    <2> HIDE DEF B
    <2> QED
      BY <1>1, <2>1
  <1> HIDE DEF B
  <1>3. (B - 6 * n) * (20 * n - B) >= 0
    <2> DEFINE y == B - 6 * n
               z == 20 * n - B
    <2>1. y \in Nat /\ z \in Nat
      BY <1>2
    <2> HIDE DEF y, z
    <2>2. y * z >= 0
      BY <2>1
    <2> QED
      BY <2>2 DEF y, z
  <1> DEFINE nB == n * B
             nn == n * n
             BB == B * B
  <1>4. nB \in Nat /\ nn \in Nat /\ BB \in Nat /\ nB >= 6 * nn
    <2>1. n * B >= n * (6 * n) /\ n * (6 * n) = 6 * (n * n)
      BY <1>2
    <2>2. n * B \in Nat /\ n * n \in Nat /\ B * B \in Nat
      BY <1>2
    <2> QED
      BY <2>1, <2>2
  <1>5. (B - 6 * n) * (20 * n - B) = 26 * nB - BB - 120 * nn
    BY <1>2
  <1>6. E * E = 121 * nn + 22 * nB + BB /\ E \in Nat
    BY <1>2
  <1>7. 19404 * nB - 400 * (E * E) >= 0
    <2> DEFINE EE == E * E
               P == (B - 6 * n) * (20 * n - B)
    <2>1. EE = 121 * nn + 22 * nB + BB /\ P = 26 * nB - BB - 120 * nn /\ P >= 0
      BY <1>3, <1>5, <1>6
    <2> HIDE DEF EE, P, nB, nn, BB
    <2>2. 19404 * nB - 400 * EE >= 0
      BY <1>4, <2>1
    <2> QED
      BY <2>2 DEF EE
  <1> HIDE DEF E
  <1> DEFINE u == b * c
             s == 42 * u - 20 * E
             D == 21 * (11 * n + c * c) * b - 20 * E * c
  <1>8. b * D = 231 * nB + 21 * (u * u) - 20 * (E * u) /\ u \in Nat /\ D \in Int
    <2>1. b \in Nat /\ D \in Int /\ u \in Nat
      BY <1>1, <1>6
    <2>2. b * D = b * (21 * (11 * n + c * c) * b) - b * (20 * E * c)
      BY <2>1, <1>6
    <2>3. b * (21 * (11 * n + c * c) * b) = 231 * nB + 21 * (u * u)
      BY <2>1 DEF B
    <2>4. b * (20 * E * c) = 20 * (E * u)
      BY <2>1, <1>6
    <2> DEFINE y == b * (21 * (11 * n + c * c) * b)
               z == b * (20 * E * c)
    <2>5. b * D = y - z /\ y = 231 * nB + 21 * (u * u) /\ z = 20 * (E * u)
      BY <2>2, <2>3, <2>4
    <2> DEFINE uu == u * u
               Eu == E * u
    <2>6. nB \in Int /\ uu \in Int /\ Eu \in Int
      BY <1>4, <1>6, <2>1
    <2> HIDE DEF D, u, nB, y, z
    <2>7. b * D = 231 * nB + 21 * (u * u) - 20 * (E * u)
      <3>1. y = 231 * nB + 21 * uu /\ z = 20 * Eu
        BY <2>5
      <3> HIDE DEF uu, Eu
      <3>2. y - z = 231 * nB + 21 * uu - 20 * Eu
        BY <2>6, <3>1
      <3> QED
        BY <2>5, <3>2 DEF uu, Eu
    <2> QED
      BY <2>1, <2>7
  <1> HIDE DEF u, D, nB
  <1>9. s * s = 1764 * (u * u) - 1680 * (E * u) + 400 * (E * E) /\ s \in Int
    BY <1>6, <1>8
  <1>10. s * s >= 0
    <2>1. \A k \in Int : k * k >= 0
      OBVIOUS
    <2> QED
      BY <1>9, <2>1
  <1>11. b * D >= 0
    <2> DEFINE uu == u * u
               Eu == E * u
               EE == E * E
               ss == s * s
               bD == b * D
    <2>1. /\ bD = 231 * nB + 21 * uu - 20 * Eu /\ ss = 1764 * uu - 1680 * Eu + 400 * EE
          /\ ss >= 0 /\ 19404 * nB - 400 * EE >= 0
          /\ uu \in Int /\ Eu \in Int /\ EE \in Int /\ ss \in Int /\ bD \in Int /\ nB \in Int
      BY <1>1, <1>4, <1>6, <1>7, <1>8, <1>9, <1>10
    <2> HIDE DEF uu, Eu, EE, ss, bD
    <2>2. bD >= 0
      BY <2>1
    <2> QED
      BY <2>2 DEF bD
  <1>12. D >= 0
    <2>1. ASSUME D <= -1 PROVE FALSE
      <3>1. b * D < 0
        BY <1>1, <1>8, <2>1
      <3>2. b * D \in Int
        BY <1>1, <1>8
      <3> QED
        BY <1>11, <3>1, <3>2
    <2> QED
      BY <1>8, <2>1
  <1>13. /\ 21 * (11 * n + c * c) * b \in Int /\ 20 * E * c \in Int
         /\ 20 * E * c <= 21 * (11 * n + c * c) * b
    <2>1. 21 * (11 * n + c * c) * b \in Int /\ 20 * E * c \in Int
      BY <1>1, <1>6
    <2> QED
      BY <1>12, <2>1 DEF D
  <1> QED
    BY <1>13 DEF AddedTimes, b, B, E

-----------------------------------------------------------------------------
(* The headers of objects.                                                 *)

LEMMA ShiftIs ==
  /\ Shift \in [0 .. SizeBytes + 1 -> Nat \ {0}] /\ Shift[0] = 1
  /\ \A i \in 1 .. SizeBytes + 1 : Shift[i] = Byte * Shift[i - 1]
  <1> DEFINE n == SizeBytes + 1
             Up(m, f) == /\ f \in [0 .. m -> Nat \ {0}] /\ f[0] = 1
                         /\ \A i \in 1 .. m : f[i] = Byte * f[i - 1]
             T == {m \in 0 .. n : \E f : Up(m, f)}
  <1>1. n \in Nat /\ Byte \in Nat \ {0} /\ n \in 0 .. n /\ 0 \in 0 .. n
    BY HeaderAssumption
  <1> HIDE DEF n
  <1>2. 0 \in T
    <2> DEFINE z == [i \in 0 .. 0 |-> 1]
    <2>1. Up(0, z)
      OBVIOUS
    <2> HIDE DEF z, Up
    <2> QED
      BY <1>1, <2>1
  <1>3. ASSUME NEW m \in 1 .. n, m - 1 \in T PROVE m \in T
    <2>1. PICK f : Up(m - 1, f)
      BY <1>3
    <2> DEFINE g == [i \in 0 .. m |-> IF i = m THEN Byte * f[m - 1] ELSE f[i]]
    <2>2. Byte * f[m - 1] \in Nat \ {0}
      <3>1. f[m - 1] \in Nat \ {0}
        BY <1>1, <2>1
      <3> QED
        BY <1>1, <3>1
    <2>3. g \in [0 .. m -> Nat \ {0}] /\ g[0] = 1
      BY <1>1, <2>1, <2>2
    <2>4. ASSUME NEW i \in 1 .. m PROVE g[i] = Byte * g[i - 1]
      <3>1. g[i - 1] = f[i - 1]
        OBVIOUS
      <3>2. CASE i = m
        BY <3>1, <3>2
      <3>3. CASE i # m
        <4>1. i \in 1 .. m - 1 /\ g[i] = f[i]
          BY <1>1, <3>3
        <4> HIDE DEF g
        <4> QED
          BY <2>1, <3>1, <4>1
      <3> QED
        BY <3>2, <3>3
    <2> HIDE DEF g
    <2>5. Up(m, g) /\ m \in 0 .. n
      BY <1>1, <2>3, <2>4
    <2> HIDE DEF Up
    <2> QED
      BY <2>5
  <1>4. n \in T
    <2> HIDE DEF T
    <2>1. \A i \in 1 .. n : i - 1 \in T => i \in T
      BY <1>3
    <2> QED
      BY <1>1, <1>2, <2>1, UpTo
  <1>5. PICK f : Up(n, f)
    BY <1>4
  <1>6. f = [i \in 0 .. n |-> IF i = 0 THEN 1 ELSE Byte * f[i - 1]]
    BY <1>1, <1>5
  <1>7. Shift = [i \in 0 .. n |-> IF i = 0 THEN 1 ELSE Byte * Shift[i - 1]]
    <2>1. \E g : g = [i \in 0 .. n |-> IF i = 0 THEN 1 ELSE Byte * g[i - 1]]
      BY <1>6
    <2> QED
      BY <2>1 DEF Shift, n
  <1> DEFINE E == {i \in 0 .. n : Shift[i] = f[i]}
  <1>8. \A i \in 0 .. n : i \in E
    <2>1. 0 \in E /\ \A i \in 1 .. n : i - 1 \in E => i \in E
      BY <1>1, <1>5, <1>7
    <2> HIDE DEF E
    <2> QED
      BY <1>1, <2>1, UpTo
  <1>9. Shift = f
    BY <1>5, <1>7, <1>8
  <1> QED
    BY <1>5, <1>9 DEF n

\* The lowest i bytes of a number are those below, and the next byte in its place.
LEMMA LowBytes ==
  ASSUME NEW x \in 0 .. Word - 1
  PROVE  /\ (x % Shift[0]) = 0 /\ (x % Word) = x
         /\ \A i \in 1 .. SizeBytes + 1 :
              /\ Bytes(x, SizeBytes + 1)[i] \in 0 .. Byte - 1
              /\ (x % Shift[i - 1]) \in 0 .. Shift[i - 1] - 1
              /\ (x % Shift[i]) = (x % Shift[i - 1]) + Bytes(x, SizeBytes + 1)[i] * Shift[i - 1]
  <1>1. Word \in Nat \ {0} /\ Shift[0] = 1 /\ x \in Nat /\ Byte \in Nat \ {0} /\ SizeBytes \in Nat
    BY ShiftIs, HeaderAssumption DEF Word
  <1>2. (x % 1) = 0 /\ (x % Word) = x
    <2>1. x = 0 + x * 1 /\ x = x + 0 * Word /\ 0 \in 0 .. 1 - 1 /\ 1 \in Nat \ {0} /\ 0 \in Int /\ x \in Int
      BY <1>1
    <2> HIDE DEF Word
    <2> QED
      BY <1>1, <2>1, Modulo
  <1>3. ASSUME NEW i \in 1 .. SizeBytes + 1
        PROVE  /\ Bytes(x, SizeBytes + 1)[i] \in 0 .. Byte - 1
               /\ (x % Shift[i - 1]) \in 0 .. Shift[i - 1] - 1
               /\ (x % Shift[i]) = (x % Shift[i - 1]) + Bytes(x, SizeBytes + 1)[i] * Shift[i - 1]
    <2> DEFINE m == Shift[i - 1]
               d == x \div m
               r == x % m
               e == d \div Byte
               b == d % Byte
    <2>1. m \in Nat \ {0} /\ Shift[i] = Byte * m
      BY <1>1, ShiftIs
    <2>2. Bytes(x, SizeBytes + 1)[i] = b
      BY DEF Bytes
    <2> HIDE DEF m
    <2>3. d \in Int /\ r \in 0 .. m - 1 /\ x = m * d + r
      <3>1. x \in Int /\ m \in Nat \ {0}
        BY <2>1
      <3> QED
        BY <3>1, Modulo
    <2> HIDE DEF d, r
    <2>4. e \in Int /\ b \in 0 .. Byte - 1 /\ d = Byte * e + b
      BY <1>1, <2>3, Modulo
    <2> HIDE DEF e, b
    <2>5. x = (r + b * m) + e * (Byte * m)
      <3>1. m * (Byte * e + b) = b * m + e * (Byte * m)
        BY <1>1, <2>1, <2>4
      <3>2. b * m \in Int /\ e * (Byte * m) \in Int
        BY <1>1, <2>1, <2>4
      <3> QED
        BY <2>3, <2>4, <3>1, <3>2
    <2>6. r + b * m \in 0 .. Byte * m - 1 /\ Byte * m \in Nat \ {0}
      <3>1. b * m <= (Byte - 1) * m /\ (Byte - 1) * m = Byte * m - m /\ b * m >= 0
        BY <1>1, <2>1, <2>4
      <3>2. b * m \in Int /\ Byte * m \in Int
        BY <1>1, <2>1, <2>4
      <3>3. Byte * m >= m
        BY <1>1, <2>1
      <3> QED
        BY <2>1, <2>3, <3>1, <3>2, <3>3
    <2>7. (x % (Byte * m)) = r + b * m
      <3> DEFINE w == Byte * m
                 y == r + b * m
      <3>1. w \in Nat \ {0} /\ y \in 0 .. w - 1 /\ x = y + e * w /\ e \in Int /\ x \in Int
        BY <1>1, <2>4, <2>5, <2>6
      <3> HIDE DEF w, y
      <3>2. (x % w) = y
        BY <3>1, Modulo
      <3> QED
        BY <3>2 DEF w, y
    <2> QED
      BY <2>1, <2>2, <2>3, <2>4, <2>7 DEF m, r
  <1> QED
    BY <1>1, <1>2, <1>3

\* No header of a size that fits loses bits.
LEMMA HeaderIs ==
  ASSUME NEW size \in 0 .. Shift[SizeBytes] - 1, NEW type \in 0 .. Byte - 1
  PROVE  /\ type + size * Byte \in 0 .. Word - 1 /\ header(type, size) = type + size * Byte
         /\ Bytes(type + size * Byte, SizeBytes + 1)[1] = type
  <1> DEFINE x == type + size * Byte
  <1>1. /\ Byte \in Nat \ {0} /\ SizeBytes \in Nat /\ Shift[SizeBytes] \in Nat \ {0}
        /\ Word = Byte * Shift[SizeBytes] /\ Shift[0] = 1 /\ size \in Nat
    BY ShiftIs, HeaderAssumption DEF Word
  <1>2. x \in 0 .. Word - 1
    <2>1. size * Byte <= (Shift[SizeBytes] - 1) * Byte /\ size * Byte >= 0
      BY <1>1
    <2>2. (Shift[SizeBytes] - 1) * Byte = Word - Byte
      BY <1>1
    <2>3. size * Byte \in Int /\ Word \in Int
      BY <1>1
    <2> QED
      BY <1>1, <2>1, <2>2, <2>3
  <1>3. (x % Word) = x
    BY <1>2, LowBytes
  <1>4. Bytes(x, SizeBytes + 1)[1] = type
    <2>1. 1 \in 1 .. SizeBytes + 1 /\ 1 - 1 = 0
      BY <1>1
    <2>2. Bytes(x, SizeBytes + 1)[1] = (x \div Shift[0]) % Byte
      BY <2>1 DEF Bytes
    <2>3. x \div 1 = x
      <3>1. x = 0 + x * 1 /\ 0 \in 0 .. 1 - 1 /\ 1 \in Nat \ {0} /\ x \in Int
        BY <1>1
      <3> HIDE DEF x
      <3> QED
        BY <3>1, Modulo
    <2>4. (x % Byte) = type
      <3>1. x \in Int /\ size \in Int /\ x = type + size * Byte
        BY <1>1
      <3> HIDE DEF x
      <3> QED
        BY <1>1, <3>1, Modulo
    <2> QED
      BY <1>1, <2>2, <2>3, <2>4
  <1> QED
    BY <1>2, <1>3, <1>4 DEF header

\* memcpy puts the bytes behind the flags together as they were taken apart.
LEMMA SizeFoundIs ==
  ASSUME NEW size \in 0 .. Shift[SizeBytes] - 1, NEW type \in 0 .. Byte - 1
  PROVE  SizeFound(Bytes(type + size * Byte, SizeBytes + 1)) = size
  <1> DEFINE x == type + size * Byte
             n == SizeBytes + 1
             bytes == Bytes(x, n)
  <1>1. /\ Byte \in Nat \ {0} /\ n \in Nat /\ n >= 1 /\ Len(bytes) = n /\ size \in Nat /\ type \in Nat
        /\ \A i \in 0 .. n : Shift[i] \in Nat \ {0}
        /\ \A i \in 1 .. n : Shift[i] = Byte * Shift[i - 1]
        /\ Shift[0] = 1 /\ Word = Shift[n]
    BY ShiftIs, HeaderAssumption DEF Word, Bytes
  <1>2. x \in 0 .. Word - 1 /\ bytes[1] = type
    BY HeaderIs
  <1>3. /\ (x % Shift[0]) = 0 /\ (x % Word) = x
        /\ \A i \in 1 .. n : /\ bytes[i] \in 0 .. Byte - 1
                             /\ (x % Shift[i]) = (x % Shift[i - 1]) + bytes[i] * Shift[i - 1]
    BY <1>2, LowBytes
  <1> DEFINE f == [j \in 1 .. n |-> (x % Shift[j]) \div Byte]
  <1> HIDE DEF x, n, bytes
  <1> DEFINE B == Byte
  <1>0. B \in Nat \ {0} /\ type \in 0 .. B - 1 /\ type \in Int
    BY <1>1
  <1>4. /\ f[1] = 0 /\ (x % Shift[1]) = type
        /\ \A j \in 2 .. n : f[j] = f[j - 1] + bytes[j] * Shift[j - 2]
        /\ \A j \in 1 .. n : f[j] \in Int /\ (x % Shift[j]) = type + Byte * f[j]
    <2> DEFINE T == {j \in 1 .. n : f[j] \in Int /\ (x % Shift[j]) = type + Byte * f[j]}
    <2>1. ASSUME NEW j \in 1 .. n, NEW q \in Int, (x % Shift[j]) = type + Byte * q
          PROVE  f[j] = q
      <3> DEFINE y == x % Shift[j]
      <3>1. y \in Int /\ y = type + q * B
        BY <1>0, <2>1
      <3>2. f[j] = y \div B
        OBVIOUS
      <3> HIDE DEF y, f, B
      <3> QED
        BY <1>0, <3>1, <3>2, Modulo
    <2>2. (x % Shift[1]) = type + Byte * 0 /\ 1 \in 1 .. n
      <3>1. 1 \in 1 .. n /\ 1 - 1 = 0
        BY <1>1
      <3> QED
        BY <1>1, <1>2, <1>3, <3>1
    <2>3. f[1] = 0 /\ 1 \in T
      BY <2>1, <2>2
    <2>4. ASSUME NEW j \in 2 .. n, j - 1 \in T
          PROVE  j \in T /\ f[j] = f[j - 1] + bytes[j] * Shift[j - 2]
      <3> DEFINE q == f[j - 1] + bytes[j] * Shift[j - 2]
      <3>1. /\ f[j - 1] \in Int /\ (x % Shift[j - 1]) = type + Byte * f[j - 1]
            /\ j \in 1 .. n /\ j - 1 \in 1 .. n /\ j - 2 \in 0 .. n /\ (j - 1) - 1 = j - 2
        <4>1. j \in 1 .. n /\ j - 1 \in 1 .. n /\ j - 2 \in 0 .. n /\ (j - 1) - 1 = j - 2
          BY <1>1
        <4> HIDE DEF f
        <4> QED
          BY <2>4, <4>1
      <3> HIDE DEF f, T
      <3> DEFINE c == bytes[j]
                 z == Shift[j - 2]
                 y == Shift[j - 1]
                 F == f[j - 1]
      <3>2. c \in Int /\ z \in Int /\ y = B * z /\ (x % Shift[j]) = (x % y) + c * y /\ F \in Int
            /\ q = F + c * z /\ (x % y) = type + B * F
        <4>1. z \in Int
          BY <1>1, <3>1
        <4>2. y = B * z
          BY <1>1, <3>1
        <4>3. c \in Int
          BY <1>0, <1>3, <3>1
        <4> QED
          BY <1>3, <3>1, <4>1, <4>2, <4>3
      <3> HIDE DEF q, c, z, y, F, B
      <3>4. q \in Int
        BY <3>2
      <3>5. B * q = B * F + c * y
        <4>1. B * (F + c * z) = B * F + c * (B * z)
          BY <1>0, <3>2
        <4> QED
          BY <3>2, <4>1
      <3>6. (x % Shift[j]) = type + Byte * q
        <4>1. B * F \in Int /\ c * y \in Int /\ B * q \in Int
          <5>1. y \in Int
            BY <1>0, <3>2
          <5> QED
            BY <1>0, <3>2, <3>4, <5>1
        <4>2. (x % Shift[j]) = type + B * q
          <5> DEFINE u == B * F
                     v == c * y
          <5>1. (x % Shift[j]) = (type + u) + v /\ B * q = u + v /\ u \in Int /\ v \in Int
            BY <3>2, <3>5, <4>1
          <5> HIDE DEF u, v
          <5> QED
            BY <1>0, <5>1
        <4> QED
          BY <4>2 DEF B
      <3>7. f[j] = q
        BY <2>1, <3>1, <3>4, <3>6
      <3> QED
        BY <3>1, <3>4, <3>6, <3>7 DEF T, q, c, z, F
    <2>5. \A j \in 1 .. n : j \in T
      <3> DEFINE U == {j \in 0 .. n - 1 : j + 1 \in T}
      <3>1. 0 \in U
        BY <1>1, <2>3
      <3>2. \A j \in 1 .. n - 1 : j - 1 \in U => j \in U
        <4> SUFFICES ASSUME NEW j \in 1 .. n - 1, j - 1 \in U PROVE j \in U
          OBVIOUS
        <4>1. (j - 1) + 1 = j /\ j + 1 \in 2 .. n /\ (j + 1) - 1 = j /\ j \in 0 .. n - 1
          BY <1>1
        <4> QED
          BY <2>4, <4>1
      <3>3. n - 1 \in Nat
        BY <1>1
      <3> HIDE DEF U
      <3>4. \A j \in 0 .. n - 1 : j \in U
        BY <3>1, <3>2, <3>3, UpTo
      <3>5. \A j \in 1 .. n : j - 1 \in 0 .. n - 1 /\ (j - 1) + 1 = j
        BY <1>1
      <3> QED
        BY <3>4, <3>5 DEF U
    <2> HIDE DEF f
    <2>6. \A j \in 2 .. n : j - 1 \in T
      <3>1. \A j \in 2 .. n : j - 1 \in 1 .. n
        BY <1>1
      <3> HIDE DEF T
      <3> QED
        BY <2>5, <3>1
    <2>7. \A j \in 2 .. n : f[j] = f[j - 1] + bytes[j] * Shift[j - 2]
      <3> HIDE DEF T
      <3> QED
        BY <2>4, <2>6
    <2>8. (x % Shift[1]) = type
      BY <1>0, <2>2
    <2> QED
      BY <2>3, <2>5, <2>7, <2>8
  <1>5. f[n] = size
    <2>1. x = type + Byte * f[n] /\ f[n] \in Int /\ x = type + size * Byte
      BY <1>1, <1>3, <1>4 DEF x
    <2> HIDE DEF f
    <2> DEFINE F == f[n]
    <2>2. x = type + F * B /\ F \in Int /\ x = type + size * B /\ x \in Int /\ size \in Int
      BY <1>0, <1>1, <2>1
    <2> HIDE DEF F, B
    <2>3. x \in Int
      BY <2>2
    <2>4. B \in Nat \ {0}
      BY <1>0
    <2>5. \A y \in 0 .. B - 1, q \in Int : x = y + q * B => (x % B) = y /\ x \div B = q
      BY <2>3, <2>4, Modulo
    <2>6. \A q \in Int : x = type + q * B => x \div B = q
      BY <1>0, <2>5
    <2> QED
      BY <2>2, <2>6 DEF F
  <1> DEFINE h[j \in 1 .. Len(bytes)] == IF j = 1 THEN 0 ELSE h[j - 1] + bytes[j] * Shift[j - 2]
  <1>6. h = [j \in 1 .. n |-> IF j = 1 THEN 0 ELSE h[j - 1] + bytes[j] * Shift[j - 2]]
    <2>1. f = [j \in 1 .. n |-> IF j = 1 THEN 0 ELSE f[j - 1] + bytes[j] * Shift[j - 2]]
      <3>1. \A j \in 1 .. n : f[j] = IF j = 1 THEN 0 ELSE f[j - 1] + bytes[j] * Shift[j - 2]
        <4> HIDE DEF f
        <4>1. \A j \in 1 .. n : j # 1 => j \in 2 .. n
          BY <1>1
        <4>2. ASSUME NEW j \in 1 .. n, j # 1
              PROVE  f[j] = f[j - 1] + bytes[j] * Shift[j - 2]
          BY <1>4, <4>1, <4>2
        <4> QED
          BY <1>4, <4>2
      <3> QED
        BY <3>1
    <2> HIDE DEF f
    <2>2. \E g : g = [j \in 1 .. n |-> IF j = 1 THEN 0 ELSE g[j - 1] + bytes[j] * Shift[j - 2]]
      BY <2>1
    <2> QED
      BY <1>1, <2>2
  <1>7. SizeFound(bytes) = h[n]
    BY <1>1 DEF SizeFound
  <1> HIDE DEF h, f
  <1>8. \A j \in 0 .. n - 1 : h[j + 1] = f[j + 1]
    <2> DEFINE U == {j \in 0 .. n - 1 : h[j + 1] = f[j + 1]}
    <2>1. 0 \in U
      BY <1>1, <1>4, <1>6
    <2>2. ASSUME NEW j \in 1 .. n - 1, j - 1 \in U PROVE j \in U
      <3>1. (j - 1) + 1 = j /\ j + 1 \in 2 .. n /\ (j + 1) - 1 = j /\ j \in 0 .. n - 1 /\ j + 1 \in 1 .. n
        BY <1>1
      <3>2. h[j] = f[j]
        BY <2>2, <3>1
      <3>3. f[j + 1] = f[j] + bytes[j + 1] * Shift[(j + 1) - 2]
        BY <1>4, <3>1
      <3>4. h[j + 1] = h[j] + bytes[j + 1] * Shift[(j + 1) - 2]
        <4>1. j + 1 # 1
          BY <3>1
        <4> QED
          BY <1>6, <3>1, <4>1
      <3> QED
        BY <3>1, <3>2, <3>3, <3>4
    <2>3. n - 1 \in Nat
      BY <1>1
    <2> HIDE DEF U
    <2>4. \A j \in 0 .. n - 1 : j \in U
      BY <2>1, <2>2, <2>3, UpTo
    <2> QED
      BY <2>4 DEF U
  <1>9. h[n] = f[n]
    <2>1. n - 1 \in 0 .. n - 1 /\ (n - 1) + 1 = n
      BY <1>1
    <2> QED
      BY <1>8, <2>1
  <1> QED
    BY <1>5, <1>7, <1>9 DEF x, bytes, n

\* D lists by how much read_integer falls short: a byte that is negative as a
\* char counts for Byte less.
Excess(bytes, D) ==
  /\ D \in [0 .. SizeBytes + 1 -> Nat] /\ D[0] = 0
  /\ \A i \in 1 .. SizeBytes + 1 :
       D[i] = D[i - 1] + (IF bytes[i] < Byte \div 2 THEN 0 ELSE Shift[i])

LEMMA ExcessExists ==
  ASSUME NEW bytes
  PROVE  \E D : Excess(bytes, D)
  <1> DEFINE n == SizeBytes + 1
             a(i) == IF bytes[i] < Byte \div 2 THEN 0 ELSE Shift[i]
             Up(m, f) == /\ f \in [0 .. m -> Nat] /\ f[0] = 0
                         /\ \A i \in 1 .. m : f[i] = f[i - 1] + a(i)
             T == {m \in 0 .. n : \E f : Up(m, f)}
  <1>1. n \in Nat /\ n \in 0 .. n /\ 0 \in 0 .. n /\ \A i \in 1 .. n : a(i) \in Nat
    BY ShiftIs, HeaderAssumption
  <1> HIDE DEF n, a
  <1>2. 0 \in T
    <2> DEFINE z == [i \in 0 .. 0 |-> 0]
    <2>1. Up(0, z)
      OBVIOUS
    <2> HIDE DEF z, Up
    <2> QED
      BY <1>1, <2>1
  <1>3. ASSUME NEW m \in 1 .. n, m - 1 \in T PROVE m \in T
    <2>1. PICK f : Up(m - 1, f)
      BY <1>3
    <2> DEFINE x == f[m - 1] + a(m)
               g == [i \in 0 .. m |-> IF i = m THEN x ELSE f[i]]
    <2>2. x \in Nat
      BY <1>1, <2>1
    <2> HIDE DEF x
    <2>3. g \in [0 .. m -> Nat] /\ g[0] = 0
      BY <1>1, <2>1, <2>2
    <2>4. ASSUME NEW i \in 1 .. m PROVE g[i] = g[i - 1] + a(i)
      BY <1>1, <2>1 DEF x
    <2> HIDE DEF g
    <2>5. Up(m, g) /\ m \in 0 .. n
      BY <1>1, <2>3, <2>4
    <2> HIDE DEF Up
    <2> QED
      BY <2>5
  <1>4. n \in T
    <2> HIDE DEF T
    <2>1. \A i \in 1 .. n : i - 1 \in T => i \in T
      BY <1>3
    <2> QED
      BY <1>1, <1>2, <2>1, UpTo
  <1> QED
    BY <1>4 DEF Excess, n, a

\* Up to the byte i it is less than the next byte could make up for, and nothing
\* exactly if there is no such byte.
LEMMA ExcessIs ==
  ASSUME NEW bytes, NEW D, Excess(bytes, D)
  PROVE  /\ D[SizeBytes] \in 0 .. Word - 1
         /\ D[SizeBytes] = 0 <=> \A j \in 1 .. SizeBytes : bytes[j] < Byte \div 2
  <1> DEFINE Good(i) == D[i] < Shift[i + 1] /\ (D[i] = 0 <=> \A j \in 1 .. i : bytes[j] < Byte \div 2)
             T == {i \in 0 .. SizeBytes : Good(i)}
  <1>1. /\ SizeBytes \in Nat /\ \A i \in 0 .. SizeBytes + 1 : Shift[i] \in Nat \ {0}
        /\ \A i \in 0 .. SizeBytes : Shift[i + 1] >= 2 * Shift[i]
    <2>1. SizeBytes \in Nat /\ \A i \in 0 .. SizeBytes + 1 : Shift[i] \in Nat \ {0}
      BY ShiftIs, HeaderAssumption
    <2>2. ASSUME NEW i \in 0 .. SizeBytes PROVE Shift[i + 1] >= 2 * Shift[i]
      <3>1. i + 1 \in 1 .. SizeBytes + 1 /\ (i + 1) - 1 = i
        BY <2>1
      <3> DEFINE m == Shift[i]
      <3>2. Shift[i + 1] = Byte * m /\ m \in Nat /\ Byte \in Nat /\ Byte >= 2
        BY <2>1, <3>1, ShiftIs, HeaderAssumption
      <3> HIDE DEF m
      <3>3. Byte * m >= 2 * m
        BY <3>2
      <3> QED
        BY <3>2, <3>3 DEF m
    <2> QED
      BY <2>1, <2>2
  <1>2. 0 \in T
    BY <1>1 DEF Excess
  <1>3. ASSUME NEW i \in 1 .. SizeBytes, i - 1 \in T PROVE i \in T
    <2>1. i \in 0 .. SizeBytes /\ i - 1 \in 0 .. SizeBytes /\ i \in 1 .. SizeBytes + 1 /\ (i - 1) + 1 = i
      BY <1>1
    <2>2. /\ D[i - 1] < Shift[i] /\ (D[i - 1] = 0 <=> \A j \in 1 .. i - 1 : bytes[j] < Byte \div 2)
          /\ D[i - 1] \in Nat /\ Shift[i] \in Nat \ {0} /\ Shift[i + 1] >= 2 * Shift[i]
          /\ Shift[i + 1] \in Nat
          /\ D[i] = D[i - 1] + (IF bytes[i] < Byte \div 2 THEN 0 ELSE Shift[i])
      BY <1>1, <1>3, <2>1, SMTT(30) DEF Excess
    <2>3. D[i] < Shift[i + 1] /\ (D[i] = 0 <=> D[i - 1] = 0 /\ bytes[i] < Byte \div 2)
      BY <2>2
    <2>4. (\A j \in 1 .. i : bytes[j] < Byte \div 2)
            <=> bytes[i] < Byte \div 2 /\ \A j \in 1 .. i - 1 : bytes[j] < Byte \div 2
      <3>1. \A j : j \in 1 .. i <=> j = i \/ j \in 1 .. i - 1
        BY <1>1
      <3> QED
        BY <3>1
    <2> QED
      BY <2>1, <2>2, <2>3, <2>4
  <1>4. SizeBytes \in T
    <2>1. SizeBytes \in 0 .. SizeBytes
      BY <1>1
    <2> HIDE DEF T
    <2> QED
      BY <1>1, <1>2, <1>3, <2>1, UpTo
  <1> QED
    BY <1>1, <1>4 DEF Excess, Word

\* What read_integer makes of the bytes of x
LEMMA ReadIntegerIs ==
  ASSUME NEW x \in 0 .. Word - 1, NEW D, Excess(Bytes(x, SizeBytes + 1), D)
  PROVE  ReadInteger(Bytes(x, SizeBytes + 1)) = (x - D[SizeBytes]) % Word
  <1> DEFINE n == SizeBytes + 1
             bytes == Bytes(x, n)
             W == Word
             a(i) == Char(bytes[i]) * Shift[i - 1]
  <1>1. /\ n \in Nat /\ n >= 1 /\ Len(bytes) = n /\ W = Shift[n]
        /\ \A i \in 0 .. n : Shift[i] \in Nat \ {0}
    <2>1. n \in Nat /\ n >= 1 /\ \A i \in 0 .. n : Shift[i] \in Nat \ {0}
      BY ShiftIs, HeaderAssumption
    <2>2. Len(bytes) = n
      BY <2>1 DEF Bytes
    <2> QED
      BY <2>1, <2>2 DEF Word
  <1>0. W \in Nat \ {0}
    BY <1>1
  <1>2. /\ (x % Shift[0]) = 0 /\ (x % W) = x
        /\ \A i \in 1 .. n : (x % Shift[i - 1]) \in 0 .. Shift[i - 1] - 1
    BY LowBytes
  <1>3. ASSUME NEW i \in 1 .. n
        PROVE  a(i) \in Int /\ (x % Shift[i]) - D[i] = ((x % Shift[i - 1]) - D[i - 1]) + a(i)
    <2> DEFINE b == bytes[i]
               m == Shift[i - 1]
    <2>1. /\ b \in 0 .. Byte - 1 /\ (x % Shift[i]) = (x % m) + b * m /\ (x % m) \in Int
          /\ Shift[i] = Byte * m /\ m \in Int /\ Byte \in Int /\ D[i - 1] \in Int
          /\ D[i] = D[i - 1] + (IF b < Byte \div 2 THEN 0 ELSE Shift[i])
      <3>1. i - 1 \in 0 .. n
        BY <1>1
      <3>2. m \in Int /\ Byte \in Int /\ D[i - 1] \in Int
        BY <1>1, <3>1, HeaderAssumption DEF Excess
      <3>3. b \in 0 .. Byte - 1 /\ (x % Shift[i]) = (x % m) + b * m
        BY LowBytes
      <3>4. (x % m) \in Int
        BY <1>2, <3>2
      <3>5. Shift[i] = Byte * m
        BY ShiftIs
      <3>6. D[i] = D[i - 1] + (IF b < Byte \div 2 THEN 0 ELSE Shift[i])
        BY DEF Excess
      <3> QED
        BY <3>2, <3>3, <3>4, <3>5, <3>6
    <2>2. a(i) = Char(b) * m /\ Char(b) = IF b < Byte \div 2 THEN b ELSE b - Byte
      BY DEF Char
    <2> DEFINE X == x % Shift[i]
               Y == x % m
               e == D[i]
               c == D[i - 1]
    <2> HIDE DEF a, b, m, n
    <2>3. b * m \in Int /\ Byte * m \in Int /\ (b - Byte) * m = b * m - Byte * m /\ b \in Int
      BY <2>1
    <2>4. CASE b < Byte \div 2
      <3> DEFINE p == b * m
      <3>1. a(i) = p /\ e = c /\ X = Y + p /\ p \in Int /\ Y \in Int /\ c \in Int
        <4>1. a(i) = p
          BY <2>2, <2>4
        <4>2. e = c
          BY <2>1, <2>4
        <4> QED
          BY <2>1, <2>3, <4>1, <4>2
      <3> HIDE DEF X, Y, e, c, p
      <3>2. a(i) \in Int /\ X - e = (Y - c) + a(i)
        BY <3>1
      <3> QED
        BY <3>2 DEF X, Y, e, c, m
    <2>5. CASE ~(b < Byte \div 2)
      <3> DEFINE p == b * m
                 w == Byte * m
      <3>1. a(i) = p - w /\ e = c + w /\ X = Y + p /\ p \in Int /\ w \in Int /\ Y \in Int /\ c \in Int
        <4>1. a(i) = (b - Byte) * m
          BY <2>2, <2>5
        <4>2. e = c + w
          BY <2>1, <2>5
        <4> QED
          BY <2>1, <2>3, <4>1, <4>2
      <3> HIDE DEF X, Y, e, c, p, w
      <3>2. a(i) \in Int /\ X - e = (Y - c) + a(i)
        BY <3>1
      <3> QED
        BY <3>2 DEF X, Y, e, c, m
    <2> QED
      BY <2>4, <2>5
  <1> DEFINE f == [j \in 0 .. n |-> ((x % Shift[j]) - D[j]) % W]
  <1>4. \A j \in 0 .. n : (x % Shift[j]) - D[j] \in Int
    <2>1. ASSUME NEW j \in 0 .. n PROVE (x % Shift[j]) - D[j] \in Int
      <3>1. D[j] \in Int
        BY DEF Excess
      <3>2. (x % Shift[j]) \in Int
        <4>1. Shift[j] \in Nat \ {0} /\ x \in Int
          BY <1>1
        <4> QED
          BY <4>1, Modulo
      <3> QED
        BY <3>1, <3>2
    <2> QED
      BY <2>1
  <1>5. f[0] = 0
    <2>1. (x % Shift[0]) - D[0] = 0
      BY <1>2 DEF Excess
    <2>3. (0 % W) = 0
      <3> HIDE DEF W
      <3>1. 0 \in 0 .. W - 1
        BY <1>0
      <3> QED
        BY <1>0, <3>1, SmallModulo
    <2>4. 0 \in 0 .. n
      BY <1>1
    <2> QED
      BY <2>1, <2>3, <2>4
  <1>6. ASSUME NEW j \in 1 .. n PROVE f[j] = (f[j - 1] + a(j)) % W
    <2> DEFINE y == (x % Shift[j]) - D[j]
               z == (x % Shift[j - 1]) - D[j - 1]
               c == a(j)
               q == z \div W
               e == z % W
    <2>1. y \in Int /\ z \in Int /\ c \in Int /\ y = z + c
      <3>1. j \in 0 .. n /\ j - 1 \in 0 .. n
        BY <1>1
      <3> HIDE DEF a, n
      <3> QED
        BY <1>3, <1>4, <3>1
    <2>2. f[j] = y % W /\ f[j - 1] = e
      BY <1>1
    <2> HIDE DEF y, z, c, W, f
    <2>3. e \in Int /\ q \in Int /\ z = W * q + e
      BY <1>0, <2>1, Modulo
    <2> HIDE DEF e, q
    <2> DEFINE t == e + c
    <2>4. y = t + q * W /\ t \in Int
      BY <1>0, <2>1, <2>3
    <2> HIDE DEF t
    <2>5. (y % W) = (t % W)
      BY <1>0, <2>1, <2>3, <2>4, SameModulo
    <2> QED
      BY <2>2, <2>5 DEF c, t
  <1> DEFINE h[j \in 0 .. Len(bytes)] ==
               IF j = 0 THEN 0 ELSE (h[j - 1] + Char(bytes[j]) * Shift[j - 1]) % Word
  <1>7. h = [j \in 0 .. n |-> IF j = 0 THEN 0 ELSE (h[j - 1] + a(j)) % W]
    <2>1. f = [j \in 0 .. n |-> IF j = 0 THEN 0 ELSE (f[j - 1] + a(j)) % W]
      <3>1. \A j \in 0 .. n : f[j] = IF j = 0 THEN 0 ELSE (f[j - 1] + a(j)) % W
        <4>1. \A j \in 0 .. n : j # 0 => j \in 1 .. n
          BY <1>1
        <4> HIDE DEF f, a, n, W
        <4>2. ASSUME NEW j \in 0 .. n, j # 0 PROVE f[j] = (f[j - 1] + a(j)) % W
          BY <1>6, <4>1, <4>2
        <4> QED
          BY <1>5, <4>2
      <3> HIDE DEF a, n, W
      <3> QED
        BY <3>1
    <2> HIDE DEF f
    <2>2. \E g : g = [j \in 0 .. n |-> IF j = 0 THEN 0 ELSE (g[j - 1] + a(j)) % W]
      BY <2>1
    <2> QED
      BY <1>1, <2>2
  <1>8. ReadInteger(bytes) = h[n]
    BY <1>1 DEF ReadInteger
  <1> HIDE DEF h
  <1> DEFINE U == {j \in 0 .. n : h[j] = f[j]}
  <1>9. n \in U
    <2>1. 0 \in U
      BY <1>1, <1>5, <1>7
    <2>2. ASSUME NEW j \in 1 .. n, j - 1 \in U PROVE j \in U
      <3>1. j \in 0 .. n /\ j # 0 /\ h[j - 1] = f[j - 1]
        BY <1>1, <2>2
      <3> HIDE DEF f, a, n, W
      <3>2. h[j] = (h[j - 1] + a(j)) % W
        BY <1>7, <3>1
      <3> QED
        BY <1>6, <3>1, <3>2
    <2>3. n \in 0 .. n
      BY <1>1
    <2> HIDE DEF U, n
    <2> QED
      BY <1>1, <2>1, <2>2, <2>3, UpTo
  <1>10. f[n] = (x - D[SizeBytes]) % W
    <2> DEFINE y == x - D[n]
               z == x - D[SizeBytes]
    <2>1. f[n] = y % W
      <3>1. n \in 0 .. n
        BY <1>1
      <3> QED
        BY <1>1, <1>2, <3>1
    <2>2. y \in Int /\ z \in Int /\ \E q \in Int : y = z + q * W
      <3>1. n \in 1 .. SizeBytes + 1 /\ n - 1 = SizeBytes
            /\ D[n] \in Int /\ D[SizeBytes] \in Int /\ x \in Int /\ W \in Int
        BY <1>1, HeaderAssumption DEF Excess
      <3>2. D[n] = D[SizeBytes] + (IF bytes[n] < Byte \div 2 THEN 0 ELSE W)
        BY <1>1, <3>1 DEF Excess
      <3> DEFINE u == D[n]
                 v == D[SizeBytes]
      <3>3. u \in Int /\ v \in Int /\ (u = v \/ u = v + W)
        <4> HIDE DEF W, bytes, n
        <4> QED
          BY <3>1, <3>2
      <3> HIDE DEF u, v, W
      <3>4. x - u = (x - v) + 0 * W \/ x - u = (x - v) + (-1) * W
        BY <3>1, <3>3
      <3>5. x - u \in Int /\ x - v \in Int /\ 0 \in Int /\ -1 \in Int
        BY <3>1, <3>3
      <3> QED
        BY <3>4, <3>5 DEF u, v
    <2> HIDE DEF y, z, W, f
    <2>3. PICK q \in Int : y = z + q * W
      BY <2>2
    <2>4. (y % W) = (z % W)
      BY <1>0, <2>2, <2>3, SameModulo
    <2> QED
      BY <2>1, <2>4 DEF z
  <1> HIDE DEF f
  <1> QED
    BY <1>8, <1>9, <1>10

LEMMA HeadersAreRight ==
  ASSUME objsize \in 0 .. Shift[SizeBytes] - 1
  PROVE  HeaderReadsBack /\ ReadsSmallBytes
  <1>1. HeaderReadsBack
    <2> SUFFICES ASSUME NEW type \in 0 .. Byte - 1
                 PROVE  /\ SizeFound(Bytes(header(type, objsize), SizeBytes + 1)) = objsize
                        /\ TypeFound(Bytes(header(type, objsize), SizeBytes + 1)) = type
                             <=> type < Byte \div 2
      BY DEF HeaderReadsBack
    <2>1. header(type, objsize) = type + objsize * Byte
          /\ Bytes(type + objsize * Byte, SizeBytes + 1)[1] = type
      BY HeaderIs
    <2>2. SizeFound(Bytes(type + objsize * Byte, SizeBytes + 1)) = objsize
      BY SizeFoundIs
    <2>3. Char(type) = type <=> type < Byte \div 2
      BY HeaderAssumption DEF Char
    <2> QED
      BY <2>1, <2>2, <2>3 DEF TypeFound
  <1>2. ReadsSmallBytes
    <2> SUFFICES ASSUME NEW type \in 0 .. Byte - 1,
                        LET bytes == Bytes(type + objsize * Byte, SizeBytes + 1)
                        IN \A j \in 1 .. SizeBytes : bytes[j] < Byte \div 2
                 PROVE  ReadInteger(Bytes(type + objsize * Byte, SizeBytes + 1))
                          = type + objsize * Byte
      BY DEF ReadsSmallBytes
    <2> DEFINE x == type + objsize * Byte
               bytes == Bytes(x, SizeBytes + 1)
               W == Word
    <2>1. x \in 0 .. W - 1
      BY HeaderIs
    <2> HIDE DEF x
    <2>2. PICK D : Excess(bytes, D)
      BY ExcessExists
    <2>3. \A j \in 1 .. SizeBytes : bytes[j] < Byte \div 2
      BY DEF x
    <2>4. D[SizeBytes] = 0
      BY <2>2, <2>3, ExcessIs
    <2>5. ReadInteger(bytes) = (x - D[SizeBytes]) % W
      BY <2>1, <2>2, ReadIntegerIs
    <2>6. W \in Nat \ {0}
      BY ShiftIs, HeaderAssumption DEF Word
    <2> HIDE DEF bytes, W
    <2>7. x - D[SizeBytes] = x
      BY <2>1, <2>4, <2>6
    <2>8. ReadInteger(bytes) = x
      BY <2>1, <2>5, <2>6, <2>7, SmallModulo
    <2> QED
      BY <2>8 DEF bytes, x
  <1> QED
    BY <1>1, <1>2

-----------------------------------------------------------------------------
(* Both versions.                                                          *)

pairvars == <<vars, sigvars, filesize, objsize>>

PairInv ==
  /\ DeltaInv
  /\ target = << >> => Fresh
  /\ SignInv
  /\ filesize \in Nat /\ objsize \in 0 .. Shift[SizeBytes] - 1

LEMMA PairInitInvariant ==
  ASSUME PairInit
  PROVE  PairInv
  <1>1. Begun
    <2>1. << >> \in Seq(Alphabet) /\ Len(<< >>) = 0 /\ 1 \in Nat \ {0} /\ 0 <= MaxSource
      BY EmptySeq, DeltaAssumption
    <2> QED
      BY <2>1 DEF PairInit, NoDelta, Begun, Fresh
  <1>2. SignInv
    BY SignInit DEF PairInit
  <1>3. filesize \in Nat /\ objsize \in 0 .. Shift[SizeBytes] - 1
    <2>1. SizeBytes \in 0 .. SizeBytes + 1
      BY HeaderAssumption
    <2>2. Shift[SizeBytes] \in Nat \ {0}
      BY <2>1, ShiftIs
    <2> QED
      BY <2>2 DEF PairInit
  <1> QED
    BY <1>1, <1>2, <1>3, BegunRight DEF PairInit, NoDelta, Fresh, PairInv

\* What the signature's invariant depends on
LEMMA SignUnchanged ==
  ASSUME SignInv, UNCHANGED sigvars
  PROVE  SignInv'
  BY DEF SignInv, sigvars, Remembers, Entry

LEMMA PairNextInvariant ==
  ASSUME PairInv, [PairNext]_pairvars
  PROVE  PairInv'
  <1>1. DeltaInv /\ (target = << >> => Fresh) /\ SignInv
        /\ filesize \in Nat /\ objsize \in 0 .. Shift[SizeBytes] - 1
    BY DEF PairInv
  <1>2. ASSUME UNCHANGED vars PROVE DeltaInv' /\ (target = << >> => Fresh)'
    <2>1. DeltaInv'
      BY <1>1, <1>2, NothingChanges
    <2>2. (target = << >> => Fresh)'
      BY <1>1, <1>2 DEF vars, inputs, window, output, Fresh
    <2> QED
      BY <2>1, <2>2
  <1>3. CASE target = << >> /\ Sign!Next /\ UNCHANGED <<vars, filesize, objsize>>
    <2>1. SignInv'
      <3>1. CASE Sign!SignByte
        BY <1>1, <3>1, SignKeeps
      <3>2. CASE Sign!Done
        <4>1. UNCHANGED sigvars
          BY <3>2 DEF Sign!Done, Sign!vars, sigvars
        <4> QED
          BY <1>1, <4>1, SignUnchanged
      <3> QED
        BY <1>3, <3>1, <3>2 DEF Sign!Next
    <2> QED
      BY <1>1, <1>2, <1>3, <2>1 DEF PairInv
  <1>4. CASE BeginDelta
    <2>1. /\ target = << >> /\ Len(file) <= MaxSource /\ bsnt \in BlockSizes
          /\ source' = file /\ blocksize' = bsnt
          /\ target' \in FilesUpTo(MaxTarget, Alphabet) \ {<< >>}
          /\ use_zlib' \in BOOLEAN /\ dbuffer' = init(bsnt) /\ dhashes' = init(bsnt)
          /\ UNCHANGED <<dcurbytes, chash, output, bytespassed, tail, finished>>
          /\ UNCHANGED sigvars /\ filesize' = filesize /\ objsize' = objsize
      BY <1>4 DEF BeginDelta
    <2>2. Fresh'
      BY <1>1, <2>1 DEF Fresh, output
    <2>3. file \in Seq(Alphabet) /\ target' \in Seq(Alphabet) /\ bsnt \in Nat \ {0}
      BY <1>1, <2>1, FilesAre DEF SignInv
    <2>4. Begun'
      BY <2>1, <2>2, <2>3 DEF Begun
    <2>5. DeltaInv'
      <3>1. (Begun => DeltaInv)'
        BY BegunRight, PTL
      <3> QED
        BY <2>4, <3>1
    <2>6. SignInv'
      BY <1>1, <2>1, SignUnchanged
    <2> QED
      BY <1>1, <2>1, <2>2, <2>5, <2>6 DEF PairInv
  <1>5. CASE target # << >> /\ Next /\ UNCHANGED <<sigvars, filesize, objsize>>
    <2>1. DeltaInv'
      BY <1>1, <1>5, ByteKeeps, EndKeeps DEF Next
    <2>2. target' = target
      BY <1>5 DEF Next, ProcessByte, ProcessEnd, inputs
    <2>3. SignInv'
      BY <1>1, <1>5, SignUnchanged
    <2> QED
      BY <1>1, <1>5, <2>1, <2>2, <2>3 DEF PairInv
  <1>6. CASE NextSize
    <2>1. UNCHANGED vars /\ UNCHANGED sigvars
          /\ filesize' \in Nat /\ objsize' \in 0 .. Shift[SizeBytes] - 1
      <3>1. SizeBytes \in 0 .. SizeBytes + 1
        BY HeaderAssumption
      <3>2. Shift[SizeBytes] \in Nat \ {0}
        BY <3>1, ShiftIs
      <3> QED
        BY <1>1, <1>6, <3>2 DEF NextSize, LargerFile, LargerObject
    <2> QED
      BY <1>1, <1>2, <2>1, SignUnchanged DEF PairInv
  <1>7. CASE UNCHANGED pairvars
    <2>1. UNCHANGED vars /\ UNCHANGED sigvars /\ filesize' = filesize /\ objsize' = objsize
      BY <1>7 DEF pairvars
    <2> QED
      BY <1>1, <1>2, <2>1, SignUnchanged DEF PairInv
  <1> QED
    BY <1>3, <1>4, <1>5, <1>6, <1>7 DEF PairNext

THEOREM PairInvariant == PairSpec => []PairInv
  <1>1. PairInit => PairInv
    BY PairInitInvariant
  <1>2. PairInv /\ [PairNext]_pairvars => PairInv'
    BY PairNextInvariant
  <1> QED
    BY <1>1, <1>2, PTL DEF PairSpec, pairvars

LEMMA PairIsRight ==
  PairInv => /\ DeltaPrefix /\ NothingMissed /\ CommandsReadable /\ RestoresUpToTail
             /\ SignaturePrefix /\ SignaturePays /\ NearlyOptimal
             /\ HeaderReadsBack /\ ReadsSmallBytes
  <1> SUFFICES ASSUME PairInv
               PROVE  /\ DeltaPrefix /\ NothingMissed /\ CommandsReadable /\ RestoresUpToTail
                      /\ SignaturePrefix /\ SignaturePays /\ NearlyOptimal
                      /\ HeaderReadsBack /\ ReadsSmallBytes
    OBVIOUS
  <1>1. DeltaPrefix /\ NothingMissed /\ CommandsReadable /\ RestoresUpToTail
    BY DeltaIsRight DEF PairInv
  <1>2. SignaturePrefix
    BY SignInvIs DEF PairInv, SignaturePrefix
  <1>3. filesize \in Nat
    BY DEF PairInv
  <1>4. SignaturePays
    BY <1>3, SignaturePaysFor DEF SignaturePays
  <1>5. NearlyOptimal
    <2> SUFFICES ASSUME ~no_signature(filesize), NEW c \in 1 .. 2 * bsntFor(filesize, TRUE)
                 PROVE  20 * AddedTimes(filesize, bsntFor(filesize, TRUE)) * c
                          <= 21 * AddedTimes(filesize, c) * bsntFor(filesize, TRUE)
      BY DEF NearlyOptimal
    <2>1. filesize > 581
      <3>1. ~(filesize <= THRESHOLD_DELTA)
        BY DEF no_signature
      <3> QED
        BY <1>3, <3>1, Threshold
    <2>2. c \in Nat
      <3>1. \A emb \in BOOLEAN : bsntFor(filesize, emb) \in 49 .. filesize
        BY <1>3, <2>1, BlockSizeIs
      <3>2. bsntFor(filesize, TRUE) \in 49 .. filesize
        BY <3>1
      <3> QED
        BY <1>3, <3>2
    <2> QED
      BY <1>3, <2>1, <2>2, NearlyOptimalFor
  <1>6. HeaderReadsBack /\ ReadsSmallBytes
    BY HeadersAreRight DEF PairInv
  <1> QED
    BY <1>1, <1>2, <1>4, <1>5, <1>6

-----------------------------------------------------------------------------
(* Theorems.                                                               *)

\* Whatever bytes process() is given, in whatever order matches, flushes and
\* end come: what the delta restores, dbuf and the window are together the
\* bytes so far, none lost and none twice.
THEOREM DeltasKeepUp == PairSpec => []DeltaPrefix
  BY PairInvariant, PairIsRight, PTL

\* The rolling hash is the hash of the window in every step, before and after
\* each reset, and so no block of the predecessor in the window is overlooked.
THEOREM NoMatchIsMissed == PairSpec => []NothingMissed
  BY PairInvariant, PairIsRight, PTL

\* With and without difference coding a reader can tell the command words of
\* a delta apart, provided that a word has room for block numbers and lengths.
THEOREM CommandsAreReadable == PairSpec => []CommandsReadable
  BY PairInvariant, PairIsRight, PTL

\* The end-of-file branch of process() completes the delta to the length of
\* the file; what may differ is the last window, if it is not full.
THEOREM DeltasRestore == PairSpec => []RestoresUpToTail
  BY PairInvariant, PairIsRight, PTL

\* The signature that process() computes byte by byte is the one of the full
\* blocks, and fills the store that the constructor has allocated, not more.
THEOREM SignaturesAreRight == PairSpec => []SignaturePrefix
  BY PairInvariant, PairIsRight, PTL

\* From the threshold on, a signature is smaller than its file for every size,
\* whichever of the constructor's two block sizes it has.
THEOREM SignaturesPay == PairSpec => []SignaturePays
  BY PairInvariant, PairIsRight, PTL

\* For every file size the constructor's embedded block size is within 5 % of
\* the best one by the measure of docs/ru.rtf.
THEOREM BlockSizesAreGood == PairSpec => []NearlyOptimal
  BY PairInvariant, PairIsRight, PTL

\* Whatever the size of an object, as long as it fits into its bytes, datacheck
\* takes it and the flags out of the header as commit() has put them in.
THEOREM HeadersReadBack == PairSpec => []HeaderReadsBack
  BY PairInvariant, PairIsRight, PTL

\* read_integer of svslib/stream_helper.h, which extends the sign of each char,
\* reads every header whose bytes before the last one are small.
THEOREM SmallBytesRead == PairSpec => []ReadsSmallBytes
  BY PairInvariant, PairIsRight, PTL
=============================================================================
