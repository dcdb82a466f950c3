-------------------------- MODULE DirectoryProofs --------------------------
(***************************************************************************)
(* Proofs about Directory, for every block size, every number of addresses *)
(* in a block and every directory: the ext2 block map finds each block of  *)
(* the file, a listing has every entry once, and a search finds what is    *)
(* there and nothing else.                                                 *)
(*                                                                         *)
(* What the recursive functions compute is shown by taking the smallest    *)
(* argument for which it would be something else.                          *)
(***************************************************************************)
EXTENDS Directory, TLAPS, SequenceTheorems, WellFoundedInduction

-----------------------------------------------------------------------------
(* Numbers and sequences. *)

LEMMA Smallest ==
    ASSUME NEW S \in SUBSET Nat, S # {}
    PROVE  \E m \in S : \A j \in S : m <= j
<1>1. PICK m \in S : \A y \in S : ~(<<y, m>> \in OpToRel(<, Nat))
  BY NatLessThanWellFounded, WFMin
<1>2. \A y \in S : ~(y < m)
  BY <1>1 DEF OpToRel
<1> QED BY <1>2

\* Division with a remainder.
LEMMA Quotient ==
    ASSUME NEW L \in Nat \ {0}, NEW q \in Nat, NEW r \in 0 .. L - 1
    PROVE  (q * L + r) \div L = q /\ (q * L + r) % L = r
OBVIOUS

LEMMA Divided ==
    ASSUME NEW L \in Nat \ {0}, NEW x \in Nat
    PROVE  /\ x \div L \in Nat /\ x % L \in 0 .. L - 1
           /\ x = (x \div L) * L + (x % L)
<1> DEFINE Ok(y) == \E q \in Nat : \E r \in 0 .. L - 1 : y = q * L + r
           Bad   == {y \in Nat : ~Ok(y)}
<1>1. Bad = {}
  <2> SUFFICES ASSUME Bad # {} PROVE FALSE
    OBVIOUS
  <2>1. PICK m \in Bad : \A j \in Bad : m <= j
    <3>1. Bad \in SUBSET Nat
      OBVIOUS
    <3> HIDE DEF Bad
    <3> QED BY <3>1, Smallest
  <2>2. m \in Nat /\ ~Ok(m)
    BY <2>1
  <2>3. m # 0
    <3>1. 0 = 0 * L + 0 /\ 0 \in 0 .. L - 1
      OBVIOUS
    <3> QED BY <2>2, <3>1
  <2>4. m - 1 \in Nat /\ ~(m <= m - 1)
    BY <2>2, <2>3
  <2>5. Ok(m - 1)
    BY <2>1, <2>4
  <2>6. PICK q \in Nat : \E r \in 0 .. L - 1 : m - 1 = q * L + r
    BY <2>5
  <2>7. PICK r \in 0 .. L - 1 : m - 1 = q * L + r
    BY <2>6
  <2>8. q * L \in Nat
    OBVIOUS
  <2>9. CASE r # L - 1
    <3>1. r + 1 \in 0 .. L - 1 /\ m = q * L + (r + 1)
      BY <2>2, <2>7, <2>8, <2>9
    <3> QED BY <2>2, <3>1
  <2>10. CASE r = L - 1
    <3>1. (q + 1) * L = q * L + L
      OBVIOUS
    <3>2. m = (q + 1) * L + 0 /\ 0 \in 0 .. L - 1 /\ q + 1 \in Nat
      BY <2>2, <2>7, <2>8, <2>10, <3>1
    <3> QED BY <2>2, <3>2
  <2> QED BY <2>9, <2>10
<1>2. Ok(x)
  BY <1>1
<1>3. PICK q \in Nat : \E r \in 0 .. L - 1 : x = q * L + r
  BY <1>2
<1>4. PICK r \in 0 .. L - 1 : x = q * L + r
  BY <1>3
<1>5. x \div L = q /\ x % L = r
  BY <1>4, Quotient
<1> QED BY <1>4, <1>5

\* A number below n * L lies in one of n intervals of length L.
LEMMA Interval ==
    ASSUME NEW L \in Nat \ {0}, NEW n \in Nat, NEW x \in Nat, x < n * L
    PROVE  x \div L < n
<1>1. PICK q \in Nat, r \in 0 .. L - 1 : q = x \div L /\ x = q * L + r
  BY Divided
<1>2. ASSUME n <= q PROVE FALSE
  <2>1. PICK d \in Nat : q = n + d
    <3>1. q - n \in Nat /\ q = n + (q - n)
      BY <1>2
    <3> QED BY <3>1
  <2>2. q * L = n * L + d * L /\ d * L \in Nat /\ n * L \in Nat
    BY <2>1
  <2> QED BY <1>1, <2>2
<1> QED BY <1>1, <1>2

-----------------------------------------------------------------------------
(* Joined. *)

Upto(u, s, n) == u = [k \in 0 .. n |-> IF k = 0 THEN <<>> ELSE u[k - 1] \o s[k]]

LEMMA UptoExists ==
    ASSUME NEW s, NEW n \in Nat
    PROVE  \E u : Upto(u, s, n)
<1> DEFINE Ok(m) == \E u : Upto(u, s, m)
           Bad   == {m \in Nat : ~Ok(m)}
<1>1. SUFFICES ASSUME ~Ok(n) PROVE FALSE
  OBVIOUS
<1>2. PICK m \in Bad : \A j \in Bad : m <= j
  <2>1. n \in Bad
    BY <1>1
  <2>2. Bad \in SUBSET Nat
    OBVIOUS
  <2> HIDE DEF Bad
  <2> QED BY <2>1, <2>2, Smallest
<1>3. m # 0
  <2>1. PICK u : u = [k \in 0 .. 0 |-> <<>>]
    OBVIOUS
  <2>2. Upto(u, s, 0)
    BY <2>1 DEF Upto
  <2> QED BY <1>2, <2>2
<1>4. m - 1 \in Nat /\ ~(m <= m - 1)
  BY <1>2, <1>3
<1>5. PICK v : Upto(v, s, m - 1)
  BY <1>2, <1>4
<1>6. PICK u : u = [k \in 0 .. m |-> IF k = m THEN v[m - 1] \o s[m] ELSE v[k]]
  OBVIOUS
<1>7. ASSUME NEW k \in 0 .. m
      PROVE  u[k] = IF k = 0 THEN <<>> ELSE u[k - 1] \o s[k]
  <2>1. CASE k = m
    <3>1. m - 1 \in 0 .. m /\ m - 1 # m
      BY <1>4
    <3>2. u[k] = v[m - 1] \o s[m] /\ u[m - 1] = v[m - 1]
      BY <1>6, <1>7, <2>1, <3>1
    <3> QED BY <1>3, <2>1, <3>2
  <2>2. CASE k # m
    <3>1. k \in 0 .. m - 1 /\ u[k] = v[k]
      BY <1>4, <1>6, <1>7, <2>2
    <3>2. v[k] = IF k = 0 THEN <<>> ELSE v[k - 1] \o s[k]
      BY <1>5, <3>1 DEF Upto
    <3>3. k # 0 => u[k - 1] = v[k - 1]
      BY <1>4, <1>6, <1>7, <2>2
    <3> QED BY <3>1, <3>2, <3>3
  <2> QED BY <2>1, <2>2
<1>8. Upto(u, s, m)
  BY <1>6, <1>7 DEF Upto
<1> QED BY <1>2, <1>8

\* There is only one.
Agree(s, z, m) == \A k \in 1 .. m : s[k] = z[k]

LEMMA UptoUnique ==
    ASSUME NEW s, NEW z, NEW n \in Nat, NEW m \in Nat, NEW u, NEW v,
           m <= n, Agree(s, z, m), Upto(u, s, n), Upto(v, z, m)
    PROVE  u[m] = v[m]
<1> DEFINE Bad == {k \in 0 .. m : u[k] # v[k]}
<1>1. SUFFICES ASSUME Bad # {} PROVE FALSE
  <2>1. m \in 0 .. m
    OBVIOUS
  <2> QED BY <2>1
<1>2. PICK k \in Bad : \A j \in Bad : k <= j
  <2>1. Bad \in SUBSET Nat
    OBVIOUS
  <2> HIDE DEF Bad
  <2> QED BY <1>1, <2>1, Smallest
<1>3. k \in 0 .. m /\ k \in 0 .. n /\ u[k] # v[k]
  BY <1>2
<1>4. /\ u[k] = IF k = 0 THEN <<>> ELSE u[k - 1] \o s[k]
      /\ v[k] = IF k = 0 THEN <<>> ELSE v[k - 1] \o z[k]
  BY <1>3 DEF Upto
<1>5. k # 0
  BY <1>3, <1>4
<1>6. k - 1 \in 0 .. m /\ ~(k <= k - 1) /\ k \in 1 .. m
  BY <1>3, <1>5
<1>7. u[k - 1] = v[k - 1]
  BY <1>2, <1>6
<1>8. s[k] = z[k]
  BY <1>6 DEF Agree
<1> QED BY <1>3, <1>4, <1>5, <1>7, <1>8

LEMMA JoinedUpto ==
    ASSUME NEW s, NEW n \in Nat, Len(s) = n
    PROVE  \E u : Upto(u, s, n) /\ Joined(s) = u[n]
<1> DEFINE upto[k \in 0 .. Len(s)] == IF k = 0 THEN <<>> ELSE upto[k - 1] \o s[k]
<1>1. Upto(upto, s, n)
  <2>1. \E u : Upto(u, s, Len(s))
    BY UptoExists
  <2> QED BY <2>1 DEF Upto
<1>2. Joined(s) = upto[n]
  BY DEF Joined
<1> HIDE DEF upto
<1> QED BY <1>1, <1>2

\* One more sequence.
LEMMA JoinedNext ==
    ASSUME NEW f, NEW n \in Nat
    PROVE  /\ Joined([k \in 1 .. 0 |-> f[k]]) = <<>>
           /\ Joined([k \in 1 .. n + 1 |-> f[k]]) = Joined([k \in 1 .. n |-> f[k]]) \o f[n + 1]
<1>1. PICK e, s, z, N : /\ e = [k \in 1 .. 0 |-> f[k]]
                        /\ s = [k \in 1 .. n + 1 |-> f[k]] /\ z = [k \in 1 .. n |-> f[k]]
                        /\ N = n + 1
  OBVIOUS
<1>2. N \in Nat /\ n <= N /\ Len(e) = 0 /\ Len(s) = N /\ Len(z) = n
  BY <1>1
<1>3. PICK u : Upto(u, e, 0) /\ Joined(e) = u[0]
  BY <1>2, JoinedUpto
<1>4. Joined(e) = <<>>
  BY <1>3 DEF Upto
<1>5. PICK v : Upto(v, s, N) /\ Joined(s) = v[N]
  BY <1>2, JoinedUpto
<1>6. PICK w : Upto(w, z, n) /\ Joined(z) = w[n]
  BY <1>2, JoinedUpto
<1>7. Agree(s, z, n)
  BY <1>1 DEF Agree
<1>8. v[n] = w[n]
  BY <1>2, <1>5, <1>6, <1>7, UptoUnique
<1>9. v[N] = v[n] \o s[N]
  <2>1. N \in 0 .. N /\ N # 0 /\ N - 1 = n
    BY <1>1
  <2> QED BY <1>5, <2>1 DEF Upto
<1>10. s[N] = f[N] /\ v[n] = w[n]
  BY <1>1, <1>8
<1> QED BY <1>1, <1>4, <1>5, <1>6, <1>9, <1>10

-----------------------------------------------------------------------------
(* Joining sequences of the same length. *)

Even(f, n, L) == \A k \in 1 .. n : f[k] = [r \in 1 .. L |-> f[k][r]]
Flat(f, L, n) == [j \in 1 .. n * L |-> f[((j - 1) \div L) + 1][((j - 1) % L) + 1]]
Values(f, n, L) == {f[k][r] : k \in 1 .. n, r \in 1 .. L}

LEMMA FlatTyped ==
    ASSUME NEW f, NEW n \in Nat, NEW L \in Nat \ {0}, NEW m \in Nat, m <= n
    PROVE  Flat(f, L, m) \in Seq(Values(f, n, L)) /\ Len(Flat(f, L, m)) = m * L
<1>1. PICK M \in Nat : M = m * L
  OBVIOUS
<1>2. ASSUME NEW j \in 1 .. M
      PROVE  f[((j - 1) \div L) + 1][((j - 1) % L) + 1] \in Values(f, n, L)
  <2>1. j - 1 \in Nat /\ j - 1 < m * L
    BY <1>1
  <2>2. PICK q, r : q = (j - 1) \div L /\ r = (j - 1) % L
    OBVIOUS
  <2>3. q \in Nat /\ q < m /\ r \in 0 .. L - 1
    BY <2>1, <2>2, Divided, Interval
  <2>4. q + 1 \in 1 .. n /\ r + 1 \in 1 .. L
    BY <2>3
  <2> QED BY <2>2, <2>4 DEF Values
<1>3. Flat(f, L, m) = [j \in 1 .. M |-> f[((j - 1) \div L) + 1][((j - 1) % L) + 1]]
  BY <1>1 DEF Flat
<1>4. Flat(f, L, m) \in [1 .. M -> Values(f, n, L)]
  BY <1>2, <1>3
<1> QED BY <1>1, <1>4

LEMMA FlatNext ==
    ASSUME NEW f, NEW n \in Nat, NEW L \in Nat \ {0}, Even(f, n, L), NEW m \in 1 .. n
    PROVE  Flat(f, L, m) = Flat(f, L, m - 1) \o f[m]
<1>1. PICK x, y, z, S : /\ x = Flat(f, L, m - 1) /\ y = f[m] /\ z = Flat(f, L, m)
                        /\ S = Values(f, n, L)
  OBVIOUS
<1>2. PICK M \in Nat : M = (m - 1) * L
  OBVIOUS
<1>3. m * L = M + L
  <2>1. PICK p \in Nat : p = m - 1 /\ m = p + 1
    OBVIOUS
  <2>2. (p + 1) * L = p * L + L
    OBVIOUS
  <2> QED BY <1>2, <2>1, <2>2
<1>4. x \in Seq(S) /\ Len(x) = M /\ z \in Seq(S) /\ Len(z) = M + L
  <2>1. m - 1 \in Nat /\ m - 1 <= n /\ m \in Nat /\ m <= n
    OBVIOUS
  <2> QED BY <1>1, <1>2, <1>3, <2>1, FlatTyped
<1>5. y \in Seq(S) /\ Len(y) = L
  <2>1. y = [r \in 1 .. L |-> y[r]]
    BY <1>1 DEF Even
  <2>2. \A r \in 1 .. L : y[r] \in S
    BY <1>1 DEF Values
  <2>3. y \in [1 .. L -> S]
    BY <2>1, <2>2
  <2> QED BY <2>3
<1>6. x \o y \in Seq(S) /\ Len(x \o y) = M + L
  BY <1>4, <1>5
<1>7. ASSUME NEW j \in 1 .. M + L
      PROVE  (x \o y)[j] = z[j]
  <2>1. z[j] = f[((j - 1) \div L) + 1][((j - 1) % L) + 1]
    BY <1>1, <1>3 DEF Flat
  <2>2. CASE j <= M
    <3>1. j \in 1 .. (m - 1) * L
      BY <1>2, <2>2
    <3>2. x[j] = f[((j - 1) \div L) + 1][((j - 1) % L) + 1]
      BY <1>1, <3>1 DEF Flat
    <3>3. (x \o y)[j] = x[j]
      BY <1>4, <1>5, <2>2
    <3> QED BY <2>1, <3>2, <3>3
  <2>3. CASE j > M
    <3>1. PICK r \in 1 .. L : j = M + r
      BY <2>3
    <3>2. PICK p \in Nat, c \in 0 .. L - 1 : p = m - 1 /\ c = r - 1
      OBVIOUS
    <3>3. j - 1 = p * L + c
      BY <1>2, <3>1, <3>2
    <3>4. (j - 1) \div L = p /\ (j - 1) % L = c
      BY <3>3, Quotient
    <3>5. p + 1 = m /\ c + 1 = r
      BY <3>2
    <3>6. z[j] = f[m][r]
      BY <2>1, <3>4, <3>5
    <3>7. (x \o y)[j] = y[r]
      <4>1. j \in 1 .. Len(x) + Len(y) /\ ~(j <= Len(x)) /\ j - Len(x) = r
        BY <1>4, <1>5, <3>1
      <4>2. (x \o y)[j] = IF j <= Len(x) THEN x[j] ELSE y[j - Len(x)]
        BY <1>4, <1>5, <4>1, ConcatProperties
      <4> QED BY <4>1, <4>2
    <3> QED BY <1>1, <3>6, <3>7
  <2>4. j <= M \/ j > M
    OBVIOUS
  <2> QED BY <2>2, <2>3, <2>4
<1>8. x \o y = z
  BY <1>4, <1>6, <1>7, SeqEqual
<1> QED BY <1>1, <1>8

LEMMA JoinedFlat ==
    ASSUME NEW f, NEW n \in Nat, NEW L \in Nat \ {0}, Even(f, n, L)
    PROVE  Joined([k \in 1 .. n |-> f[k]]) = Flat(f, L, n)
<1> DEFINE Front(m) == Joined([k \in 1 .. m |-> f[k]])
           Bad == {m \in 0 .. n : Front(m) # Flat(f, L, m)}
<1>1. SUFFICES ASSUME Bad # {} PROVE FALSE
  <2>1. n \in 0 .. n
    OBVIOUS
  <2> QED BY <2>1
<1>2. PICK m \in Bad : \A j \in Bad : m <= j
  <2>1. Bad \in SUBSET Nat
    OBVIOUS
  <2> HIDE DEF Bad
  <2> QED BY <1>1, <2>1, Smallest
<1>3. m \in 0 .. n /\ Front(m) # Flat(f, L, m)
  BY <1>2
<1>4. Front(0) = <<>> /\ \A k \in Nat : Front(k + 1) = Front(k) \o f[k + 1]
  BY JoinedNext
<1>10. \A k, l \in Nat : l = k + 1 => Front(l) = Front(k) \o f[l]
  BY <1>4, Zenon
<1>5. m # 0
  <2>1. Flat(f, L, 0) \in Seq(Values(f, n, L)) /\ Len(Flat(f, L, 0)) = 0
    <3>1. 0 * L = 0 /\ 0 \in Nat /\ 0 <= n
      OBVIOUS
    <3> QED BY <3>1, FlatTyped
  <2>2. Flat(f, L, 0) = <<>>
    BY <2>1, EmptySeq
  <2> HIDE DEF Front
  <2> QED BY <1>3, <1>4, <2>2
<1>6. PICK p \in 0 .. n : p = m - 1 /\ m = p + 1 /\ m \in 1 .. n /\ ~(m <= p)
  BY <1>3, <1>5
<1>7. Front(p) = Flat(f, L, p)
  BY <1>2, <1>6
<1> HIDE DEF Front
<1>8. Front(m) = Front(p) \o f[m]
  <2>1. p \in Nat /\ m \in Nat /\ m = p + 1
    BY <1>6
  <2> QED BY <2>1, <1>10, Zenon
<1>9. Flat(f, L, m) = Flat(f, L, p) \o f[m]
  BY <1>6, FlatNext
<1> QED BY <1>3, <1>7, <1>8, <1>9

-----------------------------------------------------------------------------
(* Sequences whose elements are anything. *)

Sized(x, m) == m \in Nat /\ x = [k \in 1 .. m |-> x[k]]

LEMMA SizedLen ==
    ASSUME NEW x, NEW m, Sized(x, m)
    PROVE  x \in Seq({x[k] : k \in 1 .. m}) /\ Len(x) = m
<1>1. x \in [1 .. m -> {x[k] : k \in 1 .. m}] /\ m \in Nat
  BY DEF Sized
<1> QED BY <1>1

LEMMA SeqSized ==
    ASSUME NEW S, NEW x \in Seq(S)
    PROVE  Sized(x, Len(x))
BY LenProperties DEF Sized

\* z, of length l, is x and then y.
Splits(x, m, y, n, z, l) ==
    /\ Sized(x, m) /\ Sized(y, n) /\ Sized(z, l) /\ l = m + n
    /\ \A k \in 1 .. m : z[k] = x[k]
    /\ \A k \in 1 .. n : z[m + k] = y[k]

LEMMA Appended ==
    ASSUME NEW x, NEW m, NEW y, NEW n, NEW z, NEW l,
           Sized(x, m), Sized(y, n), z = x \o y, l = m + n
    PROVE  Splits(x, m, y, n, z, l)
<1>8. m \in Nat /\ n \in Nat
  BY DEF Sized
<1>1. PICK S : S = {x[k] : k \in 1 .. m} \cup {y[k] : k \in 1 .. n}
  OBVIOUS
<1>2. x \in [1 .. m -> S] /\ y \in [1 .. n -> S]
  BY <1>1, <1>8 DEF Sized
<1>3. x \in Seq(S) /\ Len(x) = m /\ y \in Seq(S) /\ Len(y) = n
  BY <1>2, <1>8
<1>4. z \in Seq(S) /\ Len(z) = l
  <2>1. x \o y \in Seq(S) /\ Len(x \o y) = Len(x) + Len(y)
    BY <1>3, ConcatProperties
  <2> QED BY <1>3, <2>1, Zenon
<1>5. Sized(z, l)
  BY <1>4, SeqSized
<1>6. \A k \in 1 .. m : z[k] = x[k]
  BY <1>2, <1>3
<1>7. ASSUME NEW k \in 1 .. n
      PROVE  z[m + k] = y[k]
  <2>1. m + k \in 1 .. Len(x) + Len(y) /\ ~(m + k <= Len(x)) /\ (m + k) - Len(x) = k
    BY <1>2, <1>3, <1>8
  <2>2. (x \o y)[m + k] = IF m + k <= Len(x) THEN x[m + k] ELSE y[(m + k) - Len(x)]
    BY <1>3, <2>1, ConcatProperties
  <2> QED BY <2>1, <2>2
<1> QED BY <1>5, <1>6, <1>7, <1>8 DEF Splits

-----------------------------------------------------------------------------
(* The block map. *)

LEMMA Level2 ==
    ASSUME NEW b
    PROVE  Leaves2(b) = [j \in 1 .. Addrs * Addrs |-> Dind(j - 1, b)]
<1>1. PICK f : f = [k \in 1 .. Addrs |-> Leaves1(Index[b][k - 1])]
  OBVIOUS
<1>2. Addrs \in Nat \ {0}
  BY DirConstants
<1>3. Even(f, Addrs, Addrs)
  BY <1>1 DEF Even, Leaves1
<1>4. Leaves2(b) = Joined([k \in 1 .. Addrs |-> f[k]])
  <2>1. f = [k \in 1 .. Addrs |-> f[k]]
    BY <1>1
  <2> QED BY <1>1, <2>1 DEF Leaves2
<1>5. Leaves2(b) = Flat(f, Addrs, Addrs)
  BY <1>2, <1>3, <1>4, JoinedFlat
<1>6. ASSUME NEW j \in 1 .. Addrs * Addrs
      PROVE  f[((j - 1) \div Addrs) + 1][((j - 1) % Addrs) + 1] = Dind(j - 1, b)
  <2>1. PICK x \in Nat : x = j - 1 /\ x < Addrs * Addrs
    BY <1>2
  <2>2. PICK q, r : q = x \div Addrs /\ r = x % Addrs
    OBVIOUS
  <2>3. q \in Nat /\ q < Addrs /\ r \in 0 .. Addrs - 1
    BY <1>2, <2>1, <2>2, Divided, Interval
  <2>4. q + 1 \in 1 .. Addrs /\ (q + 1) - 1 = q /\ r + 1 \in 1 .. Addrs /\ (r + 1) - 1 = r
    BY <1>2, <2>3
  <2>5. f[q + 1] = Leaves1(Index[b][q])
    BY <1>1, <2>4
  <2>6. f[q + 1][r + 1] = Index[Index[b][q]][r]
    BY <2>4, <2>5 DEF Leaves1
  <2> QED BY <2>1, <2>2, <2>6 DEF Dind, Ind
<1> QED BY <1>5, <1>6 DEF Flat

LEMMA Level3 ==
    ASSUME NEW b
    PROVE  Leaves3(b) = [j \in 1 .. Addrs * Addrs * Addrs |-> Tind(j - 1, b)]
<1>1. PICK f : f = [k \in 1 .. Addrs |-> Leaves2(Index[b][k - 1])]
  OBVIOUS
<1>2. PICK L : L = Addrs * Addrs
  OBVIOUS
<1>3. Addrs \in Nat \ {0} /\ L \in Nat \ {0} /\ Addrs * Addrs * Addrs = Addrs * L
  <2>1. Addrs \in Nat \ {0}
    BY DirConstants
  <2>2. Addrs * Addrs \in Nat \ {0}
    BY <2>1
  <2> QED BY <1>2, <2>1, <2>2
<1>4. \A k \in 1 .. Addrs : f[k] = [r \in 1 .. L |-> Dind(r - 1, Index[b][k - 1])]
  BY <1>1, <1>2, Level2
<1>5. Even(f, Addrs, L)
  BY <1>4 DEF Even
<1>6. Leaves3(b) = Joined([k \in 1 .. Addrs |-> f[k]])
  <2>1. f = [k \in 1 .. Addrs |-> f[k]]
    BY <1>1
  <2> QED BY <1>1, <2>1 DEF Leaves3
<1>7. Leaves3(b) = Flat(f, L, Addrs)
  BY <1>3, <1>5, <1>6, JoinedFlat
<1>8. ASSUME NEW j \in 1 .. Addrs * L
      PROVE  f[((j - 1) \div L) + 1][((j - 1) % L) + 1] = Tind(j - 1, b)
  <2>1. PICK x \in Nat : x = j - 1 /\ x < Addrs * L
    BY <1>3
  <2>2. PICK q, r : q = x \div L /\ r = x % L
    OBVIOUS
  <2>3. q \in Nat /\ q < Addrs /\ r \in 0 .. L - 1
    BY <1>3, <2>1, <2>2, Divided, Interval
  <2>4. q + 1 \in 1 .. Addrs /\ (q + 1) - 1 = q /\ r + 1 \in 1 .. L /\ (r + 1) - 1 = r
    BY <1>3, <2>3
  <2>5. f[q + 1] = [i \in 1 .. L |-> Dind(i - 1, Index[b][q])]
    BY <1>4, <2>4
  <2>6. f[q + 1][r + 1] = Dind(r, Index[b][q])
    BY <2>4, <2>5
  <2>7. Tind(x, b) = Dind(r, Index[b][q])
    BY <1>2, <2>2 DEF Tind
  <2> QED BY <2>1, <2>2, <2>6, <2>7
<1> QED BY <1>3, <1>7, <1>8 DEF Flat

\* inode_get_data_pblock returns block l of the layout, for each block number
\* that an ext2 inode can map: with no division wrong, none at a boundary between
\* direct blocks and the levels of indexes, and none past the last.
THEOREM BlocksFound ==
    /\ Len(Leaves) = MaxTind
    /\ \A l \in 0 .. MaxTind - 1 : GetDataPblock(l) = Leaves[l + 1]
<1>1. PICK a, b, c, d, A1, A2, A3 :
          /\ a = [k \in 1 .. NDir |-> IBlock[k - 1]] /\ b = Leaves1(IBlock[NDir])
          /\ c = Leaves2(IBlock[NDir + 1]) /\ d = Leaves3(IBlock[NDir + 2])
          /\ A1 = Addrs /\ A2 = Addrs * Addrs /\ A3 = Addrs * Addrs * Addrs
  OBVIOUS
<1>2. NDir \in Nat /\ A1 \in Nat /\ A2 \in Nat /\ A3 \in Nat
  <2>1. Addrs \in Nat /\ NDir \in Nat
    BY DirConstants
  <2>2. Addrs * Addrs \in Nat
    BY <2>1
  <2> QED BY <1>1, <2>1, <2>2
<1>3. Sized(a, NDir) /\ Sized(b, A1)
  BY <1>1, <1>2 DEF Sized, Leaves1
<1>4. Sized(c, A2) /\ \A j \in 1 .. A2 : c[j] = Dind(j - 1, IBlock[NDir + 1])
  BY <1>1, <1>2, Level2 DEF Sized
<1>5. Sized(d, A3) /\ \A j \in 1 .. A3 : d[j] = Tind(j - 1, IBlock[NDir + 2])
  BY <1>1, <1>2, Level3 DEF Sized
<1>6. PICK N1, N2, N3 : N1 = NDir + A1 /\ N2 = N1 + A2 /\ N3 = N2 + A3
  OBVIOUS
<1>14. N1 \in Nat /\ N2 \in Nat /\ N3 \in Nat
  BY <1>2, <1>6
<1>7. PICK ab, abc, abcd : ab = a \o b /\ abc = ab \o c /\ abcd = abc \o d
  OBVIOUS
<1>8. Splits(a, NDir, b, A1, ab, N1)
  BY <1>3, <1>6, <1>7, Appended
<1>9. Splits(ab, N1, c, A2, abc, N2)
  <2>1. Sized(ab, N1)
    BY <1>8 DEF Splits
  <2> QED BY <1>4, <1>6, <1>7, <2>1, Appended
<1>10. Splits(abc, N2, d, A3, abcd, N3)
  <2>1. Sized(abc, N2)
    BY <1>9 DEF Splits
  <2> QED BY <1>5, <1>6, <1>7, <2>1, Appended
<1>11. Leaves = abcd /\ MaxInd = N1 /\ MaxDind = N2 /\ MaxTind = N3
  BY <1>1, <1>6, <1>7 DEF Leaves, MaxInd, MaxDind, MaxTind
<1>12. Len(abcd) = N3
  BY <1>10, SizedLen DEF Splits
<1>13. ASSUME NEW l \in 0 .. N3 - 1
       PROVE  GetDataPblock(l) = abcd[l + 1]
  <2>1. CASE l < NDir
    <3>1. l + 1 \in 1 .. NDir /\ (l + 1) - 1 = l /\ l + 1 \in 1 .. N1 /\ l + 1 \in 1 .. N2
      BY <1>2, <1>6, <2>1
    <3>2. abcd[l + 1] = IBlock[l]
      BY <1>1, <1>8, <1>9, <1>10, <3>1 DEF Splits
    <3> QED BY <2>1, <3>2 DEF GetDataPblock
  <2>2. CASE ~(l < NDir) /\ l < N1
    <3>1. PICK k \in 1 .. A1 : l + 1 = NDir + k /\ l - NDir = k - 1
      <4>1. l + 1 - NDir \in 1 .. A1 /\ l + 1 = NDir + (l + 1 - NDir)
            /\ l - NDir = (l + 1 - NDir) - 1
        BY <1>2, <1>6, <2>2
      <4> QED BY <4>1
    <3>2. l + 1 \in 1 .. N1 /\ l + 1 \in 1 .. N2
      BY <1>2, <1>6, <2>2
    <3>3. abcd[l + 1] = b[k]
      BY <1>8, <1>9, <1>10, <3>1, <3>2 DEF Splits
    <3>4. b[k] = Index[IBlock[NDir]][l - NDir]
      BY <1>1, <3>1 DEF Leaves1
    <3> QED BY <1>11, <2>2, <3>3, <3>4 DEF GetDataPblock, Ind
  <2>3. CASE ~(l < NDir) /\ ~(l < N1) /\ l < N2
    <3>1. PICK k \in 1 .. A2 : l + 1 = N1 + k /\ l - N1 = k - 1
      <4>1. l + 1 - N1 \in 1 .. A2 /\ l + 1 = N1 + (l + 1 - N1)
            /\ l - N1 = (l + 1 - N1) - 1
        BY <1>2, <1>6, <2>3
      <4> QED BY <4>1
    <3>2. l + 1 \in 1 .. N2
      BY <1>2, <1>6, <2>3
    <3>3. abcd[l + 1] = c[k]
      BY <1>9, <1>10, <3>1, <3>2 DEF Splits
    <3>4. c[k] = Dind(l - N1, IBlock[NDir + 1])
      BY <1>4, <3>1
    <3> QED BY <1>11, <2>3, <3>3, <3>4 DEF GetDataPblock
  <2>4. CASE ~(l < NDir) /\ ~(l < N1) /\ ~(l < N2)
    <3>1. PICK k \in 1 .. A3 : l + 1 = N2 + k /\ l - N2 = k - 1
      <4>1. l + 1 - N2 \in 1 .. A3 /\ l + 1 = N2 + (l + 1 - N2)
            /\ l - N2 = (l + 1 - N2) - 1
        BY <1>2, <1>6, <2>4
      <4> QED BY <4>1
    <3>2. abcd[l + 1] = d[k]
      BY <1>10, <3>1 DEF Splits
    <3>3. d[k] = Tind(l - N2, IBlock[NDir + 2])
      BY <1>5, <3>1
    <3> QED BY <1>11, <2>4, <3>2, <3>3 DEF GetDataPblock
  <2> QED BY <2>1, <2>2, <2>3, <2>4
<1> QED BY <1>11, <1>12, <1>13

-----------------------------------------------------------------------------
(* The entries of a block. *)

Offsets(data) == DOMAIN data \cup {BS}
Own(data, o)  == IF data[o].inode = 0 THEN <<>> ELSE <<data[o]>>

\* f is From(data), as far as it is about the last m bytes of the block.
LastBytes(data, m) == {x \in Offsets(data) : BS - m <= x}
Partly(f, data, m) ==
    f = [o \in LastBytes(data, m) |-> IF o = BS THEN <<>> ELSE Own(data, o) \o f[o + data[o].rec_len]]

LEMMA PartlyExists ==
    ASSUME NEW data, Chained(data), NEW n \in Nat
    PROVE  \E f : Partly(f, data, n)
<1> DEFINE Ok(m) == \E f : Partly(f, data, m)
           Bad   == {m \in Nat : ~Ok(m)}
<1>0. BS \in Nat
  BY DirConstants
<1>1. SUFFICES ASSUME ~Ok(n) PROVE FALSE
  OBVIOUS
<1>2. PICK m \in Bad : \A j \in Bad : m <= j
  <2>1. n \in Bad
    BY <1>1
  <2>2. Bad \in SUBSET Nat
    OBVIOUS
  <2> HIDE DEF Bad
  <2> QED BY <2>1, <2>2, Smallest
<1>3. m \in Nat /\ ~Ok(m)
  BY <1>2
<1>4. m # 0
  <2>1. PICK f : f = [o \in {BS} |-> <<>>]
    OBVIOUS
  <2>2. LastBytes(data, 0) = {BS}
    BY <1>0 DEF LastBytes, Offsets, Chained
  <2>3. Partly(f, data, 0)
    BY <2>1, <2>2 DEF Partly
  <2> QED BY <1>3, <2>3
<1>5. PICK p \in Nat : p = m - 1 /\ ~(m <= p)
  BY <1>3, <1>4
<1>6. PICK v : Partly(v, data, p)
  BY <1>2, <1>5
<1>7. PICK D, E : D = LastBytes(data, m) /\ E = LastBytes(data, p)
  OBVIOUS
<1>8. \A o \in E : v[o] = IF o = BS THEN <<>> ELSE Own(data, o) \o v[o + data[o].rec_len]
  BY <1>6, <1>7 DEF Partly
<1>9. \A o \in D : o # BS => o + data[o].rec_len \in E /\ o + data[o].rec_len \in D
  BY <1>0, <1>3, <1>5, <1>7 DEF LastBytes, Offsets, Chained
<1>10. E \subseteq D /\ BS \in E
  BY <1>0, <1>3, <1>5, <1>7 DEF LastBytes, Offsets, Chained
<1>11. PICK u : u = [o \in D |-> IF o \in E THEN v[o]
                                 ELSE Own(data, o) \o v[o + data[o].rec_len]]
  OBVIOUS
<1>12. ASSUME NEW o \in D
       PROVE  u[o] = IF o = BS THEN <<>> ELSE Own(data, o) \o u[o + data[o].rec_len]
  <2>1. CASE o = BS
    BY <1>8, <1>10, <1>11, <2>1
  <2>2. CASE o # BS
    <3>1. PICK q : q = o + data[o].rec_len
      OBVIOUS
    <3>2. q \in E /\ q \in D
      BY <1>9, <2>2, <3>1
    <3>3. u[q] = v[q]
      BY <1>11, <3>2
    <3>4. u[o] = Own(data, o) \o v[q]
      BY <1>8, <1>11, <2>2, <3>1
    <3> QED BY <2>2, <3>1, <3>3, <3>4
  <2> QED BY <2>1, <2>2
<1>13. Partly(u, data, m)
  BY <1>7, <1>11, <1>12 DEF Partly
<1> QED BY <1>3, <1>13

\* From satisfies its equation.
LEMMA FromNext ==
    ASSUME NEW data, Chained(data)
    PROVE  /\ From(data)[BS] = <<>>
           /\ \A o \in DOMAIN data :
                  From(data)[o] = Own(data, o) \o From(data)[o + data[o].rec_len]
<1> DEFINE from[o \in DOMAIN data \cup {BS}] ==
               IF o = BS THEN <<>>
               ELSE (IF data[o].inode = 0 THEN <<>> ELSE <<data[o]>>) \o from[o + data[o].rec_len]
<1>1. PICK D : D = DOMAIN data \cup {BS}
  OBVIOUS
<1>2. \E f : f = [o \in D |->
                    IF o = BS THEN <<>>
                    ELSE (IF data[o].inode = 0 THEN <<>> ELSE <<data[o]>>) \o f[o + data[o].rec_len]]
  <2>1. BS \in Nat
    BY DirConstants
  <2>2. PICK f : Partly(f, data, BS)
    BY <2>1, PartlyExists
  <2>3. LastBytes(data, BS) = D
    BY <1>1, <2>1 DEF LastBytes, Offsets, Chained
  <2> QED BY <2>2, <2>3 DEF Partly, Own
<1>3. from = [o \in D |->
                IF o = BS THEN <<>>
                ELSE (IF data[o].inode = 0 THEN <<>> ELSE <<data[o]>>) \o from[o + data[o].rec_len]]
  BY <1>1, <1>2
<1>4. From(data) = from
  BY DEF From
<1> HIDE DEF from
<1>5. from[BS] = <<>>
  BY <1>1, <1>3
<1>6. \A o \in DOMAIN data : o # BS /\ o \in D
  <2>1. BS \in Nat
    BY DirConstants
  <2> QED BY <1>1, <2>1 DEF Chained
<1>7. \A o \in DOMAIN data : from[o] = Own(data, o) \o from[o + data[o].rec_len]
  BY <1>3, <1>6 DEF Own
<1> QED BY <1>4, <1>5, <1>7

-----------------------------------------------------------------------------
(* What is left of a sequence. *)

List(x) == Sized(x, Len(x))

\* r is what is left of s after n elements.
Left(s, n, r) ==
    /\ List(s) /\ List(r) /\ n \in Nat
    /\ Len(s) = n + Len(r)
    /\ \A j \in 1 .. Len(r) : s[n + j] = r[j]

LEMMA ListLen ==
    ASSUME NEW x, List(x)
    PROVE  Len(x) \in Nat
BY DEF List, Sized

LEMMA EmptyList == List(<<>>) /\ Len(<<>>) = 0
<1>1. <<>> \in Seq(Nat)
  OBVIOUS
<1> QED BY <1>1, SeqSized DEF List

LEMMA OneList ==
    ASSUME NEW x
    PROVE  List(<<x>>) /\ Len(<<x>>) = 1 /\ <<x>>[1] = x
<1>1. <<x>> \in Seq({x})
  OBVIOUS
<1> QED BY <1>1, SeqSized DEF List

LEMMA ListAppended ==
    ASSUME NEW x, NEW y, NEW z, List(x), List(y), z = x \o y
    PROVE  List(z) /\ Splits(x, Len(x), y, Len(y), z, Len(z))
<1>1. PICK m, n, l : m = Len(x) /\ n = Len(y) /\ l = m + n
  OBVIOUS
<1>2. Sized(x, m) /\ Sized(y, n)
  BY <1>1 DEF List
<1>3. Splits(x, m, y, n, z, l)
  BY <1>1, <1>2, Appended
<1>4. Sized(z, l)
  BY <1>3 DEF Splits
<1>5. Len(z) = l
  BY <1>4, SizedLen
<1> QED BY <1>1, <1>3, <1>4, <1>5 DEF List

LEMMA LeftAfter ==
    ASSUME NEW x, NEW y, NEW z, List(x), List(y), z = x \o y
    PROVE  Left(z, Len(x), y)
<1>1. List(z) /\ Splits(x, Len(x), y, Len(y), z, Len(z))
  BY ListAppended
<1>2. Len(x) \in Nat
  BY ListLen
<1> QED BY <1>1, <1>2 DEF Left, Splits

\* x comes in s after n elements.
After(s, n, x) == \A j \in 1 .. Len(x) : s[n + j] = x[j]

LEMMA LeftNext ==
    ASSUME NEW s, NEW n, NEW r, NEW x, NEW y, NEW m,
           Left(s, n, r), r = x \o y, List(x), List(y), m = n + Len(x)
    PROVE  Left(s, m, y) /\ After(s, n, x)
<1>1. PICK a, b, c : a = Len(x) /\ b = Len(y) /\ c = Len(r)
  OBVIOUS
<1>2. Splits(x, a, y, b, r, c)
  BY <1>1, ListAppended
<1>3. n \in Nat /\ a \in Nat /\ b \in Nat /\ c = a + b
  BY <1>2 DEF Splits, Sized, Left
<1>4. /\ \A k \in 1 .. a : r[k] = x[k]
      /\ \A k \in 1 .. b : r[a + k] = y[k]
  BY <1>2 DEF Splits
<1>5. /\ List(s) /\ Len(s) = n + c
      /\ \A j \in 1 .. c : s[n + j] = r[j]
  BY <1>1 DEF Left
<1>6. ASSUME NEW j \in 1 .. b
      PROVE  s[(n + a) + j] = y[j]
  <2>1. a + j \in 1 .. c /\ (n + a) + j = n + (a + j)
    BY <1>3
  <2>2. s[n + (a + j)] = r[a + j]
    BY <1>5, <2>1
  <2> QED BY <1>4, <2>1, <2>2
<1>7. ASSUME NEW j \in 1 .. a
      PROVE  s[n + j] = x[j]
  <2>1. j \in 1 .. c
    BY <1>3
  <2> QED BY <1>4, <1>5, <2>1
<1>8. n + a \in Nat /\ n + c = (n + a) + b
  BY <1>3
<1>9. Left(s, n + a, y)
  BY <1>1, <1>5, <1>6, <1>8 DEF Left
<1>10. After(s, n, x)
  BY <1>1, <1>7 DEF After
<1> QED BY <1>1, <1>9, <1>10

\* The entries from each offset are a sequence.
LEMMA FromList ==
    ASSUME NEW data, Chained(data)
    PROVE  \A o \in Offsets(data) : List(From(data)[o])
<1> DEFINE F == From(data)
           Bad == {k \in Nat : \E o \in Offsets(data) : k = BS - o /\ ~List(F[o])}
<1>0. BS \in Nat /\ \A o \in Offsets(data) : o \in Nat /\ BS - o \in Nat
  BY DirConstants DEF Offsets, Chained
<1>1. SUFFICES ASSUME Bad # {} PROVE FALSE
  BY <1>0
<1>2. PICK k \in Bad : \A j \in Bad : k <= j
  <2>1. Bad \in SUBSET Nat
    OBVIOUS
  <2> HIDE DEF Bad
  <2> QED BY <1>1, <2>1, Smallest
<1>3. PICK o \in Offsets(data) : k = BS - o /\ ~List(F[o])
  BY <1>2
<1>4. F[BS] = <<>>
  BY FromNext
<1>5. o # BS /\ o \in DOMAIN data
  BY <1>3, <1>4, EmptyList DEF Offsets
<1>6. PICK q : q = o + data[o].rec_len
  OBVIOUS
<1>7. q \in Offsets(data) /\ BS - q \in Nat /\ ~(k <= BS - q)
  BY <1>0, <1>3, <1>5, <1>6 DEF Offsets, Chained
<1>8. List(F[q])
  BY <1>2, <1>7
<1>9. List(Own(data, o))
  BY EmptyList, OneList DEF Own
<1>10. F[o] = Own(data, o) \o F[q]
  BY <1>5, <1>6, FromNext
<1> HIDE DEF F
<1>11. List(F[o])
  BY <1>8, <1>9, <1>10, ListAppended
<1> QED BY <1>3, <1>11

-----------------------------------------------------------------------------
(* Where a scan of directory d is. *)

Block(d, l) == d.data[Leaves[l + 1]]
First(d, n) == Joined([k \in 1 .. n |-> InUse(d.data[Leaves[k]])])
All(d)      == First(d, d.blocks)

\* n entries in use are before offset off, where an entry or the end is.
At(d, off, n) ==
    \/ off = d.blocks * BS /\ n = Len(All(d))
    \/ \E l \in 0 .. d.blocks - 1 : \E o \in DOMAIN Block(d, l) :
           off = l * BS + o /\ Left(First(d, l + 1), n, From(Block(d, l))[o])

\* The format, block by block.
LEMMA Format ==
    ASSUME NEW d \in Dirs
    PROVE  /\ BS \in Nat \ {0} /\ d.blocks \in Nat
           /\ \A l \in 0 .. d.blocks - 1 : l \in Nat /\ Chained(Block(d, l))
           /\ \A l \in 0 .. d.blocks - 1 : GetDataPblock(l) = Leaves[l + 1]
<1>1. BS \in Nat \ {0}
  BY DirConstants
<1>2. PICK N : N = Len(Leaves) /\ d.blocks \in 0 .. N
  BY DirFormat
<1>3. Addrs \in Nat /\ NDir \in Nat
  BY DirConstants
<1>4. Addrs * Addrs \in Nat /\ Addrs * Addrs * Addrs \in Nat
  BY <1>3
<1>5. N = MaxTind /\ N \in Nat
  BY <1>2, <1>3, <1>4, BlocksFound DEF MaxTind, MaxDind, MaxInd
<1>6. d.blocks \in Nat /\ d.blocks <= N
  BY <1>2, <1>5
<1>7. ASSUME NEW l \in 0 .. d.blocks - 1
      PROVE  l \in Nat /\ Chained(Block(d, l)) /\ GetDataPblock(l) = Leaves[l + 1]
  <2>1. l \in Nat /\ l + 1 \in 1 .. d.blocks /\ l \in 0 .. N - 1
    BY <1>5, <1>6
  <2>2. Chained(Block(d, l))
    BY <2>1, DirFormat DEF Block
  <2>3. GetDataPblock(l) = Leaves[l + 1]
    BY <1>5, <2>1, BlocksFound
  <2> QED BY <2>1, <2>2, <2>3
<1> QED BY <1>1, <1>6, <1>7

\* One more block.
LEMMA FirstNext ==
    ASSUME NEW d, NEW l \in Nat
    PROVE  First(d, 0) = <<>> /\ First(d, l + 1) = First(d, l) \o From(Block(d, l))[0]
<1>1. PICK f : f = [k \in 1 .. l + 1 |-> InUse(d.data[Leaves[k]])]
  OBVIOUS
<1>2. /\ Joined([k \in 1 .. 0 |-> f[k]]) = <<>>
      /\ Joined([k \in 1 .. l + 1 |-> f[k]]) = Joined([k \in 1 .. l |-> f[k]]) \o f[l + 1]
  BY JoinedNext
<1>3. First(d, l + 1) = Joined([k \in 1 .. l + 1 |-> f[k]])
  <2>1. f = [k \in 1 .. l + 1 |-> f[k]]
    BY <1>1
  <2> QED BY <1>1, <2>1 DEF First
<1>4. First(d, l) = Joined([k \in 1 .. l |-> f[k]])
  <2>1. [k \in 1 .. l |-> f[k]] = [k \in 1 .. l |-> InUse(d.data[Leaves[k]])]
    BY <1>1
  <2> QED BY <2>1 DEF First
<1>5. First(d, 0) = Joined([k \in 1 .. 0 |-> f[k]])
  <2>1. [k \in 1 .. 0 |-> f[k]] = [k \in 1 .. 0 |-> InUse(d.data[Leaves[k]])]
    OBVIOUS
  <2> QED BY <2>1 DEF First
<1>6. f[l + 1] = From(Block(d, l))[0]
  BY <1>1 DEF Block, InUse
<1> QED BY <1>2, <1>3, <1>4, <1>5, <1>6

LEMMA FirstStep ==
    ASSUME NEW d, NEW l \in Nat, NEW m \in Nat, m = l + 1
    PROVE  First(d, 0) = <<>> /\ First(d, m) = First(d, l) \o From(Block(d, l))[0]
BY FirstNext, Zenon

LEMMA FirstList ==
    ASSUME NEW d \in Dirs, NEW n \in 0 .. d.blocks
    PROVE  List(First(d, n))
<1> DEFINE Bad == {m \in 0 .. d.blocks : ~List(First(d, m))}
<1>0. d.blocks \in Nat
  BY Format
<1>1. SUFFICES ASSUME Bad # {} PROVE FALSE
  OBVIOUS
<1>2. PICK m \in Bad : \A j \in Bad : m <= j
  <2>1. Bad \in SUBSET Nat
    BY <1>0
  <2> HIDE DEF Bad
  <2> QED BY <1>1, <2>1, Smallest
<1>3. m \in 0 .. d.blocks /\ ~List(First(d, m))
  BY <1>2
<1>4. First(d, 0) = <<>>
  BY FirstNext
<1>5. m # 0
  BY <1>3, <1>4, EmptyList
<1>6. PICK l \in 0 .. d.blocks - 1 : l \in Nat /\ m \in Nat /\ m = l + 1 /\ ~(m <= l) /\ l \in 0 .. d.blocks
  <2>1. m - 1 \in 0 .. d.blocks - 1 /\ m - 1 \in Nat /\ m \in Nat /\ m = (m - 1) + 1 /\ ~(m <= m - 1)
        /\ m - 1 \in 0 .. d.blocks
    BY <1>0, <1>3, <1>5
  <2> QED BY <2>1
<1>7. List(First(d, l))
  BY <1>2, <1>6
<1>8. First(d, m) = First(d, l) \o From(Block(d, l))[0]
  BY <1>6, FirstStep
<1>9. List(From(Block(d, l))[0])
  <2>1. Chained(Block(d, l))
    BY <1>6, Format
  <2>2. 0 \in Offsets(Block(d, l))
    BY <2>1 DEF Chained, Offsets
  <2> QED BY <2>1, <2>2, FromList
<1>10. List(First(d, m))
  BY <1>7, <1>8, <1>9, ListAppended
<1> QED BY <1>3, <1>10

Prefix(s, t) == /\ List(s) /\ List(t) /\ Len(s) <= Len(t)
                /\ \A j \in 1 .. Len(s) : t[j] = s[j]

LEMMA FirstPrefix ==
    ASSUME NEW d \in Dirs, NEW n \in 0 .. d.blocks
    PROVE  Prefix(First(d, n), All(d))
<1> DEFINE Bad == {m \in 0 .. d.blocks : n <= m /\ ~Prefix(First(d, n), First(d, m))}
<1>0. d.blocks \in Nat /\ n \in Nat /\ d.blocks \in 0 .. d.blocks
  BY Format
<1>1. SUFFICES ASSUME Bad # {} PROVE FALSE
  BY <1>0 DEF All
<1>2. PICK m \in Bad : \A j \in Bad : m <= j
  <2>1. Bad \in SUBSET Nat
    BY <1>0
  <2> HIDE DEF Bad
  <2> QED BY <1>1, <2>1, Smallest
<1>3. m \in 0 .. d.blocks /\ n <= m /\ ~Prefix(First(d, n), First(d, m))
  BY <1>2
<1>4. m # n
  <2>1. List(First(d, n)) /\ Len(First(d, n)) \in Nat
    BY FirstList, ListLen
  <2>2. Prefix(First(d, n), First(d, n))
    BY <2>1 DEF Prefix
  <2> QED BY <1>3, <2>2
<1>5. PICK l \in 0 .. d.blocks - 1 : /\ l \in Nat /\ m \in Nat /\ m = l + 1 /\ ~(m <= l)
                                     /\ l \in 0 .. d.blocks /\ n <= l
  <2>1. /\ m - 1 \in 0 .. d.blocks - 1 /\ m - 1 \in Nat /\ m \in Nat
        /\ m = (m - 1) + 1 /\ ~(m <= m - 1)
        /\ m - 1 \in 0 .. d.blocks /\ n <= m - 1
    BY <1>0, <1>3, <1>4
  <2> QED BY <2>1
<1>6. Prefix(First(d, n), First(d, l))
  BY <1>2, <1>5
<1>7. PICK x, y, z, s : /\ x = First(d, l) /\ y = From(Block(d, l))[0] /\ z = First(d, m)
                        /\ s = First(d, n)
  OBVIOUS
<1>8. z = x \o y
  BY <1>5, <1>7, FirstStep
<1>9. List(y)
  <2>1. Chained(Block(d, l))
    BY <1>5, Format
  <2>2. 0 \in Offsets(Block(d, l))
    BY <2>1 DEF Chained, Offsets
  <2> QED BY <1>7, <2>1, <2>2, FromList
<1>10. Prefix(s, x)
  BY <1>6, <1>7
<1>11. Prefix(s, z)
  <2>1. List(z) /\ Splits(x, Len(x), y, Len(y), z, Len(z))
    BY <1>8, <1>9, <1>10, ListAppended DEF Prefix
  <2>2. Len(s) \in Nat /\ Len(x) \in Nat /\ Len(y) \in Nat
    BY <1>9, <1>10, ListLen DEF Prefix
  <2>3. Len(z) = Len(x) + Len(y) /\ \A k \in 1 .. Len(x) : z[k] = x[k]
    BY <2>1 DEF Splits
  <2>4. List(s) /\ Len(s) <= Len(x) /\ \A j \in 1 .. Len(s) : x[j] = s[j]
    BY <1>10 DEF Prefix
  <2>5. Len(s) <= Len(z)
    BY <2>2, <2>3, <2>4
  <2>6. ASSUME NEW j \in 1 .. Len(s) PROVE z[j] = s[j]
    <3>1. j \in 1 .. Len(x)
      BY <2>2, <2>4
    <3> QED BY <2>3, <2>4, <3>1
  <2> QED BY <2>1, <2>4, <2>5, <2>6 DEF Prefix
<1> QED BY <1>3, <1>7, <1>11

\* The start of each block, and the end of the last.
LEMMA AtBlock ==
    ASSUME NEW d \in Dirs, NEW l \in 0 .. d.blocks
    PROVE  At(d, l * BS, Len(First(d, l)))
<1>0. BS \in Nat \ {0} /\ d.blocks \in Nat /\ l \in Nat
  BY Format
<1>1. CASE l = d.blocks
  BY <1>1 DEF At, All
<1>2. CASE l # d.blocks
  <2>1. PICK m : m = l + 1
    OBVIOUS
  <2>2. l \in 0 .. d.blocks - 1 /\ m \in Nat
    BY <1>0, <1>2, <2>1
  <2>3. Chained(Block(d, l))
    BY <2>2, Format
  <2>4. 0 \in DOMAIN Block(d, l) /\ 0 \in Offsets(Block(d, l))
    BY <2>3 DEF Chained, Offsets
  <2>5. List(First(d, l)) /\ List(From(Block(d, l))[0])
    BY <2>3, <2>4, FirstList, FromList
  <2>6. First(d, m) = First(d, l) \o From(Block(d, l))[0]
    BY <1>0, <2>1, <2>2, FirstStep
  <2>7. Left(First(d, m), Len(First(d, l)), From(Block(d, l))[0])
    BY <2>5, <2>6, LeftAfter
  <2>8. l * BS = l * BS + 0
    BY <1>0
  <2> QED BY <2>1, <2>2, <2>4, <2>7, <2>8 DEF At
<1> QED BY <1>1, <1>2

LEMMA AtStart ==
    ASSUME NEW d \in Dirs
    PROVE  At(d, 0, 0)
<1>1. BS \in Nat \ {0} /\ d.blocks \in Nat /\ 0 \in 0 .. d.blocks /\ 0 \in Nat
  BY Format
<1>2. First(d, 0) = <<>>
  BY <1>1, FirstNext
<1>3. 0 * BS = 0 /\ Len(First(d, 0)) = 0
  BY <1>1, <1>2, EmptyList
<1>4. At(d, 0 * BS, Len(First(d, 0)))
  BY <1>1, AtBlock
<1> QED BY <1>3, <1>4

\* An offset within the directory is less than its size.
LEMMA Within ==
    ASSUME NEW d \in Dirs, NEW l \in 0 .. d.blocks - 1, NEW o \in DOMAIN Block(d, l)
    PROVE  /\ (l * BS + o) # d.blocks * BS
           /\ (l * BS + o) \div BS = l /\ (l * BS + o) % BS = o
<1>1. BS \in Nat \ {0} /\ d.blocks \in Nat /\ l \in Nat /\ Chained(Block(d, l))
  BY Format
<1>2. o \in 0 .. BS - 1
  BY <1>1 DEF Chained
<1>3. (l * BS + o) \div BS = l /\ (l * BS + o) % BS = o
  BY <1>1, <1>2, Quotient
<1>4. PICK b \in Nat : d.blocks = (l + 1) + b
  <2>1. d.blocks - (l + 1) \in Nat /\ d.blocks = (l + 1) + (d.blocks - (l + 1))
    BY <1>1
  <2> QED BY <2>1
<1>5. d.blocks * BS = l * BS + BS + b * BS /\ b * BS \in Nat /\ l * BS \in Nat
  <2>1. ((l + 1) + b) * BS = l * BS + BS + b * BS
    BY <1>1
  <2> QED BY <1>1, <1>4, <2>1
<1>6. (l * BS + o) # d.blocks * BS
  <2>1. PICK x, y, z : x = l * BS /\ y = b * BS /\ z = d.blocks * BS
    OBVIOUS
  <2>2. x \in Nat /\ y \in Nat /\ z = x + BS + y
    BY <1>5, <2>1
  <2>3. x + o # z
    BY <1>1, <1>2, <2>2
  <2> QED BY <2>1, <2>3
<1> QED BY <1>3, <1>6

\* The scan moves on to the next entry, in this block or in the next.
LEMMA Advance ==
    ASSUME NEW d \in Dirs, NEW l \in 0 .. d.blocks - 1, NEW o \in DOMAIN Block(d, l), NEW n,
           Left(First(d, l + 1), n, From(Block(d, l))[o])
    PROVE  LET e == Block(d, l)[o]
           IN  /\ e.inode = 0 => At(d, (l * BS + o) + e.rec_len, n)
               /\ e.inode # 0 => /\ At(d, (l * BS + o) + e.rec_len, n + 1)
                                 /\ n + 1 \in 1 .. Len(All(d)) /\ All(d)[n + 1] = e
<1>1. BS \in Nat \ {0} /\ d.blocks \in Nat /\ l \in Nat /\ Chained(Block(d, l))
  BY Format
<1>2. PICK data, e, F, m, s : /\ data = Block(d, l) /\ e = Block(d, l)[o] /\ F = From(Block(d, l))
                              /\ m = l + 1 /\ s = First(d, l + 1)
  OBVIOUS
<1>3. /\ o \in DOMAIN data /\ o \in 0 .. BS - 1 /\ e = data[o] /\ e.rec_len \in Nat
      /\ o + e.rec_len \in Offsets(data)
  BY <1>1, <1>2 DEF Chained, Offsets
<1>4. PICK q, off : q = o + e.rec_len /\ off = (l * BS + o) + e.rec_len
  OBVIOUS
<1>5. off = l * BS + q /\ q \in Offsets(data)
  <2>1. l * BS \in Nat
    BY <1>1
  <2> QED BY <1>3, <1>4, <2>1
<1>6. F[o] = Own(data, o) \o F[q] /\ F[BS] = <<>>
  <2>1. F[o] = Own(data, o) \o F[o + data[o].rec_len] /\ F[BS] = <<>>
    BY <1>1, <1>2, <1>3, FromNext
  <2> QED BY <1>3, <1>4, <2>1
<1>7. List(F[q]) /\ List(Own(data, o))
  <2>1. List(F[q])
    BY <1>1, <1>2, <1>5, FromList
  <2>2. List(Own(data, o))
    BY EmptyList, OneList DEF Own
  <2> QED BY <2>1, <2>2
<1>8. PICK w : w = Len(Own(data, o))
  OBVIOUS
<1>9. Left(s, n, F[o]) /\ n \in Nat
  BY <1>2 DEF Left
<1>10. Left(s, n + w, F[q]) /\ \A j \in 1 .. w : s[n + j] = Own(data, o)[j]
  <2>1. PICK r, x, y : r = F[o] /\ x = Own(data, o) /\ y = F[q]
    OBVIOUS
  <2>2. Left(s, n, r) /\ r = x \o y /\ List(x) /\ List(y) /\ w = Len(x)
    BY <1>6, <1>7, <1>8, <1>9, <2>1
  <2>3. PICK c : c = n + w
    OBVIOUS
  <2>4. c = n + Len(x)
    BY <2>2, <2>3
  <2>5. Left(s, c, y) /\ After(s, n, x)
    BY <2>2, <2>4, LeftNext
  <2> QED BY <2>1, <2>2, <2>3, <2>5 DEF After
<1>11. At(d, off, n + w)
  <2>1. CASE q \in DOMAIN data
    BY <1>2, <1>5, <1>10, <2>1 DEF At
  <2>2. CASE q = BS
    <3>1. Left(s, n + w, <<>>)
      BY <1>6, <1>10, <2>2
    <3>2. Len(s) = n + w
      BY <3>1, EmptyList DEF Left
    <3>3. m \in 0 .. d.blocks
      BY <1>1, <1>2
    <3>4. m * BS = l * BS + BS
      <4>1. (l + 1) * BS = l * BS + BS
        BY <1>1
      <4> QED BY <1>2, <4>1
    <3>5. At(d, m * BS, Len(First(d, m)))
      BY <3>3, AtBlock
    <3> QED BY <1>2, <1>5, <2>2, <3>2, <3>4, <3>5
  <2> QED BY <1>5, <2>1, <2>2 DEF Offsets
<1>12. CASE e.inode = 0
  <2>1. w = 0 /\ n + w = n
    BY <1>3, <1>8, <1>9, <1>12, EmptyList DEF Own
  <2> QED BY <1>2, <1>4, <1>11, <1>12, <2>1
<1>13. CASE e.inode # 0
  <2>1. Own(data, o) = <<e>>
    BY <1>3, <1>13 DEF Own
  <2>2. w = 1 /\ Own(data, o)[1] = e
    BY <1>8, <2>1, OneList
  <2>3. s[n + 1] = e
    BY <1>10, <2>2
  <2>4. n + 1 \in 1 .. Len(s) /\ Len(s) \in Nat
    <3>1. Len(s) = (n + w) + Len(F[q]) /\ List(s)
      BY <1>10 DEF Left
    <3>2. Len(F[q]) \in Nat
      BY <1>7, ListLen
    <3>3. PICK k, c : k = Len(F[q]) /\ c = Len(s)
      OBVIOUS
    <3>4. k \in Nat /\ c = (n + 1) + k
      BY <2>2, <3>1, <3>2, <3>3
    <3>5. c \in Nat /\ n + 1 \in 1 .. c
      BY <1>9, <3>4
    <3> QED BY <3>3, <3>5
  <2>5. Prefix(s, All(d))
    <3>1. m \in 0 .. d.blocks
      BY <1>1, <1>2
    <3> QED BY <1>2, <3>1, FirstPrefix
  <2>6. n + 1 \in 1 .. Len(All(d)) /\ All(d)[n + 1] = s[n + 1]
    <3>1. Len(All(d)) \in Nat /\ Len(s) <= Len(All(d)) /\ \A j \in 1 .. Len(s) : All(d)[j] = s[j]
      BY <2>5, ListLen DEF Prefix
    <3> QED BY <1>9, <2>4, <3>1
  <2> QED BY <1>2, <1>4, <1>11, <1>13, <2>2, <2>3, <2>6
<1> QED BY <1>12, <1>13, <1>2

LEMMA AtEnd ==
    ASSUME NEW d \in Dirs, NEW n, At(d, d.blocks * BS, n)
    PROVE  n = Len(All(d))
BY Within DEF At

-----------------------------------------------------------------------------
(* The invariant. *)

\* The listing has n entries, and goes on after them.
ListedInv(d, n) ==
    /\ listed = [k \in 1 .. n |-> All(d)[k].name]
    /\ At(d, cookie, n)
    /\ pc = "readdir" => At(d, offset, n)
    /\ pc = "listed" => n = Len(All(d))

\* None of the n entries that the search has passed has the name.
PassedInv(d, n) ==
    /\ At(d, offset, n)
    /\ \A k \in 1 .. n : All(d)[k].name # name

Answered(d) ==
    \/ /\ \A k \in 1 .. Len(All(d)) : All(d)[k].name # name
       /\ found = 0
    \/ \E k \in 1 .. Len(All(d)) : All(d)[k].name = name /\ All(d)[k].inode = found

\* The block that is buffered is the one whose number goes with it.
BufferedInv == pc \in {"readdir", "search"} => ctx.data = dir[GetDataPblock(ctx.lblock)]

ScanOf(d) ==
    /\ dir = d.data /\ nblocks = d.blocks
    /\ BufferedInv
    /\ \E n \in 0 .. Len(All(d)) : ListedInv(d, n)
    /\ pc = "search" => \E n \in 0 .. Len(All(d)) : PassedInv(d, n)
    /\ pc = "found" => Answered(d)

ScanInv == \E d \in Dirs : ScanOf(d)

\* At an entry: the one that comes next in the directory, or a dead one.
LEMMA Here ==
    ASSUME NEW d \in Dirs, ScanOf(d), pc \in {"readdir", "search"}, AtEntry,
           NEW n, At(d, offset, n)
    PROVE  /\ Dentry.inode = 0 => At(d, offset + Dentry.rec_len, n)
           /\ Dentry.inode # 0 => /\ At(d, offset + Dentry.rec_len, n + 1)
                                  /\ n + 1 \in 1 .. Len(All(d)) /\ All(d)[n + 1] = Dentry
<1>1. offset # d.blocks * BS
  BY DEF AtEntry, Size, ScanOf
<1>2. PICK l \in 0 .. d.blocks - 1 : \E o \in DOMAIN Block(d, l) :
          offset = l * BS + o /\ Left(First(d, l + 1), n, From(Block(d, l))[o])
  BY <1>1 DEF At
<1>3. PICK o \in DOMAIN Block(d, l) :
          offset = l * BS + o /\ Left(First(d, l + 1), n, From(Block(d, l))[o])
  BY <1>2
<1>4. offset \div BS = l /\ offset % BS = o
  BY <1>3, Within
<1>5. ctx.lblock = l
  BY <1>4 DEF AtEntry
<1>6. ctx.data = dir[GetDataPblock(l)]
  BY <1>5 DEF ScanOf, BufferedInv
<1>7. ctx.data = Block(d, l)
  <2>1. GetDataPblock(l) = Leaves[l + 1]
    BY Format
  <2>2. dir = d.data
    BY DEF ScanOf
  <2> QED BY <1>6, <2>1, <2>2 DEF Block
<1>8. PICK e : e = Block(d, l)[o]
  OBVIOUS
<1>9. Dentry = e
  BY <1>4, <1>7, <1>8 DEF Dentry
<1>10. /\ e.inode = 0 => At(d, (l * BS + o) + e.rec_len, n)
       /\ e.inode # 0 => /\ At(d, (l * BS + o) + e.rec_len, n + 1)
                         /\ n + 1 \in 1 .. Len(All(d)) /\ All(d)[n + 1] = e
  BY <1>3, <1>8, Advance
<1> QED BY <1>3, <1>9, <1>10

LEMMA ScanInit == Init => ScanInv
<1> SUFFICES ASSUME Init PROVE ScanInv
  OBVIOUS
<1>1. PICK d \in Dirs : dir = d.data /\ nblocks = d.blocks
  BY DEF Init
<1>2. At(d, 0, 0)
  BY AtStart
<1>3. 0 \in 0 .. Len(All(d))
  <2>1. d.blocks \in Nat /\ d.blocks \in 0 .. d.blocks
    BY Format
  <2>2. Len(All(d)) \in Nat
    BY <2>1, FirstList, ListLen DEF All
  <2> QED BY <2>2
<1>4. ListedInv(d, 0)
  <2>1. <<>> = [k \in 1 .. 0 |-> All(d)[k].name]
    OBVIOUS
  <2> QED BY <1>2, <2>1 DEF ListedInv, Init
<1>5. ScanOf(d)
  BY <1>1, <1>3, <1>4 DEF ScanOf, BufferedInv, Init
<1> QED BY <1>5 DEF ScanInv

LEMMA ScanStep ==
    ASSUME NEW d \in Dirs, ScanOf(d), [Next]_vars
    PROVE  ScanOf(d)'
<1>1. PICK n \in 0 .. Len(All(d)) : ListedInv(d, n)
  BY DEF ScanOf
<1>2. Len(All(d)) \in Nat
  <2>1. d.blocks \in Nat /\ d.blocks \in 0 .. d.blocks
    BY Format
  <2> QED BY <2>1, FirstList, ListLen DEF All
<1>3. At(d, 0, 0) /\ 0 \in 0 .. Len(All(d))
  BY <1>2, AtStart
<1>4. dir = d.data /\ nblocks = d.blocks
  BY DEF ScanOf
<1>5. ASSUME NEW r \in 1 .. MaxRoom, Readdir(r)
      PROVE  ScanOf(d)'
  <2>1. ListedInv(d, n)'
    BY <1>1, <1>5 DEF ListedInv, Readdir
  <2> QED BY <1>1, <1>4, <1>5, <2>1 DEF ScanOf, Readdir, BufferedInv, Buffered
<1>6. ASSUME NEW nm \in Names, Search(nm)
      PROVE  ScanOf(d)'
  <2>1. ListedInv(d, n)'
    BY <1>1, <1>6 DEF ListedInv, Search
  <2>2. PassedInv(d, 0)'
    BY <1>3, <1>6 DEF PassedInv, Search
  <2> QED BY <1>1, <1>3, <1>4, <1>6, <2>1, <2>2 DEF ScanOf, Search, BufferedInv, Buffered
<1>7. CASE Refill
  <2>1. ListedInv(d, n)'
    BY <1>1, <1>7 DEF ListedInv, Refill
  <2>2. pc' = "search" => \E k \in 0 .. Len(All(d)) : PassedInv(d, k)'
    BY <1>7 DEF ScanOf, PassedInv, Refill
  <2>3. BufferedInv'
    BY <1>7 DEF Refill, BufferedInv, Buffered
  <2> QED BY <1>1, <1>4, <1>7, <2>1, <2>2, <2>3 DEF ScanOf, Refill
<1>8. CASE Fill
  <2>1. At(d, offset, n)
    BY <1>1, <1>8 DEF ListedInv, Fill
  <2>2. /\ At(d, offset + Dentry.rec_len, n + 1)
        /\ n + 1 \in 1 .. Len(All(d)) /\ All(d)[n + 1] = Dentry
    BY <1>8, <2>1, Here DEF Fill
  <2>3. listed' = [k \in 1 .. n + 1 |-> All(d)[k].name]
    <3>1. PICK S : S = {All(d)[k].name : k \in 1 .. n + 1}
      OBVIOUS
    <3>2. PICK g : g = [k \in 1 .. n + 1 |-> All(d)[k].name]
      OBVIOUS
    <3>3. listed = [k \in 1 .. n |-> All(d)[k].name] /\ listed' = Append(listed, All(d)[n + 1].name)
      BY <1>1, <1>8, <2>2 DEF ListedInv, Fill
    <3>4. n \in Nat
      BY <1>2
    <3>5. listed \in [1 .. n -> S] /\ All(d)[n + 1].name \in S
      BY <3>1, <3>3, <3>4
    <3>6. listed \in Seq(S) /\ Len(listed) = n
      BY <3>4, <3>5
    <3>7. /\ Append(listed, All(d)[n + 1].name) \in Seq(S)
          /\ Len(Append(listed, All(d)[n + 1].name)) = n + 1
          /\ \A k \in 1 .. n : Append(listed, All(d)[n + 1].name)[k] = listed[k]
          /\ Append(listed, All(d)[n + 1].name)[n + 1] = All(d)[n + 1].name
      BY <3>4, <3>5, <3>6, AppendProperties
    <3>8. g \in Seq(S) /\ Len(g) = n + 1
      <4>1. g \in [1 .. n + 1 -> S] /\ n + 1 \in Nat
        BY <3>1, <3>2, <3>4
      <4> QED BY <4>1
    <3>9. ASSUME NEW k \in 1 .. n + 1 PROVE listed'[k] = g[k]
      <4>1. CASE k = n + 1
        BY <3>2, <3>3, <3>7, <4>1
      <4>2. CASE k # n + 1
        <5>1. k \in 1 .. n
          BY <3>4, <4>2
        <5> QED BY <3>2, <3>3, <3>7, <5>1
      <4> QED BY <4>1, <4>2
    <3>10. listed' \in Seq(S) /\ Len(listed') = n + 1
      BY <3>3, <3>7
    <3>11. listed' = g
      BY <3>8, <3>9, <3>10, SeqEqual
    <3> QED BY <3>2, <3>11
  <2>4. ListedInv(d, n + 1)'
    BY <1>8, <2>2, <2>3 DEF ListedInv, Fill
  <2>5. BufferedInv' /\ n + 1 \in 0 .. Len(All(d))
    BY <1>2, <1>4, <1>8, <2>2 DEF Fill, BufferedInv, ScanOf
  <2> QED BY <1>4, <1>8, <2>4, <2>5 DEF ScanOf, Fill
<1>9. CASE FillRefused
  <2>1. ListedInv(d, n)'
    BY <1>1, <1>9 DEF ListedInv, FillRefused
  <2> QED BY <1>1, <1>4, <1>9, <2>1 DEF ScanOf, FillRefused, BufferedInv
<1>10. CASE SkipDead
  <2>1. ListedInv(d, n)'
    <3>1. pc = "readdir" => At(d, offset', n)
      BY <1>1, <1>10, Here DEF ListedInv, SkipDead
    <3> QED BY <1>1, <1>10, <3>1 DEF ListedInv, SkipDead
  <2>2. pc' = "search" => \E k \in 0 .. Len(All(d)) : PassedInv(d, k)'
    <3> SUFFICES ASSUME pc' = "search"
                 PROVE  \E k \in 0 .. Len(All(d)) : PassedInv(d, k)'
      OBVIOUS
    <3>1. pc = "search"
      BY <1>10 DEF SkipDead
    <3>2. PICK k \in 0 .. Len(All(d)) : PassedInv(d, k)
      BY <3>1 DEF ScanOf
    <3>3. At(d, offset', k)
      BY <1>10, <3>1, <3>2, Here DEF PassedInv, SkipDead
    <3>4. PassedInv(d, k)'
      BY <1>10, <3>2, <3>3 DEF PassedInv, SkipDead
    <3> QED BY <3>4
  <2>3. BufferedInv'
    BY <1>10 DEF SkipDead, BufferedInv, ScanOf
  <2> QED BY <1>1, <1>4, <1>10, <2>1, <2>2, <2>3 DEF ScanOf, SkipDead
<1>11. CASE ReaddirEnd
  <2>1. n = Len(All(d))
    <3>1. offset = d.blocks * BS /\ At(d, offset, n)
      BY <1>1, <1>4, <1>11 DEF ListedInv, ReaddirEnd, Size
    <3> QED BY <3>1, AtEnd
  <2>2. ListedInv(d, n)'
    BY <1>1, <1>11, <2>1 DEF ListedInv, ReaddirEnd
  <2> QED BY <1>1, <1>4, <1>11, <2>2 DEF ScanOf, ReaddirEnd, BufferedInv
<1>12. CASE SkipOther
  <2>1. ListedInv(d, n)'
    BY <1>1, <1>12 DEF ListedInv, SkipOther
  <2>2. PICK k \in 0 .. Len(All(d)) : PassedInv(d, k)
    BY <1>12 DEF ScanOf, SkipOther
  <2>3. /\ At(d, offset + Dentry.rec_len, k + 1)
        /\ k + 1 \in 1 .. Len(All(d)) /\ All(d)[k + 1] = Dentry
    BY <1>12, <2>2, Here DEF SkipOther, PassedInv
  <2>4. \A i \in 1 .. k + 1 : All(d)[i].name # name
    <3>1. k \in Nat
      BY <1>2
    <3>2. \A i \in 1 .. k + 1 : i \in 1 .. k \/ i = k + 1
      BY <3>1
    <3> QED BY <1>12, <2>2, <2>3, <3>2 DEF PassedInv, SkipOther
  <2>5. PassedInv(d, k + 1)' /\ k + 1 \in 0 .. Len(All(d))
    BY <1>2, <1>12, <2>3, <2>4 DEF PassedInv, SkipOther
  <2>6. BufferedInv'
    BY <1>12 DEF SkipOther, BufferedInv, ScanOf
  <2> QED BY <1>1, <1>4, <1>12, <2>1, <2>5, <2>6 DEF ScanOf, SkipOther
<1>13. CASE SearchEnd
  <2>1. ListedInv(d, n)'
    BY <1>1, <1>13 DEF ListedInv, SearchEnd
  <2>2. PICK k \in 0 .. Len(All(d)) : PassedInv(d, k)
    BY <1>13 DEF ScanOf, SearchEnd
  <2>3. Answered(d)'
    <3>1. CASE offset = Size /\ found' = 0
      <4>1. offset = d.blocks * BS
        BY <1>4, <3>1 DEF Size
      <4>2. k = Len(All(d))
        BY <2>2, <4>1, AtEnd DEF PassedInv
      <4> QED BY <1>13, <2>2, <3>1, <4>2 DEF PassedInv, Answered, SearchEnd
    <3>2. CASE AtEntry /\ Dentry.name = name /\ Dentry.inode # 0 /\ found' = Dentry.inode
      <4>1. k + 1 \in 1 .. Len(All(d)) /\ All(d)[k + 1] = Dentry
        BY <1>13, <2>2, <3>2, Here DEF SearchEnd, PassedInv
      <4> QED BY <1>13, <3>2, <4>1 DEF Answered, SearchEnd
    <3> QED BY <1>13, <3>1, <3>2 DEF SearchEnd
  <2> QED BY <1>1, <1>4, <1>13, <2>1, <2>3 DEF ScanOf, SearchEnd, BufferedInv
<1>14. CASE UNCHANGED vars
  <2>1. ListedInv(d, n)'
    BY <1>1, <1>14 DEF ListedInv, vars
  <2>2. pc' = "search" => \E k \in 0 .. Len(All(d)) : PassedInv(d, k)'
    BY <1>14 DEF ScanOf, PassedInv, vars
  <2>3. pc' = "found" => Answered(d)'
    BY <1>14 DEF ScanOf, Answered, vars
  <2>4. BufferedInv'
    BY <1>14 DEF ScanOf, BufferedInv, vars
  <2> QED BY <1>1, <1>4, <1>14, <2>1, <2>2, <2>3, <2>4 DEF ScanOf, vars
<1> QED BY <1>5, <1>6, <1>7, <1>8, <1>9, <1>10, <1>11, <1>12, <1>13, <1>14
        DEF Next, Step, Terminated

LEMMA ScanInvariant == Spec => []ScanInv
<1>1. ScanInv /\ [Next]_vars => ScanInv'
  <2> SUFFICES ASSUME ScanInv, [Next]_vars PROVE ScanInv'
    OBVIOUS
  <2>1. PICK d \in Dirs : ScanOf(d)
    BY DEF ScanInv
  <2>2. ScanOf(d)'
    BY <2>1, ScanStep
  <2> QED BY <2>2 DEF ScanInv
<1> QED BY <1>1, ScanInit, PTL DEF Spec

\* What the invariant says in the words of the properties.
LEMMA EntriesAll ==
    ASSUME NEW d, dir = d.data, nblocks = d.blocks
    PROVE  Entries = All(d)
BY DEF Entries, Before, All, First

\* A listing has every entry in use once and in order, however many calls of
\* op_readdir it takes and whichever entry each of them ends at: for every
\* directory, block size and number of addresses in an index block.
THEOREM ListingComplete == Spec => []ListsOnce
<1>1. ScanInv => ListsOnce
  <2> SUFFICES ASSUME ScanInv PROVE ListsOnce
    OBVIOUS
  <2>1. PICK d \in Dirs : ScanOf(d)
    BY DEF ScanInv
  <2>2. Entries = All(d)
    BY <2>1, EntriesAll DEF ScanOf
  <2>3. PICK n \in 0 .. Len(All(d)) : ListedInv(d, n)
    BY <2>1 DEF ScanOf
  <2>4. Len(All(d)) \in Nat
    <3>1. d.blocks \in Nat /\ d.blocks \in 0 .. d.blocks
      BY Format
    <3> QED BY <3>1, FirstList, ListLen DEF All
  <2>5. PICK s : s = listed
    OBVIOUS
  <2>6. s = [k \in 1 .. n |-> All(d)[k].name] /\ n \in Nat
    BY <2>3, <2>4, <2>5 DEF ListedInv
  <2>7. Len(s) = n
    BY <2>6
  <2>8. \A k \in 1 .. n : k <= Len(All(d)) /\ s[k] = All(d)[k].name
    BY <2>3, <2>4, <2>6
  <2>9. pc = "listed" => n = Len(All(d))
    BY <2>3 DEF ListedInv
  <2> QED BY <2>2, <2>5, <2>7, <2>8, <2>9 DEF ListsOnce
<1> QED BY <1>1, ScanInvariant, PTL

\* A search in a directory finds an entry that has the name if there is one, in
\* whichever block, and nothing if there is none.
THEOREM SearchCorrect == Spec => []SearchExact
<1>1. ScanInv => SearchExact
  <2> SUFFICES ASSUME ScanInv, pc = "found" PROVE SearchExact
    BY DEF SearchExact
  <2>1. PICK d \in Dirs : ScanOf(d)
    BY DEF ScanInv
  <2>2. Entries = All(d)
    BY <2>1, EntriesAll DEF ScanOf
  <2>3. Answered(d)
    BY <2>1 DEF ScanOf
  <2> QED BY <2>2, <2>3 DEF SearchExact, Answered
<1> QED BY <1>1, ScanInvariant, PTL
=============================================================================
