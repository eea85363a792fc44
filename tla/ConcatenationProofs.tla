------------------------ MODULE ConcatenationProofs ------------------------
(***************************************************************************)
(* What FlattenSeq computes: the concatenation of a sequence of sequences. *)
(* The entries of the circular buffer, the log of the device and a reply   *)
(* of the server are all seen through it.                                  *)
(*                                                                         *)
(* Induction over the naturals is taken from the well-founded order on     *)
(* them: a set of naturals with 0 and every successor holds them all.      *)
(***************************************************************************)
EXTENDS Integers, Sequences, SequencesExt, SequenceTheorems,
        WellFoundedInduction, TLAPS

(* Every non-empty set of naturals has a least element.                    *)
LEMMA LeastNatural ==
  ASSUME NEW T, T \subseteq Nat, T # {}
  PROVE  \E x \in T : \A y \in T : x <= y
<1> DEFINE R == {ss \in Nat \X Nat : ss[1] < ss[2]}
<1>1. IsWellFoundedOn(R, Nat)
  BY NatLessThanWellFounded DEF OpToRel
<1>2. \E x \in T : \A y \in T : <<y, x>> \notin R
  <2>. HIDE DEF R
  <2>. QED  BY <1>1, WFMin
<1>3. \A x, y \in Nat : y < x => <<y, x>> \in R
  OBVIOUS
<1>4. \A x, y \in Nat : <<y, x>> \notin R => x <= y
  <2>. HIDE DEF R
  <2>. QED  BY <1>3
<1>. HIDE DEF R
<1>5. PICK x \in T : \A y \in T : <<y, x>> \notin R
  BY <1>2
<1>6. \A y \in T : x <= y
  BY <1>4, <1>5
<1>. QED  BY <1>6

(* Induction, for a property given as the set of the naturals that have it.*)
LEMMA SetInduction ==
  ASSUME NEW T, 0 \in T, \A n \in Nat : n \in T => n + 1 \in T
  PROVE  Nat \subseteq T
<1> DEFINE U == Nat \ T
<1> SUFFICES ASSUME U # {} PROVE FALSE
  OBVIOUS
<1>1. PICK x \in U : \A y \in U : x <= y
  BY LeastNatural
<1>2. x # 0 /\ x \in Nat /\ x - 1 \in Nat
  OBVIOUS
<1>3. x - 1 \in T
  BY <1>1, <1>2
<1>4. x = (x - 1) + 1
  BY <1>2
<1>. QED  BY <1>2, <1>3, <1>4

----------------------------------------------------------------------------
(* The recursive function inside FlattenSeq.                               *)
FlattenFcn(s, n) ==
  CHOOSE f : f = [i \in 1 .. n |-> IF i = 1 THEN s[i] ELSE f[i - 1] \o s[i]]

(* A function with that recursion exists, so CHOOSE finds one.             *)
LEMMA FlattenFcnRecursion ==
  ASSUME NEW s, NEW n \in Nat
  PROVE  FlattenFcn(s, n) = [i \in 1 .. n |->
           IF i = 1 THEN s[i] ELSE FlattenFcn(s, n)[i - 1] \o s[i]]
<1> DEFINE Solves(f, m) ==
             f = [i \in 1 .. m |-> IF i = 1 THEN s[i] ELSE f[i - 1] \o s[i]]
           T == {m \in Nat : \E f : Solves(f, m)}
<1>1. 0 \in T
  <2>1. Solves([i \in 1 .. 0 |-> 0], 0)
    OBVIOUS
  <2>. QED  BY <2>1
<1>2. ASSUME NEW m \in Nat, m \in T PROVE m + 1 \in T
  <2>1. PICK f : Solves(f, m)
    BY <1>2
  <2> DEFINE g == [i \in 1 .. m + 1 |->
               IF i <= m THEN f[i] ELSE IF i = 1 THEN s[i] ELSE f[m] \o s[i]]
  <2>2. \A i \in 1 .. m + 1 : g[i] = IF i = 1 THEN s[i] ELSE g[i - 1] \o s[i]
    <3> TAKE i \in 1 .. m + 1
    <3>1. CASE i <= m
      <4>1. f[i] = IF i = 1 THEN s[i] ELSE f[i - 1] \o s[i]
        <5>1. i \in 1 .. m
          BY <3>1
        <5>2. \A j \in 1 .. m : f[j] = IF j = 1 THEN s[j] ELSE f[j - 1] \o s[j]
          BY <2>1, Zenon
        <5>. QED  BY <5>1, <5>2
      <4>. QED  BY <3>1, <4>1
    <3>2. CASE i = m + 1
      BY <3>2
    <3>. QED  BY <3>1, <3>2
  <2>3. Solves(g, m + 1)
    <3>1. DOMAIN g = 1 .. m + 1
      OBVIOUS
    <3>2. g = [i \in 1 .. m + 1 |-> g[i]]
      OBVIOUS
    <3> HIDE DEF g
    <3>. QED  BY <2>2, <3>2
  <2>. HIDE DEF Solves
  <2>. QED  BY <2>3
<1>3. \E f : Solves(f, n)
  <2> HIDE DEF Solves
  <2>. QED  BY <1>1, <1>2, SetInduction
<1>. QED  BY <1>3 DEF FlattenFcn

(* FlattenSeq is that function's last value.                               *)
LEMMA FlattenIsLast ==
  ASSUME NEW s, Len(s) # 0
  PROVE  FlattenSeq(s) = FlattenFcn(s, Len(s))[Len(s)]
BY DEF FlattenSeq, FlattenFcn

(* The unfolded recursion, value by value.                                 *)
LEMMA FlattenFcnValues ==
  ASSUME NEW s, NEW n \in Nat, NEW i \in 1 .. n
  PROVE  FlattenFcn(s, n)[i] =
           IF i = 1 THEN s[i] ELSE FlattenFcn(s, n)[i - 1] \o s[i]
<1> DEFINE f == FlattenFcn(s, n)
<1>1. f = [j \in 1 .. n |-> IF j = 1 THEN s[j] ELSE f[j - 1] \o s[j]]
  BY FlattenFcnRecursion
<1>. HIDE DEF f
<1>2. f[i] = IF i = 1 THEN s[i] ELSE f[i - 1] \o s[i]
  BY <1>1
<1>. QED  BY <1>2 DEF f

(* Its values are sequences.                                               *)
LEMMA FlattenFcnType ==
  ASSUME NEW S, NEW s \in Seq(Seq(S)), NEW n \in 0 .. Len(s), NEW k \in 1 .. n
  PROVE  FlattenFcn(s, n)[k] \in Seq(S)
<1> DEFINE f == FlattenFcn(s, n)
           T == {m \in Nat : m + 1 <= n => f[m + 1] \in Seq(S)}
<1>1. \A i \in 1 .. n : f[i] = IF i = 1 THEN s[i] ELSE f[i - 1] \o s[i]
  BY FlattenFcnValues
<1>2. \A i \in 1 .. n : s[i] \in Seq(S)
  BY ElementOfSeq
<1>. HIDE DEF f
<1>0. n \in Nat
  BY LenProperties
<1>3. 0 \in T
  <2>1. 1 <= n => 1 \in 1 .. n
    BY <1>0
  <2>. QED  BY <1>1, <1>2, <2>1
<1>4. ASSUME NEW m \in Nat, m \in T PROVE m + 1 \in T
  <2> SUFFICES ASSUME m + 2 <= n PROVE f[m + 2] \in Seq(S)
    OBVIOUS
  <2>0. m + 2 \in 1 .. n /\ m + 2 # 1 /\ (m + 2) - 1 = m + 1
    BY <1>0
  <2>1. f[m + 2] = f[m + 1] \o s[m + 2]
    BY <1>1, <2>0
  <2>2. f[m + 1] \in Seq(S) /\ s[m + 2] \in Seq(S)
    BY <1>2, <1>4, <2>0
  <2>. QED  BY <2>1, <2>2
<1>5. Nat \subseteq T
  <2>. HIDE DEF T
  <2>. QED  BY <1>3, <1>4, SetInduction
<1>6. k - 1 \in Nat /\ (k - 1) + 1 = k /\ k <= n
  BY <1>0
<1>7. k - 1 \in T
  BY <1>5, <1>6
<1>. QED  BY <1>6, <1>7 DEF f

(* A prefix of the argument gives the same values.                         *)
LEMMA FlattenFcnPrefix ==
  ASSUME NEW s, NEW t, NEW m \in Nat, NEW n \in Nat, m <= n,
         \A i \in 1 .. m : s[i] = t[i],
         NEW k \in 1 .. m
  PROVE  FlattenFcn(s, m)[k] = FlattenFcn(t, n)[k]
<1> DEFINE f == FlattenFcn(s, m)
           g == FlattenFcn(t, n)
           T == {j \in Nat : j + 1 <= m => f[j + 1] = g[j + 1]}
<1>1. \A i \in 1 .. m : f[i] = IF i = 1 THEN s[i] ELSE f[i - 1] \o s[i]
  BY FlattenFcnValues
<1>2. \A i \in 1 .. m : g[i] = IF i = 1 THEN t[i] ELSE g[i - 1] \o t[i]
  BY FlattenFcnValues
<1>. HIDE DEF f, g
<1>3. 0 \in T
  BY <1>1, <1>2
<1>4. ASSUME NEW j \in Nat, j \in T PROVE j + 1 \in T
  <2> SUFFICES ASSUME j + 2 <= m PROVE f[j + 2] = g[j + 2]
    OBVIOUS
  <2>0. j + 2 \in 1 .. m /\ j + 2 # 1 /\ (j + 2) - 1 = j + 1
    OBVIOUS
  <2>1. f[j + 2] = f[j + 1] \o s[j + 2] /\ g[j + 2] = g[j + 1] \o t[j + 2]
    BY <1>1, <1>2, <2>0
  <2>2. f[j + 1] = g[j + 1] /\ s[j + 2] = t[j + 2]
    BY <1>4
  <2>. QED  BY <2>1, <2>2
<1>5. Nat \subseteq T
  <2>. HIDE DEF T
  <2>. QED  BY <1>3, <1>4, SetInduction
<1>6. k - 1 \in Nat /\ (k - 1) + 1 = k
  OBVIOUS
<1>7. k - 1 \in T
  BY <1>5, <1>6
<1>. QED  BY <1>6, <1>7 DEF f, g

----------------------------------------------------------------------------
(* The algebra of FlattenSeq.                                              *)

(* A concatenation of sequences is a sequence; that of none is empty.      *)
LEMMA FlattenType ==
  ASSUME NEW S, NEW s \in Seq(Seq(S))
  PROVE  FlattenSeq(s) \in Seq(S) /\ FlattenSeq(<<>>) = <<>>
<1>1. FlattenSeq(<<>>) = <<>>
  BY DEF FlattenSeq
<1>2. CASE Len(s) = 0
  BY <1>1, <1>2, EmptySeq
<1>3. CASE Len(s) # 0
  <2>1. Len(s) \in 1 .. Len(s)
    BY <1>3, LenProperties
  <2>. QED  BY <1>1, <1>3, <2>1, FlattenIsLast, FlattenFcnType
<1>. QED  BY <1>2, <1>3

(* One more sequence is concatenated at the end.                           *)
LEMMA FlattenAppend ==
  ASSUME NEW S, NEW s \in Seq(Seq(S)), NEW x \in Seq(S)
  PROVE  FlattenSeq(Append(s, x)) = FlattenSeq(s) \o x
<1> DEFINE t == Append(s, x)
           n == Len(s)
<1>1. /\ n \in Nat /\ Len(t) = n + 1 /\ t[n + 1] = x
      /\ \A i \in 1 .. n : t[i] = s[i]
  BY LenProperties, AppendProperties
<1>. HIDE DEF t, n
<1>2. FlattenSeq(t) = FlattenFcn(t, n + 1)[n + 1]
  <2>1. Len(t) # 0
    BY <1>1
  <2>. QED  BY <1>1, <2>1, FlattenIsLast
<1>3. FlattenFcn(t, n + 1)[n + 1] =
        IF n + 1 = 1 THEN t[n + 1] ELSE FlattenFcn(t, n + 1)[n] \o t[n + 1]
  BY <1>1, FlattenFcnValues
<1>4. CASE n = 0
  <2>1. s = <<>> /\ FlattenSeq(s) = <<>>
    BY <1>4, EmptySeq, FlattenType DEF n
  <2>2. <<>> \o x = x
    BY ConcatEmptySeq
  <2>. QED  BY <1>1, <1>2, <1>3, <1>4, <2>1, <2>2 DEF t
<1>5. CASE n # 0
  <2>1. FlattenSeq(s) = FlattenFcn(s, n)[n]
    BY <1>5, FlattenIsLast DEF n
  <2>2. FlattenFcn(s, n)[n] = FlattenFcn(t, n + 1)[n]
    <3>1. n \in 1 .. n /\ n <= n + 1 /\ n + 1 \in Nat
      BY <1>1, <1>5
    <3>. QED  BY <1>1, <3>1, FlattenFcnPrefix
  <2>3. n + 1 # 1
    BY <1>1, <1>5
  <2>. QED  BY <1>1, <1>2, <1>3, <2>1, <2>2, <2>3 DEF t
<1>. QED  BY <1>4, <1>5

(* The concatenation of the first k sequences.                             *)
Upto(s, k) == FlattenSeq(SubSeq(s, 1, k))

(* It grows by one sequence at a time, from nothing to the whole.          *)
LEMMA UptoSteps ==
  ASSUME NEW S, NEW s \in Seq(Seq(S))
  PROVE  /\ Upto(s, 0) = <<>>
         /\ Upto(s, Len(s)) = FlattenSeq(s)
         /\ \A k \in 0 .. Len(s) : Upto(s, k) \in Seq(S)
         /\ \A k \in 0 .. Len(s) - 1 : Upto(s, k + 1) = Upto(s, k) \o s[k + 1]
<1>1. Upto(s, 0) = <<>>
  <2>1. SubSeq(s, 1, 0) = <<>>
    BY SubSeqEmpty
  <2>. QED  BY <2>1, FlattenType DEF Upto
<1>2. Upto(s, Len(s)) = FlattenSeq(s)
  BY SubSeqFull DEF Upto
<1>3. \A k \in 0 .. Len(s) : SubSeq(s, 1, k) \in Seq(Seq(S))
  <2> TAKE k \in 0 .. Len(s)
  <2>1. \A i \in 1 .. k : s[i] \in Seq(S)
    BY ElementOfSeq, LenProperties
  <2>. QED  BY <2>1, LenProperties, SubSeqProperties
<1>4. \A k \in 0 .. Len(s) : Upto(s, k) \in Seq(S)
  BY <1>3, FlattenType DEF Upto
<1>5. ASSUME NEW k \in 0 .. Len(s) - 1
      PROVE  Upto(s, k + 1) = Upto(s, k) \o s[k + 1]
  <2>1. Len(s) \in Nat /\ k + 1 \in 1 .. Len(s) /\ k \in 0 .. Len(s)
    BY LenProperties
  <2>2. s[k + 1] \in Seq(S)
    BY <2>1, ElementOfSeq
  <2>3. SubSeq(s, 1, k + 1) = SubSeq(s, 1, k) \o <<s[k + 1]>>
    <3>1. 1 \in 1 .. Len(s) /\ k + 1 \in 1 .. Len(s) /\ (k + 1) - 1 = k
      BY <2>1
    <3>. QED  BY <3>1, SubSeqRecursiveSecond
  <2>4. SubSeq(s, 1, k + 1) = Append(SubSeq(s, 1, k), s[k + 1])
    BY <1>3, <2>1, <2>2, <2>3, AppendIsConcat
  <2>. QED  BY <1>3, <2>1, <2>2, <2>4, FlattenAppend DEF Upto
<1>. QED  BY <1>1, <1>2, <1>4, <1>5

(* The concatenation of the first sequences begins the whole one.          *)
LEMMA UptoIsPrefix ==
  ASSUME NEW S, NEW s \in Seq(Seq(S)), NEW k \in 0 .. Len(s)
  PROVE  /\ Len(Upto(s, k)) <= Len(FlattenSeq(s))
         /\ \A i \in 1 .. Len(Upto(s, k)) : FlattenSeq(s)[i] = Upto(s, k)[i]
<1> DEFINE u(n) == Upto(s, n)
           Begins(n) == /\ Len(u(k)) <= Len(u(n))
                        /\ \A i \in 1 .. Len(u(k)) : u(n)[i] = u(k)[i]
           T == {m \in Nat : k + m <= Len(s) => Begins(k + m)}
<1>1. Len(s) \in Nat /\ k \in Nat
  BY LenProperties
<1>2. /\ \A n \in 0 .. Len(s) : u(n) \in Seq(S)
      /\ \A n \in 0 .. Len(s) - 1 : u(n + 1) = u(n) \o s[n + 1]
      /\ u(Len(s)) = FlattenSeq(s)
  BY UptoSteps
<1>3. \A n \in 0 .. Len(s) : Len(u(n)) \in Nat
  BY <1>2, LenProperties
<1>. HIDE DEF u
<1>4. 0 \in T
  BY <1>1, <1>3
<1>5. ASSUME NEW m \in Nat, m \in T PROVE m + 1 \in T
  <2> SUFFICES ASSUME k + (m + 1) <= Len(s) PROVE Begins(k + (m + 1))
    OBVIOUS
  <2> DEFINE n == k + m
  <2>1. n \in 0 .. Len(s) - 1 /\ n + 1 = k + (m + 1) /\ n \in 0 .. Len(s)
    BY <1>1
  <2>2. Begins(n)
    BY <1>1, <1>5
  <2>. HIDE DEF n
  <2>3. s[n + 1] \in Seq(S)
    <3>1. n + 1 \in 1 .. Len(s)
      BY <1>1, <2>1
    <3>. QED  BY <3>1, ElementOfSeq
  <2>4. u(n) \in Seq(S) /\ u(n + 1) = u(n) \o s[n + 1]
    BY <1>2, <2>1
  <2>5. /\ Len(u(n + 1)) = Len(u(n)) + Len(s[n + 1]) /\ Len(s[n + 1]) \in Nat
        /\ \A i \in 1 .. Len(u(n)) : u(n + 1)[i] = u(n)[i]
    <3>1. Len(s[n + 1]) \in Nat /\ Len(u(n)) \in Nat
      BY <2>3, <2>4, LenProperties
    <3>. QED  BY <2>3, <2>4, <3>1, ConcatProperties
  <2>6. Len(u(k)) \in Nat /\ Len(u(n)) \in Nat
    BY <1>3, <2>1
  <2>7. Begins(n + 1)
    BY <2>2, <2>5, <2>6
  <2>. QED  BY <2>1, <2>7
<1>6. Nat \subseteq T
  <2>. HIDE DEF T
  <2>. QED  BY <1>4, <1>5, SetInduction
<1>7. Len(s) - k \in Nat /\ k + (Len(s) - k) = Len(s)
  BY <1>1
<1>8. Len(s) - k \in T
  <2>. HIDE DEF T
  <2>. QED  BY <1>6, <1>7
<1>9. Begins(Len(s))
  BY <1>1, <1>7, <1>8
<1>. QED  BY <1>2, <1>9 DEF u

(* Where an element of one of the sequences is found in the concatenation. *)
LEMMA FlattenIndex ==
  ASSUME NEW S, NEW s \in Seq(Seq(S)), NEW k \in 0 .. Len(s) - 1
  PROVE  /\ Len(Upto(s, k)) \in Nat /\ Len(s[k + 1]) \in Nat
         /\ Len(FlattenSeq(s)) \in Nat
         /\ Len(Upto(s, k + 1)) = Len(Upto(s, k)) + Len(s[k + 1])
         /\ Len(Upto(s, k + 1)) <= Len(FlattenSeq(s))
         /\ \A j \in 1 .. Len(s[k + 1]) :
              FlattenSeq(s)[Len(Upto(s, k)) + j] = s[k + 1][j]
<1>1. k \in 0 .. Len(s) /\ k + 1 \in 0 .. Len(s) /\ k + 1 \in 1 .. Len(s)
  BY LenProperties
<1>2. /\ Upto(s, k) \in Seq(S) /\ s[k + 1] \in Seq(S)
      /\ Upto(s, k + 1) = Upto(s, k) \o s[k + 1]
  BY <1>1, UptoSteps, ElementOfSeq
<1>3. Len(Upto(s, k)) \in Nat /\ Len(s[k + 1]) \in Nat
  BY <1>2, LenProperties
<1>4. /\ Len(Upto(s, k + 1)) = Len(Upto(s, k)) + Len(s[k + 1])
      /\ \A j \in 1 .. Len(s[k + 1]) :
           Upto(s, k + 1)[Len(Upto(s, k)) + j] = s[k + 1][j]
  BY <1>2, <1>3, ConcatProperties
<1>5. Len(FlattenSeq(s)) \in Nat
  BY FlattenType, LenProperties
<1>6. /\ Len(Upto(s, k + 1)) <= Len(FlattenSeq(s))
      /\ \A i \in 1 .. Len(Upto(s, k + 1)) : FlattenSeq(s)[i] = Upto(s, k + 1)[i]
  BY <1>1, UptoIsPrefix
<1>7. ASSUME NEW j \in 1 .. Len(s[k + 1])
      PROVE  FlattenSeq(s)[Len(Upto(s, k)) + j] = s[k + 1][j]
  <2>1. Len(Upto(s, k)) + j \in 1 .. Len(Upto(s, k + 1))
    BY <1>3, <1>4
  <2>. QED  BY <1>4, <1>6, <2>1
<1>. QED  BY <1>3, <1>4, <1>5, <1>6, <1>7

----------------------------------------------------------------------------
(* Suffixes.                                                               *)

(* IsSuffix without the reversal of its definition.                        *)
LEMMA SuffixByIndex ==
  ASSUME NEW S, NEW s \in Seq(S), NEW t \in Seq(S)
  PROVE  IsSuffix(s, t) <=>
           /\ Len(s) <= Len(t)
           /\ \A i \in 1 .. Len(s) : s[i] = t[(Len(t) - Len(s)) + i]
<1> DEFINE m == Len(s)
           n == Len(t)
           a == [i \in 1 .. m |-> s[(m - i) + 1]]
           b == [i \in 1 .. n |-> t[(n - i) + 1]]
<1>1. m \in Nat /\ n \in Nat
  BY LenProperties
<1>2. /\ \A i \in 1 .. m : s[i] \in S /\ (m - i) + 1 \in 1 .. m
      /\ \A i \in 1 .. n : t[i] \in S /\ (n - i) + 1 \in 1 .. n
  BY <1>1, ElementOfSeq
<1>3. a \in Seq(S) /\ b \in Seq(S) /\ Len(a) = m /\ Len(b) = n
  BY <1>1, <1>2
<1>4. Reverse(s) = a /\ Reverse(t) = b
  BY DEF Reverse
<1>5. IsSuffix(s, t) <=> m <= n /\ SubSeq(a, 1, m) = SubSeq(b, 1, m)
  BY <1>3, <1>4 DEF IsSuffix, IsPrefix
<1>6. ASSUME m <= n
      PROVE  SubSeq(a, 1, m) = SubSeq(b, 1, m) <=>
               \A i \in 1 .. m : a[i] = b[i]
  <2>1. \A i \in 1 .. m : a[i] \in S /\ b[i] \in S
    BY <1>1, <1>2, <1>6
  <2>2. SubSeq(a, 1, m) \in Seq(S) /\ SubSeq(b, 1, m) \in Seq(S)
    BY <1>1, <2>1, SubSeqProperties
  <2>3. /\ Len(SubSeq(a, 1, m)) = m /\ Len(SubSeq(b, 1, m)) = m
        /\ \A i \in 1 .. m : /\ SubSeq(a, 1, m)[i] = a[i]
                             /\ SubSeq(b, 1, m)[i] = b[i]
    <3>. HIDE DEF a, b, m
    <3>1. \A i \in 1 .. (m - 1) + 1 : (1 + i) - 1 = i
      BY <1>1
    <3>2. (m - 1) + 1 = m
      BY <1>1
    <3>. QED  BY <1>1, <2>1, <3>1, <3>2, SubSeqProperties
  <2>. HIDE DEF a, b, m
  <2>4. ASSUME \A i \in 1 .. m : a[i] = b[i]
        PROVE  SubSeq(a, 1, m) = SubSeq(b, 1, m)
    BY <2>2, <2>3, <2>4, SeqEqual
  <2>. QED  BY <2>3, <2>4
<1>7. ASSUME m <= n
      PROVE  (\A i \in 1 .. m : a[i] = b[i]) <=>
               \A i \in 1 .. m : s[i] = t[(n - m) + i]
  <2>1. \A i \in 1 .. m : i \in 1 .. n /\ a[i] = s[(m - i) + 1] /\ b[i] = t[(n - i) + 1]
    BY <1>1, <1>7
  <2>. HIDE DEF a, b, m, n
  <2>2. ASSUME \A i \in 1 .. m : a[i] = b[i], NEW i \in 1 .. m
        PROVE  s[i] = t[(n - m) + i]
    <3>1. (m - i) + 1 \in 1 .. m /\ (m - ((m - i) + 1)) + 1 = i
          /\ (n - ((m - i) + 1)) + 1 = (n - m) + i
      BY <1>1
    <3>. QED  BY <2>1, <2>2, <3>1
  <2>3. ASSUME \A i \in 1 .. m : s[i] = t[(n - m) + i], NEW i \in 1 .. m
        PROVE  a[i] = b[i]
    <3>1. (m - i) + 1 \in 1 .. m /\ (n - m) + ((m - i) + 1) = (n - i) + 1
      BY <1>1
    <3>. QED  BY <2>1, <2>3, <3>1
  <2>. QED  BY <2>2, <2>3
<1>. QED  BY <1>1, <1>5, <1>6, <1>7
=============================================================================
