---------------------------- MODULE DataTheorems ----------------------------
(***************************************************************************)
(* What the proofs of several components use of sums over finite sets and  *)
(* of the elements and the ends of sequences.                              *)
(*                                                                         *)
(* The community modules define a sum by a recursive function that takes   *)
(* the elements in the order in which CHOOSE names them.  That the         *)
(* recursion defines something, that the order does not matter and that    *)
(* sums are monotone is proved from the least counterexample, which the    *)
(* well-founded orderings of the library give.                             *)
(***************************************************************************)
EXTENDS Integers, Sequences, SequencesExt, Functions, FiniteSetTheorems,
        SequenceTheorems, TLAPS

(* Of some subsets of a finite set, one contains no other.                 *)
LEMMA SmallestSet ==
  ASSUME NEW S, IsFiniteSet(S), NEW T, T \subseteq SUBSET S, T # {}
  PROVE  \E s \in T : \A t \in T : t \subseteq s => t = s
<1> DEFINE R == StrictSubsetOrdering(S)
<1>1. IsWellFoundedOn(R, SUBSET S)
  BY FS_StrictSubsetOrderingWellFounded, FS_FiniteSubsetsOfFinite
<1>2. \E s \in T : \A t \in T : ~ (<<t, s>> \in R)
  <2> HIDE DEF R
  <2> QED
    BY <1>1, WFMin
<1>3. PICK s \in T : \A t \in T : <<t, s>> \notin R
  BY <1>2
<1>4. ASSUME NEW t \in T, t \subseteq s, t # s PROVE FALSE
  <2>1. <<t, s>> \in (SUBSET S) \X (SUBSET S)
    OBVIOUS
  <2>2. <<t, s>> \in R
    BY <1>4, <2>1 DEF StrictSubsetOrdering
  <2> QED
    BY <1>3, <2>2
<1> QED
  BY <1>4

(* Of some natural numbers, one is the least.                              *)
LEMMA LeastNatural ==
  ASSUME NEW T \in SUBSET Nat, T # {}
  PROVE  \E n \in T : \A m \in T : n <= m
<1>1. PICK top \in T : TRUE
  OBVIOUS
<1> DEFINE below == {n \in T : n <= top}
           Segments == {0 .. n : n \in below}
           whole == 0 .. top
<1>2. IsFiniteSet(whole)
  BY FS_Interval
<1>3. Segments \subseteq SUBSET whole /\ Segments # {}
  <2>1. top \in below
    OBVIOUS
  <2> QED
    BY <2>1
<1>4. PICK s \in Segments : \A t \in Segments : t \subseteq s => t = s
  <2> HIDE DEF Segments, whole
  <2> QED
    BY <1>2, <1>3, SmallestSet
<1>5. PICK n \in below : s = 0 .. n
  OBVIOUS
<1>6. ASSUME NEW m \in T, m < n PROVE FALSE
  <2>1. m \in below /\ 0 .. m \subseteq 0 .. n
    BY <1>6
  <2>2. 0 .. m = 0 .. n
    BY <1>4, <1>5, <2>1
  <2> QED
    BY <1>6, <2>2
<1> QED
  BY <1>5, <1>6

-----------------------------------------------------------------------------
(* What the definition of a sum recurs to.                                 *)
Chosen(s) == CHOOSE x \in s : TRUE

IsSumOn(g, f, D) ==
  g = [s \in D |-> IF s = {} THEN 0 ELSE f[Chosen(s)] + g[s \ {Chosen(s)}]]

LEMMA ChosenIsIn == ASSUME NEW s, s # {} PROVE Chosen(s) \in s
BY DEF Chosen

LEMMA SumExists ==
  ASSUME NEW S, IsFiniteSet(S), NEW f
  PROVE  \E g : IsSumOn(g, f, SUBSET S)
<1> DEFINE Small(n) == {s \in SUBSET S : Cardinality(s) <= n}
           Bad == {n \in Nat : ~ \E g : IsSumOn(g, f, Small(n))}
<1>1. ASSUME NEW s \in SUBSET S
      PROVE  /\ IsFiniteSet(s) /\ Cardinality(s) \in Nat
             /\ Cardinality(s) <= Cardinality(S)
             /\ Cardinality(s) = 0 <=> s = {}
             /\ s # {} => Cardinality(s \ {Chosen(s)}) = Cardinality(s) - 1
  <2>1. IsFiniteSet(s) /\ Cardinality(s) <= Cardinality(S)
    BY FS_Subset
  <2> QED
    BY <2>1, FS_CardinalityType, FS_EmptySet, FS_RemoveElement, ChosenIsIn
<1>2. 0 \notin Bad
  <2>1. ASSUME NEW s \in Small(0) PROVE s = {}
    <3>1. s \in SUBSET S /\ Cardinality(s) <= 0
      OBVIOUS
    <3>2. Cardinality(s) \in Nat /\ (Cardinality(s) = 0 <=> s = {})
      BY <1>1, <3>1
    <3> QED
      BY <3>1, <3>2
  <2>2. IsSumOn([s \in Small(0) |-> 0], f, Small(0))
    BY <2>1 DEF IsSumOn
  <2> QED
    BY <2>2
<1>3. ASSUME NEW n \in Nat, n \notin Bad PROVE n + 1 \notin Bad
  <2>1. PICK g : IsSumOn(g, f, Small(n))
    BY <1>3
  <2> DEFINE h == [s \in Small(n + 1) |->
                     IF s = {} THEN 0 ELSE f[Chosen(s)] + g[s \ {Chosen(s)}]]
  <2>2. ASSUME NEW s \in Small(n) PROVE g[s] = h[s]
    <3>1. s \in SUBSET S /\ Cardinality(s) <= n
      OBVIOUS
    <3>2. Cardinality(s) \in Nat
      BY <1>1, <3>1
    <3>3. s \in Small(n + 1)
      BY <3>1, <3>2
    <3> QED
      BY <2>1, <3>3 DEF IsSumOn
  <2>3. ASSUME NEW s \in Small(n + 1), s # {}
        PROVE  s \ {Chosen(s)} \in Small(n)
    BY <1>1, <2>3
  <2>4. h = [s \in Small(n + 1) |->
               IF s = {} THEN 0 ELSE f[Chosen(s)] + h[s \ {Chosen(s)}]]
    BY <2>2, <2>3
  <2>5. IsSumOn(h, f, Small(n + 1))
    BY <2>4 DEF IsSumOn
  <2> QED
    BY <2>5
<1>4. Bad = {}
  <2> SUFFICES ASSUME Bad # {} PROVE FALSE
    OBVIOUS
  <2>1. PICK n \in Bad : \A m \in Bad : n <= m
    <3>1. Bad \in SUBSET Nat
      OBVIOUS
    <3> HIDE DEF Bad
    <3> QED
      BY <3>1, LeastNatural
  <2>2. n \in Nat /\ n # 0
    BY <1>2
  <2>3. n - 1 \in Nat /\ n - 1 \notin Bad
    <3> HIDE DEF Bad
    <3> QED
      BY <2>1, <2>2
  <2>4. (n - 1) + 1 \notin Bad
    BY <1>3, <2>3
  <2> QED
    BY <2>2, <2>4
<1>5. Cardinality(S) \in Nat /\ Small(Cardinality(S)) = SUBSET S
  BY <1>1, FS_CardinalityType
<1> QED
  BY <1>4, <1>5

LEMMA SumIsOn ==
  ASSUME NEW S, IsFiniteSet(S), NEW f
  PROVE  \E g : IsSumOn(g, f, SUBSET S) /\ SumFunctionOnSet(f, S) = g[S]
<1> DEFINE it == CHOOSE g : IsSumOn(g, f, SUBSET S)
<1>1. IsSumOn(it, f, SUBSET S)
  BY SumExists
<1>2. SumFunctionOnSet(f, S) = it[S]
  BY DEF SumFunctionOnSet, FoldFunctionOnSet, MapThenFoldSet, IsSumOn, Chosen
<1> QED
  BY <1>1, <1>2

LEMMA SumsAgree ==
  ASSUME NEW S, IsFiniteSet(S), NEW T \in SUBSET S, NEW f, NEW g, NEW h,
         IsSumOn(g, f, SUBSET S), IsSumOn(h, f, SUBSET T)
  PROVE  g[T] = h[T]
<1> DEFINE Bad == {s \in SUBSET T : g[s] # h[s]}
<1> SUFFICES ASSUME Bad # {} PROVE FALSE
  OBVIOUS
<1>1. PICK s \in Bad : \A t \in Bad : t \subseteq s => t = s
  <2>1. Bad \subseteq SUBSET S
    OBVIOUS
  <2> HIDE DEF Bad
  <2> QED
    BY <2>1, SmallestSet
<1>2. s \in SUBSET T /\ s \in SUBSET S
  OBVIOUS
<1>3. s # {}
  BY <1>2 DEF IsSumOn
<1>4. /\ s \ {Chosen(s)} \in SUBSET T /\ s \ {Chosen(s)} # s
      /\ s \ {Chosen(s)} \subseteq s
  BY <1>2, <1>3, ChosenIsIn
<1>5. g[s \ {Chosen(s)}] = h[s \ {Chosen(s)}]
  BY <1>1, <1>4
<1> QED
  BY <1>2, <1>3, <1>5 DEF IsSumOn

(* The recursion.                                                          *)
LEMMA SumRecursion ==
  ASSUME NEW S, IsFiniteSet(S), NEW f
  PROVE  SumFunctionOnSet(f, S) =
           IF S = {} THEN 0
           ELSE f[Chosen(S)] + SumFunctionOnSet(f, S \ {Chosen(S)})
<1> DEFINE rest == S \ {Chosen(S)}
<1>1. IsFiniteSet(rest) /\ rest \in SUBSET S
  BY FS_Subset
<1>2. PICK g : IsSumOn(g, f, SUBSET S) /\ SumFunctionOnSet(f, S) = g[S]
  BY SumIsOn
<1>3. PICK h : IsSumOn(h, f, SUBSET rest) /\ SumFunctionOnSet(f, rest) = h[rest]
  <2> HIDE DEF rest
  <2> QED
    BY <1>1, SumIsOn
<1>4. g[rest] = h[rest]
  <2>1. IsSumOn(g, f, SUBSET S) /\ IsSumOn(h, f, SUBSET rest)
    BY <1>2, <1>3
  <2> HIDE DEF rest
  <2> QED
    BY <1>1, <2>1, SumsAgree
<1>5. g[S] = IF S = {} THEN 0 ELSE f[Chosen(S)] + g[rest]
  BY <1>2 DEF IsSumOn
<1> QED
  BY <1>2, <1>3, <1>4, <1>5

-----------------------------------------------------------------------------
(* What there is to know of sums.                                          *)

LEMMA SumEmpty == ASSUME NEW f PROVE SumFunctionOnSet(f, {}) = 0
BY FS_EmptySet, SumRecursion

LEMMA SumType ==
  ASSUME NEW S, IsFiniteSet(S), NEW f, \A x \in S : f[x] \in Int
  PROVE  SumFunctionOnSet(f, S) \in Int
<1> DEFINE Bad == {s \in SUBSET S : SumFunctionOnSet(f, s) \notin Int}
<1> SUFFICES ASSUME Bad # {} PROVE FALSE
  OBVIOUS
<1>1. PICK s \in Bad : \A t \in Bad : t \subseteq s => t = s
  <2>1. Bad \subseteq SUBSET S
    OBVIOUS
  <2> HIDE DEF Bad
  <2> QED
    BY <2>1, SmallestSet
<1>2. s \in SUBSET S /\ IsFiniteSet(s)
  BY FS_Subset
<1>3. s # {}
  BY SumEmpty
<1>4. Chosen(s) \in s
  BY <1>3, ChosenIsIn
<1>5. s \ {Chosen(s)} \notin Bad /\ s \ {Chosen(s)} \in SUBSET S
  <2> HIDE DEF Bad
  <2> QED
    BY <1>1, <1>2, <1>4
<1>6. SumFunctionOnSet(f, s) = f[Chosen(s)] + SumFunctionOnSet(f, s \ {Chosen(s)})
  BY <1>2, <1>3, SumRecursion
<1> QED
  BY <1>2, <1>4, <1>5, <1>6

(* Any element may be taken out first.                                     *)
LEMMA SumRemove ==
  ASSUME NEW S, IsFiniteSet(S), NEW f, \A x \in S : f[x] \in Int, NEW x \in S
  PROVE  SumFunctionOnSet(f, S) = f[x] + SumFunctionOnSet(f, S \ {x})
<1> DEFINE Sum(s) == SumFunctionOnSet(f, s)
           Bad == {s \in SUBSET S : \E y \in s : Sum(s) # f[y] + Sum(s \ {y})}
<1> SUFFICES ASSUME Bad # {} PROVE FALSE
  OBVIOUS
<1>1. PICK s \in Bad : \A t \in Bad : t \subseteq s => t = s
  <2>1. Bad \subseteq SUBSET S
    OBVIOUS
  <2> HIDE DEF Bad
  <2> QED
    BY <2>1, SmallestSet
<1>2. PICK y \in s : Sum(s) # f[y] + Sum(s \ {y})
  OBVIOUS
<1>3. s \in SUBSET S /\ IsFiniteSet(s)
  BY FS_Subset
<1> DEFINE c == Chosen(s)
<1>4. c \in s /\ Sum(s) = f[c] + Sum(s \ {c})
  BY <1>2, <1>3, ChosenIsIn, SumRecursion
<1>5. y # c
  BY <1>2, <1>4
<1>6. ASSUME NEW a \in s, NEW b \in s, a # b
      PROVE  Sum(s \ {a}) = f[b] + Sum(s \ {a, b})
  <2>1. s \ {a} \notin Bad /\ s \ {a} \in SUBSET S
    <3> HIDE DEF Bad
    <3> QED
      BY <1>1, <1>3
  <2>2. b \in s \ {a} /\ (s \ {a}) \ {b} = s \ {a, b}
    BY <1>6
  <2> QED
    BY <2>1, <2>2
<1>7. Sum(s \ {c}) = f[y] + Sum(s \ {c, y}) /\ Sum(s \ {y}) = f[c] + Sum(s \ {y, c})
  <2> HIDE DEF Sum, c
  <2> QED
    BY <1>4, <1>5, <1>6
<1>8. s \ {c, y} = s \ {y, c} /\ Sum(s \ {c, y}) \in Int /\ f[c] \in Int /\ f[y] \in Int
  <2>1. IsFiniteSet(s \ {c, y})
    BY <1>3, FS_Subset
  <2> QED
    BY <1>3, <1>4, <2>1, SumType
<1> QED
  <2> HIDE DEF Sum, c
  <2> QED
    BY <1>2, <1>4, <1>7, <1>8

(* The sum of larger values over a larger set is larger.                   *)
LEMMA SumMonotone ==
  ASSUME NEW S, IsFiniteSet(S), NEW T \in SUBSET S, NEW f, NEW g,
         \A x \in S : g[x] \in Nat,
         \A x \in T : f[x] \in Nat /\ f[x] <= g[x]
  PROVE  SumFunctionOnSet(f, T) <= SumFunctionOnSet(g, S)
<1> DEFINE Sf(s) == SumFunctionOnSet(f, s)
           Sg(s) == SumFunctionOnSet(g, s)
           Bad == {s \in SUBSET S : ~ (0 <= Sg(s) /\ Sf(s \cap T) <= Sg(s))}
<1>1. Bad = {}
  <2> SUFFICES ASSUME Bad # {} PROVE FALSE
    OBVIOUS
  <2>1. PICK s \in Bad : \A t \in Bad : t \subseteq s => t = s
    <3>1. Bad \subseteq SUBSET S
      OBVIOUS
    <3> HIDE DEF Bad
    <3> QED
      BY <3>1, SmallestSet
  <2>2. s \in SUBSET S /\ IsFiniteSet(s) /\ IsFiniteSet(s \cap T)
    BY FS_Subset
  <2>3. s # {}
    <3>1. Sf({}) = 0 /\ Sg({}) = 0 /\ {} \cap T = {}
      BY SumEmpty
    <3> HIDE DEF Sf, Sg
    <3> QED
      BY <3>1
  <2>4. PICK x \in s : TRUE
    BY <2>3
  <2> DEFINE rest == s \ {x}
  <2>5. rest \notin Bad /\ rest \in SUBSET S
    <3> HIDE DEF Bad
    <3> QED
      BY <2>1, <2>2, <2>4
  <2>6. 0 <= Sg(rest) /\ Sf(rest \cap T) <= Sg(rest)
    BY <2>5
  <2>7. /\ Sg(s) = g[x] + Sg(rest) /\ g[x] \in Nat
        /\ Sg(rest) \in Int
    <3>1. \A y \in s : g[y] \in Int
      BY <2>2
    <3>2. IsFiniteSet(rest)
      BY <2>2, FS_Subset
    <3> QED
      BY <2>2, <2>4, <3>1, <3>2, SumRemove, SumType
  <2>8. /\ Sf(rest \cap T) \in Int
        /\ x \in T => Sf(s \cap T) = f[x] + Sf(rest \cap T)
        /\ x \notin T => Sf(s \cap T) = Sf(rest \cap T)
    <3>1. \A y \in s \cap T : f[y] \in Int
      OBVIOUS
    <3>2. IsFiniteSet(rest \cap T) /\ rest \cap T = (s \cap T) \ {x}
      BY <2>2, FS_Subset
    <3>3. Sf(rest \cap T) \in Int
      BY <3>1, <3>2, SumType
    <3>4. CASE x \in T
      BY <2>2, <2>4, <3>1, <3>2, <3>3, <3>4, SumRemove
    <3>5. CASE x \notin T
      <4>1. s \cap T = rest \cap T
        BY <3>5
      <4> QED
        BY <3>3, <3>5, <4>1
    <3> QED
      BY <3>4, <3>5
  <2>9. x \in T => f[x] \in Nat /\ f[x] <= g[x]
    OBVIOUS
  <2>10. 0 <= Sg(s) /\ Sf(s \cap T) <= Sg(s)
    <3> HIDE DEF Sf, Sg, rest
    <3> QED
      BY <2>6, <2>7, <2>8, <2>9
  <2> QED
    BY <2>10
<1>2. S \notin Bad /\ S \cap T = T
  BY <1>1
<1> QED
  BY <1>2

-----------------------------------------------------------------------------
(* What Append, Head and Tail do to the elements of a sequence.            *)
LEMMA ToSetEmpty == ToSet(<<>>) = {}
<1>1. DOMAIN <<>> = {}
  OBVIOUS
<1> QED
  BY <1>1 DEF ToSet

LEMMA ToSetAppend ==
  ASSUME NEW S, NEW s \in Seq(S), NEW e \in S
  PROVE  ToSet(Append(s, e)) = ToSet(s) \cup {e}
<1> DEFINE t == Append(s, e)
<1>1. /\ DOMAIN s = 1 .. Len(s) /\ DOMAIN t = 1 .. Len(s) + 1
      /\ Len(s) \in Nat
      /\ \A i \in 1 .. Len(s) : t[i] = s[i]
      /\ t[Len(s) + 1] = e
  OBVIOUS
<1>2. 1 .. Len(s) + 1 = (1 .. Len(s)) \cup {Len(s) + 1}
  BY <1>1
<1> QED
  BY <1>1, <1>2 DEF ToSet

LEMMA ToSetHeadTail ==
  ASSUME NEW S, NEW s \in Seq(S), s # <<>>
  PROVE  ToSet(s) = {Head(s)} \cup ToSet(Tail(s))
<1> DEFINE t == Tail(s)
<1>1. /\ DOMAIN s = 1 .. Len(s) /\ DOMAIN t = 1 .. Len(s) - 1
      /\ Len(s) \in Nat \ {0}
      /\ \A i \in 1 .. Len(s) - 1 : t[i] = s[i + 1]
      /\ Head(s) = s[1]
  OBVIOUS
<1>2. ASSUME NEW i \in DOMAIN s
      PROVE  s[i] \in {Head(s)} \cup ToSet(t)
  <2>1. CASE i = 1
    BY <1>1, <2>1
  <2>2. CASE i # 1
    <3>1. i - 1 \in DOMAIN t /\ t[i - 1] = s[i]
      BY <1>1, <2>2
    <3> QED
      BY <3>1 DEF ToSet
  <2> QED
    BY <2>1, <2>2
<1>3. ASSUME NEW i \in DOMAIN t PROVE t[i] \in ToSet(s)
  <2>1. i + 1 \in DOMAIN s /\ t[i] = s[i + 1]
    BY <1>1
  <2> QED
    BY <2>1 DEF ToSet
<1>4. Head(s) \in ToSet(s)
  BY <1>1 DEF ToSet
<1> QED
  BY <1>2, <1>3, <1>4 DEF ToSet

-----------------------------------------------------------------------------
(* A set that holds the empty sequence, and with a sequence every sequence *)
(* longer by one element, holds them all.                                  *)
LEMMA AllSequences ==
  ASSUME NEW S, NEW T, <<>> \in T,
         \A s \in Seq(S), e \in S : s \in T => Append(s, e) \in T
  PROVE  Seq(S) \subseteq T
<1> DEFINE Missed == {Len(s) : s \in Seq(S) \ T}
<1> SUFFICES ASSUME Missed # {} PROVE FALSE
  OBVIOUS
<1>1. PICK n \in Missed : \A m \in Missed : n <= m
  <2>1. Missed \in SUBSET Nat
    OBVIOUS
  <2> HIDE DEF Missed
  <2> QED
    BY <2>1, LeastNatural
<1>2. PICK s \in Seq(S) \ T : Len(s) = n
  OBVIOUS
<1>3. s # <<>> /\ n \in Nat /\ n # 0
  BY <1>2
<1> DEFINE front == SubSeq(s, 1, n - 1)
<1>4. /\ front \in Seq(S) /\ Len(front) = n - 1
      /\ s[n] \in S /\ Append(front, s[n]) = s
  BY <1>2, <1>3
<1>5. front \in T
  <2>1. front \notin T => n - 1 \in Missed
    BY <1>4
  <2>2. n \in Nat /\ ~ (n <= n - 1)
    BY <1>3
  <2> QED
    BY <1>1, <2>1, <2>2
<1> QED
  BY <1>2, <1>4, <1>5

(* A sequence without its last element, and with it put back.             *)
LEMMA FrontAndLast ==
  ASSUME NEW S, NEW s \in Seq(S), s # <<>>
  PROVE  /\ Len(s) \in Nat \ {0}
         /\ SubSeq(s, 1, Len(s) - 1) \in Seq(S)
         /\ Len(SubSeq(s, 1, Len(s) - 1)) = Len(s) - 1
         /\ s = Append(SubSeq(s, 1, Len(s) - 1), s[Len(s)])
         /\ s[Len(s)] \in S
         /\ \A i \in 1 .. Len(s) - 1 : SubSeq(s, 1, Len(s) - 1)[i] = s[i]
<1>1. PICK n \in Nat : Len(s) = n + 1
  <2>1. Len(s) \in Nat /\ Len(s) # 0
    OBVIOUS
  <2> QED
    BY <2>1
<1>2. /\ Len(SubSeq(s, 1, n)) = n /\ SubSeq(s, 1, n) \in Seq(S)
      /\ \A i \in 1 .. n : SubSeq(s, 1, n)[i] = s[i]
      /\ s = Append(SubSeq(s, 1, n), s[n + 1]) /\ s[n + 1] \in S
  BY <1>1
<1>3. Len(s) - 1 = n /\ Len(s) \in Nat \ {0}
  BY <1>1
<1> QED
  BY <1>1, <1>2, <1>3

(* A sequence is one over any set that holds its elements.                *)
LEMMA ElementsMakeSeq ==
  ASSUME NEW S, NEW X, NEW s \in Seq(S), ToSet(s) \subseteq X
  PROVE  s \in Seq(X)
<1>1. Len(s) \in Nat /\ s \in [1 .. Len(s) -> X]
  <2>1. /\ Len(s) \in Nat /\ DOMAIN s = 1 .. Len(s)
        /\ s = [i \in 1 .. Len(s) |-> s[i]]
    OBVIOUS
  <2>2. \A i \in 1 .. Len(s) : s[i] \in X
    BY <2>1 DEF ToSet
  <2> QED
    BY <2>1, <2>2
<1> QED
  BY <1>1, SeqDef

(* The last of some positions is the last of them in a longer list.        *)
LEMMA LastPosition ==
  ASSUME NEW S, NEW a \in Seq(S), NEW found \in SUBSET DOMAIN a, found # {}
  PROVE  \E i \in found : \A j \in found : j <= i
<1>1. DOMAIN a = 1 .. Len(a) /\ Len(a) \in Nat
  OBVIOUS
<1> DEFINE Down == {Len(a) - i : i \in found}
<1>2. PICK n \in Down : \A m \in Down : n <= m
  <2>1. Down \in SUBSET Nat /\ Down # {}
    BY <1>1
  <2> HIDE DEF Down
  <2> QED
    BY <2>1, LeastNatural
<1>3. PICK i \in found : n = Len(a) - i
  OBVIOUS
<1>4. ASSUME NEW j \in found PROVE j <= i
  <2>1. Len(a) - j \in Down
    OBVIOUS
  <2>2. Len(a) - i <= Len(a) - j
    BY <1>2, <1>3, <2>1
  <2>3. i \in Nat /\ j \in Nat
    BY <1>1
  <2> QED
    BY <1>1, <2>2, <2>3
<1> QED
  BY <1>4

(* a is the end of b.                                                      *)
EndOf(a, b) ==
  /\ Len(a) <= Len(b)
  /\ \A i \in 1 .. Len(a) : a[i] = b[i + (Len(b) - Len(a))]

(* Every list is an end of itself, and so is the empty one of every list.  *)
LEMMA EndOfItself == ASSUME NEW S, NEW a \in Seq(S) PROVE EndOf(a, a)
BY DEF EndOf

LEMMA EmptyEnd == ASSUME NEW S, NEW a \in Seq(S) PROVE EndOf(<<>>, a)
BY DEF EndOf

(* The end of an end is an end.                                            *)
LEMMA EndOfEnd ==
  ASSUME NEW S, NEW a \in Seq(S), NEW b \in Seq(S), NEW c \in Seq(S),
         EndOf(a, b), EndOf(b, c)
  PROVE  EndOf(a, c)
<1>1. Len(a) <= Len(c) /\ Len(a) \in Nat /\ Len(b) \in Nat /\ Len(c) \in Nat
  BY DEF EndOf
<1>2. ASSUME NEW i \in 1 .. Len(a) PROVE a[i] = c[i + (Len(c) - Len(a))]
  <2> DEFINE j == i + (Len(b) - Len(a))
  <2>1. a[i] = b[j] /\ j \in 1 .. Len(b)
    <3>1. j \in 1 .. Len(b)
      <4>1. Len(a) <= Len(b)
        BY DEF EndOf
      <4> QED
        BY <1>1, <4>1
    <3>2. a[i] = b[j]
      BY DEF EndOf
    <3> QED
      BY <3>1, <3>2
  <2>2. b[j] = c[j + (Len(c) - Len(b))]
    BY <2>1 DEF EndOf
  <2>3. j + (Len(c) - Len(b)) = i + (Len(c) - Len(a))
    BY <1>1
  <2> QED
    BY <2>1, <2>2, <2>3
<1> QED
  BY <1>1, <1>2 DEF EndOf

(* Of two ends of a list, the shorter is an end of the longer.             *)
LEMMA EndsCompare ==
  ASSUME NEW S, NEW a \in Seq(S), NEW b \in Seq(S), NEW c \in Seq(S),
         EndOf(a, c), EndOf(b, c), Len(a) <= Len(b)
  PROVE  EndOf(a, b)
<1>1. Len(a) \in Nat /\ Len(b) \in Nat /\ Len(c) \in Nat
      /\ Len(a) <= Len(c) /\ Len(b) <= Len(c)
  BY DEF EndOf
<1>2. ASSUME NEW i \in 1 .. Len(a) PROVE a[i] = b[i + (Len(b) - Len(a))]
  <2> DEFINE j == i + (Len(b) - Len(a))
  <2>1. a[i] = c[i + (Len(c) - Len(a))]
    BY DEF EndOf
  <2>2. j \in 1 .. Len(b)
    BY <1>1
  <2>3. b[j] = c[j + (Len(c) - Len(b))]
    BY <2>2 DEF EndOf
  <2>4. j + (Len(c) - Len(b)) = i + (Len(c) - Len(a))
    BY <1>1
  <2> QED
    BY <2>1, <2>3, <2>4
<1> QED
  BY <1>2 DEF EndOf

(* An end stays one when both lists get the same element.                  *)
LEMMA EndsAppend ==
  ASSUME NEW S, NEW a \in Seq(S), NEW b \in Seq(S), NEW e \in S, EndOf(a, b)
  PROVE  EndOf(Append(a, e), Append(b, e))
<1> DEFINE x == Append(a, e)
           y == Append(b, e)
<1>1. /\ Len(x) = Len(a) + 1 /\ Len(y) = Len(b) + 1
      /\ Len(a) \in Nat /\ Len(b) \in Nat /\ Len(a) <= Len(b)
      /\ x[Len(a) + 1] = e /\ y[Len(b) + 1] = e
      /\ \A i \in 1 .. Len(a) : x[i] = a[i]
      /\ \A i \in 1 .. Len(b) : y[i] = b[i]
  BY DEF EndOf
<1> HIDE DEF x, y
<1>2. ASSUME NEW i \in 1 .. Len(x) PROVE x[i] = y[i + (Len(y) - Len(x))]
  <2>1. CASE i = Len(a) + 1
    BY <1>1, <2>1
  <2>2. CASE i # Len(a) + 1
    <3>1. i \in 1 .. Len(a) /\ i + (Len(b) - Len(a)) \in 1 .. Len(b)
      BY <1>1, <2>2
    <3>2. a[i] = b[i + (Len(b) - Len(a))]
      BY <3>1 DEF EndOf
    <3>3. Len(y) - Len(x) = Len(b) - Len(a)
      BY <1>1
    <3> QED
      BY <1>1, <3>1, <3>2, <3>3
  <2> QED
    BY <2>1, <2>2
<1>3. EndOf(x, y)
  BY <1>1, <1>2 DEF EndOf
<1> QED
  BY <1>3 DEF x, y

(* A list less some of its first elements is an end of it.                 *)
LEMMA DropIsEnd ==
  ASSUME NEW S, NEW a \in Seq(S), NEW n \in 0 .. Len(a)
  PROVE  /\ SubSeq(a, n + 1, Len(a)) \in Seq(S)
         /\ Len(SubSeq(a, n + 1, Len(a))) = Len(a) - n
         /\ EndOf(SubSeq(a, n + 1, Len(a)), a)
<1> DEFINE b == SubSeq(a, n + 1, Len(a))
<1>1. /\ b \in Seq(S) /\ Len(b) = Len(a) - n /\ Len(a) \in Nat
      /\ \A i \in 1 .. Len(b) : b[i] = a[i + n]
  OBVIOUS
<1> HIDE DEF b
<1>2. EndOf(b, a)
  BY <1>1 DEF EndOf
<1> QED
  BY <1>1, <1>2 DEF b

(* Where the elements of an end are in the list, and back.                 *)
LEMMA EndShift ==
  ASSUME NEW S, NEW a \in Seq(S), NEW b \in Seq(S), EndOf(a, b)
  PROVE  /\ \A i \in DOMAIN a :
              /\ i + (Len(b) - Len(a)) \in DOMAIN b
              /\ b[i + (Len(b) - Len(a))] = a[i]
         /\ \A j \in DOMAIN b : j > Len(b) - Len(a) =>
              /\ j - (Len(b) - Len(a)) \in DOMAIN a
              /\ a[j - (Len(b) - Len(a))] = b[j]
         /\ Len(b) - Len(a) \in Nat
<1>1. /\ Len(a) \in Nat /\ Len(b) \in Nat /\ Len(a) <= Len(b)
      /\ DOMAIN a = 1 .. Len(a) /\ DOMAIN b = 1 .. Len(b)
      /\ \A i \in 1 .. Len(a) : a[i] = b[i + (Len(b) - Len(a))]
  BY DEF EndOf
<1>2. PICK d \in Nat : d = Len(b) - Len(a)
  <2>1. Len(b) - Len(a) \in Nat
    BY <1>1
  <2> QED
    BY <2>1
<1>3. \A i \in 1 .. Len(a) : i + d \in 1 .. Len(b) /\ b[i + d] = a[i]
  BY <1>1, <1>2
<1>4. ASSUME NEW j \in 1 .. Len(b), j > d
      PROVE  j - d \in 1 .. Len(a) /\ a[j - d] = b[j]
  <2>1. j - d \in 1 .. Len(a) /\ (j - d) + d = j
    BY <1>1, <1>2, <1>4
  <2> QED
    BY <1>3, <2>1
<1> QED
  BY <1>1, <1>2, <1>3, <1>4

(* A count over a list is at most the count over a longer list with the    *)
(* same end.                                                               *)
LEMMA CountsGrow ==
  ASSUME NEW S, NEW a \in Seq(S), NEW b \in Seq(S), EndOf(a, b),
         NEW few \in SUBSET DOMAIN a, NEW more \in SUBSET DOMAIN b,
         \A i \in few : i + (Len(b) - Len(a)) \in more
  PROVE  /\ IsFiniteSet(few) /\ IsFiniteSet(more)
         /\ Cardinality(few) \in Nat /\ Cardinality(more) \in Nat
         /\ Cardinality(few) <= Cardinality(more)
<1> DEFINE up == [i \in few |-> i + (Len(b) - Len(a))]
<1>1. /\ Len(a) \in Nat /\ Len(b) \in Nat
      /\ DOMAIN a = 1 .. Len(a) /\ DOMAIN b = 1 .. Len(b)
  OBVIOUS
<1>2. IsFiniteSet(few) /\ IsFiniteSet(more)
  <2>1. IsFiniteSet(DOMAIN a) /\ IsFiniteSet(DOMAIN b)
    BY <1>1, FS_Interval
  <2> QED
    BY <2>1, FS_Subset
<1>3. up \in Injection(few, more)
  BY <1>1 DEF Injection, IsInjective
<1>4. Cardinality(few) <= Cardinality(more)
  <2> HIDE DEF up
  <2> QED
    BY <1>2, <1>3, FS_Injection
<1> QED
  BY <1>2, <1>4, FS_CardinalityType
=============================================================================
