----------------------------- MODULE XmlProofs -----------------------------
(***************************************************************************)
(* TLAPS proofs about Xml. For any texts: types, what the parser has on    *)
(* the heap, and how near it is to its end. For the texts that a document  *)
(* is printed as, or that begin as its print does: what it returns, which  *)
(* takes most of the module, from what is read of each tag to where in the *)
(* document the parser is. Inductions are over sets of numbers             *)
(* (LeastNumber).                                                          *)
(***************************************************************************)
EXTENDS Xml, SequenceTheorems, FiniteSetTheorems, WellFoundedInduction, TLAPS

-----------------------------------------------------------------------------
(* Numbers and sums. *)

LEMMA LeastNumber ==
  ASSUME NEW T, T \subseteq Nat, T # {}
  PROVE  \E m \in T : \A n \in T : m <= n
<1> DEFINE Below == {1 .. n : n \in T}
<1>1. \A n \in Nat : IsFiniteSet(1 .. n)
  BY FS_Interval
<1>2. Below \subseteq FiniteSubsetsOf(Nat)
  BY <1>1 DEF FiniteSubsetsOf
<1>3. Below # {}
  OBVIOUS
<1>4. \E b \in Below : \A c \in Below : <<c, b>> \notin StrictSubsetOrdering(Nat)
  <2> HIDE DEF Below
  <2> QED  BY <1>2, <1>3, FS_StrictSubsetOrderingWellFounded, WFMin
<1>5. PICK m \in T : \A n \in T : <<1 .. n, 1 .. m>> \notin StrictSubsetOrdering(Nat)
  BY <1>4
<1>6. ASSUME NEW n \in T, n < m PROVE FALSE
  <2>1. m \in Nat /\ n \in Nat  OBVIOUS
  <2>2. 1 .. n \subseteq 1 .. m /\ m \in 1 .. m /\ m \notin 1 .. n
    BY <1>6, <2>1
  <2>3. 1 .. n \in SUBSET Nat /\ 1 .. m \in SUBSET Nat
    BY <2>1
  <2>4. <<1 .. n, 1 .. m>> \in StrictSubsetOrdering(Nat)
    BY <2>2, <2>3 DEF StrictSubsetOrdering
  <2> QED  BY <1>5, <2>4
<1> QED  BY <1>6

(* f holds the sums of the first 0, 1, .. n elements of s. *)
Sums(f, s, n) == /\ f \in [0 .. n -> Nat]
                 /\ f[0] = 0
                 /\ \A i \in 1 .. n : f[i] = f[i - 1] + s[i]

LEMMA SumsExist ==
  ASSUME NEW n \in Nat, NEW s \in [1 .. n -> Nat]
  PROVE  \E f : Sums(f, s, n)
<1> DEFINE T == {k \in 0 .. n : ~ \E f : Sums(f, s, k)}
<1>1. ASSUME T # {} PROVE FALSE
  <2>1. T \subseteq Nat  OBVIOUS
  <2>2. PICK m \in T : \A i \in T : m <= i
    <3> HIDE DEF T
    <3> QED  BY <1>1, <2>1, LeastNumber
  <2>3. m # 0
    <3>1. Sums([i \in 0 .. 0 |-> 0], s, 0)  BY DEF Sums
    <3> QED  BY <2>2, <3>1
  <2>4. m - 1 \in 0 .. n /\ m \in 1 .. n  BY <2>2, <2>3
  <2>5. PICK f : Sums(f, s, m - 1)
    <3>1. m - 1 \notin T  BY <2>2, <2>4
    <3> QED  BY <2>4, <3>1
  <2> DEFINE g == [i \in 0 .. m |-> IF i = m THEN f[m - 1] + s[m] ELSE f[i]]
  <2>6. f[m - 1] \in Nat /\ s[m] \in Nat  BY <2>4, <2>5 DEF Sums
  <2>7. g \in [0 .. m -> Nat]  BY <2>4, <2>5, <2>6 DEF Sums
  <2>8. g[0] = 0  BY <2>3, <2>4, <2>5 DEF Sums
  <2>9. ASSUME NEW i \in 1 .. m PROVE g[i] = g[i - 1] + s[i]
    <3>1. CASE i = m  BY <2>4, <3>1
    <3>2. CASE i # m
      <4>1. i \in 1 .. m - 1 /\ i - 1 \in 0 .. m /\ i - 1 # m  BY <2>4, <3>2
      <4>2. g[i] = f[i] /\ g[i - 1] = f[i - 1]  BY <2>4, <3>2, <4>1
      <4> QED  BY <2>5, <4>1, <4>2 DEF Sums
    <3> QED  BY <3>1, <3>2
  <2>10. Sums(g, s, m)
    <3> HIDE DEF g
    <3> QED  BY <2>7, <2>8, <2>9 DEF Sums
  <2> QED  BY <2>2, <2>10
<1>2. n \notin T  BY <1>1
<1> QED  BY <1>2

(* g goes on from k with the sums of s. *)
GoesOn(g, k, f, s, n) ==
    /\ Sums(f, s, n) /\ s \in [1 .. n -> Nat] /\ n \in Nat
    /\ k \in Nat /\ g[k] \in Nat
    /\ \A i \in 1 .. n : g[k + i] = g[k + (i - 1)] + s[i]

LEMMA SumsAgree ==
  ASSUME NEW g, NEW k, NEW f, NEW s, NEW n, GoesOn(g, k, f, s, n)
  PROVE  g[k + n] = f[n] + g[k]
<1>0. /\ n \in Nat /\ k \in Nat /\ s \in [1 .. n -> Nat] /\ g[k] \in Nat
      /\ f \in [0 .. n -> Nat] /\ f[0] = 0
      /\ \A i \in 1 .. n : f[i] = f[i - 1] + s[i]
      /\ \A i \in 1 .. n : g[k + i] = g[k + (i - 1)] + s[i]
  BY DEF Sums, GoesOn
<1> DEFINE T == {i \in 0 .. n : g[k + i] # f[i] + g[k]}
<1>1. ASSUME T # {} PROVE FALSE
  <2>1. T \subseteq Nat  OBVIOUS
  <2>2. PICK m \in T : \A i \in T : m <= i
    <3> HIDE DEF T
    <3> QED  BY <1>1, <2>1, LeastNumber
  <2>3. m # 0
    <3>1. k + 0 = k  BY <1>0
    <3>2. g[k + 0] = f[0] + g[k]  BY <1>0, <3>1
    <3> QED  BY <2>2, <3>2
  <2>4. m - 1 \in 0 .. n /\ m \in 1 .. n  BY <1>0, <2>2, <2>3
  <2>5. m - 1 \notin T  BY <2>2, <2>4
  <2>6. g[k + (m - 1)] = f[m - 1] + g[k]  BY <2>4, <2>5
  <2>7. g[k + m] = g[k + (m - 1)] + s[m] /\ f[m] = f[m - 1] + s[m]
    BY <1>0, <2>4
  <2>8. f[m - 1] \in Nat /\ s[m] \in Nat /\ g[k] \in Nat  BY <1>0, <2>4
  <2>9. g[k + m] = f[m] + g[k]  BY <2>6, <2>7, <2>8
  <2> QED  BY <2>2, <2>9
<1>2. n \notin T  BY <1>1
<1> QED  BY <1>0, <1>2

LEMMA TotalIs ==
  ASSUME NEW s \in Seq(Nat), NEW f, Sums(f, s, Len(s))
  PROVE  Total(s) = f[Len(s)]
<1> DEFINE n == Len(s)
           Step(h) == [i \in 0 .. n |-> IF i = 0 THEN 0 ELSE h[i - 1] + s[i]]
           sum == CHOOSE h : h = Step(h)
<1>0. n \in Nat /\ s \in [1 .. n -> Nat]  OBVIOUS
<1>1. Total(s) = sum[n]
  BY DEF Total
<1>2. sum = Step(sum)
  <2>1. f = [i \in 0 .. n |-> f[i]]  BY DEF Sums
  <2>2. \A i \in 0 .. n : f[i] = IF i = 0 THEN 0 ELSE f[i - 1] + s[i]
    BY <1>0 DEF Sums
  <2>3. f = Step(f)  BY <2>1, <2>2
  <2> HIDE DEF Step
  <2> QED  BY <2>3
<1> HIDE DEF sum
<1> HIDE DEF n
<1>3. sum[0] = 0 /\ \A i \in 1 .. n : sum[i] = sum[i - 1] + s[i]
  BY <1>0, <1>2
<1>4. \A i \in 0 .. n : sum[i] = f[i]
  <2> DEFINE T == {i \in 0 .. n : sum[i] # f[i]}
  <2>1. ASSUME T # {} PROVE FALSE
    <3>1. T \subseteq Nat  BY <1>0
    <3>2. PICK m \in T : \A i \in T : m <= i
      <4> HIDE DEF T
      <4> QED  BY <2>1, <3>1, LeastNumber
    <3>3. f[0] = 0 /\ \A i \in 1 .. n : f[i] = f[i - 1] + s[i]  BY DEF Sums, n
    <3>4. m \in 1 .. n  BY <1>0, <1>3, <3>2, <3>3
    <3>5. m - 1 \in 0 .. n /\ m - 1 \notin T  BY <1>0, <3>2, <3>4
    <3>6. sum[m - 1] = f[m - 1]  BY <3>5
    <3> QED  BY <1>3, <3>2, <3>3, <3>4, <3>6
  <2> QED  BY <2>1
<1> QED  BY <1>0, <1>1, <1>4

LEMMA TotalOfNone == Total(<<>>) = 0
<1>1. Sums([i \in 0 .. 0 |-> 0], <<>>, 0)  BY DEF Sums
<1>2. <<>> \in Seq(Nat) /\ Len(<<>>) = 0  OBVIOUS
<1> QED  BY <1>1, <1>2, TotalIs

LEMMA TotalOfOne ==
  ASSUME NEW x \in Nat
  PROVE  Total(<<x>>) = x
<1> DEFINE f == [i \in 0 .. 1 |-> IF i = 0 THEN 0 ELSE x]
<1>1. Sums(f, <<x>>, 1)  BY DEF Sums
<1>2. <<x>> \in Seq(Nat) /\ Len(<<x>>) = 1 /\ f[1] = x  OBVIOUS
<1> HIDE DEF f
<1> QED  BY <1>1, <1>2, TotalIs

LEMMA TotalType ==
  ASSUME NEW s \in Seq(Nat)
  PROVE  Total(s) \in Nat
<1>1. Len(s) \in Nat /\ s \in [1 .. Len(s) -> Nat]  OBVIOUS
<1>2. PICK f : Sums(f, s, Len(s))  BY <1>1, SumsExist
<1>3. f[Len(s)] \in Nat  BY <1>1, <1>2 DEF Sums
<1> QED  BY <1>2, <1>3, TotalIs

LEMMA TotalOfBoth ==
  ASSUME NEW s \in Seq(Nat), NEW t \in Seq(Nat)
  PROVE  Total(s \o t) = Total(s) + Total(t)
<1> DEFINE m == Len(s)
           n == Len(t)
           u == s \o t
<1>1. /\ m \in Nat /\ n \in Nat /\ u \in Seq(Nat) /\ Len(u) = m + n
      /\ s \in [1 .. m -> Nat] /\ t \in [1 .. n -> Nat]
      /\ u \in [1 .. m + n -> Nat]
  <2>1. u \in Seq(Nat) /\ Len(u) = m + n  BY ConcatProperties
  <2>2. u \in [1 .. Len(u) -> Nat]
    <3> HIDE DEF u
    <3> QED  BY <2>1
  <2> QED  BY <2>1, <2>2
<1>2. /\ \A i \in 1 .. m : u[i] = s[i]
      /\ \A i \in 1 .. n : u[m + i] = t[i]
  OBVIOUS
<1> HIDE DEF m, n, u
<1>3. PICK f : Sums(f, s, m)  BY <1>1, SumsExist
<1>4. PICK h : Sums(h, t, n)  BY <1>1, SumsExist
<1>5. PICK g : Sums(g, u, m + n)
  <2>1. m + n \in Nat  BY <1>1
  <2> QED  BY <1>1, <2>1, SumsExist
<1>6. Total(s) = f[m] /\ Total(t) = h[n] /\ Total(u) = g[m + n]
  BY <1>1, <1>3, <1>4, <1>5, TotalIs DEF m, n
<1>7. g[m] = f[m]
  <2>1. f \in [0 .. m -> Nat] /\ g[0] = 0
    BY <1>3, <1>5 DEF Sums
  <2>2. ASSUME NEW i \in 1 .. m PROVE g[0 + i] = g[0 + (i - 1)] + s[i]
    <3>1. i \in 1 .. m + n /\ 0 + i = i /\ 0 + (i - 1) = i - 1  BY <1>1
    <3>2. g[i] = g[i - 1] + u[i]  BY <1>5, <3>1 DEF Sums
    <3> QED  BY <1>2, <3>1, <3>2
  <2>3. GoesOn(g, 0, f, s, m)  BY <1>1, <1>3, <2>1, <2>2 DEF GoesOn
  <2>4. g[0 + m] = f[m] + g[0]
    BY <2>3, SumsAgree
  <2>5. 0 + m = m /\ f[m] \in Nat  BY <1>1, <2>1
  <2> QED  BY <2>1, <2>4, <2>5
<1>8. g[m + n] = h[n] + g[m]
  <2>1. g[m] \in Nat  BY <1>1, <1>5 DEF Sums
  <2>2. ASSUME NEW i \in 1 .. n PROVE g[m + i] = g[m + (i - 1)] + t[i]
    <3>1. m + i \in 1 .. m + n  BY <1>1
    <3>2. \A j \in 1 .. m + n : g[j] = g[j - 1] + u[j]  BY <1>5 DEF Sums
    <3>3. g[m + i] = g[(m + i) - 1] + u[m + i]  BY <3>1, <3>2
    <3>4. u[m + i] = t[i]  BY <1>2
    <3>5. (m + i) - 1 = m + (i - 1)  BY <1>1
    <3> QED  BY <3>3, <3>4, <3>5
  <2>3. GoesOn(g, m, h, t, n)  BY <1>1, <1>4, <2>1, <2>2 DEF GoesOn
  <2> QED  BY <2>3, SumsAgree
<1>9. h[n] \in Nat /\ f[m] \in Nat  BY <1>1, <1>3, <1>4 DEF Sums
<1> QED  BY <1>6, <1>7, <1>8, <1>9 DEF u

(* The sum of what F gives to the elements of s. *)
Summed(F, s) == Total([i \in DOMAIN s |-> F[s[i]]])

LEMMA SummedOfNone ==
  ASSUME NEW F
  PROVE  Summed(F, <<>>) = 0
<1>1. [i \in DOMAIN <<>> |-> F[<<>>[i]]] = <<>>  OBVIOUS
<1> QED  BY <1>1, TotalOfNone DEF Summed

LEMMA Mapped ==
  ASSUME NEW S, NEW F \in [S -> Nat], NEW s \in Seq(S)
  PROVE  [i \in DOMAIN s |-> F[s[i]]] \in Seq(Nat)
<1>1. Len(s) \in Nat /\ DOMAIN s = 1 .. Len(s) /\ \A i \in 1 .. Len(s) : s[i] \in S
  OBVIOUS
<1>2. [i \in DOMAIN s |-> F[s[i]]] \in [1 .. Len(s) -> Nat]  BY <1>1
<1> QED  BY <1>1, <1>2

LEMMA SummedType ==
  ASSUME NEW S, NEW F \in [S -> Nat], NEW s \in Seq(S)
  PROVE  Summed(F, s) \in Nat
BY Mapped, TotalType DEF Summed

LEMMA SummedOfOne ==
  ASSUME NEW S, NEW F \in [S -> Nat], NEW x \in S
  PROVE  Summed(F, <<x>>) = F[x]
<1>1. [i \in DOMAIN <<x>> |-> F[<<x>>[i]]] = <<F[x]>>  OBVIOUS
<1>2. F[x] \in Nat  OBVIOUS
<1> QED  BY <1>1, <1>2, TotalOfOne DEF Summed

LEMMA SeqIs ==
  ASSUME NEW S, NEW s \in Seq(S)
  PROVE  s = [i \in 1 .. Len(s) |-> s[i]]
OBVIOUS

LEMMA SummedOfBoth ==
  ASSUME NEW S, NEW F \in [S -> Nat], NEW s \in Seq(S), NEW t \in Seq(S)
  PROVE  Summed(F, s \o t) = Summed(F, s) + Summed(F, t)
<1> DEFINE a == [i \in DOMAIN s |-> F[s[i]]]
           b == [i \in DOMAIN t |-> F[t[i]]]
           c == [i \in DOMAIN (s \o t) |-> F[(s \o t)[i]]]
<1>1. a \in Seq(Nat) /\ b \in Seq(Nat)  BY Mapped
<1>2. Len(a) = Len(s) /\ Len(b) = Len(t)  OBVIOUS
<1>3. c = a \o b
  <2>1. /\ DOMAIN (s \o t) = 1 .. Len(s) + Len(t)
        /\ \A i \in 1 .. Len(s) + Len(t) :
              (s \o t)[i] = IF i <= Len(s) THEN s[i] ELSE t[i - Len(s)]
    OBVIOUS
  <2>2. a \o b = [i \in 1 .. Len(s) + Len(t) |->
                    IF i <= Len(s) THEN a[i] ELSE b[i - Len(s)]]
    <3> HIDE DEF a, b
    <3>1. a \o b \in Seq(Nat) /\ Len(a \o b) = Len(s) + Len(t)
      <4>1. a \o b \in Seq(Nat) /\ Len(a \o b) = Len(a) + Len(b)
        BY <1>1, ConcatProperties
      <4> QED  BY <1>2, <4>1
    <3>2. \A i \in 1 .. Len(s) + Len(t) :
             (a \o b)[i] = IF i <= Len(s) THEN a[i] ELSE b[i - Len(s)]
      BY <1>1, <1>2
    <3>3. a \o b = [i \in 1 .. Len(a \o b) |-> (a \o b)[i]]
      BY <3>1, SeqIs
    <3> QED  BY <3>1, <3>2, <3>3
  <2>3. ASSUME NEW i \in 1 .. Len(s) + Len(t)
        PROVE  F[(s \o t)[i]] = IF i <= Len(s) THEN a[i] ELSE b[i - Len(s)]
    <3>1. Len(s) \in Nat /\ Len(t) \in Nat /\ i \in Nat  OBVIOUS
    <3>2. CASE i <= Len(s)  BY <2>1, <3>1, <3>2
    <3>3. CASE ~(i <= Len(s))
      <4>1. i - Len(s) \in 1 .. Len(t)  BY <3>1, <3>3
      <4>2. i - Len(s) \in DOMAIN t  BY <4>1
      <4> QED  BY <2>1, <3>3, <4>2
    <3> QED  BY <3>2, <3>3
  <2> QED  BY <2>1, <2>2, <2>3
<1> HIDE DEF a, b
<1> QED  BY <1>1, <1>3, TotalOfBoth DEF Summed, a, b

LEMMA SummedOfMore ==
  ASSUME NEW S, NEW F \in [S -> Nat], NEW s \in Seq(S), NEW x \in S
  PROVE  /\ Summed(F, <<x>> \o s) = F[x] + Summed(F, s)
         /\ Summed(F, Append(s, x)) = Summed(F, s) + F[x]
<1>1. <<x>> \in Seq(S)  OBVIOUS
<1>2. Append(s, x) = s \o <<x>>  BY AppendIsConcat
<1>3. Summed(F, <<x>>) = F[x]  BY SummedOfOne
<1>4. Summed(F, <<x>> \o s) = Summed(F, <<x>>) + Summed(F, s)
  BY <1>1, SummedOfBoth
<1>5. Summed(F, s \o <<x>>) = Summed(F, s) + Summed(F, <<x>>)
  BY <1>1, SummedOfBoth
<1> QED  BY <1>2, <1>3, <1>4, <1>5


-----------------------------------------------------------------------------
(* What is read stays in the text, and reading goes forward. *)

LEMMA TextIs ==
  ASSUME input \in Inputs
  PROVE  Text \in Seq(Symbols) /\ Length \in Nat
<1>1. Text \in Seq(Symbols)  BY InputsAssumption DEF Text
<1> QED  BY <1>1 DEF Length

LEMMA SolidAhead ==
  ASSUME input \in Inputs, NEW p \in 1 .. Length + 1
  PROVE  /\ Solid[p] \in p .. Length + 1
         /\ Solid[p] > Length \/ ~Space(Solid[p])
         /\ \A r \in p .. Solid[p] - 1 : Space(r)
<1>0. Length \in Nat  BY TextIs
<1> DEFINE Good(q) == /\ q > Length \/ ~Space(q)
                      /\ \A r \in p .. q - 1 : Space(r)
           T == {q \in p .. Length + 1 : q > Length \/ ~Space(q)}
<1>1. \E q \in p .. Length + 1 : Good(q)
  <2>1. T \subseteq Nat /\ Length + 1 \in T  BY <1>0
  <2>2. PICK m \in T : \A q \in T : m <= q
    <3> HIDE DEF T
    <3> QED  BY <2>1, LeastNumber
  <2>3. ASSUME NEW r \in p .. m - 1 PROVE Space(r)
    <3>1. r \in p .. Length + 1 /\ ~(m <= r)  BY <1>0, <2>1, <2>2
    <3> QED  BY <2>2, <3>1
  <2> QED  BY <2>2, <2>3
<1>2. Solid[p] = CHOOSE q \in p .. Length + 1 : Good(q)
  BY DEF Solid
<1> HIDE DEF Good
<1>3. Solid[p] \in p .. Length + 1 /\ Good(Solid[p])
  BY <1>1, <1>2
<1> QED  BY <1>3 DEF Good

LEMMA SkipAhead ==
  ASSUME input \in Inputs, NEW p \in 1 .. Length
  PROVE  SkipWhitespace(p) \in p .. Length
<1>1. Length \in Nat /\ p \in 1 .. Length + 1  BY TextIs
<1>2. Solid[p] \in p .. Length + 1  BY <1>1, SolidAhead
<1> QED  BY <1>1, <1>2 DEF SkipWhitespace, Clamp

LEMMA RunInside ==
  ASSUME input \in Inputs, NEW start \in 1 .. Length, NEW mark \in {"<", ">"}
  PROVE  LET n == Run[start][mark]
         IN  /\ n \in 0 .. Length + 1 - start
             /\ start + n > Length \/ Peek(start + n) = mark
             /\ \A m \in 0 .. n - 1 : Peek(start + m) # mark
<1>0. Length \in Nat  BY TextIs
<1> DEFINE Good(n) == /\ start + n > Length \/ Peek(start + n) = mark
                      /\ \A m \in 0 .. n - 1 : Peek(start + m) # mark
           T == {n \in 0 .. Length + 1 - start :
                    start + n > Length \/ Peek(start + n) = mark}
<1>1. \E n \in 0 .. Length + 1 - start : Good(n)
  <2>1. T \subseteq Nat /\ Length + 1 - start \in T  BY <1>0
  <2>2. PICK n \in T : \A m \in T : n <= m
    <3> HIDE DEF T
    <3> QED  BY <2>1, LeastNumber
  <2>3. ASSUME NEW m \in 0 .. n - 1 PROVE Peek(start + m) # mark
    <3>1. m \in 0 .. Length + 1 - start /\ ~(n <= m)  BY <1>0, <2>1, <2>2
    <3> QED  BY <2>2, <3>1
  <2> QED  BY <2>2, <2>3
<1>2. Run[start][mark] = CHOOSE n \in 0 .. Length + 1 - start : Good(n)
  BY DEF Run
<1> HIDE DEF Good
<1>3. Run[start][mark] \in 0 .. Length + 1 - start /\ Good(Run[start][mark])
  BY <1>1, <1>2
<1> QED  BY <1>3 DEF Good

LEMMA TagEndInside ==
  ASSUME input \in Inputs, NEW start \in 1 .. Length
  PROVE  /\ TagEnd(start).name \in Seq(Symbols)
         /\ TagEnd(start).next \in start .. Length
         /\ start < Length => TagEnd(start).next > start
         /\ start = Length /\ TagEnd(start).ok => Peek(Length) = ">"
<1> DEFINE n == Run[start][">"]
<1>1. Length \in Nat /\ Text \in Seq(Symbols)  BY TextIs
<1>2. n \in 0 .. Length + 1 - start
  <2>1. ">" \in {"<", ">"}  OBVIOUS
  <2> QED  BY <2>1, RunInside
<1> HIDE DEF n
<1>3. /\ TagEnd(start).ok = (Peek(Clamp(start + n)) = ">")
      /\ TagEnd(start).name = SubSeq(Text, start, start + n - 1)
      /\ TagEnd(start).next = Clamp(Clamp(start + n) + 1)
  BY DEF TagEnd, n
<1>4. SubSeq(Text, start, start + n - 1) \in Seq(Symbols)
  <2>1. start \in Int /\ start + n - 1 \in Int  BY <1>1, <1>2
  <2>2. \A i \in start .. start + n - 1 : Text[i] \in Symbols
    BY <1>1, <1>2 DEF Length
  <2> QED  BY <2>1, <2>2, SubSeqProperties
<1>5. /\ Clamp(start + n) \in start .. Length
      /\ start = Length => Clamp(start + n) = Length
  BY <1>1, <1>2 DEF Clamp
<1>6. /\ Clamp(Clamp(start + n) + 1) \in start .. Length
      /\ start < Length => Clamp(Clamp(start + n) + 1) > start
  BY <1>1, <1>5 DEF Clamp
<1> QED  BY <1>3, <1>4, <1>5, <1>6

LEMMA TagOpenAhead ==
  ASSUME input \in Inputs, NEW p \in 1 .. Length
  PROVE  /\ TagOpen(p).name \in Seq(Symbols)
         /\ TagOpen(p).ok => TagOpen(p).next \in p + 1 .. Length
<1> DEFINE s == SkipWhitespace(p)
           start == Clamp(s + 1)
<1>1. Length \in Nat /\ s \in p .. Length  BY TextIs, SkipAhead
<1> HIDE DEF s
<1>2. start \in 1 .. Length /\ s <= start /\ (s < Length => s < start)
  BY <1>1 DEF Clamp
<1>3. /\ TagOpen(p).name = TagEnd(start).name
      /\ TagOpen(p).next = TagEnd(start).next
      /\ TagOpen(p).ok <=> (TagEnd(start).ok /\ Peek(s) = "<")
  BY DEF TagOpen, TagEnd, s
<1>4. s = Length => start = Length  BY <1>1 DEF Clamp
<1> HIDE DEF start
<1>5. /\ TagEnd(start).name \in Seq(Symbols)
      /\ TagEnd(start).next \in start .. Length
      /\ start < Length => TagEnd(start).next > start
      /\ start = Length /\ TagEnd(start).ok => Peek(Length) = ">"
  BY <1>2, TagEndInside
<1>6. CASE s < Length  BY <1>1, <1>2, <1>3, <1>5, <1>6
<1>7. CASE s = Length
  BY <1>1, <1>3, <1>4, <1>5, <1>7
<1> QED  BY <1>1, <1>6, <1>7

LEMMA TagCloseAhead ==
  ASSUME input \in Inputs, NEW p \in 1 .. Length
  PROVE  TagClose(p).next \in p .. Length
<1> DEFINE s == SkipWhitespace(p)
           start == Clamp(s + 2)
<1>1. Length \in Nat /\ s \in p .. Length  BY TextIs, SkipAhead
<1> HIDE DEF s
<1>2. start \in 1 .. Length /\ s <= start
  BY <1>1 DEF Clamp
<1>3. TagClose(p).next = TagEnd(start).next
  BY DEF TagClose, TagEnd, s
<1> HIDE DEF start
<1>4. TagEnd(start).next \in start .. Length
  BY <1>2, TagEndInside
<1> QED  BY <1>1, <1>2, <1>3, <1>4

LEMMA GreatestNumber ==
  ASSUME NEW n \in Nat, NEW T, T \subseteq 0 .. n, T # {}
  PROVE  \E m \in T : \A i \in T : i <= m
<1> DEFINE U == {n - i : i \in T}
<1>1. U \subseteq Nat /\ U # {}  OBVIOUS
<1>2. PICK u \in U : \A v \in U : u <= v
  <2> HIDE DEF U
  <2> QED  BY <1>1, LeastNumber
<1>3. PICK m \in T : u = n - m  BY <1>2
<1>4. ASSUME NEW i \in T PROVE i <= m
  <2>1. n - i \in U  OBVIOUS
  <2>2. n - m <= n - i  BY <1>2, <1>3, <2>1
  <2>3. i \in 0 .. n /\ m \in 0 .. n  OBVIOUS
  <2> QED  BY <2>2, <2>3
<1> QED  BY <1>4

LEMMA TrimmedType ==
  ASSUME NEW S, NEW s \in Seq(S)
  PROVE  Trimmed(s) \in Seq(S)
<1> DEFINE K == {i \in DOMAIN s : s[i] # " "}
           T == {0} \cup K
<1>0. Len(s) \in Nat /\ DOMAIN s = 1 .. Len(s)  OBVIOUS
<1>1. T \subseteq 0 .. Len(s) /\ T # {}
  <2>1. K \subseteq 1 .. Len(s)  BY <1>0
  <2> HIDE DEF K
  <2> QED  BY <1>0, <2>1
<1> HIDE DEF T
<1>2. Max(T) \in 0 .. Len(s)
  <2>1. \E m \in T : \A i \in T : i <= m  BY <1>0, <1>1, GreatestNumber
  <2>2. Max(T) \in T  BY <1>1, <2>1 DEF Max
  <2> QED  BY <1>1, <2>2
<1>3. SubSeq(s, 1, Max(T)) \in Seq(S)
  <2>1. 1 \in Int /\ Max(T) \in Int  BY <1>2
  <2>2. \A i \in 1 .. Max(T) : s[i] \in S  BY <1>0, <1>2
  <2> QED  BY <2>1, <2>2, SubSeqProperties
<1> QED  BY <1>3 DEF Trimmed, T

LEMMA ContentAhead ==
  ASSUME input \in Inputs, NEW p \in 1 .. Length
  PROVE  /\ Content(p).text \in Seq(Symbols)
         /\ Content(p).next \in p .. Length
<1> DEFINE s == SkipWhitespace(p)
           n == Run[s]["<"]
           run == SubSeq(Text, s, s + n - 1)
<1>1. Length \in Nat /\ Text \in Seq(Symbols) /\ s \in p .. Length
  BY TextIs, SkipAhead
<1>2. n \in 0 .. Length + 1 - s
  <2>1. s \in 1 .. Length /\ "<" \in {"<", ">"}  BY <1>1
  <2> HIDE DEF s
  <2> QED  BY <2>1, RunInside
<1>3. /\ Content(p).text = Trimmed(run)
      /\ Content(p).next = Clamp(s + n)
  BY DEF Content
<1> HIDE DEF s, n
<1>4. run \in Seq(Symbols)
  <2>1. s \in Int /\ s + n - 1 \in Int  BY <1>1, <1>2
  <2>2. \A i \in s .. s + n - 1 : Text[i] \in Symbols
    BY <1>1, <1>2 DEF Length
  <2> QED  BY <2>1, <2>2, SubSeqProperties
<1> HIDE DEF run
<1>5. Trimmed(run) \in Seq(Symbols)  BY <1>4, TrimmedType
<1>6. Clamp(s + n) \in p .. Length  BY <1>1, <1>2 DEF Clamp
<1> QED  BY <1>3, <1>5, <1>6


LEMMA NameType ==
  ASSUME NEW S, NEW tag \in Seq(S)
  PROVE  NameOf(tag) \in Seq(S)
<1> DEFINE n == Len(tag)
           K == {i \in DOMAIN tag : tag[i] # " "}
<1>1. n \in Nat /\ DOMAIN tag = 1 .. n /\ \A i \in 1 .. n : tag[i] \in S
  OBVIOUS
<1> HIDE DEF n
<1>2. CASE Starts(tag) = {}  BY <1>2 DEF NameOf
<1>3. CASE Starts(tag) # {}
  <2>1. Starts(tag) \subseteq K /\ Ends(tag) \subseteq K /\ K \subseteq 1 .. n
    BY <1>1 DEF Starts, Ends
  <2>0. \A i \in 1 .. n : i \notin K => tag[i] = " "  BY <1>1
  <2>k. \A i \in K : tag[i] # " "  OBVIOUS
  <2> HIDE DEF K
  <2>2. K \subseteq 0 .. n /\ K # {}  BY <1>1, <1>3, <2>1
  <2>3. PICK m \in K : \A i \in K : i <= m
    BY <1>1, <2>2, GreatestNumber
  <2>4. m \in Ends(tag)
    <3>1. m \in 1 .. n  BY <2>1
    <3>2. m # n => m + 1 \notin K /\ m + 1 \in 1 .. n  BY <1>1, <2>3, <3>1
    <3>3. m # n => tag[m + 1] = " "  BY <2>0, <3>2
    <3>4. tag[m] # " "  BY <2>k
    <3> QED  BY <1>1, <3>1, <3>3, <3>4 DEF Ends, n
  <2>5. Ends(tag) \subseteq Nat /\ Starts(tag) \subseteq Nat
    <3>1. 1 .. n \subseteq Nat  BY <1>1
    <3> QED  BY <2>1, <3>1
  <2> DEFINE a == Min(Ends(tag))
             b == Min(Starts(tag))
             e == a - b + 1
  <2>6. a \in Ends(tag)
    BY <2>4, <2>5, LeastNumber DEF Min
  <2>7. b \in Starts(tag)
    BY <1>3, <2>5, LeastNumber DEF Min
  <2>8. NameOf(tag) = SubSeq(tag, 1, e)  BY <1>3 DEF NameOf
  <2> HIDE DEF a, b
  <2>9. a \in 1 .. n /\ b \in 1 .. n  BY <2>1, <2>6, <2>7
  <2>10. e \in Int /\ \A i \in 1 .. e : i \in 1 .. n  BY <1>1, <2>9
  <2> HIDE DEF e
  <2>11. 1 \in Int /\ \A i \in 1 .. e : tag[i] \in S  BY <1>1, <2>10
  <2>12. SubSeq(tag, 1, e) \in Seq(S)  BY <2>10, <2>11, SubSeqProperties
  <2> QED  BY <2>8, <2>12
<1> QED  BY <1>2, <1>3

LEMMA AttributesType ==
  ASSUME NEW S, NEW tag \in Seq(S)
  PROVE  AttributesOf(tag) \in Attributes
<1> DEFINE D == {j \in Starts(tag) : j # Min(Starts(tag)) /\ tag[j] \in Assignments}
           A == {<<i, tag[i]>> : i \in D}
           f == [i \in D |-> <<i, tag[i]>>]
<1>0. Len(tag) \in Nat /\ DOMAIN tag = 1 .. Len(tag)  OBVIOUS
<1>1. D \subseteq 1 .. Len(tag) /\ Len(tag) \in Nat  BY <1>0 DEF Starts
<1>2. AttributesOf(tag) = A  BY DEF AttributesOf
<1>3. IsFiniteSet(D)
  <2>1. IsFiniteSet(1 .. Len(tag))  BY <1>1, FS_Interval
  <2> HIDE DEF D
  <2> QED  BY <1>1, <2>1, FS_Subset
<1>4. f \in Surjection(D, A)
  <2>1. f \in [D -> A] /\ \A a \in A : \E i \in D : f[i] = a
    <3> HIDE DEF D
    <3> QED  OBVIOUS
  <2> HIDE DEF f, A, D
  <2> QED  BY <2>1 DEF Surjection
<1>5. IsFiniteSet(A)
  <2> HIDE DEF f, A, D
  <2> QED  BY <1>3, <1>4, FS_Surjection
<1>6. A \subseteq Nat \X Assignments
  <2>1. \A i \in D : i \in Nat /\ tag[i] \in Assignments  BY <1>1
  <2> HIDE DEF D
  <2> QED  BY <2>1
<1> HIDE DEF A
<1> QED  BY <1>2, <1>5, <1>6 DEF Attributes

-----------------------------------------------------------------------------
(* Sizes. *)

LEMMA AttributesSizeType ==
  ASSUME NEW a \in Attributes
  PROVE  AttributesSize(a) \in Nat
<1>1. IsFiniteSet(a)  BY DEF Attributes
<1>2. Cardinality(a) \in Nat  BY <1>1, FS_CardinalityType
<1> QED  BY <1>2 DEF AttributesSize

LEMMA TagSizeType ==
  ASSUME NEW tag \in Seq(Symbols)
  PROVE  AttributesSize(AttributesOf(tag)) \in Nat
BY AttributesType, AttributesSizeType

SizeOf == [node \in XmlNodes |-> NodeSize(node)]

LEMMA SizeOfType == SizeOf \in [XmlNodes -> Nat]
<1>1. ASSUME NEW node \in XmlNodes PROVE NodeSize(node) \in Nat
  <2>1. node.attributes \in Attributes  BY DEF XmlNodes
  <2>2. AttributesSize(node.attributes) \in Nat  BY <2>1, AttributesSizeType
  <2> QED  BY <2>2 DEF NodeSize
<1> QED  BY <1>1 DEF SizeOf

LEMMA NodesSizes ==
  /\ NodesSize(<<>>) = 0
  /\ \A nodes \in Seq(XmlNodes) :
        /\ NodesSize(nodes) \in Nat
        /\ \A more \in Seq(XmlNodes) :
              NodesSize(nodes \o more) = NodesSize(nodes) + NodesSize(more)
        /\ \A node \in XmlNodes :
              NodesSize(Append(nodes, node)) = NodesSize(nodes) + NodeSize(node)
<1>1. ASSUME NEW nodes \in Seq(XmlNodes)
      PROVE  NodesSize(nodes) = Summed(SizeOf, nodes)
  <2>1. \A i \in DOMAIN nodes : NodeSize(nodes[i]) = SizeOf[nodes[i]]
    BY DEF SizeOf
  <2> QED  BY <2>1 DEF NodesSize, Summed
<1>2. NodesSize(<<>>) = 0
  <2>1. <<>> \in Seq(XmlNodes)  OBVIOUS
  <2> QED  BY <1>1, <2>1, SummedOfNone
<1>3. ASSUME NEW nodes \in Seq(XmlNodes)
      PROVE  /\ NodesSize(nodes) \in Nat
             /\ \A more \in Seq(XmlNodes) :
                   NodesSize(nodes \o more) = NodesSize(nodes) + NodesSize(more)
             /\ \A node \in XmlNodes :
                   NodesSize(Append(nodes, node)) = NodesSize(nodes) + NodeSize(node)
  <2>1. NodesSize(nodes) \in Nat  BY <1>1, SizeOfType, SummedType
  <2>2. ASSUME NEW more \in Seq(XmlNodes)
        PROVE  NodesSize(nodes \o more) = NodesSize(nodes) + NodesSize(more)
    <3>1. nodes \o more \in Seq(XmlNodes)  BY ConcatProperties
    <3>2. Summed(SizeOf, nodes \o more) = Summed(SizeOf, nodes) + Summed(SizeOf, more)
      BY SizeOfType, SummedOfBoth
    <3> QED  BY <1>1, <3>1, <3>2
  <2>3. ASSUME NEW node \in XmlNodes
        PROVE  NodesSize(Append(nodes, node)) = NodesSize(nodes) + NodeSize(node)
    <3>1. Append(nodes, node) \in Seq(XmlNodes)  BY AppendProperties
    <3>2. Summed(SizeOf, Append(nodes, node)) = Summed(SizeOf, nodes) + SizeOf[node]
      BY SizeOfType, SummedOfMore
    <3>3. SizeOf[node] = NodeSize(node)  BY DEF SizeOf
    <3> QED  BY <1>1, <3>1, <3>2, <3>3
  <2> QED  BY <2>1, <2>2, <2>3
<1> QED  BY <1>2, <1>3


(* What the calls on a stack hold, and their ranks. *)
FramesSize(s) == Total([i \in DOMAIN s |-> FrameSize(s[i])])

Ranks(s) == Total([i \in DOMAIN s |-> Rank(s[i])])

LEMMA FrameSizeType ==
  ASSUME NEW frame \in Frames
  PROVE  FrameSize(frame) \in Nat
<1>1. frame.children \in Seq(XmlNodes) /\ frame.tag \in Strings  BY DEF Frames
<1>2. NodesSize(frame.children) \in Nat  BY <1>1, NodesSizes
<1>3. frame.tag # Null => AttributesSize(AttributesOf(frame.tag)) \in Nat
  BY <1>1, TagSizeType DEF Strings
<1> QED  BY <1>2, <1>3 DEF FrameSize

LEMMA RankType ==
  ASSUME NEW frame \in Frames
  PROVE  Rank(frame) \in 1 .. 6
<1>1. frame.at \in {"open", "body", "children", "child", "close"}  BY DEF Frames
<1> QED  BY <1>1 DEF Rank

FrameSizeOf == [frame \in Frames |-> FrameSize(frame)]
RankOf == [frame \in Frames |-> Rank(frame)]

LEMMA StackSums ==
  ASSUME NEW s \in Seq(Frames)
  PROVE  FramesSize(s) = Summed(FrameSizeOf, s) /\ Ranks(s) = Summed(RankOf, s)
<1>1. \A i \in DOMAIN s : /\ FrameSize(s[i]) = FrameSizeOf[s[i]]
                          /\ Rank(s[i]) = RankOf[s[i]]
  BY DEF FrameSizeOf, RankOf
<1> QED  BY <1>1 DEF FramesSize, Ranks, Summed

LEMMA SumTypes == FrameSizeOf \in [Frames -> Nat] /\ RankOf \in [Frames -> Nat]
<1>1. \A frame \in Frames : FrameSize(frame) \in Nat  BY FrameSizeType
<1>2. \A frame \in Frames : Rank(frame) \in Nat  BY RankType
<1> QED  BY <1>1, <1>2 DEF FrameSizeOf, RankOf

LEMMA OnEmpty == FramesSize(<<>>) = 0 /\ Ranks(<<>>) = 0
<1>1. <<>> \in Seq(Frames)  OBVIOUS
<1> QED  BY <1>1, StackSums, SummedOfNone

LEMMA SumsOfStack ==
  ASSUME NEW s \in Seq(Frames)
  PROVE  FramesSize(s) \in Nat /\ Ranks(s) \in Nat
BY StackSums, SumTypes, SummedType

LEMMA OnTop ==
  ASSUME NEW s \in Seq(Frames), NEW f \in Frames
  PROVE  /\ <<f>> \o s \in Seq(Frames) /\ <<f>> \o s # <<>>
         /\ (<<f>> \o s)[1] = f /\ Tail(<<f>> \o s) = s
         /\ FramesSize(<<f>> \o s) = FrameSize(f) + FramesSize(s)
         /\ Ranks(<<f>> \o s) = Rank(f) + Ranks(s)
<1> DEFINE t == <<f>> \o s
<1>1. <<f>> \in Seq(Frames)  OBVIOUS
<1>2. t \in Seq(Frames) /\ Len(t) = 1 + Len(s)  BY <1>1, ConcatProperties
<1>3. t # <<>> /\ t[1] = f
  <2>1. Len(s) \in Nat  OBVIOUS
  <2> QED  BY <1>2, <2>1
<1>4. Tail(t) = s
  <2>1. Tail(t) \in Seq(Frames) /\ Len(Tail(t)) = Len(s)
    <3> HIDE DEF t
    <3> QED  BY <1>2, <1>3, HeadTailProperties
  <2>2. \A i \in 1 .. Len(s) : Tail(t)[i] = s[i]
    OBVIOUS
  <2> HIDE DEF t
  <2> QED  BY <2>1, <2>2, SeqIs
<1>5. /\ Summed(FrameSizeOf, t) = FrameSizeOf[f] + Summed(FrameSizeOf, s)
      /\ Summed(RankOf, t) = RankOf[f] + Summed(RankOf, s)
  BY SumTypes, SummedOfMore
<1>6. FrameSizeOf[f] = FrameSize(f) /\ RankOf[f] = Rank(f)
  BY DEF FrameSizeOf, RankOf
<1> HIDE DEF t
<1>7. /\ FramesSize(t) = Summed(FrameSizeOf, t) /\ Ranks(t) = Summed(RankOf, t)
      /\ FramesSize(s) = Summed(FrameSizeOf, s) /\ Ranks(s) = Summed(RankOf, s)
  BY <1>2, StackSums
<1>8. /\ FramesSize(t) = FrameSize(f) + FramesSize(s)
      /\ Ranks(t) = Rank(f) + Ranks(s)
  BY <1>5, <1>6, <1>7
<1> QED  BY <1>2, <1>3, <1>4, <1>8 DEF t

LEMMA TakenOff ==
  ASSUME NEW s \in Seq(Frames), s # <<>>
  PROVE  /\ s[1] \in Frames /\ Tail(s) \in Seq(Frames)
         /\ FramesSize(s) = FrameSize(s[1]) + FramesSize(Tail(s))
         /\ Ranks(s) = Rank(s[1]) + Ranks(Tail(s))
<1>1. s[1] \in Frames /\ Tail(s) \in Seq(Frames) /\ Len(Tail(s)) = Len(s) - 1
  BY HeadTailProperties
<1>2. <<s[1]>> \o Tail(s) = s
  <2> DEFINE t == <<s[1]>> \o Tail(s)
  <2>1. <<s[1]>> \in Seq(Frames) /\ Len(s) \in Nat  BY <1>1
  <2>2. t \in Seq(Frames) /\ Len(t) = Len(s)
    <3>1. t \in Seq(Frames) /\ Len(t) = 1 + Len(Tail(s))
      BY <1>1, <2>1, ConcatProperties
    <3> QED  BY <1>1, <2>1, <3>1
  <2>3. \A i \in 1 .. Len(s) : t[i] = s[i]
    OBVIOUS
  <2> HIDE DEF t
  <2>4. t = s  BY <2>2, <2>3, SeqIs
  <2> QED  BY <2>4 DEF t
<1>3. /\ FramesSize(<<s[1]>> \o Tail(s)) = FrameSize(s[1]) + FramesSize(Tail(s))
      /\ Ranks(<<s[1]>> \o Tail(s)) = Rank(s[1]) + Ranks(Tail(s))
  BY <1>1, OnTop
<1> QED  BY <1>1, <1>2, <1>3


-----------------------------------------------------------------------------
(* The invariant. *)

(* What a call has at each point. *)
FrameInv(frame) ==
    /\ frame.at = "open" <=> frame.tag = Null
    /\ frame.at \in {"open", "body", "children", "child"} => frame.content = Null

(* The calls further out wait for a child. *)
Waiting(s) == \A i \in DOMAIN s : s[i].at = "child" /\ FrameInv(s[i])

(* There is a call only while the parser runs; a node that nobody has kept *)
(* is there only after a call; and once a call has failed, so do those     *)
(* that wait for it.                                                       *)
ControlInv ==
    /\ stage # "parse" => stack = <<>>
    /\ stage = "begin" => position = 1 /\ returned = <<>> /\ leaked = 0
    /\ stage = "parse" => Length > 0
    /\ stack # <<>> => /\ FrameInv(Top) /\ Waiting(Tail(stack))
                       /\ Top.at # "child" => returned = <<>> /\ leaked = 0
    /\ leaked > 0 => returned = <<>>

IInv == TypeOK /\ ControlInv /\ HeapAccounted

Buffer == IF input.opened THEN 1 ELSE 0

Credit == IF returned = <<>> THEN 0 ELSE 3

LEMMA BufferType ==
  ASSUME input \in Inputs
  PROVE  Buffer \in Nat
BY DEF Buffer

HeapSum ==
    /\ stage = "parse" =>
         live = leaked + FramesSize(stack) + NodesSize(returned) + Buffer
    /\ stage = "parsed" => live = leaked + NodesSize(returned) + 1 + Buffer
    /\ stage \in {"begin", "failed", "freed"} => live = leaked
    /\ stage \in {"parsed", "freed"} => leaked = 0

LEMMA HeapMeans == TypeOK => (HeapAccounted <=> HeapSum)
<1> SUFFICES ASSUME TypeOK PROVE HeapAccounted <=> HeapSum
  OBVIOUS
<1>1. /\ FramesSize(stack) \in Nat /\ NodesSize(returned) \in Nat
      /\ leaked \in Nat /\ Buffer \in Nat
  BY SumsOfStack, NodesSizes, BufferType DEF TypeOK
<1>2. HeapAccounted <=>
        /\ live = leaked + CASE stage = "parse"  -> FramesSize(stack) + NodesSize(returned) + Buffer
                             [] stage = "parsed" -> NodesSize(returned) + 1 + Buffer
                             [] OTHER            -> 0
        /\ stage \in {"parsed", "freed"} => leaked = 0
  BY DEF HeapAccounted, FramesSize, Buffer
<1>3. stage \in {"begin", "parse", "parsed", "failed", "freed"}  BY DEF TypeOK
<1>4. CASE stage = "parse"  BY <1>1, <1>2, <1>4 DEF HeapSum
<1>5. CASE stage = "parsed"  BY <1>1, <1>2, <1>5 DEF HeapSum
<1>6. CASE stage \in {"begin", "failed", "freed"}  BY <1>1, <1>2, <1>6 DEF HeapSum
<1> QED  BY <1>3, <1>4, <1>5, <1>6

StepsLeft ==
    /\ stage = "begin" => ToGo = 6 * Length + 3
    /\ stage = "parse" =>
         ToGo = 6 * (Length - position) + 2 + Ranks(stack) + Credit
    /\ stage = "parsed" => ToGo = 1
    /\ stage \in {"failed", "freed"} => ToGo = 0

LEMMA ToGoMeans == TypeOK => StepsLeft
BY DEF ToGo, Ranks, Credit, TypeOK, StepsLeft

(* While a call runs. *)
LEMMA Running ==
  ASSUME IInv, stage = "parse", stack # <<>>
  PROVE  /\ Top \in Frames /\ Tail(stack) \in Seq(Frames)
         /\ position \in 1 .. Length /\ Length \in Nat
         /\ FrameSize(Top) \in Nat /\ FramesSize(Tail(stack)) \in Nat
         /\ Rank(Top) \in 1 .. 6 /\ Ranks(Tail(stack)) \in Nat
         /\ NodesSize(returned) \in Nat /\ Buffer \in Nat /\ leaked \in Nat
         /\ live = leaked + (FrameSize(Top) + FramesSize(Tail(stack)))
                   + NodesSize(returned) + Buffer
         /\ ToGo = 6 * (Length - position) + 2 + (Rank(Top) + Ranks(Tail(stack)))
                   + Credit
         /\ FrameInv(Top) /\ Waiting(Tail(stack))
<1>1. /\ TypeOK /\ ControlInv /\ HeapAccounted /\ stack \in Seq(Frames)
      /\ input \in Inputs /\ returned \in Seq(XmlNodes) /\ leaked \in Nat
  BY DEF IInv, TypeOK
<1>2. Top \in Frames /\ Tail(stack) \in Seq(Frames)
      /\ FramesSize(stack) = FrameSize(Top) + FramesSize(Tail(stack))
      /\ Ranks(stack) = Rank(Top) + Ranks(Tail(stack))
  BY <1>1, TakenOff DEF Top
<1>3. Length \in Nat /\ position \in 1 .. Length
  <2>1. Length \in Nat /\ Length > 0  BY <1>1, TextIs DEF ControlInv
  <2> QED  BY <1>1, <2>1 DEF TypeOK
<1>4. /\ FrameSize(Top) \in Nat /\ FramesSize(Tail(stack)) \in Nat
      /\ Rank(Top) \in 1 .. 6 /\ Ranks(Tail(stack)) \in Nat
      /\ NodesSize(returned) \in Nat /\ Buffer \in Nat
  BY <1>1, <1>2, FrameSizeType, RankType, SumsOfStack, NodesSizes, BufferType
<1>5. live = leaked + FramesSize(stack) + NodesSize(returned) + Buffer
  BY <1>1, HeapMeans DEF HeapSum
<1>6. ToGo = 6 * (Length - position) + 2 + Ranks(stack) + Credit
  BY <1>1, ToGoMeans DEF StepsLeft
<1>7. FrameInv(Top) /\ Waiting(Tail(stack))  BY <1>1 DEF ControlInv
<1> QED  BY <1>1, <1>2, <1>3, <1>4, <1>5, <1>6, <1>7


-----------------------------------------------------------------------------
(* The shapes of steps. *)

Nearer == IInv' /\ ToGo' \in 0 .. ToGo - 1

(* A call goes on. *)
LEMMA CallGoesOn ==
  ASSUME IInv, stage = "parse", stack # <<>>, UNCHANGED <<input, stage>>,
         NEW f \in Frames, stack' = <<f>> \o Tail(stack), FrameInv(f),
         returned' = <<>>, leaked' = leaked, f.at # "child" => leaked = 0,
         live' = live + FrameSize(f) - FrameSize(Top) - NodesSize(returned),
         position' \in position .. Length,
         6 * position + Rank(f) < 6 * position' + Rank(Top) + Credit
  PROVE  Nearer
<1> DEFINE rest == Tail(stack)
<1>1. /\ Top \in Frames /\ rest \in Seq(Frames)
      /\ position \in 1 .. Length /\ Length \in Nat
      /\ FrameSize(Top) \in Nat /\ FramesSize(rest) \in Nat
      /\ Rank(Top) \in 1 .. 6 /\ Ranks(rest) \in Nat
      /\ NodesSize(returned) \in Nat /\ Buffer \in Nat /\ leaked \in Nat
      /\ live = leaked + (FrameSize(Top) + FramesSize(rest))
                + NodesSize(returned) + Buffer
      /\ ToGo = 6 * (Length - position) + 2 + (Rank(Top) + Ranks(rest)) + Credit
      /\ Waiting(rest)
  BY Running
<1>2. /\ stack' \in Seq(Frames) /\ stack' # <<>> /\ Top' = f /\ Tail(stack') = rest
      /\ FramesSize(stack') = FrameSize(f) + FramesSize(rest)
      /\ Ranks(stack') = Rank(f) + Ranks(rest)
  BY <1>1, OnTop DEF Top
<1>3. FrameSize(f) \in Nat /\ Rank(f) \in 1 .. 6  BY FrameSizeType, RankType
<1>4. Length' = Length /\ Buffer' = Buffer  BY DEF Length, Text, Buffer
<1>5. TypeOK'
  <2>1. TypeOK  BY DEF IInv
  <2>2. position' \in 1 .. Length'  BY <1>1, <1>4
  <2>3. returned' \in Seq(XmlNodes)  OBVIOUS
  <2> QED  BY <1>1, <1>2, <2>1, <2>2, <2>3 DEF TypeOK
<1>6. ControlInv'
  <2>1. ControlInv  BY DEF IInv
  <2> QED  BY <1>1, <1>2, <1>4, <2>1 DEF ControlInv
<1>7. HeapAccounted'
  <2>1. NodesSize(returned') = 0  BY NodesSizes
  <2>2. live' = leaked' + FramesSize(stack') + NodesSize(returned') + Buffer'
    <3>1. /\ FrameSize(Top) \in Nat /\ FramesSize(rest) \in Nat
          /\ NodesSize(returned) \in Nat /\ Buffer \in Nat /\ leaked \in Nat
          /\ live = leaked + (FrameSize(Top) + FramesSize(rest))
                    + NodesSize(returned) + Buffer
          /\ live' = live + FrameSize(f) - FrameSize(Top) - NodesSize(returned)
          /\ leaked' = leaked
      BY <1>1
    <3>2. FramesSize(stack') = FrameSize(f) + FramesSize(rest)  BY <1>2
    <3> HIDE DEF rest
    <3> QED  BY ONLY <1>3, <1>4, <2>1, <3>1, <3>2
  <2>3. TypeOK' => (HeapAccounted' <=> HeapSum')  BY HeapMeans, PTL
  <2> QED  BY <1>5, <2>2, <2>3 DEF HeapSum
<1>8. ToGo' \in 0 .. ToGo - 1
  <2>1. Credit' = 0  BY DEF Credit
  <2>2. ToGo' = 6 * (Length' - position') + 2 + Ranks(stack') + Credit'
    <3>1. TypeOK' => StepsLeft'  BY ToGoMeans, PTL
    <3> QED  BY <1>5, <3>1 DEF StepsLeft
  <2>3. Credit \in Nat  BY DEF Credit
  <2>4. /\ position \in 1 .. Length /\ Length \in Nat
        /\ Rank(Top) \in 1 .. 6 /\ Ranks(rest) \in Nat
        /\ ToGo = 6 * (Length - position) + 2 + (Rank(Top) + Ranks(rest)) + Credit
        /\ position' \in position .. Length
        /\ 6 * position + Rank(f) < 6 * position' + Rank(Top) + Credit
    BY <1>1
  <2>5. Ranks(stack') = Rank(f) + Ranks(rest)  BY <1>2
  <2> HIDE DEF rest
  <2> QED  BY ONLY <1>3, <1>4, <2>1, <2>2, <2>3, <2>4, <2>5
<1> QED  BY <1>5, <1>6, <1>7, <1>8 DEF Nearer, IInv


(* A call is left. *)
LEMMA CallReturns ==
  ASSUME IInv, stage = "parse", stack # <<>>, UNCHANGED <<input, stage>>,
         stack' = Tail(stack), returned' \in Seq(XmlNodes), leaked' \in Nat,
         leaked' > 0 => returned' = <<>>,
         live' - leaked' = live - leaked - FrameSize(Top) - NodesSize(returned)
                           + NodesSize(returned'),
         live' \in Int,
         position' \in position .. Length,
         Credit' < Rank(Top) + Credit
  PROVE  Nearer
<1> DEFINE rest == Tail(stack)
<1>1. /\ Top \in Frames /\ rest \in Seq(Frames)
      /\ position \in 1 .. Length /\ Length \in Nat
      /\ FrameSize(Top) \in Nat /\ FramesSize(rest) \in Nat
      /\ Rank(Top) \in 1 .. 6 /\ Ranks(rest) \in Nat
      /\ NodesSize(returned) \in Nat /\ Buffer \in Nat /\ leaked \in Nat
      /\ live = leaked + (FrameSize(Top) + FramesSize(rest))
                + NodesSize(returned) + Buffer
      /\ ToGo = 6 * (Length - position) + 2 + (Rank(Top) + Ranks(rest)) + Credit
      /\ Waiting(rest)
  BY Running
<1>2. Length' = Length /\ Buffer' = Buffer  BY DEF Length, Text, Buffer
<1>3. TypeOK'
  <2>1. TypeOK  BY DEF IInv
  <2>2. position' \in 1 .. Length'  BY <1>1, <1>2
  <2> QED  BY <1>1, <2>1, <2>2 DEF TypeOK
<1>4. ControlInv'
  <2>1. ControlInv  BY DEF IInv
  <2>2. ASSUME rest # <<>>
        PROVE  FrameInv(rest[1]) /\ Waiting(Tail(rest)) /\ rest[1].at = "child"
    <3>1. /\ DOMAIN rest = 1 .. Len(rest) /\ Len(rest) \in Nat /\ 1 \in DOMAIN rest
          /\ DOMAIN Tail(rest) = 1 .. Len(rest) - 1
          /\ \A i \in DOMAIN Tail(rest) : Tail(rest)[i] = rest[i + 1]
      <4>1. rest \in Seq(Frames)  BY <1>1
      <4> HIDE DEF rest
      <4> QED  BY <2>2, <4>1
    <3>2. \A i \in DOMAIN rest : rest[i].at = "child" /\ FrameInv(rest[i])
      BY <1>1 DEF Waiting
    <3>3. \A i \in DOMAIN Tail(rest) : i + 1 \in DOMAIN rest  BY <3>1
    <3> HIDE DEF rest
    <3> QED  BY <3>1, <3>2, <3>3 DEF Waiting
  <2> QED  BY <1>1, <1>2, <2>1, <2>2 DEF ControlInv, Top
<1>5. HeapAccounted'
  <2>1. NodesSize(returned') \in Nat  BY NodesSizes
  <2>2. live' = leaked' + FramesSize(stack') + NodesSize(returned') + Buffer'
    <3>1. /\ FrameSize(Top) \in Nat /\ FramesSize(rest) \in Nat
          /\ NodesSize(returned) \in Nat /\ Buffer \in Nat /\ leaked \in Nat
          /\ live = leaked + (FrameSize(Top) + FramesSize(rest))
                    + NodesSize(returned) + Buffer
          /\ live' - leaked' = live - leaked - FrameSize(Top) - NodesSize(returned)
                               + NodesSize(returned')
          /\ live' \in Int /\ leaked' \in Nat
      BY <1>1
    <3>2. FramesSize(stack') = FramesSize(rest)  OBVIOUS
    <3> HIDE DEF rest
    <3> QED  BY ONLY <1>2, <2>1, <3>1, <3>2
  <2>3. TypeOK' => (HeapAccounted' <=> HeapSum')  BY HeapMeans, PTL
  <2> QED  BY <1>3, <2>2, <2>3 DEF HeapSum
<1>6. ToGo' \in 0 .. ToGo - 1
  <2>1. ToGo' = 6 * (Length' - position') + 2 + Ranks(stack') + Credit'
    <3>1. TypeOK' => StepsLeft'  BY ToGoMeans, PTL
    <3> QED  BY <1>3, <3>1 DEF StepsLeft
  <2>2. Credit \in Nat /\ Credit' \in Nat  BY DEF Credit
  <2>3. /\ position \in 1 .. Length /\ Length \in Nat
        /\ Rank(Top) \in 1 .. 6 /\ Ranks(rest) \in Nat
        /\ ToGo = 6 * (Length - position) + 2 + (Rank(Top) + Ranks(rest)) + Credit
        /\ position' \in position .. Length
        /\ Credit' < Rank(Top) + Credit
    BY <1>1
  <2>4. Ranks(stack') = Ranks(rest)  OBVIOUS
  <2> HIDE DEF rest
  <2> QED  BY ONLY <1>2, <2>1, <2>2, <2>3, <2>4
<1> QED  BY <1>3, <1>4, <1>5, <1>6 DEF Nearer, IInv

LEMMA Calls == Call \in Frames /\ FrameSize(Call) = 1 /\ Rank(Call) = 1 /\ FrameInv(Call)
<1>1. Call \in Frames  BY DEF Call, Frames, Strings
<1>2. FrameSize(Call) = 1  BY NodesSizes DEF FrameSize, Call
<1>3. Rank(Call) = 1  BY DEF Rank, Call
<1> QED  BY <1>1, <1>2, <1>3 DEF FrameInv, Call

(* A call makes another one. *)
LEMMA CallDescends ==
  ASSUME IInv, stage = "parse", stack # <<>>, Top.at = "children",
         UNCHANGED <<input, stage, position, returned, leaked>>,
         NEW f \in Frames, stack' = <<Call, f>> \o Tail(stack), FrameInv(f),
         f.at = "child", FrameSize(f) = FrameSize(Top), live' = live + 1
  PROVE  Nearer
<1> DEFINE rest == Tail(stack)
           outer == <<f>> \o rest
<1>1. /\ Top \in Frames /\ rest \in Seq(Frames)
      /\ position \in 1 .. Length /\ Length \in Nat
      /\ FrameSize(Top) \in Nat /\ FramesSize(rest) \in Nat
      /\ Rank(Top) \in 1 .. 6 /\ Ranks(rest) \in Nat
      /\ NodesSize(returned) \in Nat /\ Buffer \in Nat /\ leaked \in Nat
      /\ live = leaked + (FrameSize(Top) + FramesSize(rest))
                + NodesSize(returned) + Buffer
      /\ ToGo = 6 * (Length - position) + 2 + (Rank(Top) + Ranks(rest)) + Credit
      /\ Waiting(rest)
  BY Running
<1>2. /\ outer \in Seq(Frames) /\ Ranks(outer) = Rank(f) + Ranks(rest)
      /\ FramesSize(outer) = FrameSize(f) + FramesSize(rest)
  BY <1>1, OnTop
<1>3. Waiting(outer)
  <2>1. \A i \in DOMAIN outer : outer[i] = f \/ \E j \in DOMAIN rest : outer[i] = rest[j]
    <3>1. rest \in Seq(Frames)  BY <1>1
    <3> HIDE DEF rest
    <3> QED  BY <3>1
  <2> HIDE DEF rest, outer
  <2> QED  BY <1>1, <2>1 DEF Waiting
<1>4. stack' = <<Call>> \o outer
  <2>1. <<Call>> \in Seq(Frames) /\ <<f>> \in Seq(Frames) /\ rest \in Seq(Frames)
    BY <1>1, Calls
  <2>2. (<<Call>> \o <<f>>) \o rest = <<Call>> \o (<<f>> \o rest)
    BY <2>1, ConcatAssociative
  <2>3. <<Call>> \o <<f>> = <<Call, f>>
    <3> DEFINE a == <<Call>> \o <<f>>
               b == <<Call, f>>
    <3>1. a \in Seq(Frames) /\ Len(a) = 2 /\ b \in Seq(Frames) /\ Len(b) = 2
      BY <2>1, Calls, ConcatProperties
    <3>2. \A i \in 1 .. 2 : a[i] = b[i]  OBVIOUS
    <3> HIDE DEF a, b
    <3>3. a = b  BY <3>1, <3>2, SeqIs
    <3> QED  BY <3>3 DEF a, b
  <2> QED  BY <2>2, <2>3
<1> HIDE DEF outer
<1>5. /\ stack' \in Seq(Frames) /\ stack' # <<>> /\ Top' = Call /\ Tail(stack') = outer
      /\ FramesSize(stack') = 1 + FramesSize(outer)
      /\ Ranks(stack') = 1 + Ranks(outer)
  BY <1>2, <1>4, Calls, OnTop DEF Top
<1>6. Length' = Length /\ Buffer' = Buffer  BY DEF Length, Text, Buffer
<1>7. TypeOK'
  <2>1. TypeOK  BY DEF IInv
  <2> QED  BY <1>5, <1>6, <2>1 DEF TypeOK
<1>8. ControlInv'
  <2>1. ControlInv  BY DEF IInv
  <2> QED  BY <1>3, <1>5, <1>6, <2>1, Calls DEF ControlInv
<1>9. HeapAccounted'
  <2>1. live' = leaked' + FramesSize(stack') + NodesSize(returned') + Buffer'
    <3>1. /\ FrameSize(Top) \in Nat /\ FramesSize(rest) \in Nat
          /\ NodesSize(returned) \in Nat /\ Buffer \in Nat /\ leaked \in Nat
          /\ live = leaked + (FrameSize(Top) + FramesSize(rest))
                    + NodesSize(returned) + Buffer
          /\ live' = live + 1 /\ leaked' = leaked /\ returned' = returned
          /\ FrameSize(f) = FrameSize(Top)
      BY <1>1
    <3>2. /\ FramesSize(stack') = 1 + FramesSize(outer)
          /\ FramesSize(outer) = FrameSize(f) + FramesSize(rest)
      BY <1>2, <1>5
    <3> HIDE DEF rest
    <3> QED  BY ONLY <1>6, <3>1, <3>2
  <2>2. TypeOK' => (HeapAccounted' <=> HeapSum')  BY HeapMeans, PTL
  <2> QED  BY <1>7, <2>1, <2>2 DEF HeapSum
<1>10. ToGo' \in 0 .. ToGo - 1
  <2>1. ToGo' = 6 * (Length' - position') + 2 + Ranks(stack') + Credit'
    <3>1. TypeOK' => StepsLeft'  BY ToGoMeans, PTL
    <3> QED  BY <1>7, <3>1 DEF StepsLeft
  <2>2. Credit \in Nat /\ Credit' = Credit  BY DEF Credit
  <2>3. Rank(Top) = 5 /\ Rank(f) = 3  BY DEF Rank
  <2>4. /\ position \in 1 .. Length /\ Length \in Nat /\ Ranks(rest) \in Nat
        /\ ToGo = 6 * (Length - position) + 2 + (Rank(Top) + Ranks(rest)) + Credit
        /\ position' = position
    BY <1>1
  <2>5. Ranks(stack') = 1 + (Rank(f) + Ranks(rest))  BY <1>2, <1>5
  <2> HIDE DEF rest
  <2> QED  BY ONLY <1>6, <2>1, <2>2, <2>3, <2>4, <2>5
<1> QED  BY <1>7, <1>8, <1>9, <1>10 DEF Nearer, IInv


-----------------------------------------------------------------------------
(* The actions. *)

LEMMA NoneReturned ==
  ASSUME IInv, stack # <<>>, Top.at # "child"
  PROVE  returned = <<>> /\ leaked = 0 /\ Credit = 0 /\ NodesSize(returned) = 0
<1>1. returned = <<>> /\ leaked = 0  BY DEF IInv, ControlInv
<1> QED  BY <1>1, NodesSizes DEF Credit

LEMMA TopIs ==
  ASSUME IInv, stage = "parse", stack # <<>>
  PROVE  /\ Top = [at |-> Top.at, tag |-> Top.tag, content |-> Top.content,
                   children |-> Top.children]
         /\ Top.tag \in Strings /\ Top.content \in Strings
         /\ Top.children \in Seq(XmlNodes) /\ NodesSize(Top.children) \in Nat
         /\ Top.at \in {"open", "body", "children", "child", "close"}
<1>1. Top \in Frames  BY Running
<1>2. Top.children \in Seq(XmlNodes)  BY <1>1 DEF Frames
<1>3. NodesSize(Top.children) \in Nat  BY <1>2, NodesSizes
<1> QED  BY <1>1, <1>2, <1>3 DEF Frames

LEMMA Fails ==
  ASSUME IInv, stage = "parse", stack # <<>>, Fail,
         Top.at = "child" => returned = <<>>, position' \in position .. Length
  PROVE  Nearer
<1> DEFINE tagged == IF Top.tag = Null THEN 0
                     ELSE AttributesSize(AttributesOf(Top.tag))
           kids == NodesSize(Top.children)
           tag == IF Top.tag = Null THEN 0 ELSE 1
           content == IF Top.content = Null THEN 0 ELSE 1
<1>1. returned = <<>> /\ NodesSize(returned) = 0 /\ Credit = 0
  <2>1. returned = <<>>  BY NoneReturned
  <2> QED  BY <2>1, NodesSizes DEF Credit
<1>2. /\ stack' = Tail(stack) /\ returned' = <<>> /\ UNCHANGED <<input, stage>>
      /\ live' = live - 1 - kids - tag - content
      /\ leaked' = leaked + tagged
  BY DEF Fail
<1>3. tagged \in Nat
  <2>1. Top.tag # Null => Top.tag \in Seq(Symbols)  BY TopIs DEF Strings
  <2> QED  BY <2>1, TagSizeType
<1>4. kids \in Nat /\ tag \in 0 .. 1 /\ content \in 0 .. 1  BY TopIs
<1>5. FrameSize(Top) = 1 + kids + (tag + tagged) + content
  <2>1. Top.tag # Null => AttributesSize(AttributesOf(Top.tag)) \in Nat  BY <1>3
  <2> QED  BY <1>4, <2>1 DEF FrameSize
<1>6. /\ FramesSize(Tail(stack)) \in Nat /\ Buffer \in Nat /\ leaked \in Nat
      /\ live = leaked + (FrameSize(Top) + FramesSize(Tail(stack)))
                + NodesSize(returned) + Buffer
      /\ Rank(Top) \in 1 .. 6
  BY Running
<1> HIDE DEF tagged, kids, tag, content
<1>7. NodesSize(returned') = 0 /\ Credit' = 0 /\ returned' \in Seq(XmlNodes)
  BY <1>2, NodesSizes DEF Credit
<1>8. live \in Int  BY ONLY <1>1, <1>3, <1>4, <1>5, <1>6
<1>9. /\ live' \in Int /\ leaked' \in Nat
      /\ live' - leaked' = live - leaked - FrameSize(Top) - NodesSize(returned)
                           + NodesSize(returned')
  <2>1. live' = live - 1 - kids - tag - content /\ leaked' = leaked + tagged
    BY <1>2
  <2>2. leaked \in Nat /\ live \in Int /\ tag \in Nat /\ content \in Nat
    BY <1>4, <1>6, <1>8
  <2>3. live' \in Int  BY ONLY <1>4, <2>1, <2>2
  <2>4. leaked' \in Nat  BY ONLY <1>3, <2>1, <2>2
  <2>5. live' - leaked' = live - leaked - FrameSize(Top)
    BY ONLY <1>3, <1>4, <1>5, <2>1, <2>2
  <2>6. live - leaked - FrameSize(Top) \in Int
    BY ONLY <1>3, <1>4, <1>5, <2>2
  <2> QED  BY ONLY <1>1, <1>7, <2>3, <2>4, <2>5, <2>6
<1>10. Credit' < Rank(Top) + Credit  BY <1>1, <1>6, <1>7
<1> QED  BY <1>2, <1>7, <1>9, <1>10, CallReturns

LEMMA Creates ==
  ASSUME IInv, stage = "parse", stack # <<>>, Top.at \in {"body", "close"},
         NEW content, content = Top.content, Create(content),
         position' \in position .. Length
  PROVE  Nearer
<1> DEFINE attributes == AttributesOf(Top.tag)
           node == [name |-> NameOf(Top.tag), attributes |-> attributes,
                    content |-> content, depth |-> Len(stack)]
           kids == NodesSize(Top.children)
           full == IF Top.content = Null THEN 0 ELSE 1
           size == AttributesSize(attributes)
<1>1. returned = <<>> /\ NodesSize(returned) = 0 /\ Credit = 0 /\ leaked = 0
  BY NoneReturned
<1>2. /\ stack' = Tail(stack) /\ returned' = Append(Top.children, node)
      /\ UNCHANGED <<input, stage, leaked>> /\ live' = live + 1
  BY DEF Create
<1>3. Top.tag \in Seq(Symbols) /\ Top.tag # Null
  <2>1. Top.tag # Null  BY Running DEF FrameInv
  <2> QED  BY <2>1, TopIs DEF Strings
<1>4. size \in Nat  BY <1>3, TagSizeType
<1>5. kids \in Nat /\ full \in 0 .. 1 /\ Top.children \in Seq(XmlNodes)  BY TopIs
<1>6. node \in XmlNodes
  <2>1. NameOf(Top.tag) \in Seq(Symbols) /\ attributes \in Attributes
    BY <1>3, NameType, AttributesType
  <2>2. content \in Strings  BY TopIs
  <2>3. Len(stack) \in Nat  BY DEF IInv, TypeOK
  <2> HIDE DEF attributes
  <2> QED  BY <2>1, <2>2, <2>3 DEF XmlNodes
<1>7. NodeSize(node) = 3 + full + size
  <2>1. node.content = Top.content /\ node.attributes = attributes  OBVIOUS
  <2> HIDE DEF node, attributes
  <2> QED  BY <2>1 DEF NodeSize
<1>8. FrameSize(Top) = 1 + kids + (1 + size) + full
  BY <1>3 DEF FrameSize
<1>9. /\ returned' \in Seq(XmlNodes) /\ returned' # <<>>
      /\ NodesSize(returned') = kids + NodeSize(node)
  <2> HIDE DEF node
  <2>1. Append(Top.children, node) \in Seq(XmlNodes) /\ Append(Top.children, node) # <<>>
    BY <1>5, <1>6, AppendProperties
  <2>2. NodesSize(Append(Top.children, node)) = kids + NodeSize(node)
    BY <1>5, <1>6, NodesSizes
  <2> QED  BY <1>2, <2>1, <2>2
<1>10. /\ FramesSize(Tail(stack)) \in Nat /\ Buffer \in Nat
       /\ live = leaked + (FrameSize(Top) + FramesSize(Tail(stack)))
                 + NodesSize(returned) + Buffer
  BY Running
<1> HIDE DEF node, kids, full, size
<1>11. live \in Int  BY ONLY <1>1, <1>4, <1>5, <1>8, <1>10
<1>12. leaked' = 0 /\ live' = live + 1  BY <1>1, <1>2
<1>13. /\ live' \in Int /\ leaked' \in Nat
       /\ live' - leaked' = live - leaked - FrameSize(Top) - NodesSize(returned)
                            + NodesSize(returned')
  BY ONLY <1>1, <1>4, <1>5, <1>7, <1>8, <1>9, <1>11, <1>12
<1>14. Credit' < Rank(Top) + Credit
  <2>1. Rank(Top) \in {4, 6}  BY DEF Rank
  <2>2. Credit' = 3  BY <1>9 DEF Credit
  <2> QED  BY <1>1, <2>1, <2>2
<1> QED  BY <1>2, <1>9, <1>12, <1>13, <1>14, CallReturns


LEMMA Begins ==
  ASSUME IInv, Begin
  PROVE  Nearer
<1>1. /\ TypeOK /\ stage = "begin" /\ stack = <<>> /\ returned = <<>> /\ leaked = 0
      /\ live = leaked /\ ToGo = 6 * Length + 3 /\ position = 1
      /\ input \in Inputs /\ Length \in Nat
  <2>1. TypeOK /\ ControlInv /\ HeapAccounted /\ stage = "begin"
    BY DEF IInv, Begin
  <2>2. HeapSum /\ StepsLeft  BY <2>1, HeapMeans, ToGoMeans
  <2>3. stack = <<>> /\ position = 1 /\ returned = <<>> /\ leaked = 0
    BY <2>1 DEF ControlInv
  <2>4. input \in Inputs  BY <2>1 DEF TypeOK
  <2> QED  BY <2>1, <2>2, <2>3, <2>4, TextIs DEF HeapSum, StepsLeft
<1>2. /\ UNCHANGED <<input, position, returned, leaked>>
      /\ Length' = Length /\ Buffer' = Buffer /\ Buffer \in Nat
  BY <1>1, BufferType DEF Begin, Length, Text, Buffer
<1>3. NodesSize(returned') = 0 /\ Credit' = 0
  BY <1>1, <1>2, NodesSizes DEF Credit
<1>4. TypeOK' => StepsLeft' /\ (HeapAccounted' <=> HeapSum')
  BY HeapMeans, ToGoMeans, PTL
<1>5. CASE Length = 0
  <2>1. stage' = "failed" /\ stack' = <<>> /\ live' = 0
    BY <1>1, <1>5 DEF Begin
  <2>2. TypeOK'  BY <1>1, <1>2, <2>1 DEF TypeOK
  <2>3. ControlInv'  BY <1>1, <1>2, <2>1 DEF ControlInv
  <2>4. HeapAccounted'  BY <1>1, <1>2, <1>4, <2>1, <2>2 DEF HeapSum
  <2>5. ToGo' = 0  BY <1>4, <2>1, <2>2 DEF StepsLeft
  <2> QED  BY <1>1, <1>5, <2>2, <2>3, <2>4, <2>5 DEF Nearer, IInv
<1>6. CASE Length # 0
  <2>1. stage' = "parse" /\ stack' = <<Call>> /\ live' = 1 + Buffer
    BY <1>1, <1>2, <1>6 DEF Begin, Buffer
  <2>2. /\ stack' \in Seq(Frames) /\ Top' = Call /\ Tail(stack') = <<>>
        /\ FramesSize(stack') = 1 /\ Ranks(stack') = 1
    <3>1. <<Call>> \in Seq(Frames) /\ <<>> \in Seq(Frames)  BY Calls
    <3>2. <<Call>> = <<Call>> \o <<>>  BY <3>1, ConcatEmptySeq
    <3>3. /\ FramesSize(<<Call>> \o <<>>) = 1 + 0 /\ Ranks(<<Call>> \o <<>>) = 1 + 0
          /\ Tail(<<Call>> \o <<>>) = <<>>
      BY <3>1, Calls, OnTop, OnEmpty
    <3> QED  BY <2>1, <3>1, <3>2, <3>3 DEF Top
  <2>3. TypeOK'  BY <1>1, <1>2, <1>6, <2>1, <2>2 DEF TypeOK
  <2>4. ControlInv'
    <3>1. Call.at # "child" /\ FrameInv(Call)  BY Calls DEF Call
    <3>2. Waiting(<<>>)  BY DEF Waiting
    <3>3. Length' > 0  BY <1>1, <1>2, <1>6
    <3> QED  BY <1>1, <1>2, <2>1, <2>2, <3>1, <3>2, <3>3 DEF ControlInv
  <2>5. HeapAccounted'
    BY <1>1, <1>2, <1>3, <1>4, <2>1, <2>2, <2>3 DEF HeapSum
  <2>6. ToGo' = 6 * (Length - 1) + 2 + 1 + 0
    BY <1>1, <1>2, <1>3, <1>4, <2>1, <2>2, <2>3 DEF StepsLeft
  <2>7. ToGo' \in 0 .. ToGo - 1  BY <1>1, <1>6, <2>6
  <2> QED  BY <2>3, <2>4, <2>5, <2>7 DEF Nearer, IInv
<1> QED  BY <1>5, <1>6

LEMMA Finishes ==
  ASSUME IInv, End
  PROVE  Nearer
<1>1. /\ TypeOK /\ ControlInv /\ stage = "parse" /\ stack = <<>>
      /\ UNCHANGED <<input, position, stack, returned, leaked>>
  BY DEF IInv, End
<1>2. /\ input \in Inputs /\ returned \in Seq(XmlNodes) /\ leaked \in Nat
      /\ Buffer \in Nat /\ NodesSize(returned) \in Nat
      /\ FramesSize(stack) = 0 /\ Ranks(stack) = 0
  BY <1>1, OnEmpty, NodesSizes, BufferType DEF TypeOK
<1>3. Length \in Nat /\ position \in 1 .. Length
  <2>1. Length \in Nat /\ Length > 0  BY <1>1, <1>2, TextIs DEF ControlInv
  <2> QED  BY <1>1, <2>1 DEF TypeOK
<1>4. /\ live = leaked + NodesSize(returned) + Buffer
      /\ ToGo = 6 * (Length - position) + 2 + Credit
  <2>1. HeapSum /\ StepsLeft  BY <1>1, HeapMeans, ToGoMeans DEF IInv
  <2> QED  BY <1>1, <1>2, <1>3, <2>1 DEF HeapSum, StepsLeft, Credit
<1>5. Length' = Length /\ Buffer' = Buffer  BY <1>1 DEF Length, Text, Buffer
<1>6. TypeOK' => StepsLeft' /\ (HeapAccounted' <=> HeapSum')
  BY HeapMeans, ToGoMeans, PTL
<1>7. CASE returned = <<>>
  <2>1. stage' = "failed" /\ live' = live - Buffer /\ NodesSize(returned) = 0 /\ Credit = 0
    BY <1>7, NodesSizes DEF End, Buffer, Credit
  <2>2. TypeOK'  BY <1>1, <1>5, <2>1 DEF TypeOK
  <2>3. ControlInv'  BY <1>1, <1>7, <2>1 DEF ControlInv
  <2>4. live' = leaked'  BY <1>1, <1>2, <1>4, <2>1
  <2>5. HeapAccounted'  BY <1>6, <2>1, <2>2, <2>4 DEF HeapSum
  <2>6. ToGo' = 0  BY <1>6, <2>1, <2>2 DEF StepsLeft
  <2>7. ToGo' \in 0 .. ToGo - 1  BY <1>3, <1>4, <2>1, <2>6
  <2> QED  BY <2>2, <2>3, <2>5, <2>7 DEF Nearer, IInv
<1>8. CASE returned # <<>>
  <2>1. stage' = "parsed" /\ live' = live + 1 /\ Credit = 3
    BY <1>8 DEF End, Credit
  <2>2. leaked = 0  BY <1>1, <1>2, <1>8 DEF ControlInv
  <2>3. TypeOK'  BY <1>1, <1>5, <2>1 DEF TypeOK
  <2>4. ControlInv'  BY <1>1, <1>8, <2>1, <2>2 DEF ControlInv
  <2>5. live' = leaked' + NodesSize(returned') + 1 + Buffer'
    BY <1>1, <1>2, <1>4, <1>5, <2>1
  <2>6. HeapAccounted'  BY <1>1, <1>6, <2>1, <2>2, <2>3, <2>5 DEF HeapSum
  <2>7. ToGo' = 1  BY <1>6, <2>1, <2>3 DEF StepsLeft
  <2>8. ToGo' \in 0 .. ToGo - 1  BY <1>3, <1>4, <2>1, <2>7
  <2> QED  BY <2>3, <2>4, <2>6, <2>8 DEF Nearer, IInv
<1> QED  BY <1>7, <1>8

LEMMA Frees ==
  ASSUME IInv, FreeDocument
  PROVE  Nearer
<1>1. /\ TypeOK /\ ControlInv /\ HeapAccounted /\ stage = "parsed" /\ stage' = "freed"
      /\ UNCHANGED <<input, position, stack, returned, leaked>>
      /\ live' = live - NodesSize(returned) - 1 - Buffer
  BY DEF IInv, FreeDocument, Buffer
<1>2. /\ input \in Inputs /\ returned \in Seq(XmlNodes) /\ leaked = 0
      /\ live = leaked + NodesSize(returned) + 1 + Buffer /\ ToGo = 1
  BY <1>1, HeapMeans, ToGoMeans DEF HeapSum, StepsLeft, TypeOK
<1>3. Buffer \in Nat /\ NodesSize(returned) \in Nat
  BY <1>2, NodesSizes, BufferType
<1>4. live' = leaked'  BY <1>1, <1>2, <1>3
<1>5. TypeOK'  BY <1>1 DEF TypeOK, Length, Text
<1>6. ControlInv'  BY <1>1 DEF ControlInv
<1>7. TypeOK' => StepsLeft' /\ (HeapAccounted' <=> HeapSum')
  BY HeapMeans, ToGoMeans, PTL
<1>8. HeapAccounted' /\ ToGo' = 0
  BY <1>1, <1>2, <1>4, <1>5, <1>7 DEF HeapSum, StepsLeft
<1> QED  BY <1>2, <1>5, <1>6, <1>8 DEF Nearer, IInv


(* Two fields of a call are set at once. *)
WithTag(r, x, y) == [r EXCEPT !.at = x, !.tag = y]
WithContent(r, x, y) == [r EXCEPT !.at = x, !.content = y]
WithChildren(r, x, y) == [r EXCEPT !.at = x, !.children = y]

LEMMA Excepts ==
  ASSUME NEW r \in Frames, NEW x, NEW y
  PROVE  /\ WithTag(r, x, y)
              = [at |-> x, tag |-> y, content |-> r.content, children |-> r.children]
         /\ WithContent(r, x, y)
              = [at |-> x, tag |-> r.tag, content |-> y, children |-> r.children]
         /\ WithChildren(r, x, y)
              = [at |-> x, tag |-> r.tag, content |-> r.content, children |-> y]
<1> DEFINE b == r.tag
           c == r.content
           d == r.children
           s == [at |-> x, tag |-> b, content |-> c, children |-> d]
<1>1. [r EXCEPT !.at = x] = s  BY DEF Frames
<1>2. WithTag(r, x, y) = [s EXCEPT !.tag = y]  BY <1>1 DEF WithTag
<1>3. WithContent(r, x, y) = [s EXCEPT !.content = y]  BY <1>1 DEF WithContent
<1>4. WithChildren(r, x, y) = [s EXCEPT !.children = y]  BY <1>1 DEF WithChildren
<1> HIDE DEF b, c, d
<1>5. [s EXCEPT !.tag = y] = [at |-> x, tag |-> y, content |-> c, children |-> d]
  OBVIOUS
<1>6. [s EXCEPT !.content = y] = [at |-> x, tag |-> b, content |-> y, children |-> d]
  OBVIOUS
<1>7. [s EXCEPT !.children = y] = [at |-> x, tag |-> b, content |-> c, children |-> y]
  OBVIOUS
<1> HIDE DEF s
<1> QED  BY <1>2, <1>3, <1>4, <1>5, <1>6, <1>7 DEF b, c, d

LEMMA Opens ==
  ASSUME IInv, OpenTag
  PROVE  Nearer
<1>1. /\ stage = "parse" /\ stack # <<>> /\ Top.at = "open" /\ input \in Inputs
  BY DEF OpenTag, At, IInv, TypeOK
<1>2. position \in 1 .. Length /\ Length \in Nat  BY <1>1, Running
<1> DEFINE tag == TagOpen(position)
<1>3. /\ tag.name \in Seq(Symbols)
      /\ tag.ok => tag.next \in position + 1 .. Length
  BY <1>1, <1>2, TagOpenAhead
<1>4. IF tag.ok
      THEN /\ Become([Top EXCEPT !.at = "body", !.tag = tag.name])
           /\ position' = tag.next
           /\ live' = live + 1 + AttributesSize(AttributesOf(tag.name))
           /\ UNCHANGED <<input, stage, returned, leaked>>
      ELSE Fail /\ UNCHANGED position
  BY DEF OpenTag
<1> HIDE DEF tag
<1>5. CASE ~tag.ok
  <2>1. position' \in position .. Length  BY <1>2, <1>4, <1>5
  <2> QED  BY <1>1, <1>4, <1>5, <2>1, Fails
<1>6. CASE tag.ok
  <2> DEFINE f == [at |-> "body", tag |-> tag.name, content |-> Top.content,
                   children |-> Top.children]
             size == AttributesSize(AttributesOf(tag.name))
  <2>1. stack' = <<f>> \o Tail(stack)
    <3>0. Top \in Frames  BY <1>1, Running
    <3>1. WithTag(Top, "body", tag.name) = f  BY ONLY <3>0, Excepts
    <3> QED  BY <1>4, <1>6, <3>1 DEF WithTag, Become
  <2>2. Top.tag = Null /\ Top.content = Null  BY <1>1, Running DEF FrameInv
  <2>3. tag.name # Null  BY <1>3, InputsAssumption
  <2>4. f \in Frames /\ FrameInv(f) /\ f.at = "body"
    BY <1>1, <1>3, <2>2, <2>3, TopIs DEF Frames, FrameInv, Strings
  <2>5. size \in Nat  BY <1>3, TagSizeType
  <2>6. FrameSize(f) = 1 + NodesSize(Top.children) + (1 + size)
    <3>1. /\ f.tag = tag.name /\ f.content = Null /\ f.children = Top.children
          /\ NodesSize(Top.children) \in Nat
      BY <1>1, <2>2, TopIs
    <3> HIDE DEF f
    <3> QED  BY <2>3, <2>5, <3>1 DEF FrameSize
  <2>7. FrameSize(Top) = 1 + NodesSize(Top.children) /\ NodesSize(Top.children) \in Nat
    BY <1>1, <2>2, TopIs DEF FrameSize
  <2>8. returned = <<>> /\ leaked = 0 /\ Credit = 0 /\ NodesSize(returned) = 0
    BY <1>1, NoneReturned
  <2>9. Rank(f) = 6 /\ Rank(Top) = 1  BY <1>1 DEF Rank
  <2>10. live' = live + 1 + size  BY <1>4, <1>6
  <2>11. live \in Int
    <3>1. FrameSize(Top) \in Nat  BY ONLY <2>7
    <3> QED  BY <1>1, <2>8, Running
  <2> HIDE DEF f, size
  <2>12. live' = live + FrameSize(f) - FrameSize(Top) - NodesSize(returned)
    BY ONLY <2>5, <2>6, <2>7, <2>8, <2>10, <2>11
  <2>13. /\ position' \in position .. Length
         /\ 6 * position + Rank(f) < 6 * position' + Rank(Top) + Credit
    BY <1>2, <1>3, <1>4, <1>6, <2>8, <2>9
  <2>14. returned' = <<>> /\ leaked' = leaked /\ UNCHANGED <<input, stage>>
    BY <1>4, <1>6, <2>8
  <2> QED  BY <1>1, <2>1, <2>4, <2>8, <2>12, <2>13, <2>14, CallGoesOn
<1> QED  BY <1>5, <1>6

LEMMA ClosesAtOnce ==
  ASSUME IInv, ClosesItself
  PROVE  Nearer
<1>1. /\ stage = "parse" /\ stack # <<>> /\ Top.at = "body" /\ Create(Null)
      /\ position' = position
  BY DEF ClosesItself, At
<1>2. Top.content = Null  BY <1>1, Running DEF FrameInv
<1>3. position' \in position .. Length  BY <1>1, Running
<1> QED  BY <1>1, <1>2, <1>3, Creates

LEMMA Reads ==
  ASSUME IInv, ParseContent
  PROVE  Nearer
<1>1. /\ stage = "parse" /\ stack # <<>> /\ Top.at = "body" /\ input \in Inputs
  BY DEF ParseContent, At, IInv, TypeOK
<1>2. position \in 1 .. Length /\ Length \in Nat  BY <1>1, Running
<1> DEFINE content == Content(position)
<1>3. content.text \in Seq(Symbols) /\ content.next \in position .. Length
  BY <1>1, <1>2, ContentAhead
<1>4. IF content.ok
      THEN /\ Become([Top EXCEPT !.at = "close", !.content = content.text])
           /\ position' = content.next
           /\ live' = live + 1
           /\ UNCHANGED <<input, stage, returned, leaked>>
      ELSE Fail /\ UNCHANGED position
  BY DEF ParseContent
<1> HIDE DEF content
<1>5. CASE ~content.ok
  <2>1. position' \in position .. Length  BY <1>2, <1>4, <1>5
  <2> QED  BY <1>1, <1>4, <1>5, <2>1, Fails
<1>6. CASE content.ok
  <2> DEFINE f == [at |-> "close", tag |-> Top.tag, content |-> content.text,
                   children |-> Top.children]
  <2>1. stack' = <<f>> \o Tail(stack)
    <3>0. Top \in Frames  BY <1>1, Running
    <3>1. WithContent(Top, "close", content.text) = f  BY ONLY <3>0, Excepts
    <3> QED  BY <1>4, <1>6, <3>1 DEF WithContent, Become
  <2>2. Top.tag # Null /\ Top.content = Null  BY <1>1, Running DEF FrameInv
  <2>3. content.text # Null  BY <1>3, InputsAssumption
  <2>4. f \in Frames /\ FrameInv(f) /\ f.at = "close"
    BY <1>1, <1>3, <2>2, <2>3, TopIs DEF Frames, FrameInv, Strings
  <2>5. FrameSize(f) = FrameSize(Top) + 1
    <3>1. /\ f.tag = Top.tag /\ f.content = content.text /\ f.children = Top.children
          /\ NodesSize(Top.children) \in Nat /\ Top.tag \in Seq(Symbols)
      BY <1>1, <2>2, TopIs DEF Strings
    <3>2. AttributesSize(AttributesOf(Top.tag)) \in Nat  BY <3>1, TagSizeType
    <3> HIDE DEF f
    <3> QED  BY <2>2, <2>3, <3>1, <3>2 DEF FrameSize
  <2>6. returned = <<>> /\ leaked = 0 /\ Credit = 0 /\ NodesSize(returned) = 0
    BY <1>1, NoneReturned
  <2>7. Rank(f) = 4 /\ Rank(Top) = 6  BY <1>1 DEF Rank
  <2>8. FrameSize(Top) \in Nat /\ live \in Int  BY <1>1, <2>6, Running
  <2>9. live' = live + 1  BY <1>4, <1>6
  <2> HIDE DEF f
  <2>10. live' = live + FrameSize(f) - FrameSize(Top) - NodesSize(returned)
    BY ONLY <2>5, <2>6, <2>8, <2>9
  <2>11. /\ position' \in position .. Length
         /\ 6 * position + Rank(f) < 6 * position' + Rank(Top) + Credit
    BY <1>2, <1>3, <1>4, <1>6, <2>6, <2>7
  <2>12. returned' = <<>> /\ leaked' = leaked /\ UNCHANGED <<input, stage>>
    BY <1>4, <1>6, <2>6
  <2> QED  BY <1>1, <2>1, <2>4, <2>6, <2>10, <2>11, <2>12, CallGoesOn
<1> QED  BY <1>5, <1>6

(* A call comes to another point with what it has. *)
LEMMA MovesTo ==
  ASSUME IInv, stage = "parse", stack # <<>>, NEW point \in {"children", "close"},
         Become([Top EXCEPT !.at = point]),
         \/ Top.at = "body" /\ point = "children"
         \/ Top.at = "children" /\ point = "close",
         UNCHANGED <<input, stage, position, returned, live, leaked>>
  PROVE  Nearer
<1> DEFINE f == [at |-> point, tag |-> Top.tag, content |-> Top.content,
                 children |-> Top.children]
<1>1. stack' = <<f>> \o Tail(stack)  BY TopIs DEF Become
<1>2. Top.tag # Null /\ Top.content = Null  BY Running DEF FrameInv
<1>3. f \in Frames /\ FrameInv(f) /\ f.at # "child"
  BY <1>2, TopIs DEF Frames, FrameInv
<1>4. FrameSize(f) = FrameSize(Top)  BY DEF FrameSize
<1>5. returned = <<>> /\ leaked = 0 /\ Credit = 0 /\ NodesSize(returned) = 0
  BY NoneReturned
<1>6. Rank(f) < Rank(Top) /\ Rank(f) \in Nat /\ Rank(Top) \in Nat  BY DEF Rank
<1>7. FrameSize(Top) \in Nat /\ live \in Int /\ position \in 1 .. Length /\ Length \in Nat
  BY <1>5, Running
<1> HIDE DEF f
<1>8. live' = live + FrameSize(f) - FrameSize(Top) - NodesSize(returned)
  <2>1. live' = live  OBVIOUS
  <2> QED  BY ONLY <1>4, <1>5, <1>7, <2>1
<1>9. /\ position' \in position .. Length
      /\ 6 * position + Rank(f) < 6 * position' + Rank(Top) + Credit
  BY <1>5, <1>6, <1>7
<1>10. returned' = <<>> /\ leaked' = leaked  BY <1>5
<1> QED  BY <1>1, <1>3, <1>5, <1>8, <1>9, <1>10, CallGoesOn

LEMMA ComesToChildren ==
  ASSUME IInv, HasChildren
  PROVE  Nearer
<1>1. /\ stage = "parse" /\ stack # <<>> /\ Top.at = "body"
      /\ Become([Top EXCEPT !.at = "children"])
      /\ UNCHANGED <<input, stage, position, returned, live, leaked>>
  BY DEF HasChildren, At
<1> QED  BY <1>1, MovesTo

LEMMA CallsChild ==
  ASSUME IInv, CallChild
  PROVE  Nearer
<1>1. /\ stage = "parse" /\ stack # <<>> /\ Top.at = "children"
      /\ UNCHANGED <<input, stage, position, returned, leaked>>
  BY DEF CallChild, At
<1>2. CASE PeekNext(position) = "/"
  <2>1. Become([Top EXCEPT !.at = "close"]) /\ live' = live
    BY <1>2 DEF CallChild
  <2> QED  BY <1>1, <2>1, MovesTo
<1>3. CASE PeekNext(position) # "/"
  <2> DEFINE f == [at |-> "child", tag |-> Top.tag, content |-> Top.content,
                   children |-> Top.children]
  <2>1. stack' = <<Call, f>> \o Tail(stack) /\ live' = live + 1
    <3>1. [Top EXCEPT !.at = "child"] = f  BY <1>1, TopIs
    <3> QED  BY <1>3, <3>1 DEF CallChild
  <2>2. Top.tag # Null /\ Top.content = Null  BY <1>1, Running DEF FrameInv
  <2>3. f \in Frames /\ FrameInv(f) /\ f.at = "child"
    BY <1>1, <2>2, TopIs DEF Frames, FrameInv
  <2>4. FrameSize(f) = FrameSize(Top)  BY DEF FrameSize
  <2> HIDE DEF f
  <2> QED  BY <1>1, <2>1, <2>3, <2>4, CallDescends
<1> QED  BY <1>2, <1>3

LEMMA KeepsChild ==
  ASSUME IInv, KeepChild
  PROVE  Nearer
<1>1. /\ stage = "parse" /\ stack # <<>> /\ Top.at = "child" /\ position' = position
      /\ returned \in Seq(XmlNodes) /\ leaked \in Nat
  BY DEF KeepChild, At, IInv, TypeOK
<1>2. position \in 1 .. Length /\ Length \in Nat  BY <1>1, Running
<1>3. CASE returned = <<>>
  <2>1. Fail /\ position' \in position .. Length  BY <1>1, <1>2, <1>3 DEF KeepChild
  <2> QED  BY <1>1, <1>3, <2>1, Fails
<1>4. CASE returned # <<>>
  <2> DEFINE both == Top.children \o returned
             f == [at |-> "children", tag |-> Top.tag, content |-> Top.content,
                   children |-> both]
  <2>1. /\ stack' = <<f>> \o Tail(stack) /\ returned' = <<>>
        /\ UNCHANGED <<input, stage, live, leaked>>
    <3>0. Top \in Frames  BY <1>1, Running
    <3>1. WithChildren(Top, "children", both) = f
      <4> HIDE DEF both
      <4> QED  BY ONLY <3>0, Excepts
    <3> HIDE DEF f
    <3>2. Become(WithChildren(Top, "children", both))
      BY <1>4 DEF KeepChild, WithChildren
    <3>3. stack' = <<f>> \o Tail(stack)  BY <3>1, <3>2 DEF Become
    <3> QED  BY <1>4, <3>3 DEF KeepChild
  <2>2. Top.tag # Null /\ Top.content = Null  BY <1>1, Running DEF FrameInv
  <2>3. /\ Top.children \o returned \in Seq(XmlNodes)
        /\ NodesSize(Top.children \o returned) = NodesSize(Top.children) + NodesSize(returned)
        /\ NodesSize(Top.children) \in Nat /\ NodesSize(returned) \in Nat
    BY <1>1, TopIs, NodesSizes, ConcatProperties
  <2>4. f \in Frames /\ FrameInv(f) /\ f.at = "children"
    BY <1>1, <2>2, <2>3, TopIs DEF Frames, FrameInv
  <2>5. FrameSize(f) = FrameSize(Top) + NodesSize(returned)
    <3>1. /\ f.tag = Top.tag /\ f.content = Top.content
          /\ f.children = Top.children \o returned
          /\ Top.tag \in Seq(Symbols)
      BY <1>1, <2>2, TopIs DEF Strings
    <3>2. AttributesSize(AttributesOf(Top.tag)) \in Nat  BY <3>1, TagSizeType
    <3> HIDE DEF f
    <3> QED  BY <2>2, <2>3, <3>1, <3>2 DEF FrameSize
  <2>6. leaked = 0  BY <1>1, <1>4 DEF IInv, ControlInv
  <2>7. Rank(f) = 5 /\ Rank(Top) = 3 /\ Credit = 3  BY <1>1, <1>4 DEF Rank, Credit
  <2>8. /\ FrameSize(Top) \in Nat /\ FramesSize(Tail(stack)) \in Nat /\ Buffer \in Nat
        /\ live = leaked + (FrameSize(Top) + FramesSize(Tail(stack)))
                  + NodesSize(returned) + Buffer
    BY <1>1, Running
  <2>9. live' = live  BY <2>1
  <2> HIDE DEF f
  <2>10. live \in Int  BY ONLY <2>3, <2>6, <2>8
  <2>11. live' = live + FrameSize(f) - FrameSize(Top) - NodesSize(returned)
    BY ONLY <2>3, <2>5, <2>8, <2>9, <2>10
  <2>12. /\ position' \in position .. Length
         /\ 6 * position + Rank(f) < 6 * position' + Rank(Top) + Credit
    BY <1>1, <1>2, <2>7
  <2> QED  BY <1>1, <2>1, <2>4, <2>6, <2>11, <2>12, CallGoesOn
<1> QED  BY <1>3, <1>4

LEMMA Closes ==
  ASSUME IInv, CloseTag
  PROVE  Nearer
<1>1. stage = "parse" /\ stack # <<>> /\ Top.at = "close" /\ input \in Inputs
  BY DEF CloseTag, At, IInv, TypeOK
<1>2. position \in 1 .. Length /\ Length \in Nat  BY <1>1, Running
<1> DEFINE tag == TagClose(position)
<1>3. tag.next \in position .. Length  BY <1>1, <1>2, TagCloseAhead
<1>4. /\ Create(Top.content) \/ Fail
      /\ position' = IF tag.ok THEN tag.next ELSE position
  BY DEF CloseTag
<1> HIDE DEF tag
<1>5. position' \in position .. Length  BY <1>2, <1>3, <1>4
<1>6. CASE Create(Top.content)  BY <1>1, <1>5, <1>6, Creates
<1>7. CASE Fail  BY <1>1, <1>5, <1>7, Fails
<1> QED  BY <1>4, <1>6, <1>7


-----------------------------------------------------------------------------
(* The theorems. *)

LEMMA IInvAtInit == Init => IInv
<1> SUFFICES ASSUME Init PROVE IInv
  OBVIOUS
<1>1. TypeOK  BY DEF Init, TypeOK
<1>2. ControlInv  BY DEF Init, ControlInv
<1>3. HeapAccounted  BY <1>1, HeapMeans DEF Init, HeapSum
<1> QED  BY <1>1, <1>2, <1>3 DEF IInv

LEMMA EveryStep ==
  ASSUME IInv, Next
  PROVE  Nearer
<1>1. CASE Begin         BY <1>1, Begins
<1>2. CASE OpenTag       BY <1>2, Opens
<1>3. CASE ClosesItself  BY <1>3, ClosesAtOnce
<1>4. CASE ParseContent  BY <1>4, Reads
<1>5. CASE HasChildren   BY <1>5, ComesToChildren
<1>6. CASE CallChild     BY <1>6, CallsChild
<1>7. CASE KeepChild     BY <1>7, KeepsChild
<1>8. CASE CloseTag      BY <1>8, Closes
<1>9. CASE End           BY <1>9, Finishes
<1>10. CASE FreeDocument  BY <1>10, Frees
<1> QED
  BY <1>1, <1>2, <1>3, <1>4, <1>5, <1>6, <1>7, <1>8, <1>9, <1>10 DEF Next, ParseStep

LEMMA NothingHappens ==
  ASSUME IInv, UNCHANGED vars
  PROVE  IInv'
<1>1. TypeOK' /\ ControlInv'
  BY DEF vars, IInv, TypeOK, ControlInv, Length, Text, Top
<1>2. HeapAccounted'
  <2>1. Buffer' = Buffer /\ HeapSum  BY HeapMeans DEF IInv, vars, Buffer
  <2>2. HeapSum'  BY <2>1 DEF vars, HeapSum
  <2>3. TypeOK' => (HeapAccounted' <=> HeapSum')  BY HeapMeans, PTL
  <2> QED  BY <1>1, <2>2, <2>3
<1> QED  BY <1>1, <1>2 DEF IInv

LEMMA IInvHolds == Spec => []IInv
<1>1. IInv /\ [Next]_vars => IInv'
  BY EveryStep, NothingHappens DEF Nearer
<1> QED  BY IInvAtInit, <1>1, PTL DEF Spec

(* TypeOK, for texts of any symbols and any length: whatever a text is,    *)
(* faults included, the position stays inside its buffer, and what the     *)
(* parser returns is a tree.                                               *)
THEOREM TypeCorrect == Spec => []TypeOK
<1>1. IInv => TypeOK  BY DEF IInv
<1> QED  BY IInvHolds, <1>1, PTL

(* HeapAccounted, whatever the text and wherever the parser gives up: what *)
(* is on the heap belongs to a running call, a node or the document, but   *)
(* for the attributes of the calls that have failed. So nothing is freed   *)
(* twice, xml_document_free leaves nothing, and nothing leaks from a text  *)
(* that is parsed.                                                         *)
THEOREM HeapIsAccounted == Spec => []HeapAccounted
<1>1. IInv => HeapAccounted  BY DEF IInv
<1> QED  BY IInvHolds, <1>1, PTL

(* NearsEnd: every step takes the parser nearer to its end, whatever the   *)
(* text; it makes no more than 6 * Length + 3 steps, and none of its loops *)
(* goes on for ever. Neither a byte that is read again at the end of the   *)
(* buffer nor a child that fails keeps one going.                          *)
THEOREM ComesToEnd == Spec => NearsEnd
<1>1. IInv /\ [Next]_vars => [ToGo' \in 0 .. ToGo - 1]_vars
  BY EveryStep DEF Nearer
<1> QED  BY IInvHolds, <1>1, PTL DEF Spec, NearsEnd


-----------------------------------------------------------------------------
(* The tag of an element. *)

(* Symbols are spoken of by what they are: a step that compares one with a *)
(* string inside a quantifier over numbers is too much for the provers.    *)
IsSpace(c) == c = " "
IsAngle(c) == c \in {"<", ">"}
IsSlash(c) == c = "/"

LEMMA SeqOver ==
  ASSUME NEW S, NEW U, S \subseteq U, NEW s \in Seq(S)
  PROVE  /\ s \in Seq(U) /\ Len(s) \in Nat /\ \A i \in 1 .. Len(s) : s[i] \in S
         /\ s # <<>> => Len(s) > 0
<1>1. Len(s) \in Nat /\ s \in [1 .. Len(s) -> S]  OBVIOUS
<1>2. s \in [1 .. Len(s) -> U]  BY <1>1
<1> QED  BY <1>1, <1>2

LEMMA ElementType ==
  ASSUME NEW e \in Elements
  PROVE  /\ e.name \in Seq(Symbols) /\ Len(e.name) \in Nat /\ Len(e.name) > 0
         /\ \A i \in 1 .. Len(e.name) : /\ e.name[i] \in Symbols /\ ~IsSpace(e.name[i])
                                        /\ ~IsAngle(e.name[i]) /\ ~IsSlash(e.name[i])
         /\ e.words \in Seq(Symbols) /\ Len(e.words) \in Nat
         /\ \A k \in 1 .. Len(e.words) : /\ e.words[k] \in Symbols /\ ~IsSpace(e.words[k])
                                         /\ ~IsAngle(e.words[k])
         /\ e.content # Null => /\ e.content \in Seq(Symbols) /\ Len(e.content) \in Nat
                                /\ \A i \in 1 .. Len(e.content) : e.content[i] # "<"
         /\ e.open \in Nat /\ e.open > 0 /\ e.start \in Nat /\ e.close \in Nat
         /\ e.parent \in Nat /\ e.first \in Nat /\ e.depth \in Nat
         /\ TagLength(e) \in Nat /\ TagLength(e) >= Len(e.name)
         /\ Body(e) \in Nat /\ Body(e) = e.open + TagLength(e) + 2
         /\ After(e) \in Nat
<1> DEFINE n == e.name
           w == e.words
           c == e.content
<1>1. /\ n \in Seq(Symbols \ {"<", ">", "/", " "}) /\ n # <<>>
      /\ w \in Seq(Symbols \ {"<", ">", " "})
      /\ c \in {Null} \cup Seq(Symbols \ {"<"})
      /\ e.open \in Nat \ {0} /\ e.start \in Nat /\ e.close \in Nat
      /\ e.parent \in Nat /\ e.first \in Nat /\ e.depth \in Nat
  BY DEF Elements
<1> HIDE DEF n, w, c
<1>2. /\ n \in Seq(Symbols) /\ Len(n) \in Nat /\ Len(n) > 0
      /\ \A i \in 1 .. Len(n) : n[i] \in Symbols \ {"<", ">", "/", " "}
  <2>1. Symbols \ {"<", ">", "/", " "} \subseteq Symbols  OBVIOUS
  <2> QED  BY ONLY <1>1, <2>1, SeqOver
<1>3. /\ w \in Seq(Symbols) /\ Len(w) \in Nat
      /\ \A k \in 1 .. Len(w) : w[k] \in Symbols \ {"<", ">", " "}
  <2>1. Symbols \ {"<", ">", " "} \subseteq Symbols  OBVIOUS
  <2> QED  BY ONLY <1>1, <2>1, SeqOver
<1>4. c # Null => /\ c \in Seq(Symbols) /\ Len(c) \in Nat
                  /\ \A i \in 1 .. Len(c) : c[i] # "<"
  <2>1. Symbols \ {"<"} \subseteq Symbols  OBVIOUS
  <2>2. ASSUME c # Null
        PROVE  /\ c \in Seq(Symbols) /\ Len(c) \in Nat
               /\ \A i \in 1 .. Len(c) : c[i] \in Symbols \ {"<"}
    BY ONLY <1>1, <2>1, <2>2, SeqOver
  <2> QED  BY <2>2
<1>5. TagLength(e) = Len(n) + 2 * Len(w)  BY DEF TagLength, n, w
<1>6. TagLength(e) \in Nat /\ TagLength(e) >= Len(n)
  <2> DEFINE a == Len(n)
             b == Len(w)
  <2>1. a \in Nat /\ b \in Nat /\ TagLength(e) = a + 2 * b  BY <1>2, <1>3, <1>5
  <2> HIDE DEF a, b
  <2>2. TagLength(e) \in Nat /\ TagLength(e) >= a  BY ONLY <2>1
  <2> QED  BY <2>2 DEF a
<1>7. Body(e) \in Nat /\ Body(e) = e.open + TagLength(e) + 2
  <2>1. e.open \in Nat  BY <1>1
  <2> QED  BY ONLY <2>1, <1>6 DEF Body
<1>8. After(e) \in Nat
  <2> DEFINE a == Len(n)
  <2>1. a \in Nat /\ e.close \in Nat  BY <1>1, <1>2
  <2>2. After(e) = IF Single(e) THEN Body(e) ELSE e.close + a + 3  BY DEF After, n
  <2> HIDE DEF a
  <2> QED  BY ONLY <1>7, <2>1, <2>2
<1>9. \A i \in 1 .. Len(n) : /\ n[i] \in Symbols /\ ~IsSpace(n[i])
                              /\ ~IsAngle(n[i]) /\ ~IsSlash(n[i])
  BY ONLY <1>2 DEF IsSpace, IsAngle, IsSlash
<1>10. \A k \in 1 .. Len(w) : w[k] \in Symbols /\ ~IsSpace(w[k]) /\ ~IsAngle(w[k])
  BY ONLY <1>3 DEF IsSpace, IsAngle
<1>11. e.open \in Nat /\ e.open > 0
  <2>1. e.open \in Nat \ {0}  BY <1>1
  <2> QED  BY ONLY <2>1
<1> QED  BY <1>1, <1>2, <1>3, <1>4, <1>6, <1>7, <1>8, <1>9, <1>10, <1>11 DEF n, w, c

LEMMA Halves ==
  ASSUME NEW k \in Nat, k # 0
  PROVE  \/ k % 2 = 1
         \/ k % 2 = 0 /\ k \div 2 \in Nat /\ k \div 2 > 0 /\ k = 2 * (k \div 2)
OBVIOUS

LEMMA Doubles ==
  ASSUME NEW k \in Nat, k # 0
  PROVE  (2 * k) % 2 = 0 /\ (2 * k) \div 2 = k /\ (2 * k - 1) % 2 = 1
OBVIOUS

(* What is where in a tag. *)
LEMMA TagIs ==
  ASSUME NEW e \in Elements
  PROVE  LET tag == TagOf(e)
             n == Len(e.name)
         IN  /\ tag \in Seq(Symbols) /\ Len(tag) = TagLength(e)
             /\ \A i \in 1 .. n : tag[i] = e.name[i]
             /\ \A k \in 1 .. Len(e.words) : /\ n + 2 * k \in 1 .. Len(tag)
                                             /\ IsSpace(tag[n + 2 * k - 1])
                                             /\ tag[n + 2 * k] = e.words[k]
             /\ \A i \in n + 1 .. Len(tag) :
                   \/ IsSpace(tag[i]) /\ i # Len(tag)
                   \/ \E k \in 1 .. Len(e.words) : i = n + 2 * k
<1> DEFINE n == Len(e.name)
           m == Len(e.words)
           tag == TagOf(e)
<1>1. /\ n \in Nat /\ n > 0 /\ m \in Nat
      /\ \A i \in 1 .. n : e.name[i] \in Symbols
      /\ \A k \in 1 .. m : e.words[k] \in Symbols
  BY ElementType
<1>2. TagLength(e) = n + 2 * m  BY DEF TagLength
<1>3. tag = [i \in 1 .. n + 2 * m |->
                IF i <= n THEN e.name[i]
                ELSE IF (i - n) % 2 = 1 THEN " " ELSE e.words[(i - n) \div 2]]
  BY DEF TagOf, TagLength
<1> HIDE DEF n, m, tag
<1>4. ASSUME NEW i \in n + 1 .. n + 2 * m
      PROVE  \/ (i - n) % 2 = 1 /\ i # n + 2 * m
             \/ /\ (i - n) % 2 = 0
                /\ (i - n) \div 2 \in 1 .. m /\ i = n + 2 * ((i - n) \div 2)
  <2>1. i - n \in Nat /\ i - n # 0 /\ i - n <= 2 * m  BY <1>1
  <2>2. CASE (i - n) % 2 = 1
    <3>1. i # n + 2 * m
      <4>1. ASSUME i - n = 2 * m PROVE FALSE
        <5>1. m # 0  BY <1>1, <2>1, <4>1
        <5>2. (2 * m) % 2 = 0  BY <1>1, <5>1, Doubles
        <5> QED  BY <2>2, <4>1, <5>2
      <4> QED  BY <1>1, <4>1
    <3> QED  BY <2>2, <3>1
  <2>3. CASE (i - n) % 2 # 1
    <3> DEFINE h == (i - n) \div 2
    <3>1. (i - n) % 2 = 0 /\ h \in Nat /\ h > 0 /\ i - n = 2 * h  BY <2>1, <2>3, Halves
    <3> HIDE DEF h
    <3>2. h \in 1 .. m /\ i = n + 2 * h  BY <1>1, <2>1, <3>1
    <3> QED  BY <3>1, <3>2 DEF h
  <2> QED  BY <2>2, <2>3
<1>5. ASSUME NEW i \in 1 .. n + 2 * m PROVE tag[i] \in Symbols
  <2>1. CASE i <= n
    <3>1. i \in 1 .. n  BY <1>1, <2>1
    <3> QED  BY <1>1, <1>3, <2>1, <3>1
  <2>2. CASE ~(i <= n)
    <3>1. i \in n + 1 .. n + 2 * m  BY <1>1, <2>2
    <3>2. CASE (i - n) % 2 = 1
      <4>1. tag[i] = " "  BY <1>3, <2>2, <3>2
      <4> QED  BY <4>1, SymbolsAssumption
    <3>3. CASE (i - n) % 2 # 1
      <4>1. tag[i] = e.words[(i - n) \div 2]  BY <1>3, <2>2, <3>3
      <4>2. (i - n) \div 2 \in 1 .. m  BY <1>4, <3>1, <3>3
      <4> QED  BY <1>1, <4>1, <4>2
    <3> QED  BY <3>2, <3>3
  <2> QED  BY <2>1, <2>2
<1>6. n + 2 * m \in Nat  BY <1>1
<1>7. tag \in Seq(Symbols) /\ Len(tag) = n + 2 * m
  <2>1. tag \in [1 .. n + 2 * m -> Symbols]
    <3>1. /\ DOMAIN tag = 1 .. n + 2 * m
          /\ tag = [i \in DOMAIN tag |-> tag[i]]
      BY <1>3
    <3> QED  BY ONLY <1>5, <3>1
  <2> QED  BY <1>6, <2>1
<1>8. ASSUME NEW i \in 1 .. n PROVE tag[i] = e.name[i]
  <2>1. i \in 1 .. n + 2 * m /\ i <= n  BY <1>1
  <2> QED  BY <1>3, <2>1
<1>9. ASSUME NEW k \in 1 .. m
      PROVE  /\ n + 2 * k \in 1 .. n + 2 * m
             /\ IsSpace(tag[n + 2 * k - 1])
             /\ tag[n + 2 * k] = e.words[k]
  <2>1. (2 * k) % 2 = 0 /\ (2 * k) \div 2 = k /\ (2 * k - 1) % 2 = 1
    BY <1>1, Doubles
  <2> DEFINE at == n + 2 * k
             before == n + 2 * k - 1
  <2>2. /\ at \in 1 .. n + 2 * m /\ ~(at <= n)
        /\ before \in 1 .. n + 2 * m /\ ~(before <= n)
        /\ at - n = 2 * k /\ before - n = 2 * k - 1
    BY <1>1
  <2> HIDE DEF at, before
  <2>3. (before - n) % 2 = 1 /\ (at - n) % 2 # 1 /\ (at - n) \div 2 = k
    BY <2>1, <2>2
  <2>4. tag[before] = " "  BY <1>3, <2>2, <2>3
  <2>5. tag[at] = e.words[(at - n) \div 2]  BY <1>3, <2>2, <2>3
  <2>6. IsSpace(tag[before])  BY <2>4 DEF IsSpace
  <2> QED  BY <2>2, <2>3, <2>5, <2>6 DEF at, before
<1>10. ASSUME NEW i \in n + 1 .. n + 2 * m
       PROVE  \/ IsSpace(tag[i]) /\ i # n + 2 * m
              \/ \E k \in 1 .. m : i = n + 2 * k
  <2>1. i \in 1 .. n + 2 * m /\ ~(i <= n)  BY <1>1
  <2>2. CASE (i - n) % 2 = 1
    <3>1. tag[i] = " "  BY <1>3, <2>1, <2>2
    <3>2. IsSpace(tag[i])  BY <3>1 DEF IsSpace
    <3> QED  BY <1>4, <2>2, <3>2
  <2>3. CASE (i - n) % 2 # 1  BY <1>4, <2>3
  <2> QED  BY <2>2, <2>3
<1> QED  BY <1>2, <1>7, <1>8, <1>9, <1>10 DEF n, m, tag

LEMMA LeastIs ==
  ASSUME NEW T, T \subseteq Nat, NEW m \in T, \A i \in T : m <= i
  PROVE  Min(T) = m
<1>1. Min(T) \in T /\ \A i \in T : Min(T) <= i  BY DEF Min
<1>2. Min(T) <= m /\ m <= Min(T) /\ Min(T) \in Nat /\ m \in Nat  BY <1>1
<1> QED  BY <1>2

LEMMA SubSeqIs ==
  ASSUME NEW S, NEW s \in Seq(S), NEW t \in Seq(S), NEW a \in Nat, NEW b \in Int,
         b = a + Len(t) - 1, a \in 1 .. Len(s) + 1, b <= Len(s),
         \A i \in 1 .. Len(t) : s[a + i - 1] = t[i]
  PROVE  SubSeq(s, a, b) = t
<1> DEFINE n == Len(t)
           u == SubSeq(s, a, b)
<1>1. n \in Nat /\ Len(s) \in Nat  OBVIOUS
<1>2. \A i \in a .. b : s[i] \in S
  <2>1. \A i \in a .. b : i \in 1 .. Len(s)  BY <1>1
  <2> QED  BY <2>1
<1>3. /\ u \in Seq(S) /\ Len(u) = IF a <= b THEN b - a + 1 ELSE 0
      /\ \A i \in 1 .. b - a + 1 : u[i] = s[a + i - 1]
  BY <1>2, SubSeqProperties
<1> HIDE DEF u
<1>4. Len(u) = n
  <2>1. b = a + n - 1  OBVIOUS
  <2> HIDE DEF n
  <2> QED  BY <1>1, <1>3, <2>1
<1>5. b - a + 1 = n
  <2>1. b = a + n - 1  OBVIOUS
  <2> HIDE DEF n
  <2> QED  BY <1>1, <2>1
<1>6. \A i \in 1 .. n : u[i] = t[i]  BY <1>3, <1>5
<1>7. u = [i \in 1 .. n |-> u[i]]  BY <1>3, <1>4, SeqIs
<1>8. t = [i \in 1 .. n |-> t[i]]  BY SeqIs
<1> HIDE DEF n
<1> QED  BY <1>6, <1>7, <1>8 DEF u

LEMMA NameOfTag ==
  ASSUME NEW e \in Elements
  PROVE  NameOf(TagOf(e)) = e.name
<1> DEFINE tag == TagOf(e)
           n == Len(e.name)
<1>1. /\ n \in Nat /\ n > 0 /\ e.name \in Seq(Symbols)
      /\ \A i \in 1 .. n : ~IsSpace(e.name[i])
      /\ TagLength(e) >= n /\ TagLength(e) \in Nat
  BY ElementType
<1>2. /\ tag \in Seq(Symbols) /\ Len(tag) = TagLength(e)
      /\ \A i \in 1 .. n : tag[i] = e.name[i]
  BY TagIs
<1>3. n + 1 <= Len(tag) => IsSpace(tag[n + 1])
  <2>1. ASSUME n + 1 <= Len(tag) PROVE IsSpace(tag[n + 1])
    <3>1. n + 1 \in n + 1 .. Len(tag)  BY <1>1, <1>2, <2>1
    <3>2. \/ IsSpace(tag[n + 1])
          \/ \E k \in 1 .. Len(e.words) : n + 1 = n + 2 * k
      BY <3>1, TagIs
    <3>3. Len(e.words) \in Nat  BY ElementType
    <3> HIDE DEF n
    <3> QED  BY <1>1, <3>2, <3>3
  <2> QED  BY <2>1
<1> HIDE DEF n, tag
<1>4. DOMAIN tag = 1 .. Len(tag) /\ Len(tag) \in Nat /\ n <= Len(tag)  BY <1>1, <1>2
<1>5. 1 \in Starts(tag) /\ Starts(tag) \subseteq 1 .. Len(tag)
  <2>1. 1 \in 1 .. n /\ 1 \in 1 .. Len(tag)  BY <1>1, <1>4
  <2>2. ~IsSpace(tag[1])  BY <1>1, <1>2, <2>1
  <2> QED  BY <1>4, <2>1, <2>2 DEF Starts, IsSpace
<1>6. n \in Ends(tag) /\ Ends(tag) \subseteq 1 .. Len(tag)
  <2>1. n \in 1 .. n /\ n \in 1 .. Len(tag)  BY <1>1, <1>4
  <2>2. ~IsSpace(tag[n])  BY <1>1, <1>2, <2>1
  <2>3. n = Len(tag) \/ IsSpace(tag[n + 1])
    <3> DEFINE t == Len(tag)
    <3>1. n \in Nat /\ t \in Nat /\ n <= t  BY <1>1, <1>4
    <3> HIDE DEF t
    <3>2. n = t \/ n + 1 <= t  BY ONLY <3>1
    <3> QED  BY <1>3, <3>2 DEF t
  <2> QED  BY <1>4, <2>1, <2>2, <2>3 DEF Ends, IsSpace
<1>7. \A i \in Ends(tag) : n <= i
  <2>1. ASSUME NEW i \in Ends(tag), i < n PROVE FALSE
    <3>1. i \in 1 .. Len(tag) /\ i + 1 \in 1 .. n /\ i # Len(tag)  BY <1>1, <1>4, <1>6, <2>1
    <3>2. ~IsSpace(tag[i + 1])  BY <1>1, <1>2, <3>1
    <3> QED  BY <3>1, <3>2 DEF Ends, IsSpace
  <2>2. \A i \in Ends(tag) : i \in Nat  BY <1>6
  <2> QED  BY <1>1, <2>1, <2>2
<1>8. Min(Starts(tag)) = 1
  <2>1. Starts(tag) \subseteq Nat /\ \A i \in Starts(tag) : 1 <= i  BY <1>5
  <2> QED  BY <1>5, <2>1, LeastIs
<1>9. Min(Ends(tag)) = n
  <2>1. Ends(tag) \subseteq Nat  BY <1>6
  <2> QED  BY <1>6, <1>7, <2>1, LeastIs
<1>10. NameOf(tag) = SubSeq(tag, 1, n)
  <2>1. NameOf(tag) = SubSeq(tag, 1, n - 1 + 1)
    BY <1>5, <1>8, <1>9 DEF NameOf
  <2> QED  BY <1>1, <2>1
<1>11. SubSeq(tag, 1, n) = e.name
  <2>1. /\ 1 \in Nat /\ n \in Int /\ n = 1 + Len(e.name) - 1
        /\ 1 \in 1 .. Len(tag) + 1 /\ n <= Len(tag)
    BY <1>1, <1>4 DEF n
  <2>2. \A i \in 1 .. Len(e.name) : tag[1 + i - 1] = e.name[i]
    <3>1. \A i \in 1 .. n : 1 + i - 1 = i  BY <1>1
    <3> QED  BY <1>2, <3>1 DEF n
  <2> QED  BY <1>1, <1>2, <2>1, <2>2, SubSeqIs
<1> QED  BY <1>10, <1>11 DEF tag

LEMMA AttributesOfTag ==
  ASSUME NEW e \in Elements
  PROVE  AttributesOf(TagOf(e)) = NodeFor(e).attributes
<1> DEFINE tag == TagOf(e)
           n == Len(e.name)
           m == Len(e.words)
           K == {k \in DOMAIN e.words : e.words[k] \in Assignments}
           J == {j \in Starts(tag) : j # Min(Starts(tag)) /\ tag[j] \in Assignments}
<1>1. /\ n \in Nat /\ n > 0 /\ m \in Nat /\ DOMAIN e.words = 1 .. m
      /\ \A i \in 1 .. n : ~IsSpace(e.name[i])
      /\ \A k \in 1 .. m : ~IsSpace(e.words[k])
  <2>1. e.words \in Seq(Symbols)  BY ElementType
  <2>2. DOMAIN e.words = 1 .. m  BY <2>1
  <2> QED  BY <2>2, ElementType
<1>2. /\ tag \in Seq(Symbols)
      /\ \A i \in 1 .. n : tag[i] = e.name[i]
      /\ \A k \in 1 .. m : /\ n + 2 * k \in 1 .. Len(tag)
                           /\ IsSpace(tag[n + 2 * k - 1])
                           /\ tag[n + 2 * k] = e.words[k]
      /\ \A i \in n + 1 .. Len(tag) :
            \/ IsSpace(tag[i]) /\ i # Len(tag)
            \/ \E k \in 1 .. m : i = n + 2 * k
      /\ Len(tag) = TagLength(e)
  BY TagIs
<1>3. NodeFor(e).attributes = {<<n + 2 * k, e.words[k]>> : k \in K}  BY DEF NodeFor
<1>4. AttributesOf(tag) = {<<j, tag[j]>> : j \in J}  BY DEF AttributesOf
<1>5. Len(tag) \in Nat /\ DOMAIN tag = 1 .. Len(tag) /\ n <= Len(tag)
  BY <1>1, <1>2, ElementType
<1> HIDE DEF n, m, tag, K, J
<1>6. Min(Starts(tag)) = 1
  <2>1. 1 \in Starts(tag) /\ Starts(tag) \subseteq 1 .. Len(tag)
    <3>1. 1 \in 1 .. n /\ 1 \in 1 .. Len(tag)  BY <1>1, <1>5
    <3>2. ~IsSpace(tag[1])  BY <1>1, <1>2, <3>1
    <3> QED  BY <1>5, <3>1, <3>2 DEF Starts, IsSpace
  <2>2. Starts(tag) \subseteq Nat /\ \A i \in Starts(tag) : 1 <= i  BY <2>1
  <2> QED  BY <2>1, <2>2, LeastIs
<1>7. ASSUME NEW k \in K PROVE n + 2 * k \in J /\ tag[n + 2 * k] = e.words[k]
  <2>1. k \in 1 .. m /\ e.words[k] \in Assignments  BY <1>1 DEF K
  <2>2. n + 2 * k # 1  BY <1>1, <2>1
  <2> DEFINE i == n + 2 * k
  <2>3. /\ i \in 1 .. Len(tag) /\ IsSpace(tag[i - 1])
        /\ tag[i] = e.words[k] /\ ~IsSpace(e.words[k])
    BY <1>1, <1>2, <2>1
  <2>4. i \in Starts(tag)
    <3> HIDE DEF i
    <3>1. i \in DOMAIN tag /\ ~IsSpace(tag[i]) /\ IsSpace(tag[i - 1])
      BY ONLY <1>5, <2>3
    <3> QED  BY ONLY <3>1 DEF Starts, IsSpace
  <2> QED  BY <1>6, <2>1, <2>2, <2>3, <2>4 DEF J
<1>8. ASSUME NEW j \in J PROVE \E k \in K : j = n + 2 * k /\ tag[j] = e.words[k]
  <2>1. /\ j \in 1 .. Len(tag) /\ j # 1 /\ ~IsSpace(tag[j]) /\ IsSpace(tag[j - 1])
        /\ tag[j] \in Assignments
    BY <1>5, <1>6 DEF J, Starts, IsSpace
  <2>2. j \in n + 1 .. Len(tag)
    <3>1. ASSUME j <= n PROVE FALSE
      <4>1. j - 1 \in 1 .. n  BY <1>1, <2>1, <3>1
      <4>2. ~IsSpace(tag[j - 1])  BY <1>1, <1>2, <4>1
      <4> QED  BY <2>1, <4>2
    <3> QED  BY <1>1, <2>1, <3>1
  <2>3. PICK k \in 1 .. m : j = n + 2 * k  BY <1>2, <2>1, <2>2
  <2>4. tag[j] = e.words[k]  BY <1>2, <2>3
  <2>5. k \in K  BY <1>1, <2>1, <2>3, <2>4 DEF K
  <2> QED  BY <2>3, <2>4, <2>5
<1>9. {<<j, tag[j]>> : j \in J} = {<<n + 2 * k, e.words[k]>> : k \in K}
  BY <1>7, <1>8
<1> QED  BY <1>3, <1>4, <1>9 DEF tag

(* What is read of a tag: no markup, and no space at its ends. *)
LEMMA TagText ==
  ASSUME NEW e \in Elements
  PROVE  /\ TagOf(e) \in Seq(Symbols) /\ Len(TagOf(e)) = TagLength(e)
         /\ TagLength(e) \in Nat /\ TagLength(e) > 0
         /\ \A i \in 1 .. TagLength(e) : ~IsAngle(TagOf(e)[i])
         /\ ~IsSpace(TagOf(e)[TagLength(e)])
         /\ TagOf(e)[1] = e.name[1]
         /\ SelfClosing(TagOf(e)) <=> Single(e)
<1> DEFINE tag == TagOf(e)
           n == Len(e.name)
           m == Len(e.words)
           l == TagLength(e)
<1>1. /\ n \in Nat /\ n > 0 /\ m \in Nat /\ l \in Nat /\ l >= n
      /\ \A i \in 1 .. n : /\ ~IsSpace(e.name[i]) /\ ~IsAngle(e.name[i])
                            /\ ~IsSlash(e.name[i])
      /\ \A k \in 1 .. m : ~IsSpace(e.words[k]) /\ ~IsAngle(e.words[k])
  BY ElementType
<1>2. /\ tag \in Seq(Symbols) /\ Len(tag) = l
      /\ \A i \in 1 .. n : tag[i] = e.name[i]
      /\ \A k \in 1 .. m : tag[n + 2 * k] = e.words[k]
      /\ \A i \in n + 1 .. l :
            \/ IsSpace(tag[i]) /\ i # l
            \/ \E k \in 1 .. m : i = n + 2 * k
  BY TagIs
<1>3. l = n + 2 * m  BY DEF TagLength
<1>4. NameOf(tag) # <<>>
  <2>1. NameOf(tag) = e.name  BY NameOfTag
  <2>2. e.name # <<>>  BY DEF Elements
  <2> QED  BY <2>1, <2>2
<1>5. Single(e) <=> m # 0 /\ IsSlash(e.words[m])
  <2>1. e.words \in Seq(Symbols)  BY ElementType
  <2>2. e.words # <<>> <=> m # 0  BY <2>1
  <2> QED  BY <2>2 DEF Single, IsSlash
<1>6. SelfClosing(tag) <=> IsSlash(tag[l])  BY <1>2, <1>4 DEF SelfClosing, IsSlash
<1> HIDE DEF n, m, l, tag
<1>7. ASSUME NEW i \in 1 .. l PROVE ~IsAngle(tag[i])
  <2>1. i \in 1 .. n \/ i \in n + 1 .. l  BY <1>1
  <2>2. IsSpace(tag[i]) => ~IsAngle(tag[i])  BY DEF IsSpace, IsAngle
  <2> QED  BY <1>1, <1>2, <2>1, <2>2
<1>8. l \in 1 .. n \/ l \in n + 1 .. l  BY <1>1
<1>9. ~IsSpace(tag[l])  BY <1>1, <1>2, <1>8
<1>10. SelfClosing(tag) <=> Single(e)
  <2>1. CASE m = 0
    <3>1. l = n /\ n \in 1 .. n  BY <1>1, <1>3, <2>1
    <3>2. ~IsSlash(tag[l])  BY <1>1, <1>2, <3>1
    <3> QED  BY <1>5, <1>6, <2>1, <3>2
  <2>2. CASE m # 0
    <3>1. m \in 1 .. m  BY <1>1, <2>2
    <3>2. tag[l] = e.words[m]  BY <1>2, <1>3, <3>1
    <3> QED  BY <1>5, <1>6, <2>2, <3>2
  <2> QED  BY <2>1, <2>2
<1>11. l # 0 /\ 1 \in 1 .. n  BY <1>1
<1> QED  BY <1>1, <1>2, <1>7, <1>9, <1>10, <1>11 DEF n, m, l, tag

LEMMA TrimsNothing ==
  ASSUME NEW S, NEW s \in Seq(S), s # <<>>, ~IsSpace(s[Len(s)])
  PROVE  Trimmed(s) = s
<1> DEFINE n == Len(s)
           K == {i \in DOMAIN s : ~IsSpace(s[i])}
           T == {0} \cup K
<1>1. n \in Nat /\ n > 0 /\ DOMAIN s = 1 .. n
  <2>1. n \in Nat /\ n > 0  BY SeqOver
  <2> QED  BY <2>1
<1>2. n \in K /\ K \subseteq 1 .. n
  <2>1. n \in DOMAIN s  BY <1>1
  <2> QED  BY <1>1, <2>1
<1> HIDE DEF K, n
<1>3. n \in T /\ \A i \in T : i <= n /\ i \in Nat  BY <1>1, <1>2
<1> HIDE DEF T
<1>4. Max(T) = n
  <2>1. Max(T) \in T /\ \A i \in T : Max(T) >= i  BY <1>3 DEF Max
  <2>2. Max(T) >= n /\ Max(T) <= n /\ Max(T) \in Nat  BY <1>3, <2>1
  <2> QED  BY <1>1, <2>2
<1>5. SubSeq(s, 1, n) = s
  <2>1. /\ 1 \in Nat /\ n \in Int /\ n = 1 + n - 1 /\ 1 \in 1 .. n + 1 /\ n <= n
        /\ \A i \in 1 .. n : 1 + i - 1 = i
    BY <1>1
  <2>2. \A i \in 1 .. n : s[1 + i - 1] = s[i]  BY <2>1
  <2> QED  BY <2>1, <2>2, SubSeqIs DEF n
<1> QED  BY <1>4, <1>5 DEF Trimmed, T, K, IsSpace

-----------------------------------------------------------------------------
(* Pieces of a sequence. *)

LEMMA Pieces ==
  ASSUME NEW S, NEW s \in Seq(S), NEW a \in Nat, NEW b \in Nat, NEW c \in Nat,
         0 < a, a <= b + 1, b <= c, c <= Len(s)
  PROVE  /\ SubSeq(s, a, b) \in Seq(S)
         /\ SubSeq(s, a, b) \o SubSeq(s, b + 1, c) = SubSeq(s, a, c)
<1> DEFINE n == Len(s)
           u == SubSeq(s, a, b)
           v == SubSeq(s, b + 1, c)
           w == SubSeq(s, a, c)
<1>1. n \in Nat /\ c <= n /\ \A i \in 1 .. n : s[i] \in S  OBVIOUS
<1> HIDE DEF n
<1>2. /\ u \in Seq(S) /\ Len(u) = (IF a <= b THEN b - a + 1 ELSE 0)
      /\ \A i \in 1 .. b - a + 1 : u[i] = s[a + i - 1]
  <2>1. \A i \in a .. b : s[i] \in S  BY <1>1
  <2> QED  BY <2>1, SubSeqProperties
<1>3. /\ v \in Seq(S) /\ Len(v) = (IF b + 1 <= c THEN c - (b + 1) + 1 ELSE 0)
      /\ \A i \in 1 .. c - (b + 1) + 1 : v[i] = s[b + 1 + i - 1]
  <2>1. b + 1 \in Int /\ \A i \in b + 1 .. c : s[i] \in S  BY <1>1
  <2> QED  BY <2>1, SubSeqProperties
<1>4. /\ w \in Seq(S) /\ Len(w) = (IF a <= c THEN c - a + 1 ELSE 0)
      /\ \A i \in 1 .. c - a + 1 : w[i] = s[a + i - 1]
  <2>1. \A i \in a .. c : s[i] \in S  BY <1>1
  <2> QED  BY <2>1, SubSeqProperties
<1> DEFINE k == b + 1 - a
           l == c - b
<1> HIDE DEF u, v, w
<1>5. Len(u) = k /\ Len(v) = l /\ Len(w) = k + l /\ k \in Nat /\ l \in Nat
  BY <1>2, <1>3, <1>4
<1>6. u \o v \in Seq(S) /\ Len(u \o v) = k + l
  <2>1. u \o v \in Seq(S) /\ Len(u \o v) = Len(u) + Len(v)  BY <1>2, <1>3, ConcatProperties
  <2> QED  BY <1>5, <2>1
<1>7. ASSUME NEW i \in 1 .. k + l PROVE (u \o v)[i] = w[i]
  <2>1. (u \o v)[i] = IF i <= Len(u) THEN u[i] ELSE v[i - Len(u)]
    <3>1. i \in 1 .. Len(u) + Len(v)  BY <1>5
    <3>2. u \in Seq(S) /\ v \in Seq(S)  BY <1>2, <1>3
    <3> QED  BY ONLY <3>1, <3>2, ConcatProperties
  <2>2. w[i] = s[a + i - 1]
    <3>1. i \in 1 .. c - a + 1  BY <1>5
    <3> QED  BY <1>4, <3>1
  <2>3. CASE i <= k
    <3>1. i \in 1 .. b - a + 1  BY <2>3
    <3> QED  BY <1>2, <1>5, <2>1, <2>2, <2>3, <3>1
  <2>4. CASE ~(i <= k)
    <3>1. i - k \in 1 .. c - (b + 1) + 1  BY <1>5, <2>4
    <3>2. v[i - k] = s[b + 1 + (i - k) - 1]  BY <1>3, <3>1
    <3>3. b + 1 + (i - k) - 1 = a + i - 1  OBVIOUS
    <3> QED  BY <1>5, <2>1, <2>2, <2>4, <3>2, <3>3
  <2> QED  BY <2>3, <2>4
<1>8. u \o v = [i \in 1 .. k + l |-> (u \o v)[i]]  BY <1>6, SeqIs
<1>9. w = [i \in 1 .. k + l |-> w[i]]  BY <1>4, <1>5, SeqIs
<1>10. u \o v = w  BY <1>7, <1>8, <1>9
<1> QED  BY <1>2, <1>10 DEF u, v, w

LEMMA PieceOf ==
  ASSUME NEW S, NEW s \in Seq(S), NEW a \in Nat, NEW b \in Nat,
         0 < a, a <= b + 1, b <= Len(s)
  PROVE  /\ a = b + 1 => SubSeq(s, a, b) = <<>>
         /\ a <= b => SubSeq(s, a, b) # <<>>
         /\ a = 1 /\ b = Len(s) => SubSeq(s, a, b) = s
         /\ b + 1 <= Len(s) => Append(SubSeq(s, a, b), s[b + 1]) = SubSeq(s, a, b + 1)
<1> DEFINE n == Len(s)
           u == SubSeq(s, a, b)
<1>1. n \in Nat /\ \A i \in 1 .. n : s[i] \in S  OBVIOUS
<1>2. b \in Int /\ b <= n  OBVIOUS
<1> HIDE DEF n
<1>3. u \in Seq(S) /\ Len(u) = (IF a <= b THEN b - a + 1 ELSE 0)
  <2>1. \A i \in a .. b : s[i] \in S  BY <1>1, <1>2
  <2> QED  BY <2>1, SubSeqProperties
<1>4. a = b + 1 => u = <<>>
  <2>1. ASSUME a = b + 1 PROVE Len(u) = 0
    <3> HIDE DEF u
    <3> QED  BY <1>3, <2>1
  <2> HIDE DEF u
  <2> QED  BY <1>3, <2>1
<1>5. a <= b => u # <<>>
  <2>1. ASSUME a <= b PROVE Len(u) > 0
    <3> HIDE DEF u
    <3> QED  BY <1>3, <2>1
  <2> HIDE DEF u
  <2> QED  BY <1>3, <2>1
<1>6. a = 1 /\ b = n => u = s
  <2>1. ASSUME a = 1, b = n PROVE SubSeq(s, 1, n) = s
    <3>1. /\ 1 \in Nat /\ n \in Int /\ n = 1 + n - 1 /\ 1 \in 1 .. n + 1 /\ n <= n
          /\ \A i \in 1 .. n : 1 + i - 1 = i
      BY <1>1
    <3>2. \A i \in 1 .. n : s[1 + i - 1] = s[i]  BY <3>1
    <3> QED  BY <3>1, <3>2, SubSeqIs DEF n
  <2> QED  BY <2>1
<1>7. b + 1 <= n => Append(u, s[b + 1]) = SubSeq(s, a, b + 1)
  <2>1. ASSUME b + 1 <= n PROVE Append(u, s[b + 1]) = SubSeq(s, a, b + 1)
    <3> DEFINE v == SubSeq(s, b + 1, b + 1)
               x == <<s[b + 1]>>
    <3>1. b + 1 \in Nat /\ b + 1 \in 1 .. n + 1 /\ b + 1 = b + 1 + 1 - 1
      BY <1>1, <2>1
    <3>2. s[b + 1] \in S  BY <1>1, <2>1, <3>1
    <3>3. x \in Seq(S) /\ Len(x) = 1  BY <3>2
    <3>4. \A i \in 1 .. 1 : s[b + 1 + i - 1] = x[i]
      <4>1. \A i \in 1 .. 1 : i = 1  OBVIOUS
      <4>2. b + 1 + 1 - 1 = b + 1 /\ x[1] = s[b + 1]  OBVIOUS
      <4> QED  BY <4>1, <4>2
    <3>5. v = x
      <4>1. /\ b + 1 \in Int /\ b + 1 = b + 1 + Len(x) - 1
            /\ b + 1 \in 1 .. Len(s) + 1 /\ b + 1 <= Len(s)
            /\ \A i \in 1 .. Len(x) : s[b + 1 + i - 1] = x[i]
        BY <2>1, <3>1, <3>3, <3>4 DEF n
      <4> HIDE DEF x
      <4> QED  BY <3>1, <3>3, <4>1, SubSeqIs
    <3>6. u \o v = SubSeq(s, a, b + 1)
      <4>1. b + 1 \in Nat /\ b <= b + 1 /\ b + 1 <= Len(s)  BY <2>1 DEF n
      <4> QED  BY <4>1, Pieces
    <3>7. Append(u, s[b + 1]) = u \o x
      <4> HIDE DEF u
      <4> QED  BY <1>3, <3>2, AppendIsConcat
    <3> QED  BY <3>5, <3>6, <3>7
  <2> QED  BY <2>1
<1> QED  BY <1>4, <1>5, <1>6, <1>7 DEF n

-----------------------------------------------------------------------------
(* Reading what is known to be there. *)

LEMMA SolidIs ==
  ASSUME input \in Inputs, NEW p \in 1 .. Length + 1, NEW q \in p .. Length + 1,
         \A r \in p .. q - 1 : Space(r), q <= Length => ~Space(q)
  PROVE  /\ Solid[p] = q
         /\ Peek(p) = IF q > Length THEN Null ELSE Text[q]
         /\ PeekNext(p) = IF q > Length THEN Null ELSE Peek(q + 1)
         /\ SkipWhitespace(p) = Clamp(q)
<1>0. Length \in Nat  BY TextIs
<1> DEFINE s == Solid[p]
<1>1. /\ s \in p .. Length + 1 /\ (s > Length \/ ~Space(s))
      /\ \A r \in p .. s - 1 : Space(r)
  BY SolidAhead
<1> HIDE DEF s
<1>2. ASSUME s < q PROVE FALSE
  <2>1. s \in p .. q - 1 /\ ~(s > Length)  BY <1>0, <1>1, <1>2
  <2> QED  BY <1>1, <2>1
<1>3. ASSUME q < s PROVE FALSE
  <2>1. q \in p .. s - 1 /\ q <= Length  BY <1>0, <1>1, <1>3
  <2> QED  BY <1>1, <2>1
<1>4. s = q  BY <1>0, <1>1, <1>2, <1>3
<1> QED  BY <1>4 DEF s, Peek, PeekNext, SkipWhitespace

LEMMA PeekSolid ==
  ASSUME input \in Inputs, NEW p \in 1 .. Length, ~Space(p)
  PROVE  /\ Peek(p) = Text[p] /\ PeekNext(p) = Peek(p + 1)
         /\ SkipWhitespace(p) = p
<1>0. Length \in Nat  BY TextIs
<1>1. /\ p \in 1 .. Length + 1 /\ p \in p .. Length + 1 /\ ~(p > Length)
      /\ \A r \in p .. p - 1 : Space(r)
  BY <1>0
<1>2. Clamp(p) = p  BY <1>1 DEF Clamp
<1> QED  BY <1>1, <1>2, SolidIs

LEMMA PeekNone ==
  ASSUME input \in Inputs, NEW p \in Length + 1 .. Length + 1
  PROVE  Peek(p) = Null
<1>0. Length \in Nat  BY TextIs
<1>1. /\ p \in 1 .. Length + 1 /\ p \in p .. Length + 1 /\ p > Length
      /\ \A r \in p .. p - 1 : Space(r)
  BY <1>0
<1> QED  BY <1>0, <1>1, SolidIs

(* What does not come does not come next. *)
LEMMA PeekOther ==
  ASSUME input \in Inputs, NEW p \in 1 .. Length + 1, NEW mark, mark # Null,
         \A r \in p .. Length : Text[r] # mark
  PROVE  Peek(p) # mark
<1>0. Length \in Nat  BY TextIs
<1>1. Solid[p] \in p .. Length + 1  BY SolidAhead
<1>2. CASE Solid[p] > Length  BY <1>2 DEF Peek
<1>3. CASE ~(Solid[p] > Length)
  <2>1. Solid[p] \in p .. Length  BY <1>0, <1>1, <1>3
  <2> QED  BY <1>3, <2>1 DEF Peek
<1> QED  BY <1>2, <1>3

(* Nor what has another byte before it that is not white space. *)
LEMMA PeekBefore ==
  ASSUME input \in Inputs, NEW p \in 1 .. Length, NEW q \in p .. Length, ~Space(q),
         NEW mark, \A r \in p .. q : Text[r] # mark
  PROVE  Peek(p) # mark
<1>0. Length \in Nat /\ p \in 1 .. Length + 1  BY TextIs
<1>1. /\ Solid[p] \in p .. Length + 1
      /\ \A r \in p .. Solid[p] - 1 : Space(r)
  BY <1>0, SolidAhead
<1>2. Solid[p] <= q
  <2>1. ASSUME q < Solid[p] PROVE FALSE
    <3>1. q \in p .. Solid[p] - 1  BY <1>0, <1>1, <2>1
    <3> QED  BY <1>1, <3>1
  <2> QED  BY <1>0, <1>1, <2>1
<1>3. Solid[p] \in p .. q /\ ~(Solid[p] > Length)  BY <1>0, <1>1, <1>2
<1> QED  BY <1>3 DEF Peek

LEMMA RunIs ==
  ASSUME input \in Inputs, NEW start \in 1 .. Length, NEW mark \in {"<", ">"},
         NEW n \in Nat, start + n <= Length, Peek(start + n) = mark,
         \A m \in 0 .. n - 1 : Text[start + m] # mark,
         n > 0 => ~Space(start + n - 1)
  PROVE  Run[start][mark] = n
<1>0. Length \in Nat  BY TextIs
<1> DEFINE k == Run[start][mark]
<1>1. /\ k \in 0 .. Length + 1 - start
      /\ start + k > Length \/ Peek(start + k) = mark
      /\ \A m \in 0 .. k - 1 : Peek(start + m) # mark
  BY RunInside
<1> HIDE DEF k
<1>2. ASSUME NEW m \in 0 .. n - 1 PROVE Peek(start + m) # mark
  <2> DEFINE p == start + m
             q == start + n - 1
  <2>1. p \in 1 .. Length /\ q \in p .. Length /\ n > 0  BY <1>0
  <2>2. \A r \in p .. q : Text[r] # mark
    <3>1. ASSUME NEW r \in p .. q PROVE Text[r] # mark
      <4>1. r - start \in 0 .. n - 1 /\ start + (r - start) = r  BY <1>0
      <4> QED  BY <4>1
    <3> QED  BY <3>1
  <2>3. ~Space(q)  BY <2>1
  <2> HIDE DEF p, q
  <2>4. Peek(p) # mark  BY <2>1, <2>2, <2>3, PeekBefore
  <2> QED  BY <2>4 DEF p
<1>3. ASSUME k < n PROVE FALSE
  <2>1. k \in 0 .. n - 1 /\ ~(start + k > Length)  BY <1>0, <1>1, <1>3
  <2> QED  BY <1>1, <1>2, <2>1
<1>4. ASSUME n < k PROVE FALSE
  <2>1. n \in 0 .. k - 1  BY <1>0, <1>1, <1>4
  <2> QED  BY <1>1, <2>1
<1>5. k = n  BY <1>0, <1>1, <1>3, <1>4
<1> QED  BY <1>5 DEF k

LEMMA RunToTheEnd ==
  ASSUME input \in Inputs, NEW start \in 1 .. Length, NEW mark \in {"<", ">"},
         mark # Null, \A r \in start .. Length : Text[r] # mark
  PROVE  Peek(Clamp(start + Run[start][mark])) # mark
<1>0. Length \in Nat  BY TextIs
<1> DEFINE k == Run[start][mark]
           p == Clamp(start + k)
<1>1. k \in 0 .. Length + 1 - start  BY RunInside
<1> HIDE DEF k
<1>2. p \in start .. Length  BY <1>0, <1>1 DEF Clamp
<1> HIDE DEF p
<1>3. p \in 1 .. Length + 1 /\ \A r \in p .. Length : Text[r] # mark  BY <1>0, <1>2
<1>4. Peek(p) # mark  BY <1>3, PeekOther
<1> QED  BY <1>4 DEF p, k

LEMMA Marks == "<" # Null /\ ">" # Null /\ "/" # Null
BY SymbolsAssumption

(* A tag whose end the text has, and one whose end it has not. *)
LEMMA TagEndIs ==
  ASSUME input \in Inputs, NEW start \in 1 .. Length, NEW s \in Seq(Symbols),
         Len(s) > 0, start + Len(s) <= Length,
         \A i \in 1 .. Len(s) : Text[start + i - 1] = s[i] /\ ~IsAngle(s[i]),
         ~IsSpace(s[Len(s)]), Text[start + Len(s)] = ">"
  PROVE  /\ TagEnd(start).ok /\ TagEnd(start).name = s
         /\ TagEnd(start).next = Clamp(start + Len(s) + 1)
<1> DEFINE n == Len(s)
           mark == ">"
<1>1. Length \in Nat /\ Text \in Seq(Symbols) /\ n \in Nat /\ mark \in {"<", ">"}
  BY TextIs
<1>2. start + n \in 1 .. Length /\ Peek(start + n) = mark
  <2>1. start + n \in 1 .. Length  BY <1>1
  <2>2. ~Space(start + n)  BY DEF Space
  <2> QED  BY <2>1, <2>2, PeekSolid
<1>3. \A c : ~IsAngle(c) => c # mark  BY DEF IsAngle
<1>4. ~Space(start + n - 1)
  <2>1. n \in 1 .. n  BY <1>1
  <2>2. Text[start + n - 1] = s[n]  BY <2>1
  <2> QED  BY <2>2 DEF Space, IsSpace
<1> HIDE DEF mark
<1>5. \A m \in 0 .. n - 1 : Text[start + m] # mark
  <2>1. ASSUME NEW m \in 0 .. n - 1 PROVE Text[start + m] # mark
    <3>1. m + 1 \in 1 .. n /\ start + (m + 1) - 1 = start + m  BY <1>1
    <3>2. Text[start + m] = s[m + 1] /\ ~IsAngle(s[m + 1])  BY <3>1
    <3> QED  BY <1>3, <3>2
  <2> QED  BY <2>1
<1>6. Run[start][mark] = n
  <2> HIDE DEF n
  <2> QED  BY <1>1, <1>2, <1>4, <1>5, RunIs DEF n
<1>7. SubSeq(Text, start, start + n - 1) = s
  <2>1. /\ start \in Nat /\ start + n - 1 \in Int
        /\ start \in 1 .. Length + 1 /\ start + n - 1 <= Length
    BY <1>1
  <2> QED  BY <1>1, <2>1, SubSeqIs DEF Length
<1>8. Clamp(start + n) = start + n
  <2> HIDE DEF n
  <2> QED  BY <1>1, <1>2 DEF Clamp
<1>9. /\ TagEnd(start).ok = (Peek(Clamp(start + n)) = mark)
      /\ TagEnd(start).name = SubSeq(Text, start, start + n - 1)
      /\ TagEnd(start).next = Clamp(Clamp(start + n) + 1)
  BY <1>6 DEF TagEnd, mark
<1> QED  BY <1>2, <1>7, <1>8, <1>9

LEMMA TagEndFails ==
  ASSUME input \in Inputs, NEW start \in 1 .. Length,
         \A r \in start .. Length : ~IsAngle(Text[r]) \/ Text[r] = "<"
  PROVE  ~TagEnd(start).ok
<1> DEFINE mark == ">"
<1>1. mark \in {"<", ">"} /\ mark # Null  BY Marks
<1>2. \A r \in start .. Length : Text[r] # mark  BY DEF IsAngle
<1>3. TagEnd(start).ok = (Peek(Clamp(start + Run[start][mark])) = mark)
  BY DEF TagEnd
<1> HIDE DEF mark
<1> QED  BY <1>1, <1>2, <1>3, RunToTheEnd

(* The parser has come to p, perhaps with the last byte of the text, which *)
(* ended a tag.                                                            *)
Comes(p) == /\ p \in 1 .. Length + 1 /\ position = Clamp(p)
            /\ p = Length + 1 => Length > 0 /\ Text[Length] = ">"

LEMMA BlankIs ==
  ASSUME input \in Inputs, NEW p, NEW q, Blank(Text, p, q)
  PROVE  p <= q /\ \A r \in p .. q - 1 : r \in 1 .. Length => Space(r)
<1>1. DOMAIN Text = 1 .. Length  BY TextIs DEF Length
<1> QED  BY <1>1 DEF Blank, Space

LEMMA LastRead ==
  ASSUME input \in Inputs, Length > 0, IsSpace(Text[Length]) \/ Text[Length] = ">"
  PROVE  Peek(Length) \in {Null, ">"} /\ PeekNext(Length) = Null
<1>0. Length \in Nat /\ Length \in 1 .. Length /\ Length \in 1 .. Length + 1  BY TextIs
<1>1. CASE IsSpace(Text[Length])
  <2>1. Space(Length)  BY <1>1 DEF Space, IsSpace
  <2>2. /\ Length + 1 \in Length .. Length + 1 /\ Length + 1 > Length
        /\ \A r \in Length .. Length + 1 - 1 : Space(r)
    BY <1>0, <2>1
  <2> QED  BY <1>0, <2>2, SolidIs
<1>2. CASE Text[Length] = ">"
  <2>1. ~Space(Length)  BY <1>2 DEF Space
  <2>2. Length + 1 \in Length + 1 .. Length + 1  BY <1>0
  <2>3. Peek(Length + 1) = Null  BY <2>2, PeekNone
  <2> QED  BY <1>0, <1>2, <2>1, <2>3, PeekSolid
<1> QED  BY <1>1, <1>2

(* What comes after white space; and after the end of the text.            *)
LEMMA NextIs ==
  ASSUME input \in Inputs, NEW p \in Nat, Comes(p), NEW q \in Nat, Blank(Text, p, q),
         q <= Length => ~Space(q)
  PROVE  /\ q <= Length => /\ position = p /\ q \in 1 .. Length
                           /\ Peek(position) = Text[q]
                           /\ PeekNext(position) = Peek(q + 1)
                           /\ SkipWhitespace(position) = q
         /\ q > Length => /\ Length > 0 /\ SkipWhitespace(position) = Length
                          /\ IsSpace(Text[Length]) \/ Text[Length] = ">"
                          /\ Peek(position) \in {Null, ">"}
                          /\ PeekNext(position) = Null
<1>0. Length \in Nat /\ p \in 1 .. Length + 1  BY TextIs DEF Comes
<1>1. p <= q /\ \A r \in p .. q - 1 : r \in 1 .. Length => Space(r)
  BY BlankIs
<1>2. ASSUME q <= Length
      PROVE  /\ position = p /\ q \in 1 .. Length
             /\ Peek(position) = Text[q] /\ PeekNext(position) = Peek(q + 1)
             /\ SkipWhitespace(position) = q
  <2>1. /\ p \in 1 .. Length /\ q \in p .. Length + 1 /\ ~(q > Length)
        /\ \A r \in p .. q - 1 : Space(r)
    <3>1. p \in 1 .. Length /\ q \in p .. Length + 1 /\ ~(q > Length)
      BY <1>0, <1>1, <1>2
    <3>2. \A r \in p .. q - 1 : r \in 1 .. Length  BY <1>0, <1>2
    <3> QED  BY <1>1, <3>1, <3>2
  <2>2. position = p /\ Clamp(q) = q  BY <1>0, <1>2, <2>1 DEF Comes, Clamp
  <2>3. q \in 1 .. Length  BY <1>0, <2>1
  <2> QED  BY <1>0, <1>2, <2>1, <2>2, <2>3, SolidIs
<1>3. ASSUME q > Length
      PROVE  /\ Length > 0 /\ SkipWhitespace(position) = Length
             /\ IsSpace(Text[Length]) \/ Text[Length] = ">"
             /\ Peek(position) \in {Null, ">"}
             /\ PeekNext(position) = Null
  <2>1. CASE p = Length + 1
    <3>1. /\ Length > 0 /\ Text[Length] = ">" /\ position = Length
      BY <1>0, <2>1 DEF Comes, Clamp
    <3>2. Length \in 1 .. Length /\ ~Space(Length)
      <4>1. ~Space(Length)  BY <3>1 DEF Space
      <4> QED  BY <1>0, <3>1, <4>1
    <3>3. SkipWhitespace(Length) = Length  BY <3>2, PeekSolid
    <3> QED  BY <3>1, <3>3, LastRead
  <2>2. CASE p # Length + 1
    <3>1. p \in 1 .. Length /\ position = p /\ Length > 0
      BY <1>0, <2>2 DEF Comes, Clamp
    <3>2. \A r \in p .. Length + 1 - 1 : Space(r)
      <4>1. \A r \in p .. Length + 1 - 1 : r \in p .. q - 1 /\ r \in 1 .. Length
        BY <1>0, <1>3, <3>1
      <4> QED  BY <1>1, <4>1
    <3>3. Length + 1 \in p .. Length + 1 /\ Length + 1 > Length /\ Clamp(Length + 1) = Length
      BY <1>0, <3>1 DEF Clamp
    <3>4. /\ Peek(p) = Null /\ PeekNext(p) = Null /\ SkipWhitespace(p) = Length
      BY <1>0, <3>1, <3>2, <3>3, SolidIs
    <3>5. IsSpace(Text[Length])
      <4>1. Length \in p .. Length + 1 - 1  BY <1>0, <3>1
      <4> QED  BY <3>2, <4>1 DEF Space, IsSpace
    <3> QED  BY <3>1, <3>4, <3>5
  <2> QED  BY <2>1, <2>2
<1> QED  BY <1>2, <1>3

(* What a text has of the tags of an element.                              *)
LEMMA OpeningTag ==
  ASSUME input \in Inputs, NEW e \in Elements, Tagged(e, Text)
  PROVE  LET l == TagLength(e)
         IN  /\ e.open <= Length => Text[e.open] = "<"
             /\ \A i \in 1 .. l : e.open + i <= Length => Text[e.open + i] = TagOf(e)[i]
             /\ e.open + l + 1 <= Length => Text[e.open + l + 1] = ">"
<1> DEFINE l == TagLength(e)
           a == e.open
           tag == TagOf(e)
           s == <<"<">> \o tag \o <<">">>
<1>1. /\ l \in Nat /\ l > 0 /\ a \in Nat /\ a > 0 /\ tag \in Seq(Symbols) /\ Len(tag) = l
      /\ "<" \in Symbols /\ ">" \in Symbols
  BY ElementType, TagText, SymbolsAssumption
<1>2. Length \in Nat /\ DOMAIN Text = 1 .. Length  BY TextIs DEF Length
<1>3. \A i \in DOMAIN s : a + i - 1 \in 1 .. Length => Text[a + i - 1] = s[i]
  BY <1>2 DEF Tagged, Written
<1> HIDE DEF tag, a, l
<1>4. /\ DOMAIN s = 1 .. l + 2 /\ s[1] = "<" /\ s[l + 2] = ">"
      /\ \A i \in 1 .. l : s[i + 1] = tag[i]
  <2> DEFINE u == <<"<">> \o tag
             c == ">"
             b == "<"
  <2>1. <<b>> \in Seq(Symbols) /\ Len(<<b>>) = 1 /\ <<b>>[1] = b  BY <1>1
  <2>2. <<c>> \in Seq(Symbols) /\ Len(<<c>>) = 1 /\ <<c>>[1] = c  BY <1>1
  <2> HIDE DEF b, c
  <2>3. /\ u \in Seq(Symbols) /\ Len(u) = 1 + l
        /\ u[1] = b /\ \A i \in 1 .. l : u[i + 1] = tag[i]
    BY <1>1, <2>1 DEF b
  <2> HIDE DEF u
  <2>4. u \o <<c>> \in Seq(Symbols) /\ Len(u \o <<c>>) = 2 + l
    BY <1>1, <2>2, <2>3
  <2>5. /\ (u \o <<c>>)[1] = b /\ (u \o <<c>>)[l + 2] = c
        /\ \A i \in 1 .. l : (u \o <<c>>)[i + 1] = tag[i]
    BY <1>1, <2>2, <2>3
  <2>6. s = u \o <<c>>  BY DEF u, c
  <2>7. DOMAIN (u \o <<c>>) = 1 .. l + 2  BY <1>1, <2>4
  <2> QED  BY <2>5, <2>6, <2>7 DEF b, c
<1> HIDE DEF s
<1>5. a <= Length => Text[a] = s[1]
  <2>1. 1 \in 1 .. l + 2 /\ a + 1 - 1 = a  BY <1>1
  <2>2. a <= Length => a \in 1 .. Length  BY <1>1, <1>2
  <2> QED  BY <1>3, <1>4, <2>1, <2>2
<1>6. ASSUME NEW i \in 1 .. l, a + i <= Length PROVE Text[a + i] = tag[i]
  <2>1. i + 1 \in 1 .. l + 2 /\ a + (i + 1) - 1 = a + i /\ a + i \in 1 .. Length
    BY <1>1, <1>2, <1>6
  <2> QED  BY <1>3, <1>4, <2>1
<1>7. a + l + 1 <= Length => Text[a + l + 1] = s[l + 2]
  <2>1. l + 2 \in 1 .. l + 2 /\ a + (l + 2) - 1 = a + l + 1  BY <1>1
  <2>2. a + l + 1 <= Length => a + l + 1 \in 1 .. Length  BY <1>1, <1>2
  <2> QED  BY <1>3, <1>4, <2>1, <2>2
<1> QED  BY <1>4, <1>5, <1>6, <1>7 DEF a, l, tag

LEMMA ClosingTag ==
  ASSUME input \in Inputs, NEW e \in Elements, Tagged(e, Text), ~Single(e), e.close > 0
  PROVE  LET n == Len(e.name)
         IN  /\ e.close <= Length => Text[e.close] = "<"
             /\ e.close + 1 <= Length => Text[e.close + 1] = "/"
             /\ \A i \in 1 .. n :
                   e.close + 1 + i <= Length => Text[e.close + 1 + i] = e.name[i]
             /\ e.close + n + 2 <= Length => Text[e.close + n + 2] = ">"
<1> DEFINE n == Len(e.name)
           name == e.name
           a == e.close
           s == <<"<", "/">> \o name \o <<">">>
<1>1. /\ n \in Nat /\ n > 0 /\ a \in Nat /\ a > 0 /\ name \in Seq(Symbols) /\ Len(name) = n
      /\ "<" \in Symbols /\ ">" \in Symbols /\ "/" \in Symbols
  BY ElementType, SymbolsAssumption
<1>2. Length \in Nat /\ DOMAIN Text = 1 .. Length  BY TextIs DEF Length
<1>3. \A i \in DOMAIN s : a + i - 1 \in 1 .. Length => Text[a + i - 1] = s[i]
  BY <1>2 DEF Tagged, Written
<1> HIDE DEF name, a, n
<1>4. /\ DOMAIN s = 1 .. n + 3 /\ s[1] = "<" /\ s[2] = "/" /\ s[n + 3] = ">"
      /\ \A i \in 1 .. n : s[i + 2] = name[i]
  <2> DEFINE b == "<"
             c == ">"
             d == "/"
             u == <<b, d>> \o name
  <2>1. /\ <<b, d>> \in Seq(Symbols) /\ Len(<<b, d>>) = 2
        /\ <<b, d>>[1] = b /\ <<b, d>>[2] = d
    BY <1>1
  <2>2. <<c>> \in Seq(Symbols) /\ Len(<<c>>) = 1 /\ <<c>>[1] = c  BY <1>1
  <2>6. s = u \o <<c>>  OBVIOUS
  <2> HIDE DEF b, c, d
  <2>3. /\ u \in Seq(Symbols) /\ Len(u) = 2 + n
        /\ u[1] = b /\ u[2] = d /\ \A i \in 1 .. n : u[i + 2] = name[i]
    BY <1>1, <2>1
  <2> HIDE DEF u
  <2>4. u \o <<c>> \in Seq(Symbols) /\ Len(u \o <<c>>) = 3 + n
    BY <1>1, <2>2, <2>3
  <2>5. /\ (u \o <<c>>)[1] = b /\ (u \o <<c>>)[2] = d /\ (u \o <<c>>)[n + 3] = c
        /\ \A i \in 1 .. n : (u \o <<c>>)[i + 2] = name[i]
    BY <1>1, <2>2, <2>3
  <2>7. DOMAIN (u \o <<c>>) = 1 .. n + 3  BY <1>1, <2>4
  <2> QED  BY <2>5, <2>6, <2>7 DEF b, c, d
<1> HIDE DEF s
<1>5. a <= Length => Text[a] = s[1]
  <2>1. 1 \in 1 .. n + 3 /\ a + 1 - 1 = a  BY <1>1
  <2>2. a <= Length => a \in 1 .. Length  BY <1>1, <1>2
  <2> QED  BY <1>3, <1>4, <2>1, <2>2
<1>6. a + 1 <= Length => Text[a + 1] = s[2]
  <2>1. 2 \in 1 .. n + 3 /\ a + 2 - 1 = a + 1  BY <1>1
  <2>2. a + 1 <= Length => a + 1 \in 1 .. Length  BY <1>1, <1>2
  <2> QED  BY <1>3, <1>4, <2>1, <2>2
<1>7. ASSUME NEW i \in 1 .. n, a + 1 + i <= Length PROVE Text[a + 1 + i] = name[i]
  <2>1. i + 2 \in 1 .. n + 3 /\ a + (i + 2) - 1 = a + 1 + i /\ a + 1 + i \in 1 .. Length
    BY <1>1, <1>2, <1>7
  <2> QED  BY <1>3, <1>4, <2>1
<1>8. a + n + 2 <= Length => Text[a + n + 2] = s[n + 3]
  <2>1. n + 3 \in 1 .. n + 3 /\ a + (n + 3) - 1 = a + n + 2  BY <1>1
  <2>2. a + n + 2 <= Length => a + n + 2 \in 1 .. Length  BY <1>1, <1>2
  <2> QED  BY <1>3, <1>4, <2>1, <2>2
<1> QED  BY <1>4, <1>5, <1>6, <1>7, <1>8 DEF a, n, name

(* xml_parse_tag_open where an element begins. *)
LEMMA ReadsOpeningTag ==
  ASSUME input \in Inputs, NEW e \in Elements, Tagged(e, Text),
         NEW p \in Nat, Comes(p), Blank(Text, p, e.open)
  PROVE  /\ Body(e) <= Length + 1 => /\ TagOpen(position).ok
                                     /\ TagOpen(position).name = TagOf(e)
                                     /\ TagOpen(position).next = Clamp(Body(e))
                                     /\ Text[Body(e) - 1] = ">"
         /\ Body(e) > Length + 1 => ~TagOpen(position).ok
<1> DEFINE l == TagLength(e)
           a == e.open
           tag == TagOf(e)
           s == SkipWhitespace(position)
           start == Clamp(s + 1)
<1>1. /\ l \in Nat /\ l > 0 /\ a \in Nat /\ a > 0 /\ tag \in Seq(Symbols) /\ Len(tag) = l
      /\ \A i \in 1 .. l : ~IsAngle(tag[i])
      /\ ~IsSpace(tag[l])
  BY ElementType, TagText
<1>2. /\ a <= Length => Text[a] = "<"
      /\ \A i \in 1 .. l : a + i <= Length => Text[a + i] = tag[i]
      /\ a + l + 1 <= Length => Text[a + l + 1] = ">"
  BY OpeningTag
<1>3. Body(e) = a + l + 2  BY ElementType
<1>4. Length \in Nat  BY TextIs
<1>5. /\ TagOpen(position).name = TagEnd(start).name
      /\ TagOpen(position).next = TagEnd(start).next
      /\ TagOpen(position).ok <=> (TagEnd(start).ok /\ Peek(s) = "<")
  BY DEF TagOpen, TagEnd
<1>6. a <= Length => ~Space(a)  BY <1>2 DEF Space
<1>7. /\ a <= Length => a \in 1 .. Length /\ s = a
      /\ a > Length => /\ Length > 0 /\ s = Length
                       /\ IsSpace(Text[Length]) \/ Text[Length] = ">"
  BY <1>1, <1>6, NextIs
<1> HIDE DEF l, a, tag, s
<1>8. CASE a > Length
  <2>1. Peek(s) \in {Null, ">"}  BY <1>7, <1>8, LastRead
  <2>2. Peek(s) # "<"  BY <2>1, Marks
  <2>3. ~(Body(e) <= Length + 1)  BY <1>1, <1>3, <1>4, <1>8
  <2> QED  BY <1>5, <2>2, <2>3
<1>9. CASE ~(a > Length)
  <2>1. a \in 1 .. Length /\ s = a  BY <1>1, <1>4, <1>7, <1>9
  <2>2. Peek(s) = "<"  BY <1>2, <1>4, <1>6, <2>1, PeekSolid
  <2>3. ASSUME Body(e) <= Length + 1
        PROVE  /\ TagEnd(start).ok /\ TagEnd(start).name = tag
               /\ TagEnd(start).next = Clamp(Body(e)) /\ Text[Body(e) - 1] = ">"
    <3>1. /\ start = a + 1 /\ start \in 1 .. Length /\ start + l <= Length
          /\ start + l + 1 = Body(e) /\ start + l = a + l + 1 /\ Body(e) - 1 = a + l + 1
      BY <1>1, <1>3, <1>4, <2>1, <2>3 DEF Clamp
    <3> HIDE DEF start
    <3>2. \A i \in 1 .. l : Text[start + i - 1] = tag[i] /\ ~IsAngle(tag[i])
      <4>1. ASSUME NEW i \in 1 .. l PROVE Text[start + i - 1] = tag[i]
        <5>1. start + i - 1 = a + i /\ a + i <= Length  BY <1>1, <1>4, <3>1
        <5> QED  BY <1>2, <5>1
      <4> QED  BY <1>1, <4>1
    <3>3. Text[start + l] = ">"
      <4>1. a + l + 1 <= Length  BY <1>1, <1>4, <3>1
      <4> QED  BY <1>2, <3>1, <4>1
    <3>4. /\ TagEnd(start).ok /\ TagEnd(start).name = tag
          /\ TagEnd(start).next = Clamp(start + Len(tag) + 1)
      <4>1. Len(tag) > 0 /\ start + Len(tag) <= Length  BY <1>1, <3>1
      <4>2. /\ \A i \in 1 .. Len(tag) : Text[start + i - 1] = tag[i] /\ ~IsAngle(tag[i])
            /\ ~IsSpace(tag[Len(tag)]) /\ Text[start + Len(tag)] = ">"
        BY <1>1, <3>2, <3>3
      <4> QED  BY <1>1, <3>1, <4>1, <4>2, TagEndIs
    <3> QED  BY <1>1, <3>1, <3>3, <3>4
  <2>4. ASSUME Body(e) > Length + 1 PROVE ~TagEnd(start).ok
    <3>1. start \in 1 .. Length  BY <1>4, <2>1 DEF Clamp
    <3>2. ASSUME NEW r \in start .. Length
          PROVE  ~IsAngle(Text[r]) \/ Text[r] = "<"
      <4>1. CASE r = a  BY <1>2, <1>4, <2>1, <4>1
      <4>2. CASE r # a
        <5>1. r - a \in 1 .. l /\ a + (r - a) = r /\ r <= Length
          BY <1>1, <1>3, <1>4, <2>1, <2>4, <4>2 DEF Clamp
        <5>2. Text[r] = tag[r - a] /\ ~IsAngle(tag[r - a])  BY <1>1, <1>2, <5>1
        <5> QED  BY <5>2
      <4> QED  BY <4>1, <4>2
    <3> HIDE DEF start
    <3> QED  BY <3>1, <3>2, TagEndFails
  <2> QED  BY <1>5, <2>2, <2>3, <2>4 DEF tag
<1> QED  BY <1>8, <1>9

(* xml_parse_tag_close where the closing tag of an element is. *)
LEMMA ReadsClosingTag ==
  ASSUME input \in Inputs, NEW e \in Elements, Tagged(e, Text), ~Single(e),
         NEW p \in Nat, Comes(p), Blank(Text, p, e.close)
  PROVE  /\ After(e) <= Length + 1 => /\ TagClose(position).ok
                                      /\ TagClose(position).name = e.name
                                      /\ TagClose(position).next = Clamp(After(e))
                                      /\ Text[After(e) - 1] = ">"
         /\ After(e) > Length + 1 => ~TagClose(position).ok
<1> DEFINE n == Len(e.name)
           a == e.close
           name == e.name
           s == SkipWhitespace(position)
           start == Clamp(s + 2)
<1>1. /\ n \in Nat /\ n > 0 /\ a \in Nat /\ name \in Seq(Symbols) /\ Len(name) = n
      /\ \A i \in 1 .. n : ~IsAngle(name[i])
      /\ ~IsSpace(name[n])
  <2>1. /\ n \in Nat /\ n > 0 /\ a \in Nat /\ name \in Seq(Symbols)
        /\ \A i \in 1 .. n : ~IsAngle(name[i]) /\ ~IsSpace(name[i])
    BY ElementType
  <2>2. n \in 1 .. n  BY <2>1
  <2> QED  BY <2>1, <2>2
<1>0. p > 0 /\ a > 0 /\ Length \in Nat
  <2>1. p \in 1 .. Length + 1 /\ p <= a /\ Length \in Nat  BY TextIs, BlankIs DEF Comes
  <2> QED  BY <1>1, <2>1
<1>2. /\ a <= Length => Text[a] = "<"
      /\ a + 1 <= Length => Text[a + 1] = "/"
      /\ \A i \in 1 .. n : a + 1 + i <= Length => Text[a + 1 + i] = name[i]
      /\ a + n + 2 <= Length => Text[a + n + 2] = ">"
  BY <1>0, ClosingTag
<1>3. After(e) = a + n + 3  BY DEF After
<1>5. /\ TagClose(position).name = TagEnd(start).name
      /\ TagClose(position).next = TagEnd(start).next
      /\ TagClose(position).ok <=> (TagEnd(start).ok /\ Peek(s) = "<" /\ PeekNext(s) = "/")
  BY DEF TagClose, TagEnd
<1>6. a <= Length => ~Space(a)  BY <1>2 DEF Space
<1>7. /\ a <= Length => a \in 1 .. Length /\ s = a
      /\ a > Length => /\ Length > 0 /\ s = Length
                       /\ IsSpace(Text[Length]) \/ Text[Length] = ">"
  BY <1>1, <1>6, NextIs
<1> HIDE DEF n, a, name, s
<1>8. CASE a > Length
  <2>1. Peek(s) \in {Null, ">"}  BY <1>7, <1>8, LastRead
  <2>2. Peek(s) # "<"  BY <2>1, Marks
  <2>3. ~(After(e) <= Length + 1)  BY <1>0, <1>1, <1>3, <1>8
  <2> QED  BY <1>5, <2>2, <2>3
<1>9. CASE ~(a > Length)
  <2>1. a \in 1 .. Length /\ s = a  BY <1>0, <1>1, <1>7, <1>9
  <2>3. ASSUME After(e) <= Length + 1
        PROVE  /\ TagEnd(start).ok /\ TagEnd(start).name = name
               /\ TagEnd(start).next = Clamp(After(e)) /\ Text[After(e) - 1] = ">"
               /\ Peek(s) = "<" /\ PeekNext(s) = "/"
    <3>1. /\ start = a + 2 /\ start \in 1 .. Length /\ start + n <= Length
          /\ start + n + 1 = After(e) /\ start + n = a + n + 2 /\ After(e) - 1 = a + n + 2
      BY <1>0, <1>1, <1>3, <2>1, <2>3 DEF Clamp
    <3>5. Peek(s) = "<" /\ PeekNext(s) = "/"
      <4>1. Text[a] = "<" /\ Peek(a) = Text[a] /\ PeekNext(a) = Peek(a + 1)
        BY <1>0, <1>2, <1>6, <2>1, PeekSolid
      <4>2. a + 1 \in 1 .. Length /\ a + 1 <= Length  BY <1>0, <1>1, <3>1
      <4>3. Text[a + 1] = "/"  BY <1>2, <4>2
      <4>4. ~Space(a + 1)  BY <4>3 DEF Space
      <4> QED  BY <2>1, <4>1, <4>2, <4>3, <4>4, PeekSolid
    <3> HIDE DEF start
    <3>2. \A i \in 1 .. n : Text[start + i - 1] = name[i] /\ ~IsAngle(name[i])
      <4>1. ASSUME NEW i \in 1 .. n PROVE Text[start + i - 1] = name[i]
        <5>1. start + i - 1 = a + 1 + i /\ a + 1 + i <= Length  BY <1>0, <1>1, <3>1
        <5> QED  BY <1>2, <5>1
      <4> QED  BY <1>1, <4>1
    <3>3. Text[start + n] = ">"
      <4>1. a + n + 2 <= Length  BY <1>0, <1>1, <3>1
      <4> QED  BY <1>2, <3>1, <4>1
    <3>4. /\ TagEnd(start).ok /\ TagEnd(start).name = name
          /\ TagEnd(start).next = Clamp(start + Len(name) + 1)
      <4>1. Len(name) > 0 /\ start + Len(name) <= Length  BY <1>1, <3>1
      <4>2. /\ \A i \in 1 .. Len(name) : Text[start + i - 1] = name[i] /\ ~IsAngle(name[i])
            /\ ~IsSpace(name[Len(name)]) /\ Text[start + Len(name)] = ">"
        BY <1>1, <3>2, <3>3
      <4> QED  BY <1>1, <3>1, <4>1, <4>2, TagEndIs
    <3> QED  BY <1>1, <3>1, <3>3, <3>4, <3>5
  <2>4. ASSUME After(e) > Length + 1 PROVE ~TagEnd(start).ok
    <3>1. start \in 1 .. Length  BY <1>0, <2>1 DEF Clamp
    <3>2. ASSUME NEW r \in start .. Length
          PROVE  ~IsAngle(Text[r]) \/ Text[r] = "<"
      <4>1. CASE r = a  BY <1>0, <1>2, <2>1, <4>1
      <4>2. CASE r = a + 1
        <5>1. Text[r] = "/"  BY <1>0, <1>2, <4>2
        <5> QED  BY <5>1 DEF IsAngle
      <4>3. CASE r # a /\ r # a + 1
        <5>1. r - a - 1 \in 1 .. n /\ a + 1 + (r - a - 1) = r /\ r <= Length
          BY <1>0, <1>1, <1>3, <2>1, <2>4, <4>3 DEF Clamp
        <5>2. Text[r] = name[r - a - 1] /\ ~IsAngle(name[r - a - 1])  BY <1>1, <1>2, <5>1
        <5> QED  BY <5>2
      <4> QED  BY <4>1, <4>2, <4>3
    <3> HIDE DEF start
    <3> QED  BY <3>1, <3>2, TagEndFails
  <2> QED  BY <1>5, <2>3, <2>4 DEF name
<1> QED  BY <1>8, <1>9

(* xml_parse_content, where the text ends before the mark is found.        *)
LEMMA ReadsNoContent ==
  ASSUME input \in Inputs, Length > 0, NEW start \in 1 .. Length,
         SkipWhitespace(position) = start,
         \A r \in start .. Length : Text[r] = ">" \/ ~IsAngle(Text[r])
  PROVE  ~Content(position).ok
<1> DEFINE mark == "<"
<1>1. mark \in {"<", ">"} /\ mark # Null  BY Marks
<1>2. \A r \in start .. Length : Text[r] # mark  BY DEF IsAngle
<1>3. Content(position).ok = (Peek(Clamp(start + Run[start][mark])) = mark)
  BY DEF Content
<1> HIDE DEF mark
<1> QED  BY <1>1, <1>2, <1>3, RunToTheEnd

LEMMA NothingFollows ==
  ASSUME input \in Inputs, NEW p \in Nat, Comes(p), NEW q \in Nat, Blank(Text, p, q),
         q > Length
  PROVE  Peek(position) # "<" /\ ~Content(position).ok /\ PeekNext(position) = Null
<1>1. /\ Length > 0 /\ SkipWhitespace(position) = Length
      /\ IsSpace(Text[Length]) \/ Text[Length] = ">"
      /\ Peek(position) \in {Null, ">"}
      /\ PeekNext(position) = Null
  <2>1. ~(q <= Length)  BY TextIs
  <2> QED  BY <2>1, NextIs
<1>2. Length \in Nat /\ Length \in 1 .. Length  BY <1>1, TextIs
<1>3. Text[Length] = ">" \/ ~IsAngle(Text[Length])  BY <1>1 DEF IsSpace, IsAngle
<1>4. \A r \in Length .. Length : r = Length  BY <1>2
<1>5. \A r \in Length .. Length : Text[r] = ">" \/ ~IsAngle(Text[r])  BY <1>3, <1>4
<1>6. ~Content(position).ok  BY <1>1, <1>2, <1>5, ReadsNoContent
<1> QED  BY <1>1, <1>6, Marks

(* xml_parse_content after the opening tag of an element that has content. *)
LEMMA ReadsContent ==
  ASSUME input \in Inputs, NEW e \in Elements, Tagged(e, Text), Filled(e, Text),
         e.content # Null, Comes(Body(e))
  PROVE  /\ Peek(position) # "<"
         /\ e.close <= Length =>
               /\ Content(position).ok /\ Content(position).text = e.content
               /\ Content(position).next = e.start + Len(e.content)
               /\ e.start + Len(e.content) \in 1 .. Length
         /\ e.close > Length => ~Content(position).ok
<1> DEFINE c == e.content
           n == Len(c)
           a == e.start
           b == e.close
           s == SkipWhitespace(position)
<1>1. /\ c \in Seq(Symbols) /\ n \in Nat /\ a \in Nat /\ b \in Nat
      /\ Body(e) \in Nat /\ Length \in Nat /\ Text \in Seq(Symbols)
  BY ElementType, TextIs
<1>2. c # <<>> /\ ~IsSpace(c[1]) /\ ~IsSpace(c[n])  BY DEF Filled, IsSpace
<1>3. n > 0  BY <1>1, <1>2, SeqOver
<1>4. Blank(Text, Body(e), a) /\ Blank(Text, a + n, b) /\ ~Single(e)  BY DEF Filled
<1>5. \A i \in 1 .. n : a + i - 1 \in 1 .. Length => Text[a + i - 1] = c[i]
  <2>1. DOMAIN Text = 1 .. Length /\ DOMAIN c = 1 .. n  BY <1>1 DEF Length
  <2> QED  BY <2>1 DEF Filled, Written
<1>6. Body(e) \in 1 .. Length + 1 /\ Body(e) <= a /\ a + n <= b
  BY <1>4, BlankIs DEF Comes
<1>7. b <= Length => Text[b] = "<"
  <2>1. b > 0  BY <1>1, <1>6
  <2> QED  BY <1>4, <2>1, ClosingTag
<1>8. \A i \in 1 .. n : c[i] # "<"  BY ElementType
<1> DEFINE mark == "<"
<1>9. \A i \in 1 .. n : c[i] # mark  BY <1>8
<1>10. mark \in {"<", ">"} /\ mark # Null  BY Marks
<1>11. /\ Content(position).ok = (Peek(Clamp(s + Run[s][mark])) = mark)
       /\ Content(position).text = Trimmed(SubSeq(Text, s, s + Run[s][mark] - 1))
       /\ Content(position).next = Clamp(s + Run[s][mark])
  BY DEF Content
<1>12. b <= Length => Text[b] = mark  BY <1>7
<1>13. mark # " "  OBVIOUS
<1> HIDE DEF c, n, a, b, s, mark
<1>14. a <= Length => a \in 1 .. Length /\ Text[a] = c[1] /\ ~Space(a)
  <2>1. ASSUME a <= Length PROVE a \in 1 .. Length /\ Text[a] = c[1]
    <3>1. a \in 1 .. Length /\ 1 \in 1 .. n /\ a + 1 - 1 = a  BY <1>1, <1>3, <1>6, <2>1
    <3> QED  BY <1>5, <3>1
  <2> QED  BY <1>2, <2>1 DEF Space, IsSpace
<1>15. CASE a > Length
  <2>1. b > Length  BY <1>1, <1>3, <1>6, <1>15
  <2>2. Peek(position) # "<" /\ ~Content(position).ok
    BY <1>1, <1>4, <1>15, NothingFollows
  <2> QED  BY <1>1, <2>1, <2>2 DEF b
<1>16. CASE ~(a > Length)
  <2>1. a \in 1 .. Length /\ Text[a] = c[1] /\ ~Space(a)  BY <1>1, <1>14, <1>16
  <2>2. s = a /\ Peek(position) = Text[a]
    <3>1. a <= Length  BY <1>1, <1>16
    <3> QED  BY <1>1, <1>4, <2>1, <3>1, NextIs DEF s
  <2>3. Peek(position) # mark
    <3>1. 1 \in 1 .. n  BY <1>1, <1>3
    <3> QED  BY <1>9, <2>1, <2>2, <3>1
  <2>4. ASSUME b <= Length
        PROVE  /\ Content(position).ok /\ Content(position).text = c
               /\ Content(position).next = a + n
               /\ a + n \in 1 .. Length
    <3>1. a + n \in 1 .. Length /\ a + n <= Length /\ b \in a + n .. Length + 1
      BY <1>1, <1>6, <2>1, <2>4
    <3>2. Peek(a + n) = mark
      <4>1. \A r \in a + n .. b - 1 : Space(r)
        <5>1. \A r \in a + n .. b - 1 : r \in 1 .. Length  BY <1>1, <2>1, <2>4
        <5> QED  BY <1>4, <5>1, BlankIs
      <4>2. ~(b > Length) /\ a + n \in 1 .. Length + 1  BY <1>1, <2>4, <3>1
      <4>3. ~Space(b)  BY <1>12, <1>13, <2>4 DEF Space
      <4> QED  BY <1>12, <2>4, <3>1, <4>1, <4>2, <4>3, SolidIs
    <3>3. \A i \in 1 .. n : Text[a + i - 1] = c[i]
      <4>1. \A i \in 1 .. n : a + i - 1 \in 1 .. Length  BY <1>1, <2>1, <3>1
      <4> QED  BY <1>5, <4>1
    <3>4. \A m \in 0 .. n - 1 : Text[a + m] # mark
      <4>1. ASSUME NEW m \in 0 .. n - 1 PROVE Text[a + m] # mark
        <5>1. m + 1 \in 1 .. n /\ a + (m + 1) - 1 = a + m  BY <1>1, <1>3
        <5> QED  BY <1>9, <3>3, <5>1
      <4> QED  BY <4>1
    <3>5. ~Space(a + n - 1)
      <4>1. n \in 1 .. n  BY <1>1, <1>3
      <4>2. Text[a + n - 1] = c[n]  BY <3>3, <4>1
      <4> QED  BY <1>2, <4>2 DEF Space, IsSpace
    <3>6. Run[s][mark] = n
      <4>1. Run[a][mark] = n  BY <1>1, <1>10, <2>1, <3>1, <3>2, <3>4, <3>5, RunIs
      <4> QED  BY <2>2, <4>1
    <3>7. SubSeq(Text, a, a + n - 1) = c
      <4>1. /\ a + n - 1 \in Int /\ a + n - 1 = a + Len(c) - 1
            /\ a \in 1 .. Len(Text) + 1 /\ a + n - 1 <= Len(Text)
            /\ \A i \in 1 .. Len(c) : Text[a + i - 1] = c[i]
        BY <1>1, <2>1, <3>1, <3>3 DEF Length, n
      <4> QED  BY <1>1, <4>1, SubSeqIs
    <3>8. Trimmed(c) = c
      <4>1. ~IsSpace(c[Len(c)])  BY <1>2 DEF n
      <4> QED  BY <1>1, <1>2, <4>1, TrimsNothing
    <3>9. Clamp(a + n) = a + n  BY <1>1, <3>1 DEF Clamp
    <3> QED  BY <1>11, <2>2, <3>1, <3>2, <3>6, <3>7, <3>8, <3>9
  <2>5. ASSUME b > Length PROVE ~Content(position).ok
    <3>1. ASSUME NEW r \in a .. Length PROVE Text[r] # mark
      <4>1. CASE r <= a + n - 1
        <5>1. r - a + 1 \in 1 .. n /\ a + (r - a + 1) - 1 = r /\ r \in 1 .. Length
          BY <1>1, <2>1, <4>1
        <5> QED  BY <1>5, <1>9, <5>1
      <4>2. CASE ~(r <= a + n - 1)
        <5>1. r \in a + n .. b - 1 /\ r \in 1 .. Length  BY <1>1, <2>1, <2>5, <4>2
        <5>2. Space(r)  BY <1>4, <5>1, BlankIs
        <5> QED  BY <1>13, <5>2 DEF Space
      <4> QED  BY <4>1, <4>2
    <3>2. Peek(Clamp(a + Run[a][mark])) # mark  BY <1>10, <2>1, <3>1, RunToTheEnd
    <3> QED  BY <1>11, <2>2, <3>2
  <2> QED  BY <2>3, <2>4, <2>5 DEF a, b, c, n, mark
<1> QED  BY <1>15, <1>16

-----------------------------------------------------------------------------
(* Where the parser is in a document. *)

Document == input.document

Tree == TreeOf(Document)

(* The call for element j of d when the elements up to n have ended. *)
CallFor(d, j, point, content, n) ==
    [at |-> point, tag |-> TagOf(d[j]), content |-> content,
     children |-> SubSeq(TreeOf(d), d[j].first, n)]

(* o has the elements whose calls are on the stack s, the innermost first. *)
Path(d, o, s) ==
    /\ o \in [1 .. Len(s) -> DOMAIN d]
    /\ s # <<>> => d[o[1]].depth = Len(s) /\ o[Len(s)] = Len(d)
    /\ \A i \in 2 .. Len(s) :
          /\ d[o[i - 1]].parent = o[i]
          /\ s[i] = CallFor(d, o[i], "child", Null, d[o[i - 1]].first - 1)

(* The innermost call is for j, and the elements up to n have ended. *)
AtOpen(j, n) ==
    /\ Top = Call /\ n = Document[j].first - 1
    /\ \E p \in Nat : Comes(p) /\ Blank(Text, p, Document[j].open)

AtBody(j, n) ==
    /\ Top = CallFor(Document, j, "body", Null, n) /\ n = Document[j].first - 1
    /\ Comes(Body(Document[j]))

AtChildren(j, n) ==
    /\ Top = CallFor(Document, j, "children", Null, n)
    /\ n \in Document[j].first - 1 .. j - 1
    /\ ~Single(Document[j]) /\ Document[j].content = Null
    /\ \E p \in Nat : Comes(p) /\ GoesOnAt(Document, Text, j, n, p)

AtChild(j, n) ==
    /\ n > 0 /\ Document[n].parent = j
    /\ Top = CallFor(Document, j, "child", Null, Document[n].first - 1)
    /\ returned = SubSeq(Tree, Document[n].first, n)
    /\ Comes(After(Document[n]))

AtClose(j, n) ==
    /\ Top = CallFor(Document, j, "close", Document[j].content, n) /\ n = j - 1
    /\ ~Single(Document[j])
    /\ \E p \in Nat : Comes(p) /\ Blank(Text, p, Document[j].close)

InCall(j, n) == \/ AtOpen(j, n) \/ AtBody(j, n) \/ AtChildren(j, n)
                \/ AtChild(j, n) \/ AtClose(j, n)

AtEnd(n) == n = Len(Document) /\ returned = Tree

(* Elements 1 to n have ended in the text. *)
Ended(n) == n \in 0 .. Len(Document) /\ \A j \in 1 .. n : After(Document[j]) <= Length + 1

OnCourse == \E o, n : /\ Path(Document, o, stack) /\ Ended(n)
                      /\ IF stack = <<>> THEN AtEnd(n) ELSE InCall(o[1], n)

(* A call has failed, or the next will, and all that wait for it. *)
Lost == /\ ~Whole(Document, Text) /\ returned = <<>>
        /\ stack # <<>> => \/ Top.at = "child"
                           \/ Top = Call /\ ~TagOpen(position).ok

CourseInv == Document # Unknown => /\ stage = "parse" => OnCourse \/ Lost
                                   /\ ParsesDocuments

LEMMA DocumentIs ==
  ASSUME input \in Inputs, Document # Unknown
  PROVE  /\ Document \in Seq(Elements) /\ DOMAIN Document = 1 .. Len(Document)
         /\ Len(Document) \in Nat /\ Len(Document) > 0
         /\ Len(Tree) = Len(Document) /\ \E S : Tree \in Seq(S)
         /\ \A j \in 1 .. Len(Document) :
               /\ Document[j] \in Elements /\ Tree[j] = NodeFor(Document[j])
               /\ IsElement(Document, j, Text)
<1> DEFINE d == Document
           t == Text
           n == Len(d)
           S == {NodeFor(e) : e \in Elements}
<1>1. d \in Seq(Elements) /\ d # <<>> /\ \A j \in DOMAIN d : IsElement(d, j, t)
  BY DocumentsAssumption DEF IsPrint, Document, Text
<1>2. Tree = [j \in DOMAIN d |-> NodeFor(d[j])]  BY DEF Tree, TreeOf, Document
<1> HIDE DEF d, t
<1>3. /\ n \in Nat /\ n > 0 /\ DOMAIN d = 1 .. n /\ \A j \in 1 .. n : d[j] \in Elements
  <2>1. n \in Nat /\ n > 0  BY <1>1, SeqOver
  <2> QED  BY <1>1, <2>1
<1>4. Tree \in [1 .. n -> S] /\ \A j \in 1 .. n : Tree[j] = NodeFor(d[j])
  <2> HIDE DEF n
  <2> QED  BY <1>2, <1>3
<1>5. Tree \in Seq(S) /\ Len(Tree) = n
  <2> HIDE DEF n, S
  <2> QED  BY <1>3, <1>4
<1> QED  BY <1>1, <1>3, <1>4, <1>5 DEF d, t

LEMMA ElementIs ==
  ASSUME input \in Inputs, Document # Unknown, NEW j \in 1 .. Len(Document)
  PROVE  LET e == Document[j]
             p == Document[e.parent]
         IN  /\ e \in Elements /\ Tagged(e, Text) /\ e.first \in 1 .. j
             /\ ~Single(e) => Body(e) <= e.close
             /\ e.content # Null => e.first = j /\ Filled(e, Text)
             /\ Single(e) => e.first = j /\ e.content = Null
             /\ e.content = Null /\ ~Single(e) =>
                   /\ GoesOnAt(Document, Text, j, e.first - 1, Body(e))
                   /\ \A c \in 1 .. Len(Document) :
                         Document[c].parent = j =>
                            GoesOnAt(Document, Text, j, c, After(Document[c]))
             /\ j = Len(Document) => /\ e.parent = 0 /\ e.first = 1 /\ e.depth = 1
                                     /\ Blank(Text, 1, e.open)
             /\ e.parent # 0 => /\ e.parent \in j + 1 .. Len(Document)
                                /\ ~Single(p) /\ p.content = Null
                                /\ p.first <= e.first /\ p.depth + 1 = e.depth
             /\ Body(e) <= After(e)
<1> DEFINE d == Document
           e == d[j]
<1>1. /\ DOMAIN d = 1 .. Len(d) /\ e \in Elements /\ IsElement(d, j, Text)
  BY DocumentIs
<1>2. /\ Tagged(e, Text) /\ e.first \in 1 .. j
      /\ e.content # Null => e.first = j /\ Filled(e, Text)
      /\ Single(e) => e.first = j
      /\ e.content = Null /\ ~Single(e) =>
            /\ GoesOnAt(d, Text, j, e.first - 1, Body(e))
            /\ \A c \in DOMAIN d :
                  d[c].parent = j => GoesOnAt(d, Text, j, c, After(d[c]))
      /\ IF j = Len(d)
         THEN e.parent = 0 /\ e.first = 1 /\ e.depth = 1 /\ Blank(Text, 1, e.open)
         ELSE Nested(d, j)
  BY <1>1 DEF IsElement
<1>3. ~Single(e) => Body(e) <= e.close  BY <1>2 DEF Tagged
<1>4. Single(e) => e.content = Null  BY <1>2 DEF Filled
<1>5. e.parent # 0 => /\ e.parent \in j + 1 .. Len(d)
                      /\ ~Single(d[e.parent]) /\ d[e.parent].content = Null
                      /\ d[e.parent].first <= e.first /\ d[e.parent].depth + 1 = e.depth
  BY <1>2 DEF Nested
<1>6. Body(e) <= After(e)
  <2>1. Body(e) \in Nat /\ e.close \in Nat /\ Len(e.name) \in Nat  BY <1>1, ElementType
  <2>2. After(e) = IF Single(e) THEN Body(e) ELSE e.close + Len(e.name) + 3  BY DEF After
  <2> DEFINE n == Len(e.name)
  <2> HIDE DEF n, e
  <2> QED  BY <1>3, <2>1, <2>2 DEF n
<1> QED  BY <1>1, <1>2, <1>3, <1>4, <1>5, <1>6

(* The children of a call, as elements end. *)
LEMMA TreePieces ==
  ASSUME input \in Inputs, Document # Unknown, NEW a \in Nat, NEW b \in Nat, NEW c \in Nat,
         0 < a, a <= b + 1, b <= c, c <= Len(Document)
  PROVE  /\ SubSeq(Tree, a, b) \o SubSeq(Tree, b + 1, c) = SubSeq(Tree, a, c)
         /\ a = b + 1 => SubSeq(Tree, a, b) = <<>>
         /\ a <= b => SubSeq(Tree, a, b) # <<>>
         /\ a = 1 /\ b = Len(Document) => SubSeq(Tree, a, b) = Tree
         /\ b + 1 <= Len(Document) =>
               Append(SubSeq(Tree, a, b), NodeFor(Document[b + 1])) = SubSeq(Tree, a, b + 1)
<1>1. PICK S : Tree \in Seq(S)  BY DocumentIs
<1>2. Len(Tree) = Len(Document) /\ Len(Document) \in Nat  BY DocumentIs
<1>3. b + 1 <= Len(Document) => Tree[b + 1] = NodeFor(Document[b + 1])
  <2>1. b + 1 <= Len(Document) => b + 1 \in 1 .. Len(Document)  BY <1>2
  <2> QED  BY <2>1, DocumentIs
<1>4. b <= Len(Tree) /\ c <= Len(Tree)  BY <1>2
<1>5. SubSeq(Tree, a, b) \o SubSeq(Tree, b + 1, c) = SubSeq(Tree, a, c)
  BY <1>1, <1>4, Pieces
<1>6. /\ a = b + 1 => SubSeq(Tree, a, b) = <<>>
      /\ a <= b => SubSeq(Tree, a, b) # <<>>
      /\ a = 1 /\ b = Len(Tree) => SubSeq(Tree, a, b) = Tree
      /\ b + 1 <= Len(Tree) => Append(SubSeq(Tree, a, b), Tree[b + 1]) = SubSeq(Tree, a, b + 1)
  BY <1>1, <1>4, PieceOf
<1> QED  BY <1>2, <1>3, <1>5, <1>6

-----------------------------------------------------------------------------
(* The calls on the stack, as one of them goes on, returns or descends. *)

LEMMA TopReplaced ==
  ASSUME NEW F, NEW s \in Seq(F), s # <<>>, NEW f
  PROVE  LET u == <<f>> \o Tail(s)
         IN  /\ Len(u) = Len(s) /\ Len(s) \in Nat /\ Len(s) > 0 /\ u # <<>> /\ u[1] = f
             /\ \A i \in 2 .. Len(s) : u[i] = s[i]
<1> DEFINE U == F \cup {f}
           t == Tail(s)
           u == <<f>> \o t
           k == Len(s)
<1>1. s \in Seq(U) /\ k \in Nat /\ k > 0  BY SeqOver
<1>2. t \in Seq(U) /\ Len(t) = k - 1 /\ \A i \in 1 .. k - 1 : t[i] = s[i + 1]
  BY <1>1
<1>3. <<f>> \in Seq(U) /\ Len(<<f>>) = 1 /\ <<f>>[1] = f  OBVIOUS
<1> HIDE DEF t, U
<1>4. /\ u \in Seq(U) /\ Len(u) = 1 + (k - 1)
      /\ \A i \in 1 .. k : u[i] = IF i <= 1 THEN <<f>>[i] ELSE t[i - 1]
  <2> DEFINE w == <<f>>
  <2> HIDE DEF k
  <2>1. w \in Seq(U) /\ Len(w) = 1 /\ t \in Seq(U) /\ Len(t) = k - 1  BY <1>2, <1>3
  <2> HIDE DEF w
  <2>2. /\ w \o t \in Seq(U) /\ Len(w \o t) = Len(w) + Len(t)
        /\ \A i \in 1 .. Len(w) + Len(t) :
              (w \o t)[i] = IF i <= Len(w) THEN w[i] ELSE t[i - Len(w)]
    BY <2>1, ConcatProperties
  <2>3. Len(w) + Len(t) = k  BY <1>1, <2>1
  <2> QED  BY <2>1, <2>2, <2>3 DEF w
<1> HIDE DEF u, k
<1>5. Len(u) = k  BY <1>1, <1>4
<1>6. u # <<>>  BY <1>1, <1>5
<1>7. u[1] = f
  <2>1. 1 \in 1 .. k  BY <1>1
  <2> QED  BY <1>3, <1>4, <2>1
<1>8. ASSUME NEW i \in 2 .. k PROVE u[i] = s[i]
  <2>1. i \in 1 .. k /\ ~(i <= 1) /\ i - 1 \in 1 .. k - 1 /\ (i - 1) + 1 = i  BY <1>1
  <2>2. t[i - 1] = s[(i - 1) + 1]  BY <1>2, <2>1
  <2> QED  BY <1>4, <2>1, <2>2
<1> QED  BY <1>1, <1>5, <1>6, <1>7, <1>8 DEF u, t, k

LEMMA CallStays ==
  ASSUME NEW d, NEW F, NEW s \in Seq(F), s # <<>>, NEW o, Path(d, o, s), NEW f
  PROVE  LET u == <<f>> \o Tail(s)
         IN  u # <<>> /\ u[1] = f /\ Path(d, o, u)
<1> DEFINE u == <<f>> \o Tail(s)
<1>1. /\ Len(u) = Len(s) /\ Len(s) \in Nat /\ Len(s) > 0 /\ u # <<>> /\ u[1] = f
      /\ \A i \in 2 .. Len(s) : u[i] = s[i]
  BY TopReplaced
<1> HIDE DEF u
<1>2. Path(d, o, u)  BY <1>1 DEF Path
<1> QED  BY <1>1, <1>2 DEF u

LEMMA CallLeaves ==
  ASSUME NEW d, NEW F, NEW s \in Seq(F), s # <<>>, NEW o, Path(d, o, s),
         \A j \in DOMAIN d : /\ d[j].depth \in Nat
                             /\ d[j].parent \in DOMAIN d =>
                                   d[d[j].parent].depth + 1 = d[j].depth
  PROVE  \E u : /\ Path(d, u, Tail(s))
                /\ IF Tail(s) = <<>> THEN o[1] = Len(d)
                   ELSE /\ d[o[1]].parent = u[1] /\ u[1] \in DOMAIN d
                        /\ Tail(s)[1] = CallFor(d, u[1], "child", Null, d[o[1]].first - 1)
<1> DEFINE k == Len(s)
           t == Tail(s)
           u == [i \in 1 .. k - 1 |-> o[i + 1]]
<1>1. k \in Nat /\ k > 0  BY SeqOver
<1>2. t \in Seq(F) /\ Len(t) = k - 1 /\ \A i \in 1 .. k - 1 : t[i] = s[i + 1]
  OBVIOUS
<1>3. /\ o \in [1 .. k -> DOMAIN d] /\ d[o[1]].depth = k /\ o[k] = Len(d)
      /\ \A i \in 2 .. k : /\ d[o[i - 1]].parent = o[i]
                           /\ s[i] = CallFor(d, o[i], "child", Null, d[o[i - 1]].first - 1)
  BY DEF Path
<1> HIDE DEF k, t
<1>4. t = <<>> => k = 1  BY <1>1, <1>2
<1>5. t # <<>> => k > 1
  <2>1. t # <<>> => Len(t) > 0  BY <1>2, SeqOver
  <2> QED  BY <1>1, <1>2, <2>1
<1>6. u \in [1 .. k - 1 -> DOMAIN d] /\ \A i \in 1 .. k - 1 : u[i] = o[i + 1]
  <2>1. \A i \in 1 .. k - 1 : i + 1 \in 1 .. k  BY <1>1
  <2> QED  BY <1>3, <2>1
<1> HIDE DEF u
<1>7. ASSUME k > 1
      PROVE  /\ u[1] = o[2] /\ u[1] \in DOMAIN d /\ d[o[1]].parent = u[1]
             /\ t[1] = CallFor(d, u[1], "child", Null, d[o[1]].first - 1)
             /\ d[u[1]].depth = k - 1 /\ u[k - 1] = Len(d)
  <2>1. 1 \in 1 .. k - 1 /\ 1 + 1 = 2 /\ 2 \in 2 .. k /\ 2 - 1 = 1
        /\ k - 1 \in 1 .. k - 1 /\ (k - 1) + 1 = k
    BY <1>1, <1>7
  <2>2. u[1] = o[2] /\ u[1] \in DOMAIN d /\ t[1] = s[2] /\ u[k - 1] = o[k]
    BY <1>2, <1>6, <2>1
  <2>3. /\ d[o[1]].parent = o[2]
        /\ s[2] = CallFor(d, o[2], "child", Null, d[o[1]].first - 1)
    BY <1>3, <2>1
  <2>4. o[1] \in DOMAIN d /\ 1 \in 1 .. k  BY <1>1, <1>3
  <2>5. d[u[1]].depth + 1 = d[o[1]].depth /\ d[u[1]].depth \in Nat
    BY <2>2, <2>3, <2>4
  <2>6. d[u[1]].depth = k - 1
    <3>1. d[o[1]].depth = k  BY <1>3
    <3> QED  BY ONLY <1>1, <2>5, <3>1
  <2> QED  BY <1>3, <2>2, <2>3, <2>6
<1>8. Path(d, u, t)
  <2>1. ASSUME NEW i \in 2 .. k - 1
        PROVE  /\ d[u[i - 1]].parent = u[i]
               /\ t[i] = CallFor(d, u[i], "child", Null, d[u[i - 1]].first - 1)
    <3>1. /\ i \in 1 .. k - 1 /\ i - 1 \in 1 .. k - 1 /\ (i - 1) + 1 = i
          /\ i + 1 \in 2 .. k /\ (i + 1) - 1 = i
      BY <1>1
    <3>2. u[i] = o[i + 1] /\ u[i - 1] = o[i] /\ t[i] = s[i + 1]  BY <1>2, <1>6, <3>1
    <3>3. /\ d[o[i]].parent = o[i + 1]
          /\ s[i + 1] = CallFor(d, o[i + 1], "child", Null, d[o[i]].first - 1)
      BY <1>3, <3>1
    <3> QED  BY <3>2, <3>3
  <2>2. t # <<>> => d[u[1]].depth = Len(t) /\ u[Len(t)] = Len(d)
    BY <1>2, <1>5, <1>7
  <2> QED  BY <1>2, <1>6, <2>1, <2>2 DEF Path
<1>9. t = <<>> => o[1] = Len(d)  BY <1>3, <1>4
<1> QED  BY <1>5, <1>7, <1>8, <1>9 DEF t

LEMMA PathDescends ==
  ASSUME NEW d, NEW F, NEW s \in Seq(F), s # <<>>, NEW o, Path(d, o, s),
         NEW c \in DOMAIN d, d[c].parent = o[1], d[c].depth = d[o[1]].depth + 1,
         NEW g, NEW f, f = CallFor(d, o[1], "child", Null, d[c].first - 1)
  PROVE  LET r == <<g, f>> \o Tail(s)
         IN  r # <<>> /\ r[1] = g /\ \E u : u[1] = c /\ Path(d, u, r)
<1> DEFINE k == Len(s)
           t == <<f>> \o Tail(s)
           r == <<g, f>> \o Tail(s)
           u == [i \in 1 .. k + 1 |-> IF i = 1 THEN c ELSE o[i - 1]]
           U == F \cup {f, g}
<1>1. /\ Len(t) = k /\ k \in Nat /\ k > 0 /\ t[1] = f
      /\ \A i \in 2 .. k : t[i] = s[i]
  BY TopReplaced
<1>2. s \in Seq(U)  BY SeqOver
<1>3. t \in Seq(U) /\ r = <<g>> \o t
  <2> DEFINE w == Tail(s)
  <2>1. <<f>> \in Seq(U) /\ <<g>> \in Seq(U) /\ w \in Seq(U)  BY <1>2
  <2> HIDE DEF w, U
  <2>2. (<<g>> \o <<f>>) \o w = <<g>> \o (<<f>> \o w) /\ <<f>> \o w \in Seq(U)
    BY <2>1, ConcatAssociative, ConcatProperties
  <2>3. <<g>> \o <<f>> = <<g, f>>
    <3> DEFINE a == <<g>> \o <<f>>
               b == <<g, f>>
    <3>1. a \in Seq(U) /\ Len(a) = 2 /\ b \in Seq(U) /\ Len(b) = 2
      BY <2>1, ConcatProperties DEF U
    <3>2. \A i \in 1 .. 2 : a[i] = b[i]  OBVIOUS
    <3> HIDE DEF a, b
    <3>3. a = b  BY <3>1, <3>2, SeqIs
    <3> QED  BY <3>3 DEF a, b
  <2> QED  BY <2>2, <2>3 DEF w
<1> HIDE DEF t
<1>4. /\ Len(r) = k + 1 /\ r # <<>> /\ r[1] = g
      /\ \A i \in 2 .. k + 1 : r[i] = t[i - 1]
  <2> DEFINE w == <<g>>
  <2>1. w \in Seq(U) /\ Len(w) = 1 /\ w[1] = g /\ r = w \o t  BY <1>3
  <2> HIDE DEF w, r, k, U
  <2>2. /\ Len(w \o t) = Len(w) + Len(t) /\ w \o t \in Seq(U)
        /\ \A i \in 1 .. Len(w) + Len(t) :
              (w \o t)[i] = IF i <= Len(w) THEN w[i] ELSE t[i - Len(w)]
    BY <1>3, <2>1, ConcatProperties
  <2>3. Len(w) + Len(t) = k + 1  BY <1>1, <2>1
  <2>4. 1 \in 1 .. k + 1 /\ \A i \in 2 .. k + 1 : i \in 1 .. k + 1 /\ ~(i <= 1)
    BY <1>1
  <2>5. r[1] = g  BY <2>1, <2>2, <2>3, <2>4
  <2>6. \A i \in 2 .. k + 1 : r[i] = t[i - 1]  BY <2>1, <2>2, <2>3, <2>4
  <2>7. Len(r) = k + 1  BY <2>1, <2>2, <2>3
  <2>8. r # <<>>  BY <1>1, <2>7
  <2> QED  BY <2>5, <2>6, <2>7, <2>8
<1>5. /\ o \in [1 .. k -> DOMAIN d] /\ d[o[1]].depth = k /\ o[k] = Len(d)
      /\ \A i \in 2 .. k : /\ d[o[i - 1]].parent = o[i]
                           /\ s[i] = CallFor(d, o[i], "child", Null, d[o[i - 1]].first - 1)
  BY DEF Path
<1> HIDE DEF k, r
<1>6. /\ u \in [1 .. k + 1 -> DOMAIN d] /\ u[1] = c
      /\ \A i \in 2 .. k + 1 : u[i] = o[i - 1]
  <2>1. /\ \A i \in 1 .. k + 1 : i # 1 => i - 1 \in 1 .. k
        /\ 1 \in 1 .. k + 1 /\ \A i \in 2 .. k + 1 : i \in 1 .. k + 1 /\ i # 1
    BY <1>1
  <2> QED  BY <1>5, <2>1
<1> HIDE DEF u
<1>7. d[u[1]].depth = k + 1  BY <1>5, <1>6
<1>8. u[k + 1] = Len(d)
  <2>1. k + 1 \in 2 .. k + 1 /\ (k + 1) - 1 = k  BY <1>1
  <2> QED  BY <1>5, <1>6, <2>1
<1>9. ASSUME NEW i \in 2 .. k + 1
      PROVE  /\ d[u[i - 1]].parent = u[i]
             /\ r[i] = CallFor(d, u[i], "child", Null, d[u[i - 1]].first - 1)
  <2>1. CASE i = 2
    <3>1. i - 1 = 1 /\ u[i] = o[1] /\ r[i] = f  BY <1>1, <1>4, <1>6, <2>1
    <3> QED  BY <1>6, <3>1
  <2>2. CASE i # 2
    <3>1. i - 1 \in 2 .. k /\ i - 1 \in 2 .. k + 1 /\ i - 1 - 1 = (i - 1) - 1
      BY <1>1, <2>2
    <3>2. u[i] = o[i - 1] /\ u[i - 1] = o[(i - 1) - 1] /\ r[i] = s[i - 1]
      BY <1>1, <1>4, <1>6, <3>1
    <3> QED  BY <1>5, <3>1, <3>2
  <2> QED  BY <2>1, <2>2
<1>10. Path(d, u, r)  BY <1>4, <1>6, <1>7, <1>8, <1>9 DEF Path
<1> QED  BY <1>4, <1>6, <1>10 DEF r

-----------------------------------------------------------------------------
(* What a step leaves as it is, and where it comes to. *)

LEMMA SameDocument ==
  ASSUME input' = input
  PROVE  /\ Document' = Document /\ Text' = Text /\ Length' = Length /\ Tree' = Tree
         /\ \A n : Ended(n)' <=> Ended(n)
BY DEF Document, Text, Length, Tree, Ended

LEMMA Arrives ==
  ASSUME input' = input, NEW p \in 1 .. Length + 1, position' = Clamp(p),
         Length \in Nat, p > Length => Length > 0 /\ Text[p - 1] = ">"
  PROVE  Comes(p)'
<1>1. Text' = Text /\ Length' = Length  BY SameDocument
<1>2. p = Length + 1 => Length > 0 /\ Text[Length] = ">"
  <2>1. p = Length + 1 => p > Length /\ p - 1 = Length  OBVIOUS
  <2> QED  BY <2>1
<1>3. position' = IF p > Length' THEN Length' ELSE p  BY <1>1 DEF Clamp
<1> QED  BY <1>1, <1>2, <1>3 DEF Comes, Clamp

LEMMA NotAllOfIt ==
  ASSUME input \in Inputs, Document # Unknown, NEW j \in 1 .. Len(Document),
         After(Document[j]) > Length + 1
  PROVE  ~Whole(Document, Text)
<1>1. /\ j \in DOMAIN Document /\ After(Document[j]) \in Nat
      /\ Len(Text) = Length /\ Length \in Nat
  <2>1. DOMAIN Document = 1 .. Len(Document) /\ Document[j] \in Elements  BY DocumentIs
  <2>2. After(Document[j]) \in Nat  BY <2>1, ElementType
  <2> QED  BY <2>1, <2>2, TextIs DEF Length
<1>2. ~(After(Document[j]) <= Len(Text) + 1)  BY <1>1
<1> QED  BY <1>1, <1>2 DEF Whole

LEMMA GivesUp ==
  ASSUME IInv, stage = "parse", stack # <<>>, Fail, ~Whole(Document, Text)
  PROVE  stage' = "parse" /\ Lost'
<1>1. /\ stack' = Tail(stack) /\ returned' = <<>> /\ stage' = "parse" /\ input' = input
  BY DEF Fail
<1>2. stack' # <<>> => Top'.at = "child"
  <2>1. Waiting(Tail(stack)) /\ Tail(stack) \in Seq(Frames)  BY Running
  <2> DEFINE t == Tail(stack)
  <2>2. t # <<>> => 1 \in DOMAIN t
    <3> HIDE DEF t
    <3> QED  BY <2>1 DEF t
  <2>3. t # <<>> => t[1].at = "child"  BY <2>1, <2>2 DEF Waiting
  <2> QED  BY <1>1, <2>3 DEF Top
<1>3. ~Whole(Document', Text')  BY <1>1, SameDocument
<1> QED  BY <1>1, <1>2, <1>3 DEF Lost

(* On course, in the call for element o[1]. *)
Steering(o, n) ==
    /\ IInv /\ stage = "parse" /\ stack # <<>> /\ Document # Unknown
    /\ Path(Document, o, stack) /\ Ended(n) /\ InCall(o[1], n)

LEMMA WhereItIs ==
  ASSUME NEW o, NEW n, Steering(o, n)
  PROVE  /\ input \in Inputs /\ stack \in Seq(Frames) /\ Top \in Frames
         /\ o[1] \in 1 .. Len(Document) /\ o[1] \in Nat /\ Document[o[1]] \in Elements
         /\ Document[o[1]].first \in 1 .. o[1]
         /\ Document[o[1]].depth = Len(stack)
         /\ n \in 0 .. Len(Document) /\ n \in Nat /\ Length \in Nat
         /\ Len(Document) \in Nat
         /\ Top.at # "child" => returned = <<>>
         /\ Top.at = "open" => AtOpen(o[1], n)
         /\ Top.at = "body" => AtBody(o[1], n)
         /\ Top.at = "children" => AtChildren(o[1], n)
         /\ Top.at = "child" => AtChild(o[1], n)
         /\ Top.at = "close" => AtClose(o[1], n)
<1>0. /\ IInv /\ stage = "parse" /\ stack # <<>> /\ Document # Unknown
      /\ Path(Document, o, stack) /\ Ended(n) /\ InCall(o[1], n)
  BY DEF Steering
<1>1. input \in Inputs /\ stack \in Seq(Frames)  BY <1>0 DEF IInv, TypeOK
<1>2. Top \in Frames  BY <1>0, Running
<1>3. /\ Top.at # "child" => returned = <<>>
  BY <1>0, NoneReturned
<1>4. /\ DOMAIN Document = 1 .. Len(Document) /\ Len(Document) \in Nat
      /\ \A j \in 1 .. Len(Document) : Document[j] \in Elements
  BY <1>0, <1>1, DocumentIs
<1>5. Len(stack) \in Nat /\ Len(stack) > 0  BY <1>0, <1>1, SeqOver
<1>6. o[1] \in 1 .. Len(Document) /\ Document[o[1]].depth = Len(stack)
  <2>1. 1 \in 1 .. Len(stack)  BY <1>5
  <2> QED  BY <1>0, <1>4, <2>1 DEF Path
<1>7. o[1] \in Nat /\ Document[o[1]].first \in 1 .. o[1] /\ Document[o[1]] \in Elements
  <2> DEFINE j == o[1]
  <2>1. j \in 1 .. Len(Document)  BY <1>6
  <2>2. input \in Inputs /\ Document # Unknown  BY <1>0, <1>1
  <2> HIDE DEF j
  <2>3. Document[j].first \in 1 .. j  BY ONLY <2>1, <2>2, ElementIs
  <2>4. j \in Nat /\ Document[j] \in Elements  BY ONLY <1>4, <2>1
  <2> QED  BY <2>3, <2>4 DEF j
<1>8. n \in 0 .. Len(Document) /\ n \in Nat  BY <1>0, <1>4 DEF Ended
<1>9. Length \in Nat  BY <1>1, TextIs
<1>10. /\ Top.at = "open" => AtOpen(o[1], n)
       /\ Top.at = "body" => AtBody(o[1], n)
       /\ Top.at = "children" => AtChildren(o[1], n)
       /\ Top.at = "child" => AtChild(o[1], n)
       /\ Top.at = "close" => AtClose(o[1], n)
  <2>1. AtOpen(o[1], n) => Top.at = "open"  BY DEF AtOpen, Call
  <2>2. AtBody(o[1], n) => Top.at = "body"  BY DEF AtBody, CallFor
  <2>3. AtChildren(o[1], n) => Top.at = "children"  BY DEF AtChildren, CallFor
  <2>4. AtChild(o[1], n) => Top.at = "child"  BY DEF AtChild, CallFor
  <2>5. AtClose(o[1], n) => Top.at = "close"  BY DEF AtClose, CallFor
  <2> QED  BY <1>0, <2>1, <2>2, <2>3, <2>4, <2>5 DEF InCall
<1> QED  BY <1>1, <1>2, <1>3, <1>4, <1>6, <1>7, <1>8, <1>9, <1>10

Goes == stage' = "parse" /\ (OnCourse' \/ Lost')

(* The call goes on as f. *)
LEMMA GoesOnAs ==
  ASSUME NEW o, NEW n, Steering(o, n), NEW f, stack' = <<f>> \o Tail(stack),
         stage' = stage, input' = input, NEW m, Ended(m),
         Top' = f => InCall(o[1], m)'
  PROVE  Goes
<1>1. /\ stage = "parse" /\ stack # <<>> /\ Path(Document, o, stack) /\ stack \in Seq(Frames)
  BY WhereItIs DEF Steering
<1>2. stack' # <<>> /\ Top' = f /\ Path(Document, o, stack')
  <2> DEFINE u == <<f>> \o Tail(stack)
  <2>1. u # <<>> /\ u[1] = f /\ Path(Document, o, u)  BY <1>1, CallStays
  <2> HIDE DEF u
  <2>2. stack' = u  BY DEF u
  <2> QED  BY <2>1, <2>2 DEF Top
<1>3. Document' = Document /\ Ended(m)'  BY SameDocument
<1>4. OnCourse'
  <2>1. Path(Document', o, stack') /\ Ended(m)' /\ InCall(o[1], m)' /\ stack' # <<>>
    BY <1>2, <1>3
  <2> QED  BY <2>1 DEF OnCourse
<1> QED  BY <1>1, <1>4 DEF Goes

(* The call has made its node and returns. *)
LEMMA Returns ==
  ASSUME NEW o, NEW n, Steering(o, n), n = o[1] - 1,
         Top.tag = TagOf(Document[o[1]]),
         Top.children = SubSeq(Tree, Document[o[1]].first, n),
         NEW content, content = Document[o[1]].content, Create(content),
         After(Document[o[1]]) <= Length + 1, Comes(After(Document[o[1]]))'
  PROVE  Goes
<1> DEFINE j == o[1]
           e == Document[j]
           t == Tail(stack)
<1>1. /\ input \in Inputs /\ stack \in Seq(Frames) /\ j \in 1 .. Len(Document) /\ j \in Nat
      /\ e \in Elements /\ e.first \in 1 .. j /\ e.depth = Len(stack)
      /\ n \in Nat /\ Len(Document) \in Nat /\ Length \in Nat
  BY WhereItIs
<1>2. /\ stage = "parse" /\ stack # <<>> /\ Document # Unknown
      /\ Path(Document, o, stack) /\ Ended(n)
  BY DEF Steering
<1>3. /\ stack' = t /\ stage' = stage /\ input' = input
      /\ returned' = Append(Top.children,
                            [name |-> NameOf(Top.tag), attributes |-> AttributesOf(Top.tag),
                             content |-> content, depth |-> Len(stack)])
  BY DEF Create
<1>4. [name |-> NameOf(Top.tag), attributes |-> AttributesOf(Top.tag),
       content |-> content, depth |-> Len(stack)] = NodeFor(e)
  BY <1>1, NameOfTag, AttributesOfTag DEF NodeFor
<1>5. /\ Append(SubSeq(Tree, e.first, n), NodeFor(e)) = SubSeq(Tree, e.first, j)
      /\ e.first = 1 /\ j = Len(Document) => SubSeq(Tree, e.first, j) = Tree
  <2> DEFINE a == e.first
             k == Len(Document)
  <2>1. /\ a \in Nat /\ 0 < a /\ a <= n + 1 /\ n <= n /\ n <= k /\ n + 1 <= k
        /\ n + 1 = j /\ a <= j + 1 /\ j <= j /\ j <= k
    <3> HIDE DEF a, j, k
    <3>1. a \in 1 .. j /\ j \in 1 .. k /\ j \in Nat /\ k \in Nat /\ n = j - 1  BY <1>1 DEF a, j, k
    <3> QED  BY ONLY <3>1
  <2> HIDE DEF a
  <2>2. Append(SubSeq(Tree, a, n), NodeFor(Document[n + 1])) = SubSeq(Tree, a, n + 1)
    BY <1>1, <1>2, <2>1, TreePieces
  <2>3. a = 1 /\ j = k => SubSeq(Tree, a, j) = Tree
    BY <1>1, <1>2, <2>1, TreePieces
  <2> QED  BY <2>1, <2>2, <2>3 DEF a
<1>6. returned' = SubSeq(Tree, e.first, j)  BY <1>3, <1>4, <1>5
<1>7. Ended(j)
  <2>1. \A i \in 1 .. j : i = j \/ i \in 1 .. n  BY <1>1
  <2>2. j \in 0 .. Len(Document)  BY <1>1
  <2> QED  BY <1>2, <2>1, <2>2 DEF Ended
<1>8. /\ Document' = Document /\ Tree' = Tree /\ Ended(j)'  BY <1>3, <1>7, SameDocument
<1>9. PICK u : /\ Path(Document, u, t)
               /\ IF t = <<>> THEN j = Len(Document)
                  ELSE /\ e.parent = u[1] /\ u[1] \in DOMAIN Document
                       /\ t[1] = CallFor(Document, u[1], "child", Null, e.first - 1)
  <2>1. \A i \in DOMAIN Document : /\ Document[i].depth \in Nat
                                   /\ Document[i].parent \in DOMAIN Document =>
                                        Document[Document[i].parent].depth + 1
                                           = Document[i].depth
    <3> SUFFICES ASSUME NEW i \in DOMAIN Document
                 PROVE  /\ Document[i].depth \in Nat
                        /\ Document[i].parent \in DOMAIN Document =>
                              Document[Document[i].parent].depth + 1 = Document[i].depth
      OBVIOUS
    <3>1. /\ DOMAIN Document = 1 .. Len(Document) /\ i \in 1 .. Len(Document)
          /\ Document[i] \in Elements
      BY <1>1, <1>2, DocumentIs
    <3>2. Document[i].depth \in Nat  BY <3>1, ElementType
    <3>3. Document[i].parent # 0 => Document[Document[i].parent].depth + 1 = Document[i].depth
      BY <1>1, <1>2, <3>1, ElementIs
    <3>4. Document[i].parent \in DOMAIN Document => Document[i].parent # 0  BY <3>1
    <3> QED  BY <3>2, <3>3, <3>4
  <2>2. stack \in Seq(Frames) /\ stack # <<>> /\ Path(Document, o, stack)  BY <1>1, <1>2
  <2> DEFINE d == Document
  <2>3. \A i \in DOMAIN d : /\ d[i].depth \in Nat
                            /\ d[i].parent \in DOMAIN d =>
                                  d[d[i].parent].depth + 1 = d[i].depth
    BY <2>1
  <2>4. Path(d, o, stack)  BY <2>2
  <2> HIDE DEF d
  <2>5. \E u : /\ Path(d, u, t)
               /\ IF t = <<>> THEN o[1] = Len(d)
                  ELSE /\ d[o[1]].parent = u[1] /\ u[1] \in DOMAIN d
                       /\ t[1] = CallFor(d, u[1], "child", Null, d[o[1]].first - 1)
    BY ONLY <2>2, <2>3, <2>4, CallLeaves
  <2> QED  BY <2>5 DEF d
<1>10. CASE t = <<>>
  <2>1. j = Len(Document) /\ stack' = <<>>  BY <1>3, <1>9, <1>10
  <2>2. e.first = 1  BY <1>1, <1>2, <2>1, ElementIs
  <2>3. returned' = Tree  BY <1>5, <1>6, <2>1, <2>2
  <2>4. AtEnd(j)'  BY <1>8, <2>1, <2>3 DEF AtEnd
  <2>5. Path(Document', u, stack')  BY <1>3, <1>8, <1>9
  <2>6. OnCourse'  BY <1>8, <2>1, <2>4, <2>5 DEF OnCourse
  <2> QED  BY <1>2, <1>3, <2>6 DEF Goes
<1>11. CASE t # <<>>
  <2>1. /\ Document[j].parent = u[1] /\ stack' # <<>>
        /\ Top' = CallFor(Document, u[1], "child", Null, Document[j].first - 1)
    BY <1>3, <1>9, <1>11 DEF Top
  <2>2. AtChild(u[1], j)'
    <3>1. j > 0 /\ Comes(After(Document[j]))'  BY <1>1
    <3>2. returned' = SubSeq(Tree', Document'[j].first, j)  BY <1>6, <1>8
    <3>3. Document'[j].parent = u[1]
      BY <1>8, <2>1
    <3>4. Top' = CallFor(Document', u[1], "child", Null, Document'[j].first - 1)
      BY <1>8, <2>1
    <3> HIDE DEF j
    <3> QED  BY <1>8, <3>1, <3>2, <3>3, <3>4 DEF AtChild
  <2>3. Path(Document', u, stack')  BY <1>3, <1>8, <1>9
  <2>4. OnCourse'  BY <1>8, <2>1, <2>2, <2>3 DEF OnCourse, InCall
  <2> QED  BY <1>2, <1>3, <2>4 DEF Goes
<1> QED  BY <1>10, <1>11

-----------------------------------------------------------------------------
(* Every action keeps the parser on course, or finds the text cut off. *)

LEMMA NoChildrenYet ==
  ASSUME NEW o, NEW n, Steering(o, n), n = Document[o[1]].first - 1
  PROVE  SubSeq(Tree, Document[o[1]].first, n) = <<>>
<1> DEFINE a == Document[o[1]].first
<1>1. /\ input \in Inputs /\ Document # Unknown /\ n \in Nat /\ n <= Len(Document)
      /\ a \in Nat /\ 0 < a
  <2>1. Document # Unknown  BY DEF Steering
  <2>2. input \in Inputs /\ n \in 0 .. Len(Document) /\ Len(Document) \in Nat
    BY WhereItIs
  <2>3. a \in 1 .. o[1] /\ o[1] \in Nat  BY WhereItIs
  <2> HIDE DEF a
  <2> QED  BY <2>1, <2>2, <2>3
<1> HIDE DEF a
<1>2. a = n + 1  BY <1>1 DEF a
<1>3. a <= n + 1 /\ n <= n  BY <1>1, <1>2
<1>4. SubSeq(Tree, a, n) = <<>>  BY <1>1, <1>2, <1>3, TreePieces
<1> QED  BY <1>4 DEF a

LEMMA CourseOpens ==
  ASSUME NEW o, NEW n, Steering(o, n), OpenTag
  PROVE  Goes
<1> DEFINE j == o[1]
           e == Document[j]
           tag == TagOpen(position)
           body == Body(e)
<1>1. IInv /\ Document # Unknown /\ stage = "parse" /\ stack # <<>> /\ Ended(n)
  BY DEF Steering
<1>2. /\ input \in Inputs /\ j \in 1 .. Len(Document) /\ e \in Elements
      /\ Length \in Nat /\ Top \in Frames /\ AtOpen(j, n)
  BY WhereItIs DEF OpenTag, At
<1>3. PICK p \in Nat : Comes(p) /\ Blank(Text, p, e.open)  BY <1>2 DEF AtOpen
<1>4. Top = Call /\ n = e.first - 1  BY <1>2 DEF AtOpen
<1>5. Tagged(e, Text) /\ Body(e) <= After(e)  BY <1>1, <1>2, ElementIs
<1>6. /\ Body(e) <= Length + 1 => /\ tag.ok /\ tag.name = TagOf(e)
                                  /\ tag.next = Clamp(body) /\ Text[body - 1] = ">"
      /\ Body(e) > Length + 1 => ~tag.ok
  BY <1>2, <1>3, <1>5, ReadsOpeningTag
<1>7. IF tag.ok
      THEN /\ Become(WithTag(Top, "body", tag.name))
           /\ position' = tag.next
           /\ UNCHANGED <<input, stage>>
      ELSE Fail
  BY DEF OpenTag, WithTag
<1>8. body \in Nat /\ After(e) \in Nat /\ e.open \in Nat /\ e.open > 0 /\ body > e.open
  <2>1. /\ Body(e) \in Nat /\ After(e) \in Nat /\ e.open \in Nat /\ e.open > 0
        /\ Body(e) = e.open + TagLength(e) + 2 /\ TagLength(e) \in Nat
    BY <1>2, ElementType
  <2> HIDE DEF e
  <2> QED  BY ONLY <2>1 DEF body
<1> HIDE DEF tag
<1>9. CASE body > Length + 1
  <2>1. After(e) > Length + 1  BY <1>2, <1>5, <1>8, <1>9
  <2>2. ~Whole(Document, Text)  BY <1>1, <1>2, <2>1, NotAllOfIt
  <2> QED  BY <1>1, <1>6, <1>7, <1>9, <2>2, GivesUp DEF Goes
<1>10. CASE ~(body > Length + 1)
  <2> DEFINE f == CallFor(Document, j, "body", Null, n)
  <2>1. /\ tag.ok /\ tag.name = TagOf(e) /\ tag.next = Clamp(body) /\ Text[body - 1] = ">"
        /\ body <= Length + 1
    BY <1>2, <1>6, <1>8, <1>10
  <2>2. WithTag(Top, "body", TagOf(e)) = f
    <3>1. WithTag(Top, "body", TagOf(e))
             = [at |-> "body", tag |-> TagOf(e), content |-> Top.content,
                children |-> Top.children]
      BY <1>2, Excepts
    <3>2. Top.content = Null /\ Top.children = <<>>  BY <1>4 DEF Call
    <3>3. SubSeq(Tree, e.first, n) = <<>>  BY <1>4, NoChildrenYet
    <3> QED  BY <3>1, <3>2, <3>3 DEF CallFor, Tree
  <2>3. stack' = <<f>> \o Tail(stack) /\ position' = Clamp(body) /\ UNCHANGED <<input, stage>>
    BY <1>7, <2>1, <2>2 DEF Become
  <2>4. PICK b : b = body  OBVIOUS
  <2>5. Comes(b)'
    <3>1. body \in 1 .. Length + 1 /\ (body > Length => Length > 0)
      <4> HIDE DEF body, e
      <4> QED  BY ONLY <1>2, <1>8, <2>1
    <3>2. Text[body - 1] = ">" /\ position' = Clamp(body) /\ input' = input
      BY <2>1, <2>3
    <3> HIDE DEF body
    <3>3. /\ input' = input /\ b \in 1 .. Length + 1 /\ position' = Clamp(b)
          /\ Length \in Nat /\ (b > Length => Length > 0 /\ Text[b - 1] = ">")
      BY ONLY <1>2, <2>4, <3>1, <3>2
    <3> QED  BY ONLY <3>3, Arrives
  <2>6. ASSUME Top' = f PROVE InCall(j, n)'
    <3>1. Document' = Document  BY <2>3, SameDocument
    <3>2. Comes(Body(Document[j]))'  BY <2>4, <2>5, <3>1 DEF Comes, Clamp
    <3>3. Top' = CallFor(Document', j, "body", Null, n) /\ n = Document'[j].first - 1
      BY <1>4, <2>6, <3>1
    <3> HIDE DEF j, f
    <3>4. AtBody(j, n)'  BY <3>2, <3>3 DEF AtBody
    <3> QED  BY <3>4 DEF InCall
  <2> HIDE DEF f
  <2> QED  BY <1>1, <2>3, <2>6, GoesOnAs
<1> QED  BY <1>9, <1>10

LEMMA CourseClosesItself ==
  ASSUME NEW o, NEW n, Steering(o, n), ClosesItself
  PROVE  Goes
<1> DEFINE j == o[1]
           e == Document[j]
<1>1. Document # Unknown  BY DEF Steering
<1>2. /\ input \in Inputs /\ j \in 1 .. Len(Document) /\ j \in Nat /\ e \in Elements
      /\ AtBody(j, n)
  BY WhereItIs DEF ClosesItself, At
<1>3. /\ Top = CallFor(Document, j, "body", Null, n) /\ n = e.first - 1
      /\ Comes(Body(e))
  BY <1>2 DEF AtBody
<1>4. Top.tag = TagOf(e) /\ Top.children = SubSeq(Tree, e.first, n)
  BY <1>3 DEF CallFor, Tree
<1>5. Single(e)
  <2>1. SelfClosing(Top.tag)  BY DEF ClosesItself
  <2> QED  BY <1>2, <1>4, <2>1, TagText
<1>6. e.first = j /\ e.content = Null  BY <1>1, <1>2, <1>5, ElementIs
<1>7. n = j - 1  BY <1>3, <1>6
<1>8. Create(Null) /\ UNCHANGED position /\ UNCHANGED input  BY DEF ClosesItself, Create
<1>9. After(e) = Body(e)  BY <1>5 DEF After
<1>10. After(e) <= Length + 1
  <2>1. Body(e) \in 1 .. Length + 1 /\ Length \in Nat  BY <1>3, WhereItIs DEF Comes
  <2> QED  BY <1>9, <2>1
<1>11. Comes(After(e))'
  <2>1. Document' = Document /\ Text' = Text /\ Length' = Length  BY <1>8, SameDocument
  <2> QED  BY <1>3, <1>8, <1>9, <2>1 DEF Comes, Clamp
<1> QED  BY <1>4, <1>6, <1>7, <1>8, <1>10, <1>11, Returns

(* What the parser sees where the closing tag of an element follows, or   *)
(* the text ends.                                                          *)
LEMMA ClosingFollows ==
  ASSUME input \in Inputs, Document # Unknown, NEW j \in 1 .. Len(Document),
         ~Single(Document[j]),
         NEW p \in Nat, Comes(p), Blank(Text, p, Document[j].close)
  PROVE  LET q == Document[j].close
         IN  /\ q <= Length => Peek(position) = "<"
             /\ q > Length => /\ Peek(position) # "<" /\ ~Content(position).ok
                              /\ ~Whole(Document, Text)
             /\ PeekNext(position) # "/" => /\ ~TagOpen(position).ok
                                            /\ ~Whole(Document, Text)
<1> DEFINE e == Document[j]
           q == e.close
           n == Len(e.name)
           s == SkipWhitespace(position)
<1>1. /\ e \in Elements /\ q \in Nat /\ n \in Nat /\ n > 0 /\ After(e) = q + n + 3
      /\ Length \in Nat
  <2>1. e \in Elements  BY DocumentIs
  <2>2. q \in Nat /\ n \in Nat /\ n > 0  BY <2>1, ElementType
  <2>3. After(e) = q + n + 3  BY DEF After
  <2> QED  BY <2>1, <2>2, <2>3, TextIs
<1>2. Tagged(e, Text)  BY ElementIs
<1>3. Blank(Text, p, q)  OBVIOUS
<1>4. p <= q /\ p \in 1 .. Length + 1 /\ q > 0
  <2>1. p <= q /\ p \in 1 .. Length + 1  BY <1>3, BlankIs DEF Comes
  <2> HIDE DEF q
  <2> QED  BY <1>1, <2>1
<1>5. /\ q <= Length => Text[q] = "<"
      /\ q + 1 <= Length => Text[q + 1] = "/"
  BY <1>1, <1>2, <1>4, ClosingTag
<1>6. q >= Length => ~Whole(Document, Text)
  <2>1. q >= Length => After(e) > Length + 1
    <3> HIDE DEF q, n, e
    <3> QED  BY <1>1
  <2> QED  BY <2>1, NotAllOfIt
<1>7. q <= Length => ~Space(q)  BY <1>5 DEF Space
<1> HIDE DEF q, e, n
<1>8. /\ q <= Length => /\ position = p /\ q \in 1 .. Length
                        /\ Peek(position) = Text[q]
                        /\ PeekNext(position) = Peek(q + 1) /\ s = q
      /\ q > Length => /\ Length > 0 /\ s = Length
                       /\ Peek(position) \in {Null, ">"}
                       /\ IsSpace(Text[Length]) \/ Text[Length] = ">"
  BY <1>1, <1>3, <1>7, NextIs
<1>9. q > Length => Peek(position) # "<" /\ ~Content(position).ok
  BY <1>1, <1>3, NothingFollows
<1>10. q + 1 <= Length => PeekNext(position) = "/"
  <2> SUFFICES ASSUME q + 1 <= Length PROVE PeekNext(position) = "/"
    OBVIOUS
  <2>1. q <= Length /\ q + 1 \in 1 .. Length  BY <1>1
  <2>2. ~Space(q + 1)  BY <1>5 DEF Space
  <2>3. Peek(q + 1) = Text[q + 1]  BY <2>1, <2>2, PeekSolid
  <2> QED  BY <1>5, <1>8, <2>1, <2>3
<1>11. ASSUME q >= Length PROVE ~TagOpen(position).ok
  <2>1. s = Length /\ Length > 0
    <3>1. q <= Length => q = Length  BY <1>1, <1>11
    <3>2. q <= Length => Length > 0 /\ s = Length  BY <1>1, <1>8, <3>1
    <3>3. q > Length => Length > 0 /\ s = Length  BY <1>8
    <3> QED  BY <1>1, <3>2, <3>3
  <2>2. Clamp(s + 1) = Length
    <3>1. Length + 1 > Length  BY <1>1
    <3> QED  BY <2>1, <3>1 DEF Clamp
  <2>3. Length \in 1 .. Length  BY <1>1, <2>1
  <2>4. TagOpen(position).ok = (TagEnd(Length).ok /\ Peek(Length) = "<")
    BY <2>1, <2>2 DEF TagOpen, TagEnd
  <2>5. CASE q > Length
    <3>1. Peek(Length) # "<"
      <4>1. IsSpace(Text[Length]) \/ Text[Length] = ">"  BY <1>8, <2>5
      <4>2. Peek(Length) \in {Null, ">"}  BY <2>1, <4>1, LastRead
      <4> QED  BY <4>2, Marks
    <3> QED  BY <2>4, <3>1
  <2>6. CASE ~(q > Length)
    <3>1. q = Length /\ q <= Length  BY <1>1, <1>11, <2>6
    <3>2. Text[Length] = "<"  BY <1>5, <3>1
    <3>3. \A r \in Length .. Length : r = Length  BY <1>1
    <3>4. ~TagEnd(Length).ok  BY <2>3, <3>2, <3>3, TagEndFails
    <3> QED  BY <2>4, <3>4
  <2> QED  BY <2>5, <2>6
<1>12. q <= Length => Peek(position) = "<"  BY <1>5, <1>8
<1>13. q > Length => ~Whole(Document, Text)  BY <1>1, <1>6
<1>14. PeekNext(position) # "/" => q >= Length  BY <1>1, <1>10
<1> QED  BY <1>6, <1>9, <1>11, <1>12, <1>13, <1>14 DEF q, e

(* And where an opening tag follows. *)
LEMMA OpeningFollows ==
  ASSUME input \in Inputs, Document # Unknown, NEW c \in 1 .. Len(Document),
         NEW p \in Nat, Comes(p), Blank(Text, p, Document[c].open)
  PROVE  LET q == Document[c].open
         IN  /\ q <= Length => Peek(position) = "<"
             /\ q > Length => /\ Peek(position) # "<" /\ ~Content(position).ok
                              /\ ~Whole(Document, Text)
             /\ PeekNext(position) # "/"
<1> DEFINE e == Document[c]
           q == e.open
           l == TagLength(e)
<1>1. /\ e \in Elements /\ q \in Nat /\ q > 0 /\ l \in Nat /\ l > 0 /\ Length \in Nat
      /\ After(e) \in Nat /\ Body(e) = q + l + 2 /\ Body(e) <= After(e)
      /\ Tagged(e, Text)
  <2>1. e \in Elements  BY DocumentIs
  <2>2. q \in Nat /\ q > 0 /\ After(e) \in Nat /\ Body(e) = q + l + 2  BY <2>1, ElementType
  <2>3. l \in Nat /\ l > 0  BY <2>1, TagText
  <2>4. Body(e) <= After(e) /\ Tagged(e, Text)  BY ElementIs
  <2> QED  BY <2>1, <2>2, <2>3, <2>4, TextIs
<1>2. Blank(Text, p, q)  OBVIOUS
<1>3. /\ q <= Length => Text[q] = "<"
      /\ \A i \in 1 .. l : q + i <= Length => Text[q + i] = TagOf(e)[i]
  BY <1>1, OpeningTag
<1>4. q + 1 <= Length => Text[q + 1] = e.name[1]
  <2>1. 1 \in 1 .. l  BY <1>1
  <2> QED  BY <1>1, <1>3, <2>1, TagText
<1>5. ~IsSpace(e.name[1]) /\ ~IsSlash(e.name[1])
  <2>1. Len(e.name) \in Nat /\ Len(e.name) > 0  BY <1>1, ElementType
  <2>2. 1 \in 1 .. Len(e.name)  BY <2>1
  <2> QED  BY <1>1, <2>2, ElementType
<1>6. q > Length => ~Whole(Document, Text)
  <2>1. q > Length => After(e) > Length + 1
    <3> DEFINE b == Body(e)
               a == After(e)
    <3>1. b = q + l + 2 /\ b <= a /\ a \in Nat  BY <1>1
    <3> HIDE DEF q, e, l, a, b
    <3>2. q > Length => a > Length + 1  BY <1>1, <3>1
    <3> QED  BY <3>2 DEF a
  <2> QED  BY <2>1, NotAllOfIt
<1>7. q <= Length => ~Space(q)  BY <1>3 DEF Space
<1> HIDE DEF q, e, l
<1>8. /\ q <= Length => /\ q \in 1 .. Length /\ Peek(position) = Text[q]
                        /\ PeekNext(position) = Peek(q + 1)
      /\ q > Length => PeekNext(position) = Null
  BY <1>1, <1>2, <1>7, NextIs
<1>9. q > Length => Peek(position) # "<" /\ ~Content(position).ok
  BY <1>1, <1>2, NothingFollows
<1>10. q <= Length => Peek(position) = "<"  BY <1>3, <1>8
<1>11. PeekNext(position) # "/"
  <2>1. CASE q > Length  BY <1>8, <2>1, Marks
  <2>2. CASE ~(q > Length)
    <3>1. q <= Length /\ q \in 1 .. Length  BY <1>1, <2>2
    <3>2. CASE q = Length
      <4>1. q + 1 \in Length + 1 .. Length + 1  BY <1>1, <3>2
      <4>2. Peek(q + 1) = Null  BY <4>1, PeekNone
      <4> QED  BY <1>8, <3>1, <4>2, Marks
    <3>3. CASE q # Length
      <4>1. q + 1 \in 1 .. Length /\ q + 1 <= Length  BY <1>1, <3>1, <3>3
      <4>2. Text[q + 1] = e.name[1]  BY <1>4, <4>1
      <4>3. ~Space(q + 1)  BY <1>5, <4>2 DEF Space, IsSpace
      <4>4. Peek(q + 1) = Text[q + 1]  BY <4>1, <4>3, PeekSolid
      <4> QED  BY <1>5, <1>8, <3>1, <4>2, <4>4 DEF IsSlash
    <3> QED  BY <3>2, <3>3
  <2> QED  BY <2>1, <2>2
<1> QED  BY <1>6, <1>9, <1>10, <1>11 DEF q, e

(* In an element without content, where it has begun and has no children   *)
(* yet, either its closing tag or a child is next.                         *)
LEMMA FirstFollows ==
  ASSUME NEW o, NEW n, Steering(o, n), AtBody(o[1], n),
         ~Single(Document[o[1]]), Document[o[1]].content = Null
  PROVE  \/ Peek(position) = "<"
         \/ ~Content(position).ok /\ ~Whole(Document, Text)
<1> DEFINE j == o[1]
           e == Document[j]
           p == Body(e)
<1>1. /\ input \in Inputs /\ Document # Unknown /\ j \in 1 .. Len(Document) /\ n \in Nat
      /\ e \in Elements /\ Length \in Nat /\ j \in Nat /\ Len(Document) \in Nat
  BY WhereItIs DEF Steering
<1>2. Comes(p) /\ n = e.first - 1  BY DEF AtBody
<1>3. GoesOnAt(Document, Text, j, n, p)  BY <1>1, <1>2, ElementIs
<1>4. p \in Nat  BY <1>1, ElementType
<1>5. CASE n = j - 1
  <2>1. Blank(Text, p, Document[j].close)  BY <1>3, <1>5 DEF GoesOnAt
  <2> HIDE DEF p, j
  <2>2. Document[j].close <= Length \/ Document[j].close > Length
    <3>1. Document[j].close \in Nat  BY <1>1, ElementType
    <3> QED  BY <1>1, <3>1
  <2>3. ~Single(Document[j])  BY DEF j
  <2> QED  BY <1>1, <1>2, <1>4, <2>1, <2>2, <2>3, ClosingFollows
<1>6. CASE n # j - 1
  <2>1. PICK c \in n + 1 .. j - 1 : Blank(Text, p, Document[c].open)
    BY <1>3, <1>6 DEF GoesOnAt
  <2>2. c \in 1 .. Len(Document)
    <3> HIDE DEF j
    <3> QED  BY <1>1, <2>1
  <2> HIDE DEF p, j
  <2>3. Document[c].open <= Length \/ Document[c].open > Length
    <3>1. Document[c].open \in Nat  BY <1>1, <2>2, DocumentIs, ElementType
    <3> QED  BY <1>1, <3>1
  <2> QED  BY <1>1, <1>2, <1>4, <2>1, <2>2, <2>3, OpeningFollows
<1> QED  BY <1>5, <1>6

LEMMA CourseReads ==
  ASSUME NEW o, NEW n, Steering(o, n), ParseContent
  PROVE  Goes
<1> DEFINE j == o[1]
           e == Document[j]
           text == Content(position)
<1>1. IInv /\ Document # Unknown /\ stage = "parse" /\ stack # <<>> /\ Ended(n)
  BY DEF Steering
<1>2. /\ input \in Inputs /\ j \in 1 .. Len(Document) /\ j \in Nat /\ e \in Elements
      /\ Length \in Nat /\ Top \in Frames /\ AtBody(j, n)
  BY WhereItIs DEF ParseContent, At
<1>3. /\ Top = CallFor(Document, j, "body", Null, n) /\ n = e.first - 1
      /\ Comes(Body(e))
  BY <1>2 DEF AtBody
<1>4. ~Single(e)
  <2>1. Top.tag = TagOf(e) /\ ~SelfClosing(Top.tag)  BY <1>3 DEF CallFor, ParseContent
  <2> QED  BY <1>2, <2>1, TagText
<1>5. Peek(position) # "<"  BY DEF ParseContent
<1>6. IF text.ok
      THEN /\ Become(WithContent(Top, "close", text.text))
           /\ position' = text.next
           /\ UNCHANGED <<input, stage>>
      ELSE Fail
  BY DEF ParseContent, WithContent
<1>7. CASE e.content = Null
  <2>1. ~text.ok /\ ~Whole(Document, Text)  BY <1>2, <1>4, <1>5, <1>7, FirstFollows
  <2> QED  BY <1>1, <1>6, <2>1, GivesUp DEF Goes
<1>8. CASE e.content # Null
  <2> DEFINE f == CallFor(Document, j, "close", e.content, n)
  <2>1. e.first = j /\ Filled(e, Text) /\ Tagged(e, Text)  BY <1>1, <1>2, <1>8, ElementIs
  <2>2. /\ e.close <= Length =>
              /\ text.ok /\ text.text = e.content
              /\ text.next = e.start + Len(e.content) /\ text.next \in 1 .. Length
        /\ e.close > Length => ~text.ok
    BY <1>2, <1>3, <1>8, <2>1, ReadsContent
  <2> HIDE DEF text
  <2>3. e.close \in Nat /\ Len(e.name) \in Nat /\ After(e) = e.close + Len(e.name) + 3
    BY <1>2, <1>4, ElementType DEF After
  <2>4. CASE e.close > Length
    <3>1. After(e) > Length + 1
      <4> DEFINE a == e.close
                 b == Len(e.name)
      <4> HIDE DEF a, b, e
      <4>1. a \in Nat /\ b \in Nat /\ After(e) = a + b + 3 /\ a > Length  BY <2>3, <2>4 DEF a, b
      <4> QED  BY ONLY <1>2, <4>1
    <3>2. ~Whole(Document, Text)  BY <1>1, <1>2, <3>1, NotAllOfIt
    <3> QED  BY <1>1, <1>6, <2>2, <2>4, <3>2, GivesUp DEF Goes
  <2>5. CASE ~(e.close > Length)
    <3>1. /\ text.ok /\ text.text = e.content
          /\ text.next = e.start + Len(e.content) /\ text.next \in 1 .. Length
      BY <1>2, <2>2, <2>3, <2>5
    <3>2. WithContent(Top, "close", e.content) = f
      <4>1. WithContent(Top, "close", e.content)
               = [at |-> "close", tag |-> Top.tag, content |-> e.content,
                  children |-> Top.children]
        BY <1>2, Excepts
      <4>2. /\ Top.tag = TagOf(e)
            /\ Top.children = SubSeq(TreeOf(Document), e.first, n)
        BY <1>3 DEF CallFor
      <4> QED  BY <4>1, <4>2 DEF CallFor
    <3>3. /\ stack' = <<f>> \o Tail(stack) /\ position' = text.next /\ input' = input
          /\ stage' = stage
      BY <1>6, <3>1, <3>2 DEF Become
    <3>4. PICK b : b = text.next  OBVIOUS
    <3>5. Comes(b)' /\ b \in Nat
      <4>1. b \in 1 .. Length /\ b \in Nat /\ b \in 1 .. Length + 1 /\ ~(b > Length)
        BY <1>2, <3>1, <3>4
      <4>2. position' = Clamp(b)  BY <3>3, <3>4, <4>1 DEF Clamp
      <4> QED  BY <1>2, <3>3, <4>1, <4>2, Arrives
    <3>6. Blank(Text, b, e.close)  BY <2>1, <3>1, <3>4 DEF Filled
    <3>7. ASSUME Top' = f PROVE InCall(j, n)'
      <4>1. Document' = Document /\ Text' = Text  BY <3>3, SameDocument
      <4>2. n = j - 1  BY <1>3, <2>1
      <4>3. /\ Top' = CallFor(Document', j, "close", Document'[j].content, n)
            /\ ~Single(Document'[j])
        BY <1>4, <3>7, <4>1
      <4>4. Comes(b)' /\ Blank(Text', b, Document'[j].close)  BY <3>5, <3>6, <4>1
      <4> HIDE DEF j, f
      <4>5. AtClose(j, n)'  BY <3>5, <4>2, <4>3, <4>4 DEF AtClose
      <4> QED  BY <4>5 DEF InCall
    <3> HIDE DEF f
    <3> QED  BY <1>1, <3>3, <3>7, GoesOnAs
  <2> QED  BY <2>4, <2>5
<1> QED  BY <1>7, <1>8

LEMMA CourseComesToChildren ==
  ASSUME NEW o, NEW n, Steering(o, n), HasChildren
  PROVE  Goes
<1> DEFINE j == o[1]
           e == Document[j]
           f == CallFor(Document, j, "children", Null, n)
<1>1. IInv /\ Document # Unknown /\ stage = "parse" /\ stack # <<>> /\ Ended(n)
  BY DEF Steering
<1>2. /\ input \in Inputs /\ j \in 1 .. Len(Document) /\ j \in Nat /\ e \in Elements
      /\ e.first \in 1 .. j /\ Length \in Nat /\ Top \in Frames /\ AtBody(j, n)
  BY WhereItIs DEF HasChildren, At
<1>3. /\ Top = CallFor(Document, j, "body", Null, n) /\ n = e.first - 1
      /\ Comes(Body(e))
  BY <1>2 DEF AtBody
<1>4. ~Single(e)
  <2>1. Top.tag = TagOf(e) /\ ~SelfClosing(Top.tag)  BY <1>3 DEF CallFor, HasChildren
  <2> QED  BY <1>2, <2>1, TagText
<1>5. e.content = Null
  <2>1. Peek(position) = "<"  BY DEF HasChildren
  <2>2. e.content # Null => Filled(e, Text) /\ Tagged(e, Text)  BY <1>1, <1>2, ElementIs
  <2> QED  BY <1>2, <1>3, <2>1, <2>2, ReadsContent
<1>6. GoesOnAt(Document, Text, j, n, Body(e))  BY <1>1, <1>2, <1>3, <1>4, <1>5, ElementIs
<1>7. /\ stack' = <<f>> \o Tail(stack) /\ position' = position /\ input' = input
      /\ stage' = stage
  <2>1. [Top EXCEPT !.at = "children"] = f
    <3>1. [Top EXCEPT !.at = "children"]
             = [at |-> "children", tag |-> Top.tag, content |-> Top.content,
                children |-> Top.children]
      BY <1>1, TopIs
    <3>2. /\ Top.tag = TagOf(e) /\ Top.content = Null
          /\ Top.children = SubSeq(TreeOf(Document), e.first, n)
      BY <1>3 DEF CallFor
    <3> QED  BY <3>1, <3>2 DEF CallFor
  <2> HIDE DEF f
  <2> QED  BY <2>1 DEF HasChildren, Become
<1>8. PICK b \in Nat : b = Body(e)  BY <1>2, ElementType
<1>9. ASSUME Top' = f PROVE InCall(j, n)'
  <2>1. Document' = Document /\ Text' = Text /\ Length' = Length  BY <1>7, SameDocument
  <2>2. Comes(b)'  BY <1>3, <1>7, <1>8, <2>1 DEF Comes, Clamp
  <2>3. n \in Document'[j].first - 1 .. j - 1
    <3>1. n \in e.first - 1 .. j - 1
      <4> DEFINE a == e.first
      <4> HIDE DEF j, e, a
      <4>1. a \in 1 .. j /\ n = a - 1 /\ j \in Nat  BY <1>2, <1>3 DEF a
      <4>2. n \in a - 1 .. j - 1  BY ONLY <4>1
      <4> QED  BY <4>2 DEF a
    <3> QED  BY <2>1, <3>1
  <2>4. /\ Top' = CallFor(Document', j, "children", Null, n)
        /\ ~Single(Document'[j]) /\ Document'[j].content = Null
        /\ GoesOnAt(Document', Text', j, n, b)
    BY <1>4, <1>5, <1>6, <1>8, <1>9, <2>1
  <2> HIDE DEF j, f
  <2>5. AtChildren(j, n)'  BY <2>2, <2>3, <2>4 DEF AtChildren
  <2> QED  BY <2>5 DEF InCall
<1> HIDE DEF f
<1> QED  BY <1>1, <1>7, <1>9, GoesOnAs

(* A call comes with what it has to another point. *)
LEMMA TopMoves ==
  ASSUME NEW o, NEW n, Steering(o, n), NEW m, NEW point,
         Top = CallFor(Document, o[1], "children", Null, m)
  PROVE  [Top EXCEPT !.at = point] = CallFor(Document, o[1], point, Null, m)
<1> DEFINE e == Document[o[1]]
<1>1. [Top EXCEPT !.at = point]
         = [at |-> point, tag |-> Top.tag, content |-> Top.content,
            children |-> Top.children]
  BY TopIs DEF Steering
<1>2. /\ Top.tag = TagOf(e) /\ Top.content = Null
      /\ Top.children = SubSeq(TreeOf(Document), e.first, m)
  BY DEF CallFor
<1> QED  BY <1>1, <1>2 DEF CallFor

LEMMA CourseCallsChild ==
  ASSUME NEW o, NEW n, Steering(o, n), CallChild
  PROVE  Goes
<1> DEFINE j == o[1]
           e == Document[j]
           d == Document
<1>1. /\ IInv /\ Document # Unknown /\ stage = "parse" /\ stack # <<>> /\ Ended(n)
      /\ Path(Document, o, stack)
  BY DEF Steering
<1>2. /\ input \in Inputs /\ j \in 1 .. Len(Document) /\ j \in Nat /\ e \in Elements
      /\ Length \in Nat /\ Top \in Frames /\ AtChildren(j, n) /\ returned = <<>>
      /\ n \in Nat /\ stack \in Seq(Frames) /\ Len(Document) \in Nat
  BY WhereItIs DEF CallChild, At
<1>3. /\ Top = CallFor(Document, j, "children", Null, n) /\ ~Single(e) /\ e.content = Null
  BY <1>2 DEF AtChildren
<1>4. PICK p \in Nat : Comes(p) /\ GoesOnAt(Document, Text, j, n, p)
  BY <1>2 DEF AtChildren
<1>5. UNCHANGED <<input, stage, position, returned>>  BY DEF CallChild
<1>6. CASE n = j - 1
  <2>1. Blank(Text, p, e.close)  BY <1>4, <1>6 DEF GoesOnAt
  <2>2. PeekNext(position) # "/" => ~TagOpen(position).ok /\ ~Whole(Document, Text)
    BY <1>1, <1>2, <1>3, <1>4, <2>1, ClosingFollows
  <2>3. CASE PeekNext(position) = "/"
    <3> DEFINE f == CallFor(Document, j, "close", Null, n)
    <3>1. [Top EXCEPT !.at = "close"] = f  BY <1>3, TopMoves
    <3> HIDE DEF f
    <3>2. stack' = <<f>> \o Tail(stack)  BY <2>3, <3>1 DEF CallChild, Become
    <3>3. ASSUME Top' = f PROVE InCall(j, n)'
      <4>1. Document' = Document /\ Text' = Text /\ Length' = Length  BY <1>5, SameDocument
      <4>2. Comes(p)'  BY <1>4, <1>5, <4>1 DEF Comes, Clamp
      <4>3. /\ Top' = CallFor(Document', j, "close", Document'[j].content, n)
            /\ ~Single(Document'[j]) /\ Blank(Text', p, Document'[j].close)
        BY <1>3, <2>1, <3>3, <4>1 DEF f
      <4> HIDE DEF j
      <4>4. AtClose(j, n)'  BY <1>6, <4>2, <4>3 DEF AtClose
      <4> QED  BY <4>4 DEF InCall
    <3> QED  BY <1>1, <1>5, <3>2, <3>3, GoesOnAs
  <2>4. CASE PeekNext(position) # "/"
    <3>1. ~TagOpen(position).ok /\ ~Whole(Document, Text)  BY <2>2, <2>4
    <3> DEFINE f == [Top EXCEPT !.at = "child"]
    <3>2. stack' = <<Call, f>> \o Tail(stack)  BY <2>4 DEF CallChild
    <3> HIDE DEF f
    <3>3. stack' # <<>> /\ Top' = Call
      <4> DEFINE r == <<Call, f>> \o Tail(stack)
                 U == Frames \cup {Call, f}
      <4>1. stack \in Seq(U)  BY <1>2, SeqOver
      <4>2. <<Call, f>> \in Seq(U) /\ Len(<<Call, f>>) = 2 /\ <<Call, f>>[1] = Call
        OBVIOUS
      <4> DEFINE w == <<Call, f>>
                 t == Tail(stack)
      <4>3. w \in Seq(U) /\ Len(w) = 2 /\ w[1] = Call /\ t \in Seq(U) /\ Len(t) \in Nat
        BY <1>1, <4>1, <4>2
      <4> HIDE DEF w, t, U
      <4>4. /\ Len(w \o t) = Len(w) + Len(t)
            /\ \A i \in 1 .. Len(w) + Len(t) :
                  (w \o t)[i] = IF i <= Len(w) THEN w[i] ELSE t[i - Len(w)]
        BY <4>3, ConcatProperties
      <4>5. 1 \in 1 .. Len(w) + Len(t) /\ 1 <= Len(w) /\ Len(w) + Len(t) > 0  BY <4>3
      <4>6. (w \o t)[1] = Call /\ w \o t # <<>>  BY <4>3, <4>4, <4>5
      <4> QED  BY <3>2, <4>6 DEF Top, w, t
    <3>4. TagOpen(position)' = TagOpen(position)
      <4>1. Text' = Text /\ Length' = Length  BY <1>5, SameDocument
      <4> QED  BY <1>5, <4>1
           DEF TagOpen, TagEnd, SkipWhitespace, Clamp, Peek, Run, Solid, Space
    <3>5. ~Whole(Document', Text') /\ returned' = <<>>  BY <1>2, <1>5, <3>1, SameDocument
    <3>6. Lost'  BY <3>1, <3>3, <3>4, <3>5 DEF Lost
    <3> QED  BY <1>1, <1>5, <3>6 DEF Goes
  <2> QED  BY <2>3, <2>4
<1>7. CASE n # j - 1
  <2>1. PICK c \in n + 1 .. j - 1 : /\ d[c].parent = j /\ d[c].first = n + 1
                                    /\ Blank(Text, p, d[c].open)
    BY <1>4, <1>7 DEF GoesOnAt
  <2>2. c \in 1 .. Len(Document) /\ c \in DOMAIN Document
    <3>1. c \in 1 .. Len(Document)
      <4> HIDE DEF j, d
      <4> QED  BY <1>2, <2>1
    <3> QED  BY <1>1, <1>2, <3>1, DocumentIs
  <2>3. PeekNext(position) # "/"  BY <1>1, <1>2, <1>4, <2>1, <2>2, OpeningFollows
  <2>4. d[c].first - 1 = n  BY <1>2, <2>1
  <2>5. d[c].depth = d[j].depth + 1
    <3>1. d[c].parent # 0  BY <1>2, <2>1
    <3>2. d[d[c].parent].depth + 1 = d[c].depth  BY <1>1, <1>2, <2>2, <3>1, ElementIs
    <3> QED  BY <2>1, <3>2
  <2> DEFINE f == CallFor(d, j, "child", Null, d[c].first - 1)
  <2>6. [Top EXCEPT !.at = "child"] = f  BY <1>3, <2>4, TopMoves
  <2> HIDE DEF f
  <2>7. stack' = <<Call, f>> \o Tail(stack)  BY <2>3, <2>6 DEF CallChild
  <2>8. /\ stack' # <<>> /\ Top' = Call
        /\ \E u : u[1] = c /\ Path(d, u, stack')
    <3>1. f = CallFor(d, o[1], "child", Null, d[c].first - 1)  BY DEF f
    <3>2. d[c].parent = o[1] /\ d[c].depth = d[o[1]].depth + 1  BY <2>1, <2>5
    <3>3. /\ stack \in Seq(Frames) /\ stack # <<>> /\ Path(d, o, stack) /\ c \in DOMAIN d
      BY <1>1, <1>2, <2>2
    <3> DEFINE r == <<Call, f>> \o Tail(stack)
    <3>4. r # <<>> /\ r[1] = Call /\ \E u : u[1] = c /\ Path(d, u, r)
      <4> HIDE DEF d
      <4> QED  BY ONLY <3>1, <3>2, <3>3, PathDescends
    <3>5. stack' = r  BY <2>7
    <3> HIDE DEF r
    <3> QED  BY <3>4, <3>5 DEF Top
  <2>9. PICK u : u[1] = c /\ Path(d, u, stack')  BY <2>8
  <2>10. Document' = Document /\ Text' = Text /\ Length' = Length /\ Ended(n)'
    BY <1>1, <1>5, SameDocument
  <2>11. InCall(c, n)'
    <3>1. Comes(p)'  BY <1>4, <1>5, <2>10 DEF Comes, Clamp
    <3>2. Top' = Call' /\ n = Document'[c].first - 1 /\ Blank(Text', p, Document'[c].open)
      BY <2>1, <2>4, <2>8, <2>10 DEF Call
    <3>3. AtOpen(c, n)'  BY <3>1, <3>2 DEF AtOpen
    <3> QED  BY <3>3 DEF InCall
  <2>12. OnCourse'
    <3>1. Path(Document', u, stack') /\ Ended(n)' /\ InCall(u[1], n)' /\ stack' # <<>>
      BY <2>8, <2>9, <2>10, <2>11
    <3> QED  BY <3>1 DEF OnCourse
  <2> QED  BY <1>1, <1>5, <2>12 DEF Goes
<1> QED  BY <1>6, <1>7

LEMMA CourseKeeps ==
  ASSUME NEW o, NEW n, Steering(o, n), KeepChild
  PROVE  Goes
<1> DEFINE j == o[1]
           e == Document[j]
           c == Document[n]
<1>1. IInv /\ Document # Unknown /\ stage = "parse" /\ stack # <<>> /\ Ended(n)
  BY DEF Steering
<1>2. /\ input \in Inputs /\ j \in 1 .. Len(Document) /\ j \in Nat /\ e \in Elements
      /\ e.first \in 1 .. j /\ Length \in Nat /\ Top \in Frames /\ AtChild(j, n)
      /\ n \in 0 .. Len(Document) /\ n \in Nat /\ Len(Document) \in Nat
  BY WhereItIs DEF KeepChild, At
<1>3. /\ n > 0 /\ c.parent = j
      /\ Top = CallFor(Document, j, "child", Null, c.first - 1)
      /\ returned = SubSeq(Tree, c.first, n)
      /\ Comes(After(c))
  BY <1>2 DEF AtChild
<1>4. n \in 1 .. Len(Document)  BY <1>2, <1>3
<1>5. /\ c \in Elements /\ c.first \in 1 .. n /\ j \in n + 1 .. Len(Document)
      /\ ~Single(e) /\ e.content = Null /\ e.first <= c.first
  <2>1. c.parent # 0  BY <1>2, <1>3
  <2> DEFINE p == Document[c.parent]
  <2>2. /\ c \in Elements /\ c.first \in 1 .. n /\ c.parent \in n + 1 .. Len(Document)
        /\ ~Single(p) /\ p.content = Null /\ p.first <= c.first
    BY <1>1, <1>2, <1>4, <2>1, ElementIs
  <2>3. p = e  BY <1>3
  <2> HIDE DEF p, c, e
  <2> QED  BY <1>3, <2>2, <2>3
<1>6. GoesOnAt(Document, Text, j, n, After(c))
  BY <1>1, <1>2, <1>3, <1>4, <1>5, ElementIs
<1>7. /\ SubSeq(Tree, e.first, c.first - 1) \o SubSeq(Tree, c.first, n)
            = SubSeq(Tree, e.first, n)
      /\ SubSeq(Tree, c.first, n) # <<>>
  <2> DEFINE a == e.first
             b == c.first - 1
             k == Len(Document)
  <2>1. /\ a \in Nat /\ b \in Nat /\ 0 < a /\ a <= b + 1 /\ b <= n /\ n <= k
        /\ b + 1 = c.first /\ b + 1 \in Nat /\ 0 < b + 1 /\ b + 1 <= n + 1 /\ n <= n
        /\ b + 1 <= n
    <3> DEFINE x == c.first
    <3>1. /\ a \in 1 .. j /\ j \in Nat /\ x \in 1 .. n /\ a <= x /\ n \in 1 .. k
          /\ k \in Nat /\ n \in Nat /\ b = x - 1
      BY <1>2, <1>4, <1>5
    <3> HIDE DEF a, b, k, j, x
    <3>2. x \in Nat /\ a \in Nat  BY ONLY <3>1
    <3> QED  BY ONLY <3>1, <3>2 DEF x
  <2> HIDE DEF a, b
  <2>2. SubSeq(Tree, a, b) \o SubSeq(Tree, b + 1, n) = SubSeq(Tree, a, n)
    BY ONLY <1>1, <1>2, <2>1, TreePieces
  <2>3. SubSeq(Tree, b + 1, n) # <<>>  BY ONLY <1>1, <1>2, <2>1, TreePieces
  <2> QED  BY <2>1, <2>2, <2>3 DEF a, b
<1>8. returned # <<>>  BY <1>3, <1>7
<1> DEFINE f == CallFor(Document, j, "children", Null, n)
<1>9. WithChildren(Top, "children", Top.children \o returned) = f
  <2> DEFINE both == Top.children \o returned
  <2>1. both = SubSeq(TreeOf(Document), e.first, n) /\ Top.tag = TagOf(e) /\ Top.content = Null
    <3>1. Top.children = SubSeq(Tree, e.first, c.first - 1)  BY <1>3 DEF CallFor, Tree
    <3> QED  BY <1>3, <1>7, <3>1 DEF CallFor, Tree
  <2> HIDE DEF both
  <2>2. WithChildren(Top, "children", both)
           = [at |-> "children", tag |-> Top.tag, content |-> Top.content, children |-> both]
    BY <1>2, Excepts
  <2>3. WithChildren(Top, "children", both) = f  BY <2>1, <2>2 DEF CallFor
  <2> QED  BY <2>3 DEF both
<1> HIDE DEF f
<1>10. /\ stack' = <<f>> \o Tail(stack) /\ position' = position /\ input' = input
       /\ stage' = stage
  <2>1. /\ Become(WithChildren(Top, "children", Top.children \o returned))
        /\ UNCHANGED <<input, stage, position>>
    BY <1>8 DEF KeepChild, WithChildren
  <2> QED  BY <1>9, <2>1 DEF Become
<1>11. PICK p \in Nat : p = After(c)  BY <1>5, ElementType
<1>12. ASSUME Top' = f PROVE InCall(j, n)'
  <2>1. Document' = Document /\ Text' = Text /\ Length' = Length  BY <1>10, SameDocument
  <2>2. Comes(p)'  BY <1>3, <1>10, <1>11, <2>1 DEF Comes, Clamp
  <2>3. n \in e.first - 1 .. j - 1
    <3> DEFINE a == e.first
               x == c.first
    <3>1. a \in 1 .. j /\ a <= x /\ x \in 1 .. n /\ n \in Nat /\ j \in Nat
          /\ j \in n + 1 .. Len(Document) /\ Len(Document) \in Nat
      BY <1>2, <1>5
    <3> HIDE DEF a, x, j
    <3>2. n \in a - 1 .. j - 1  BY ONLY <3>1
    <3> QED  BY <3>2 DEF a, j
  <2>4. /\ Top' = CallFor(Document', j, "children", Null, n)
        /\ n \in Document'[j].first - 1 .. j - 1
        /\ ~Single(Document'[j]) /\ Document'[j].content = Null
        /\ GoesOnAt(Document', Text', j, n, p)
    BY <1>5, <1>6, <1>11, <1>12, <2>1, <2>3 DEF f
  <2> HIDE DEF j
  <2>5. AtChildren(j, n)'  BY <2>2, <2>4 DEF AtChildren
  <2> QED  BY <2>5 DEF InCall
<1> QED  BY <1>1, <1>10, <1>12, GoesOnAs

LEMMA CourseCloses ==
  ASSUME NEW o, NEW n, Steering(o, n), CloseTag
  PROVE  Goes
<1> DEFINE j == o[1]
           e == Document[j]
           tag == TagClose(position)
           after == After(e)
<1>1. IInv /\ Document # Unknown /\ stage = "parse" /\ stack # <<>>
  BY DEF Steering
<1>2. /\ input \in Inputs /\ j \in 1 .. Len(Document) /\ j \in Nat /\ e \in Elements
      /\ Length \in Nat /\ AtClose(j, n)
  BY WhereItIs DEF CloseTag, At
<1>3. /\ Top = CallFor(Document, j, "close", e.content, n) /\ n = j - 1
      /\ ~Single(e)
  BY <1>2 DEF AtClose
<1>4. PICK p \in Nat : Comes(p) /\ Blank(Text, p, e.close)  BY <1>2 DEF AtClose
<1>5. Tagged(e, Text)  BY <1>1, <1>2, ElementIs
<1>6. /\ after <= Length + 1 => /\ tag.ok /\ tag.name = e.name
                                /\ tag.next = Clamp(after) /\ Text[after - 1] = ">"
      /\ after > Length + 1 => ~tag.ok
  BY <1>2, <1>3, <1>4, <1>5, ReadsClosingTag
<1>7. /\ Top.tag = TagOf(e) /\ Top.children = SubSeq(Tree, e.first, n)
      /\ Top.content = e.content
  BY <1>3 DEF CallFor, Tree
<1>8. /\ IF tag.ok /\ tag.name = NameOf(Top.tag) THEN Create(Top.content) ELSE Fail
      /\ position' = IF tag.ok THEN tag.next ELSE position
  BY DEF CloseTag
<1>9. after \in Nat /\ after > 0
  <2>1. after \in Nat  BY <1>2, ElementType
  <2>2. Body(e) <= after /\ Body(e) \in Nat /\ e.open \in Nat /\ e.open > 0
        /\ Body(e) = e.open + TagLength(e) + 2 /\ TagLength(e) \in Nat
    BY <1>1, <1>2, ElementIs, ElementType
  <2> HIDE DEF after, e
  <2> QED  BY ONLY <2>1, <2>2
<1> HIDE DEF tag
<1>10. CASE after > Length + 1
  <2>1. ~Whole(Document, Text)  BY <1>1, <1>2, <1>10, NotAllOfIt
  <2> QED  BY <1>1, <1>6, <1>8, <1>10, <2>1, GivesUp DEF Goes
<1>11. CASE ~(after > Length + 1)
  <2>1. /\ tag.ok /\ tag.name = e.name /\ tag.next = Clamp(after) /\ Text[after - 1] = ">"
        /\ after <= Length + 1
    BY <1>2, <1>6, <1>9, <1>11
  <2>2. NameOf(Top.tag) = e.name  BY <1>2, <1>7, NameOfTag
  <2>3. Create(Top.content) /\ position' = Clamp(after)  BY <1>8, <2>1, <2>2
  <2>4. input' = input  BY <2>3 DEF Create
  <2>5. PICK b : b = after  OBVIOUS
  <2>6. Comes(b)'
    <3>1. after \in 1 .. Length + 1 /\ (after > Length => Length > 0)
      <4>0. Length > 0
        <5>1. IInv => (stage = "parse" => Length > 0)  BY DEF IInv, ControlInv
        <5> QED  BY <1>1, <5>1
      <4> HIDE DEF after
      <4> QED  BY ONLY <1>2, <1>9, <2>1, <4>0
    <3>2. Text[after - 1] = ">" /\ position' = Clamp(after)  BY <2>1, <2>3
    <3> HIDE DEF after
    <3>3. /\ input' = input /\ b \in 1 .. Length + 1 /\ position' = Clamp(b)
          /\ Length \in Nat /\ (b > Length => Length > 0 /\ Text[b - 1] = ">")
      BY ONLY <1>2, <2>4, <2>5, <3>1, <3>2
    <3> QED  BY ONLY <3>3, Arrives
  <2>7. Comes(After(Document[j]))'
    <3>1. Document' = Document  BY <2>4, SameDocument
    <3> QED  BY <2>5, <2>6, <3>1 DEF Comes, Clamp
  <2> QED  BY <1>3, <1>7, <2>1, <2>3, <2>7, Returns
<1> QED  BY <1>10, <1>11

LEMMA CourseBegins ==
  ASSUME IInv, Begin, Document # Unknown
  PROVE  \/ stage' = "failed" /\ ~Whole(Document, Text)
         \/ stage' = "parse" /\ OnCourse'
<1> DEFINE k == Len(Document)
           e == Document[k]
<1>1. /\ input \in Inputs /\ stage = "begin" /\ position = 1 /\ Length \in Nat
      /\ input' = input /\ position' = position
  <2>1. input \in Inputs  BY DEF IInv, TypeOK
  <2>2. stage = "begin" /\ input' = input /\ position' = position  BY DEF Begin
  <2>3. position = 1  BY <2>2 DEF IInv, ControlInv
  <2> QED  BY <2>1, <2>2, <2>3, TextIs
<1>2. k \in Nat /\ k > 0 /\ k \in 1 .. k /\ DOMAIN Document = 1 .. k
  <2>1. k \in Nat /\ k > 0 /\ DOMAIN Document = 1 .. k  BY <1>1, DocumentIs
  <2> HIDE DEF k
  <2> QED  BY <2>1
<1>3. /\ e \in Elements /\ e.first = 1 /\ e.depth = 1 /\ Blank(Text, 1, e.open)
      /\ Body(e) <= After(e)
  BY <1>1, <1>2, ElementIs
<1>4. CASE Length = 0
  <2>1. After(e) > Length + 1
    <3>1. /\ Body(e) \in Nat /\ After(e) \in Nat /\ e.open \in Nat /\ e.open > 0
          /\ Body(e) = e.open + TagLength(e) + 2 /\ TagLength(e) \in Nat
      BY <1>3, ElementType
    <3> HIDE DEF e
    <3> QED  BY ONLY <1>3, <1>4, <3>1
  <2>2. ~Whole(Document, Text)  BY <1>1, <1>2, <2>1, NotAllOfIt
  <2>3. stage' = "failed"  BY <1>4 DEF Begin
  <2> QED  BY <2>2, <2>3
<1>5. CASE Length # 0
  <2>1. stage' = "parse" /\ stack' = <<Call>>  BY <1>5 DEF Begin
  <2>2. PICK u : u = [i \in 1 .. 1 |-> k]  OBVIOUS
  <2>3. Document' = Document /\ Text' = Text /\ Length' = Length  BY <1>1, SameDocument
  <2>4. Path(Document, u, <<Call>>)
    <3>1. <<Call>> # <<>> /\ Len(<<Call>>) = 1  OBVIOUS
    <3>2. u \in [1 .. 1 -> DOMAIN Document] /\ u[1] = k
      <4> HIDE DEF k
      <4> QED  BY <1>2, <2>2
    <3>3. \A i \in 2 .. 1 : FALSE  OBVIOUS
    <3>4. Document[u[1]].depth = 1 /\ u[1] = Len(Document)  BY <1>3, <3>2
    <3> QED  BY <3>1, <3>2, <3>3, <3>4 DEF Path
  <2>5. u[1] = k  BY <2>2
  <2>6. Top' = Call' /\ stack' # <<>>  BY <2>1 DEF Top, Call
  <2>7. Comes(1)'
    <3>1. position' = 1 /\ 1 \in 1 .. Length' + 1 /\ ~(1 > Length') /\ 1 # Length' + 1
      BY <1>1, <1>5, <2>3
    <3> QED  BY <3>1 DEF Comes, Clamp
  <2>8. AtOpen(u[1], 0)'
    <3>1. Document'[u[1]].first = 1 /\ Blank(Text', 1, Document'[u[1]].open)
      BY <1>3, <2>3, <2>5
    <3>2. 0 = Document'[u[1]].first - 1 /\ 1 \in Nat  BY <3>1
    <3> QED  BY <2>6, <2>7, <3>1, <3>2 DEF AtOpen
  <2>9. Ended(0)'
    <3>1. 0 \in 0 .. Len(Document') /\ \A i \in 1 .. 0 : FALSE  BY <1>2, <2>3
    <3> QED  BY <3>1 DEF Ended
  <2>10. Path(Document', u, stack')  BY <2>1, <2>3, <2>4
  <2>11. OnCourse'  BY <2>6, <2>8, <2>9, <2>10 DEF OnCourse, InCall
  <2> QED  BY <2>1, <2>11
<1> QED  BY <1>4, <1>5

LEMMA CourseEnds ==
  ASSUME IInv, End, OnCourse, Document # Unknown
  PROVE  stage' = "parsed" /\ returned' = Tree /\ Whole(Document, Text)
<1>1. /\ input \in Inputs /\ stack = <<>> /\ UNCHANGED returned
      /\ IF returned # <<>> THEN stage' = "parsed" ELSE stage' = "failed"
  BY DEF End, IInv, TypeOK
<1>2. PICK o, n : Ended(n) /\ AtEnd(n)  BY <1>1 DEF OnCourse
<1>3. n = Len(Document) /\ returned = Tree  BY <1>2 DEF AtEnd
<1>4. returned # <<>>
  <2>1. Len(Tree) = Len(Document) /\ Len(Document) > 0  BY <1>1, DocumentIs
  <2>2. Len(<<>>) = 0  OBVIOUS
  <2> QED  BY <1>3, <2>1, <2>2
<1>5. Whole(Document, Text)
  <2>1. DOMAIN Document = 1 .. n  BY <1>1, <1>3, DocumentIs
  <2> QED  BY <1>2, <2>1 DEF Ended, Whole, Length
<1> QED  BY <1>1, <1>3, <1>4, <1>5

(* Where the text has been found cut off, all calls fail. *)
LEMMA StaysLost ==
  ASSUME IInv, Lost, stage = "parse", ParseStep
  PROVE  \/ stage' = "failed" /\ input' = input
         \/ stage' = "parse" /\ Lost'
<1>1. ~Whole(Document, Text) /\ returned = <<>>  BY DEF Lost
<1>2. CASE stack = <<>>
  <2>1. End
    BY <1>2 DEF ParseStep, Begin, OpenTag, ClosesItself, ParseContent, HasChildren,
                CallChild, KeepChild, CloseTag, At
  <2> QED  BY <1>1, <2>1 DEF End
<1>3. CASE stack # <<>> /\ Top.at = "child"
  <2>1. KeepChild
    BY <1>3 DEF ParseStep, Begin, OpenTag, ClosesItself, ParseContent, HasChildren,
                CallChild, End, CloseTag, At
  <2>2. Fail  BY <1>1, <2>1 DEF KeepChild
  <2> QED  BY <1>1, <1>3, <2>2, GivesUp
<1>4. CASE stack # <<>> /\ Top = Call /\ ~TagOpen(position).ok
  <2>1. Top.at = "open"  BY <1>4 DEF Call
  <2>2. OpenTag
    BY <1>4, <2>1 DEF ParseStep, Begin, KeepChild, ClosesItself, ParseContent, HasChildren,
                      CallChild, End, CloseTag, At
  <2>3. Fail  BY <1>4, <2>2 DEF OpenTag
  <2> QED  BY <1>1, <1>4, <2>3, GivesUp
<1> QED  BY <1>2, <1>3, <1>4 DEF Lost

LEMMA CourseGoesOn ==
  ASSUME IInv, OnCourse, stage = "parse", stack # <<>>, Document # Unknown, ParseStep
  PROVE  Goes
<1>1. PICK o, n : Path(Document, o, stack) /\ Ended(n) /\ InCall(o[1], n)
  BY DEF OnCourse
<1>2. Steering(o, n)  BY <1>1 DEF Steering
<1>3. CASE OpenTag       BY <1>2, <1>3, CourseOpens
<1>4. CASE ClosesItself  BY <1>2, <1>4, CourseClosesItself
<1>5. CASE ParseContent  BY <1>2, <1>5, CourseReads
<1>6. CASE HasChildren   BY <1>2, <1>6, CourseComesToChildren
<1>7. CASE CallChild     BY <1>2, <1>7, CourseCallsChild
<1>8. CASE KeepChild     BY <1>2, <1>8, CourseKeeps
<1>9. CASE CloseTag      BY <1>2, <1>9, CourseCloses
<1> QED  BY <1>3, <1>4, <1>5, <1>6, <1>7, <1>8, <1>9 DEF ParseStep, Begin, End

LEMMA InputStays ==
  ASSUME [Next]_vars
  PROVE  input' = input
<1>1. CASE Begin         BY <1>1 DEF Begin
<1>2. CASE OpenTag       BY <1>2 DEF OpenTag, Fail
<1>3. CASE ClosesItself  BY <1>3 DEF ClosesItself, Create
<1>4. CASE ParseContent  BY <1>4 DEF ParseContent, Fail
<1>5. CASE HasChildren   BY <1>5 DEF HasChildren
<1>6. CASE CallChild     BY <1>6 DEF CallChild
<1>7. CASE KeepChild     BY <1>7 DEF KeepChild, Fail
<1>8. CASE CloseTag      BY <1>8 DEF CloseTag, Create, Fail
<1>9. CASE End           BY <1>9 DEF End
<1>10. CASE FreeDocument  BY <1>10 DEF FreeDocument
<1>11. CASE UNCHANGED vars  BY <1>11 DEF vars
<1> QED
  BY <1>1, <1>2, <1>3, <1>4, <1>5, <1>6, <1>7, <1>8, <1>9, <1>10, <1>11 DEF Next, ParseStep

LEMMA CourseKept ==
  ASSUME IInv, CourseInv, [Next]_vars
  PROVE  CourseInv'
<1>1. input' = input /\ Document' = Document /\ Text' = Text  BY InputStays, SameDocument
<1> SUFFICES ASSUME Document # Unknown
             PROVE  (stage = "parse" => OnCourse \/ Lost)' /\ ParsesDocuments'
  BY <1>1 DEF CourseInv
<1>2. (stage = "parse" => OnCourse \/ Lost) /\ ParsesDocuments  BY DEF CourseInv
<1>3. ASSUME stage' = "failed", ~Whole(Document, Text)
      PROVE  (stage = "parse" => OnCourse \/ Lost)' /\ ParsesDocuments'
  BY <1>1, <1>3 DEF ParsesDocuments, Document
<1>4. ASSUME stage' \in {"parsed", "freed"}, Whole(Document, Text),
             returned' = TreeOf(Document)
      PROVE  (stage = "parse" => OnCourse \/ Lost)' /\ ParsesDocuments'
  BY <1>1, <1>4 DEF ParsesDocuments, Document
<1>5. ASSUME stage' = "parse", OnCourse' \/ Lost'
      PROVE  (stage = "parse" => OnCourse \/ Lost)' /\ ParsesDocuments'
  BY <1>5 DEF ParsesDocuments
<1>6. CASE Begin  BY <1>3, <1>5, <1>6, CourseBegins
<1>7. CASE FreeDocument
  <2>1. stage = "parsed" /\ stage' = "freed" /\ returned' = returned
    BY <1>7 DEF FreeDocument
  <2>2. Whole(Document, Text) /\ returned = TreeOf(Document)
    BY <1>2, <2>1 DEF ParsesDocuments, Document
  <2> QED  BY <1>4, <2>1, <2>2
<1>8. CASE ParseStep /\ ~Begin
  <2>1. stage = "parse"
    BY <1>8 DEF ParseStep, OpenTag, ClosesItself, ParseContent, HasChildren,
                CallChild, KeepChild, CloseTag, End, At
  <2>2. CASE Lost
    <3>1. ~Whole(Document, Text)  BY <2>2 DEF Lost
    <3> QED  BY <1>3, <1>5, <1>8, <2>1, <2>2, <3>1, StaysLost
  <2>3. CASE OnCourse /\ stack # <<>>
    <3>1. Goes  BY <1>8, <2>1, <2>3, CourseGoesOn
    <3> QED  BY <1>5, <3>1 DEF Goes
  <2>4. CASE OnCourse /\ stack = <<>>
    <3>1. End
      BY <1>8, <2>4 DEF ParseStep, OpenTag, ClosesItself, ParseContent, HasChildren,
                        CallChild, KeepChild, CloseTag, At
    <3>2. stage' = "parsed" /\ returned' = Tree /\ Whole(Document, Text)
      BY <2>4, <3>1, CourseEnds
    <3> QED  BY <1>4, <3>2 DEF Tree
  <2> QED  BY <1>2, <2>1, <2>2, <2>3, <2>4
<1>9. CASE UNCHANGED vars
  <2>1. UNCHANGED <<input, stage, position, stack, returned>>  BY <1>9 DEF vars
  <2>2. ParsesDocuments'  BY <1>2, <2>1 DEF ParsesDocuments, Text
  <2>3. stage = "parse" => OnCourse' \/ Lost'
    <3>1. Lost => Lost'
      <4>1. TagOpen(position)' = TagOpen(position)
        BY <1>1, <2>1 DEF TagOpen, TagEnd, SkipWhitespace, Clamp, Peek, Run, Solid, Space, Length
      <4>2. Top' = Top  BY <2>1 DEF Top
      <4> QED  BY <1>1, <2>1, <4>1, <4>2 DEF Lost, Call
    <3>2. OnCourse => OnCourse'
      <4> SUFFICES ASSUME NEW o, NEW n, Path(Document, o, stack), Ended(n),
                          IF stack = <<>> THEN AtEnd(n) ELSE InCall(o[1], n)
                   PROVE  OnCourse'
        BY DEF OnCourse
      <4>1. /\ Document' = Document /\ Text' = Text /\ Length' = Length /\ Tree' = Tree
            /\ Ended(n)'
        BY <1>1, SameDocument
      <4>2. Top' = Top  BY <2>1 DEF Top
      <4>3. \A p : Comes(p)' <=> Comes(p)  BY <2>1, <4>1 DEF Comes, Clamp
      <4>4. AtEnd(n) => AtEnd(n)'  BY <2>1, <4>1 DEF AtEnd
      <4>5. InCall(o[1], n) => InCall(o[1], n)'
        <5> DEFINE j == o[1]
        <5>1. AtOpen(j, n) => AtOpen(j, n)'  BY <4>1, <4>2, <4>3 DEF AtOpen, Call
        <5>2. AtBody(j, n) => AtBody(j, n)'
          BY <2>1, <4>1, <4>2 DEF AtBody, Comes, Clamp
        <5>3. AtChildren(j, n) => AtChildren(j, n)'
          BY <4>1, <4>2, <4>3 DEF AtChildren
        <5>4. AtChild(j, n) => AtChild(j, n)'
          BY <2>1, <4>1, <4>2 DEF AtChild, Comes, Clamp
        <5>5. AtClose(j, n) => AtClose(j, n)'  BY <4>1, <4>2, <4>3 DEF AtClose
        <5> QED  BY <5>1, <5>2, <5>3, <5>4, <5>5 DEF InCall
      <4>6. Path(Document', o, stack')  BY <2>1, <4>1
      <4> QED  BY <2>1, <4>1, <4>4, <4>5, <4>6 DEF OnCourse
    <3> QED  BY <1>2, <3>1, <3>2
  <2> QED  BY <2>1, <2>2, <2>3
<1> QED  BY <1>6, <1>7, <1>8, <1>9 DEF Next

(* ParsesDocuments, for every document and every text that is a print of   *)
(* it or the beginning of one: whatever its names, words, contents and     *)
(* white space, however deep its elements are nested and wherever it is    *)
(* cut off, the parser returns the tree of a document that is there as a   *)
(* whole, and refuses any other; the last byte, which it reads again at    *)
(* the end of the buffer, is never taken for more of the text.             *)
THEOREM ParsesEveryDocument == Spec => []ParsesDocuments
<1>1. Init => CourseInv
  BY DEF Init, CourseInv, ParsesDocuments
<1>2. IInv /\ CourseInv /\ [Next]_vars => CourseInv'  BY CourseKept
<1>3. CourseInv => ParsesDocuments
  BY DEF CourseInv, ParsesDocuments, Document
<1> QED  BY IInvHolds, <1>1, <1>2, <1>3, PTL DEF Spec

=============================================================================
