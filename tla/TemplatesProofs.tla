--------------------------- MODULE TemplatesProofs --------------------------
(***************************************************************************)
(* What the operators of FlowDefs do to every command, list of             *)
(* declarations and value, however long: which declaration counts, what    *)
(* Load holds, and that replacing the references of a command one after    *)
(* the other, the outputs first and the secrets of the result then, is to  *)
(* replace them all at once (AtOnce), if no value looks like a reference   *)
(* that is still to be replaced (Replaceable).                             *)
(*                                                                         *)
(* The proofs are by induction over the length of the command.  It is      *)
(* drawn from the least element of a set of numbers (Smallest), as the     *)
(* theorems about induction of the library take an operator.  What is      *)
(* computed by a fold or a recursive function is given as a function of    *)
(* the number of elements that are done (Iterates).                        *)
(***************************************************************************)
EXTENDS FlowDefs, TLAPS, WellFoundedInduction, NaturalsInduction, SequenceTheorems

-----------------------------------------------------------------------------
(* Induction *)

LEMMA Smallest ==
  ASSUME NEW T \in SUBSET Nat, T # {}
  PROVE  \E i \in T : \A j \in T : i <= j
<1> DEFINE R == OpToRel(<, Nat)
<1>1. IsWellFoundedOn(R, Nat)
  BY NatLessThanWellFounded
<1>2. \A i, j \in Nat : j < i => <<j, i>> \in R
  BY DEF OpToRel
<1> HIDE DEF R
<1>3. PICK i \in T : \A j \in T : ~ (<<j, i>> \in R)
  BY <1>1, WFMin, Zenon
<1>4. \A j \in T : ~ (j < i)
  BY <1>2, <1>3
<1> QED BY <1>3, <1>4

LEMMA Largest ==
  ASSUME NEW n \in Nat, NEW T \in SUBSET (1..n), T # {}
  PROVE  \E i \in T : \A j \in T : j <= i
<1> DEFINE U == {u \in Nat : \E i \in T : u = n - i}
<1>1. U \in SUBSET Nat /\ U # {}
  <2>1. PICK i \in T : TRUE
    OBVIOUS
  <2>2. n - i \in U
    OBVIOUS
  <2> QED BY <2>2
<1>2. PICK u \in U : \A v \in U : u <= v
  BY <1>1, Smallest
<1>3. PICK i \in T : u = n - i
  BY <1>2
<1>4. \A j \in T : n - i <= n - j
  BY <1>2, <1>3
<1> QED BY <1>4

LEMMA MinIs ==
  ASSUME NEW S \in SUBSET Nat, S # {}
  PROVE  Min(S) \in S /\ \A y \in S : Min(S) <= y
<1>1. \E m \in S : \A y \in S : m <= y
  BY Smallest
<1> QED
  BY <1>1 DEF Min

LEMMA Induct ==
  ASSUME NEW T, 0 \in T, \A n \in Nat \intersect T : n + 1 \in T
  PROVE  Nat \subseteq T
<1>1. SUFFICES ASSUME Nat \ T # {} PROVE FALSE
  OBVIOUS
<1>2. PICK x \in Nat \ T : \A y \in Nat \ T : x <= y
  BY <1>1, Smallest
<1>3. x # 0 /\ x - 1 \in Nat /\ x - 1 \notin Nat \ T
  BY <1>2
<1>4. x = (x - 1) + 1
  BY <1>2
<1> QED
  BY <1>2, <1>3, <1>4

LEMMA FiniteInduct ==
  ASSUME NEW N \in Nat, NEW T, 0 \in T, \A i \in 0..(N - 1) : i \in T => i + 1 \in T
  PROVE  0..N \subseteq T
<1> DEFINE U == {i \in Nat : i <= N => i \in T}
<1>1. 0 \in U
  OBVIOUS
<1>2. ASSUME NEW i \in Nat \intersect U PROVE i + 1 \in U
  <2> SUFFICES ASSUME i + 1 <= N PROVE i + 1 \in T
    OBVIOUS
  <2>1. i \in Nat /\ i \in T /\ i \in 0..(N - 1)
    <3>1. i \in Nat /\ i \in U
      BY <1>2
    <3> QED BY <3>1
  <2> QED BY <2>1
<1>3. Nat \subseteq U
  <2> HIDE DEF U
  <2> QED BY <1>1, <1>2, Induct
<1> QED
  BY <1>3

-----------------------------------------------------------------------------
(* Declarations *)

\* The declaration that counts is one of that name.
LEMMA LastNamedIs ==
  ASSUME NEW S, NEW s \in Seq(S), NEW n \in NamesOf(s)
  PROVE  LastNamed(s, n) \in ToSet(s) /\ LastNamed(s, n).name = n
<1> DEFINE T == {i \in DOMAIN s : s[i].name = n}
<1>1. DOMAIN s = 1..Len(s) /\ Len(s) \in Nat
  OBVIOUS
<1>2. T # {} /\ T \in SUBSET (1..Len(s))
  BY <1>1 DEF NamesOf
<1>3. \E i \in T : \A j \in T : j <= i
  BY <1>1, <1>2, Largest
<1>4. \E i \in DOMAIN s : s[i].name = n /\ \A j \in DOMAIN s : s[j].name = n => j <= i
  BY <1>3
<1> DEFINE last == CHOOSE i \in DOMAIN s : s[i].name = n /\ \A j \in DOMAIN s : s[j].name = n => j <= i
<1>5. last \in DOMAIN s /\ s[last].name = n
  BY <1>4
<1> QED
  BY <1>5 DEF LastNamed, ToSet

\* Load has the declared names with the values of their declarations on top of
\* what is known already.
LEMMA LoadIs ==
  ASSUME NEW S, NEW decls \in Seq(S), ValidSecrets(decls), NEW known
  PROVE  /\ DOMAIN Load(known, decls) = DOMAIN known \union {<<n>> : n \in NamesOf(decls)}
         /\ \A d \in ToSet(decls) : Load(known, decls)[<<d.name>>] = ResolveSecret(d)
         /\ \A x \in DOMAIN known :
              (\A d \in ToSet(decls) : x # <<d.name>>) => Load(known, decls)[x] = known[x]
<1> DEFINE new == Declarations(decls)
<1>1. DOMAIN new = {<<n>> : n \in NamesOf(decls)}
  BY DEF Declarations
<1>2. ASSUME NEW d \in ToSet(decls)
      PROVE  <<d.name>> \in DOMAIN new /\ new[<<d.name>>] = ResolveSecret(d)
  <2>1. PICK n : n = d.name
    OBVIOUS
  <2>2. n \in NamesOf(decls)
    BY <2>1 DEF NamesOf, ToSet
  <2>3. LastNamed(decls, n) \in ToSet(decls) /\ LastNamed(decls, n).name = n
    BY <2>2, LastNamedIs
  <2>4. LastNamed(decls, n) = d
    BY <2>1, <2>3 DEF ValidSecrets, ToSet
  <2>5. <<n>> \in DOMAIN new /\ new[<<n>>] = ResolveSecret(LastNamed(decls, n))
    BY <2>2 DEF Declarations
  <2> QED BY <2>1, <2>4, <2>5
<1>3. \A x \in DOMAIN known :
        (\A d \in ToSet(decls) : x # <<d.name>>) => x \notin DOMAIN new
  BY <1>1 DEF NamesOf, ToSet
<1> HIDE DEF new
<1>4. Load(known, decls) = Updated(known, new)
  BY DEF Load, new
<1> QED
  BY <1>1, <1>2, <1>3, <1>4 DEF Updated

-----------------------------------------------------------------------------
(* Folds and recursive functions *)

LEMMA MaxIs ==
  ASSUME NEW n \in Nat, NEW S \in SUBSET (1..(n + 1))
  PROVE  /\ n + 1 \in S => Max(S) = n + 1 /\ S \ {n + 1} \in SUBSET (1..n)
         /\ n + 1 \notin S => S \in SUBSET (1..n)
<1>1. ASSUME n + 1 \in S PROVE Max(S) = n + 1
  <2>1. \A y \in S : n + 1 >= y
    OBVIOUS
  <2>2. ASSUME NEW x \in S, \A y \in S : x >= y PROVE x = n + 1
    BY <1>1, <2>2
  <2> QED BY <1>1, <2>1, <2>2 DEF Max
<1>2. \A x \in S : x \in 1..n \/ x = n + 1
  OBVIOUS
<1> QED BY <1>1, <1>2

LEMMA MaxIn ==
  ASSUME NEW N \in Nat, NEW S \in SUBSET (1..N), S # {}
  PROVE  Max(S) \in S
<1> DEFINE T == {n \in Nat : \A U \in SUBSET (1..n) : U # {} => Max(U) \in U}
<1>1. 0 \in T
  <2>1. \A U \in SUBSET (1..0) : U = {}
    OBVIOUS
  <2> QED BY <2>1
<1>2. ASSUME NEW n \in Nat, n \in T, NEW U \in SUBSET (1..(n + 1)), U # {}
      PROVE  Max(U) \in U
  <2>1. CASE n + 1 \in U
    BY <2>1, MaxIs
  <2>2. CASE n + 1 \notin U
    <3>1. U \in SUBSET (1..n)
      BY <2>2, MaxIs
    <3> QED BY <1>2, <3>1
  <2> QED BY <2>1, <2>2
<1>3. \A n \in Nat \intersect T : n + 1 \in T
  <2> HIDE DEF T
  <2> SUFFICES ASSUME NEW n \in Nat, n \in T PROVE n + 1 \in T
    OBVIOUS
  <2>1. \A U \in SUBSET (1..(n + 1)) : U # {} => Max(U) \in U
    BY <1>2
  <2> QED BY <2>1 DEF T
<1>4. Nat \subseteq T
  <2> HIDE DEF T
  <2> QED BY <1>1, <1>3, Induct
<1>5. N \in T
  <2> HIDE DEF T
  <2> QED BY <1>4
<1> QED
  BY <1>5

\* A fold over indices, as FoldLeft has it: f is what it gives for a set of them.
Folds(f, n, base, op) ==
  \A S \in SUBSET (1..n) :
    f[S] = IF S = {} THEN base ELSE op[<<f[S \ {Max(S)}], Max(S)>>]

LEMMA FoldExists ==
  ASSUME NEW A, NEW base \in A, NEW N \in Nat, NEW op \in [A \X (1..N) -> A]
  PROVE  \E f \in [SUBSET (1..N) -> A] : Folds(f, N, base, op)
<1> DEFINE T == {n \in Nat : n <= N => \E f \in [SUBSET (1..n) -> A] : Folds(f, n, base, op)}
<1>1. 0 \in T
  <2>1. [S \in SUBSET (1..0) |-> base] \in [SUBSET (1..0) -> A]
    OBVIOUS
  <2>2. Folds([S \in SUBSET (1..0) |-> base], 0, base, op)
    BY DEF Folds
  <2> QED BY <2>1, <2>2
<1>2. ASSUME NEW n \in Nat, n \in T, n + 1 <= N
      PROVE \E f \in [SUBSET (1..(n + 1)) -> A] : Folds(f, n + 1, base, op)
  <2>0. n <= N /\ n + 1 \in 1..N
    BY <1>2
  <2>1. PICK f \in [SUBSET (1..n) -> A] : Folds(f, n, base, op)
    BY <1>2, <2>0
  <2> DEFINE g == [S \in SUBSET (1..(n + 1)) |->
                     IF n + 1 \in S THEN op[<<f[S \ {n + 1}], n + 1>>] ELSE f[S]]
  <2>2. g \in [SUBSET (1..(n + 1)) -> A]
    <3> SUFFICES ASSUME NEW S \in SUBSET (1..(n + 1)) PROVE g[S] \in A
      OBVIOUS
    <3> QED BY <2>0, MaxIs
  <2>3. ASSUME NEW S \in SUBSET (1..(n + 1))
        PROVE  g[S] = IF S = {} THEN base ELSE op[<<g[S \ {Max(S)}], Max(S)>>]
    <3>1. CASE n + 1 \in S
      <4>1. S \ {n + 1} \in SUBSET (1..(n + 1)) /\ n + 1 \notin S \ {n + 1}
        OBVIOUS
      <4>2. g[S \ {n + 1}] = f[S \ {n + 1}]
        BY <4>1
      <4> QED BY <3>1, MaxIs, <4>2
    <3>2. CASE n + 1 \notin S
      <4>1. g[S] = f[S] /\ S \in SUBSET (1..n)
        BY <3>2, MaxIs
      <4>2. S \ {Max(S)} \in SUBSET (1..(n + 1)) /\ n + 1 \notin S \ {Max(S)}
        BY <3>2
      <4>3. g[S \ {Max(S)}] = f[S \ {Max(S)}]
        BY <4>2
      <4>4. f[S] = IF S = {} THEN base ELSE op[<<f[S \ {Max(S)}], Max(S)>>]
        BY <4>1, <2>1 DEF Folds
      <4> QED BY <4>1, <4>3, <4>4
    <3> QED BY <3>1, <3>2
  <2>4. Folds(g, n + 1, base, op)
    <3> HIDE DEF g
    <3> QED BY <2>3 DEF Folds
  <2> QED BY <2>2, <2>4
<1>3. ASSUME NEW n \in Nat \intersect T PROVE n + 1 \in T
  <2> HIDE DEF T
  <2>1. n \in Nat /\ n \in T /\ n + 1 \in Nat
    OBVIOUS
  <2>2. ASSUME n + 1 <= N PROVE \E f \in [SUBSET (1..(n + 1)) -> A] : Folds(f, n + 1, base, op)
    BY <1>2, <2>1, <2>2
  <2> QED BY <2>1, <2>2 DEF T
<1>4. Nat \subseteq T
  <2> HIDE DEF T
  <2> QED BY <1>1, <1>3, Induct
<1>5. N \in T /\ N <= N
  <2> HIDE DEF T
  <2> QED BY <1>4
<1> QED
  BY <1>5

LEMMA PrefixOf ==
  ASSUME NEW N \in Nat, NEW i \in 0..(N - 1)
  PROVE  /\ i + 1 \in 1..N /\ 1..(i + 1) # {} /\ Max(1..(i + 1)) = i + 1
         /\ (1..(i + 1)) \ {i + 1} = 1..i
         /\ 1..(i + 1) \subseteq 1..N
<1>1. i \in Nat /\ i + 1 \in 1..N /\ i + 1 \in 1..(i + 1)
  OBVIOUS
<1>2. Max(1..(i + 1)) = i + 1
  BY <1>1, MaxIs
<1>3. (1..(i + 1)) \ {i + 1} = 1..i
  OBVIOUS
<1>4. 1..(i + 1) \subseteq 1..N
  OBVIOUS
<1>5. 1..(i + 1) # {}
  BY <1>1
<1> QED BY <1>1, <1>2, <1>3, <1>4, <1>5

Iterates(g, N, base, op) ==
  g[0] = base /\ \A i \in 0..(N - 1) : g[i + 1] = op[<<g[i], i + 1>>]

LEMMA RecursionExists ==
  ASSUME NEW A, NEW base \in A, NEW N \in Nat, NEW op \in [A \X (1..N) -> A]
  PROVE  \E g \in [0..N -> A] : Iterates(g, N, base, op)
<1>1. PICK f \in [SUBSET (1..N) -> A] : Folds(f, N, base, op)
  BY FoldExists
<1> DEFINE g == [i \in 0..N |-> f[1..i]]
<1>2. g \in [0..N -> A]
  <2> SUFFICES ASSUME NEW i \in 0..N PROVE f[1..i] \in A
    OBVIOUS
  <2>1. 1..i \in SUBSET (1..N)
    OBVIOUS
  <2> QED BY <2>1
<1>3. g[0] = base
  <2>1. 1..0 = {} /\ {} \in SUBSET (1..N) /\ 0 \in 0..N
    OBVIOUS
  <2> QED BY <1>1, <2>1 DEF Folds
<1>4. ASSUME NEW i \in 0..(N - 1) PROVE g[i + 1] = op[<<g[i], i + 1>>]
  <2>1. /\ i + 1 \in 1..N /\ 1..(i + 1) # {} /\ Max(1..(i + 1)) = i + 1
        /\ (1..(i + 1)) \ {i + 1} = 1..i /\ 1..(i + 1) \subseteq 1..N
    BY PrefixOf
  <2>2. f[1..(i + 1)] = op[<<f[1..i], i + 1>>]
    BY <1>1, <2>1 DEF Folds
  <2>3. i + 1 \in 0..N /\ i \in 0..N
    OBVIOUS
  <2> QED BY <2>2, <2>3
<1> QED
  <2> HIDE DEF g
  <2> QED BY <1>2, <1>3, <1>4 DEF Iterates

-----------------------------------------------------------------------------
(* The references of a command *)

LEMMA ReferencesFold ==
  ASSUME NEW T, NEW c \in Seq(T), NEW kind
  PROVE  \E g \in [0..Len(c) -> Seq(T)] :
           /\ g[0] = <<>> /\ References(c, kind) = g[Len(c)]
           /\ \A i \in 0..(Len(c) - 1) :
                g[i + 1] = IF c[i + 1][1] = kind THEN Append(g[i], c[i + 1]) ELSE g[i]
<1> DEFINE N == Len(c)
           Body(f, i) == IF i = 0 THEN <<>>
                         ELSE IF c[i][1] = kind THEN Append(f[i - 1], c[i]) ELSE f[i - 1]
           h == CHOOSE f : f = [i \in 0..N |-> Body(f, i)]
           op == [x \in Seq(T) \X (1..N) |->
                    IF c[x[2]][1] = kind THEN Append(x[1], c[x[2]]) ELSE x[1]]
<1>1. N \in Nat /\ \A i \in 1..N : c[i] \in T
  OBVIOUS
<1>2. References(c, kind) = h[N]
  <2>1. References(c, kind) = CHOOSE found \in {h[N]} : TRUE
    BY DEF References
  <2> HIDE DEF h, N
  <2> QED BY <2>1
<1>3. op \in [Seq(T) \X (1..N) -> Seq(T)]
  BY <1>1
<1>4a. PICK g \in [0..N -> Seq(T)] : Iterates(g, N, <<>>, op)
  <2> HIDE DEF op, N
  <2>1. <<>> \in Seq(T)
    OBVIOUS
  <2> QED BY <1>1, <1>3, <2>1, RecursionExists
<1>4. g[0] = <<>> /\ \A i \in 0..(N - 1) : g[i + 1] = op[<<g[i], i + 1>>]
  BY <1>4a DEF Iterates
<1>5. ASSUME NEW i \in 0..(N - 1)
      PROVE  g[i + 1] = IF c[i + 1][1] = kind THEN Append(g[i], c[i + 1]) ELSE g[i]
  <2>1. i \in 0..N /\ i + 1 \in 1..N /\ g[i] \in Seq(T)
    BY <1>1
  <2> QED BY <1>4, <2>1
<1>6. g = [i \in 0..N |-> Body(g, i)]
  <2> SUFFICES ASSUME NEW i \in 0..N PROVE g[i] = Body(g, i)
    OBVIOUS
  <2>1. CASE i = 0
    BY <1>4, <2>1
  <2>2. CASE i # 0
    <3>1. PICK j \in 0..(N - 1) : j = i - 1 /\ j + 1 = i
      <4>1. i - 1 \in 0..(N - 1) /\ (i - 1) + 1 = i
        BY <1>1, <2>2
      <4> QED BY <4>1
    <3> QED BY <1>5, <2>2, <3>1
  <2> QED BY <2>1, <2>2
<1>7. h = [i \in 0..N |-> Body(h, i)]
  <2> HIDE DEF Body
  <2> QED BY <1>6
<1>8. h[0] = <<>>
  <2> HIDE DEF h
  <2> QED BY <1>1, <1>7
<1>9. ASSUME NEW i \in 0..(N - 1)
      PROVE  h[i + 1] = IF c[i + 1][1] = kind THEN Append(h[i], c[i + 1]) ELSE h[i]
  <2> HIDE DEF h
  <2>1. i + 1 \in 0..N /\ i + 1 # 0 /\ (i + 1) - 1 = i
    BY <1>1
  <2>2. h[i + 1] = Body(h, i + 1)
    <3> HIDE DEF Body
    <3> QED BY <1>7, <2>1
  <2> QED BY <2>1, <2>2
<1> HIDE DEF h
<1> DEFINE U == {i \in 0..N : h[i] = g[i]}
<1>10. 0..N \subseteq U
  <2>1. 0 \in U
    BY <1>1, <1>4, <1>8
  <2>2. ASSUME NEW i \in 0..(N - 1), i \in U PROVE i + 1 \in U
    BY <1>1, <1>5, <1>9, <2>2
  <2> HIDE DEF U
  <2> QED BY <1>1, <2>1, <2>2, FiniteInduct
<1>11. N \in 0..N
  BY <1>1
<1>12. References(c, kind) = g[N]
  BY <1>2, <1>10, <1>11
<1> QED
  BY <1>4, <1>5, <1>12

\* n is how many references there are up to an index.
Counts(n, c, kind) ==
  /\ n \in [0..Len(c) -> Nat] /\ n[0] = 0 /\ n[Len(c)] = Len(References(c, kind))
  /\ \A i \in 0..(Len(c) - 1) :
       IF c[i + 1][1] = kind
       THEN /\ n[i + 1] = n[i] + 1 /\ n[i + 1] \in 1..Len(References(c, kind))
            /\ References(c, kind)[n[i] + 1] = c[i + 1]
       ELSE n[i + 1] = n[i]

LEMMA ReferencesInOrder ==
  ASSUME NEW T, NEW c \in Seq(T), NEW kind
  PROVE  \E n : Counts(n, c, kind)
<1>1. PICK g \in [0..Len(c) -> Seq(T)] :
           /\ g[0] = <<>> /\ References(c, kind) = g[Len(c)]
           /\ \A i \in 0..(Len(c) - 1) :
                g[i + 1] = IF c[i + 1][1] = kind THEN Append(g[i], c[i + 1]) ELSE g[i]
  BY ReferencesFold
<1> DEFINE N == Len(c)
           Pre(a, b) == Len(a) <= Len(b) /\ \A k \in 1..Len(a) : a[k] = b[k]
           U == {i \in 0..N : \A j \in 0..i : Pre(g[j], g[i])}
           n == [i \in 0..N |-> Len(g[i])]
<1>2. N \in Nat /\ \A i \in 1..N : c[i] \in T
  OBVIOUS
<1>3. 0 \in U
  <2>1. 0 \in 0..N /\ \A j \in 0..0 : j = 0
    BY <1>2
  <2> QED BY <1>1, <2>1
<1>4. ASSUME NEW i \in 0..(N - 1), i \in U PROVE i + 1 \in U
  <2>0. i + 1 \in 1..N /\ i + 1 \in 0..N /\ i \in 0..N
    BY <1>2
  <2>1. i + 1 \in 0..N /\ i \in 0..N /\ g[i] \in Seq(T) /\ g[i + 1] \in Seq(T) /\ c[i + 1] \in T
    BY <1>2, <2>0
  <2>2. g[i + 1] = g[i] \/ g[i + 1] = Append(g[i], c[i + 1])
    BY <1>1
  <2>3. Pre(g[i], g[i + 1])
    BY <2>1, <2>2
  <2>4. ASSUME NEW j \in 0..(i + 1) PROVE Pre(g[j], g[i + 1])
    <3>1. CASE j = i + 1
      BY <2>1, <3>1
    <3>2. CASE j # i + 1
      <4>1. j \in 0..i /\ j \in 0..N /\ g[j] \in Seq(T)
        BY <1>2, <3>2
      <4>2. Pre(g[j], g[i])
        BY <1>4, <4>1
      <4> QED BY <2>1, <2>3, <4>1, <4>2
    <3> QED BY <3>1, <3>2
  <2> HIDE DEF Pre
  <2> QED BY <2>1, <2>4
<1>5. N \in U
  <2>1. 0..N \subseteq U
    <3> HIDE DEF U
    <3> QED BY <1>2, <1>3, <1>4, FiniteInduct
  <2> HIDE DEF U
  <2> QED BY <1>2, <2>1
<1>6. \A i \in 0..N : Pre(g[i], g[N])
  <2> HIDE DEF Pre
  <2> QED BY <1>5
<1>7. n \in [0..N -> Nat] /\ n[0] = 0 /\ n[N] = Len(g[N]) /\ g[N] \in Seq(T)
  BY <1>1, <1>2
<1>8. ASSUME NEW i \in 0..(N - 1)
      PROVE  IF c[i + 1][1] = kind
             THEN n[i + 1] = n[i] + 1 /\ n[i + 1] \in 1..Len(g[N]) /\ g[N][n[i] + 1] = c[i + 1]
             ELSE n[i + 1] = n[i]
  <2>0. i + 1 \in 1..N /\ i + 1 \in 0..N /\ i \in 0..N
    BY <1>2
  <2>1. i + 1 \in 0..N /\ i \in 0..N /\ g[i] \in Seq(T) /\ g[i + 1] \in Seq(T) /\ c[i + 1] \in T
    BY <1>2, <2>0
  <2>2. n[i] = Len(g[i]) /\ n[i + 1] = Len(g[i + 1])
    BY <2>1
  <2>3. Len(g[i + 1]) <= Len(g[N]) /\ \A k \in 1..Len(g[i + 1]) : g[i + 1][k] = g[N][k]
    BY <1>6, <2>1
  <2>4. CASE c[i + 1][1] = kind
    <3>1. g[i + 1] = Append(g[i], c[i + 1])
      BY <1>1, <2>4
    <3>2. Len(g[i + 1]) = Len(g[i]) + 1 /\ g[i + 1][Len(g[i]) + 1] = c[i + 1] /\ Len(g[i]) \in Nat
      BY <2>1, <3>1
    <3>3. Len(g[N]) \in Nat
      BY <1>7
    <3>4. PICK m \in Nat : m = Len(g[i])
      BY <3>2
    <3>5. m + 1 \in 1..Len(g[i + 1]) /\ g[i + 1][m + 1] = c[i + 1]
      BY <3>2, <3>4
    <3>6. g[N][m + 1] = c[i + 1]
      BY <2>3, <3>5
    <3>7. m + 1 \in 1..Len(g[N])
      BY <2>3, <3>2, <3>3, <3>4
    <3> HIDE DEF n, N
    <3> QED BY <2>2, <2>4, <3>2, <3>4, <3>6, <3>7
  <2>5. CASE c[i + 1][1] # kind
    <3>1. g[i + 1] = g[i]
      BY <1>1, <2>5
    <3> QED BY <2>2, <2>5, <3>1
  <2> QED BY <2>4, <2>5
<1>9. Counts(n, c, kind)
  <2> HIDE DEF n
  <2> QED BY <1>1, <1>7, <1>8 DEF Counts
<1> QED BY <1>9

\* They are tokens of that kind.
LEMMA ReferencesAre ==
  ASSUME NEW T, NEW c \in Seq(T), NEW kind
  PROVE  References(c, kind) \in Seq({c[i] : i \in {j \in 1..Len(c) : c[j][1] = kind}})
<1>a. PICK g \in [0..Len(c) -> Seq(T)] :
           /\ g[0] = <<>> /\ References(c, kind) = g[Len(c)]
           /\ \A i \in 0..(Len(c) - 1) :
                g[i + 1] = IF c[i + 1][1] = kind THEN Append(g[i], c[i + 1]) ELSE g[i]
  BY ReferencesFold
<1> DEFINE N == Len(c)
           refs == References(c, kind)
           K == {c[i] : i \in {j \in 1..N : c[j][1] = kind}}
<1>1. refs \in Seq(K)
  <2> DEFINE U == {i \in 0..N : g[i] \in Seq(K)}
  <2>2. N \in Nat
    OBVIOUS
  <2>3. 0 \in U
    <3>1. <<>> \in Seq(K) /\ 0 \in 0..N
      BY <2>2
    <3> QED BY <1>a, <3>1
  <2>4. ASSUME NEW i \in 0..(N - 1), i \in U PROVE i + 1 \in U
    <3>1. i + 1 \in 0..N /\ i + 1 \in 1..N /\ g[i] \in Seq(K)
      BY <2>2, <2>4
    <3>2. CASE c[i + 1][1] = kind
      <4>1. c[i + 1] \in K
        BY <3>1, <3>2
      <4>2. Append(g[i], c[i + 1]) \in Seq(K)
        <5> HIDE DEF K
        <5> QED BY <3>1, <4>1
      <4> QED BY <1>a, <3>1, <3>2, <4>2
    <3>3. CASE c[i + 1][1] # kind
      BY <1>a, <3>1, <3>3
    <3> QED BY <3>2, <3>3
  <2>5. 0..N \subseteq U
    <3> HIDE DEF U
    <3> QED BY <2>2, <2>3, <2>4, FiniteInduct
  <2>6. N \in U
    <3> HIDE DEF U
    <3> QED BY <2>2, <2>5
  <2> QED BY <1>a, <2>6
<1> QED BY <1>1

\* And all of them.
LEMMA ReferencesHas ==
  ASSUME NEW T, NEW c \in Seq(T), NEW kind, NEW i \in 1..Len(c), c[i][1] = kind
  PROVE  \E j \in 1..Len(References(c, kind)) : References(c, kind)[j] = c[i]
<1>1. PICK n : Counts(n, c, kind)
  BY ReferencesInOrder
<1>2. PICK k \in 0..(Len(c) - 1) : k + 1 = i
  <2>1. i - 1 \in 0..(Len(c) - 1) /\ (i - 1) + 1 = i
    OBVIOUS
  <2> QED BY <2>1
<1>3. /\ n[k + 1] \in 1..Len(References(c, kind)) /\ n[k + 1] = n[k] + 1
      /\ References(c, kind)[n[k] + 1] = c[k + 1]
  BY <1>1, <1>2 DEF Counts
<1> QED BY <1>2, <1>3

-----------------------------------------------------------------------------
(* Replacing one reference after the other *)

ReplacedAt(c, i, v) == SubSeq(c, 1, i - 1) \o v \o SubSeq(c, i + 1, Len(c))

LEMMA ReplaceOnceIs ==
  ASSUME NEW T, NEW c \in Seq(T), NEW t, NEW v
  PROVE  \/ (\A i \in 1..Len(c) : c[i] # t) /\ ReplaceOnce(c, t, v) = c
         \/ \E i \in 1..Len(c) :
              /\ c[i] = t /\ \A j \in 1..(i - 1) : c[j] # t
              /\ ReplaceOnce(c, t, v) = ReplacedAt(c, i, v)
<1> DEFINE I == {i \in 1..Len(c) : c[i] = t}
           k == IF I # {} THEN Min(I) ELSE 0
           new == IF k = 0 THEN c ELSE ReplacedAt(c, k, v)
<1>1. ReplaceOnce(c, t, v) = CHOOSE x \in {new} : TRUE
  BY DEF ReplaceOnce, SelectInSeq, ReplacedAt
<1>2. ReplaceOnce(c, t, v) = new
  <2> HIDE DEF new
  <2> QED BY <1>1
<1>3. CASE I = {}
  BY <1>2, <1>3
<1>4. CASE I # {}
  <2>1. I \in SUBSET Nat
    OBVIOUS
  <2>2. Min(I) \in I /\ \A y \in I : Min(I) <= y
    <3> HIDE DEF I
    <3> QED BY <1>4, <2>1, MinIs
  <2>3. Min(I) \in 1..Len(c) /\ c[Min(I)] = t /\ \A j \in 1..(Min(I) - 1) : c[j] # t
    <3>1. ASSUME NEW j \in 1..(Min(I) - 1), c[j] = t PROVE FALSE
      <4>1. Min(I) \in 1..Len(c) /\ Len(c) \in Nat
        BY <2>2
      <4>2. j \in I /\ j < Min(I)
        BY <3>1, <4>1
      <4> QED BY <2>2, <4>1, <4>2
    <3> QED BY <2>2, <3>1
  <2>4. ReplaceOnce(c, t, v) = ReplacedAt(c, Min(I), v)
    BY <1>2, <1>4, <2>3
  <2> QED BY <2>3, <2>4
<1> QED BY <1>3, <1>4

LEMMA ReplaceOnceType ==
  ASSUME NEW T, NEW c \in Seq(T), NEW t, NEW v \in Seq(T)
  PROVE  ReplaceOnce(c, t, v) \in Seq(T)
<1>1. ASSUME NEW i \in 1..Len(c) PROVE ReplacedAt(c, i, v) \in Seq(T)
  BY DEF ReplacedAt
<1> QED BY <1>1, ReplaceOnceIs

Around(c, s, t, u) == c = s \o (<<t>> \o u)

Misses(s, t) == \A i \in 1..Len(s) : s[i] # t

LEMMA ReplaceFirst ==
  ASSUME NEW T, NEW s \in Seq(T), NEW t \in T, NEW u \in Seq(T), NEW v \in Seq(T),
         NEW c, Around(c, s, t, u), Misses(s, t)
  PROVE  ReplaceOnce(c, t, v) = (s \o v) \o u
<1> DEFINE n == Len(s) + 1
<1>0. c = (s \o <<t>>) \o u
  BY DEF Around
<1>1. /\ c \in Seq(T) /\ Len(c) = n + Len(u) /\ n \in 1..Len(c)
      /\ \A i \in 1..Len(s) : c[i] = s[i]
      /\ c[n] = t
      /\ \A i \in 1..Len(u) : c[n + i] = u[i]
  BY <1>0
<1>2. SubSeq(c, 1, n - 1) = s
  BY <1>0
<1>3. SubSeq(c, n + 1, Len(c)) = u
  BY <1>0
<1>4. ReplacedAt(c, n, v) = (s \o v) \o u
  BY <1>2, <1>3 DEF ReplacedAt
<1>5. ASSUME NEW i \in 1..Len(c), c[i] = t, \A j \in 1..(i - 1) : c[j] # t PROVE i = n
  <2>0. n \in Nat /\ i \in Nat
    BY <1>1
  <2>1. ~(i < n)
    <3>1. \A j \in 1..(n - 1) : c[j] # t
      <4>1. n - 1 = Len(s)
        OBVIOUS
      <4> HIDE DEF n
      <4> QED BY <1>1, <4>1 DEF Misses
    <3> HIDE DEF n
    <3> QED BY <1>5, <2>0, <3>1
  <2>2. ~(i > n)
    BY <1>1, <1>5, <2>0
  <2> HIDE DEF n
  <2> QED BY <2>0, <2>1, <2>2
<1>6. ReplaceOnce(c, t, v) = (s \o v) \o u
  <2> HIDE DEF n
  <2>1. CASE \A i \in 1..Len(c) : c[i] # t
    BY <1>1, <2>1
  <2>2. ASSUME NEW i \in 1..Len(c), c[i] = t, \A j \in 1..(i - 1) : c[j] # t,
               ReplaceOnce(c, t, v) = ReplacedAt(c, i, v)
        PROVE  ReplaceOnce(c, t, v) = (s \o v) \o u
    <3>1. i = n
      BY <1>5, <2>2
    <3> QED BY <1>4, <2>2, <3>1
  <2>3. c \in Seq(T)
    BY <1>1
  <2>4. \/ (\A i \in 1..Len(c) : c[i] # t) /\ ReplaceOnce(c, t, v) = c
        \/ \E i \in 1..Len(c) :
              /\ c[i] = t /\ \A j \in 1..(i - 1) : c[j] # t
              /\ ReplaceOnce(c, t, v) = ReplacedAt(c, i, v)
    BY <2>3, ReplaceOnceIs, ZenonT(60)
  <2> QED BY <2>1, <2>2, <2>4
<1> QED BY <1>6

\* h is what the command is after so many references.
Replaces(h, T, c, refs, values) ==
  /\ h \in [0..Len(refs) -> Seq(T)]
  /\ h[0] = c /\ Substitute(c, refs, values) = h[Len(refs)]
  /\ \A i \in 0..(Len(refs) - 1) :
       h[i + 1] = ReplaceOnce(h[i], refs[i + 1], values[Tail(refs[i + 1])])

LEMMA SubstituteFold ==
  ASSUME NEW T, NEW c \in Seq(T), NEW R, NEW refs \in Seq(R), NEW values,
         \A i \in 1..Len(refs) : values[Tail(refs[i])] \in Seq(T)
  PROVE  \E g : Replaces(g, T, c, refs, values)
<1> DEFINE N == Len(refs)
           Body(f, S) == IF S = {} THEN c
                         ELSE ReplaceOnce(f[S \ {Max(S)}], refs[Max(S)], values[Tail(refs[Max(S)])])
           h == CHOOSE f : f = [S \in SUBSET DOMAIN refs |-> Body(f, S)]
           op == [x \in Seq(T) \X (1..N) |->
                    ReplaceOnce(x[1], refs[x[2]], values[Tail(refs[x[2]])])]
           g == [i \in 0..N |-> h[1..i]]
<1>1. N \in Nat /\ DOMAIN refs = 1..N
  OBVIOUS
<1>2. Substitute(c, refs, values) = h[1..N]
  BY <1>1 DEF Substitute, FoldLeft, MapThenFoldSet
<1>3. op \in [Seq(T) \X (1..N) -> Seq(T)]
  BY <1>1, ReplaceOnceType
<1>4. PICK f \in [SUBSET (1..N) -> Seq(T)] : Folds(f, N, c, op)
  <2> HIDE DEF op, N
  <2> QED BY <1>1, <1>3, FoldExists
<1>5. f = [S \in SUBSET DOMAIN refs |-> Body(f, S)]
  <2> SUFFICES ASSUME NEW S \in SUBSET (1..N) PROVE f[S] = Body(f, S)
    BY <1>1
  <2>1. CASE S = {}
    BY <1>4, <2>1 DEF Folds
  <2>2. CASE S # {}
    <3>1. Max(S) \in 1..N
      BY <1>1, <2>2, MaxIn
    <3>2. S \ {Max(S)} \in SUBSET (1..N)
      OBVIOUS
    <3>3. f[S] = op[<<f[S \ {Max(S)}], Max(S)>>]
      BY <1>4, <2>2 DEF Folds
    <3>4. f[S \ {Max(S)}] \in Seq(T)
      BY <3>2
    <3> QED BY <2>2, <3>1, <3>3, <3>4
  <2> QED BY <2>1, <2>2
<1>6. h = [S \in SUBSET (1..N) |-> Body(h, S)]
  <2> HIDE DEF Body
  <2> QED BY <1>1, <1>5
<1>7. g[0] = c /\ g[N] = h[1..N]
  <2> HIDE DEF h
  <2> QED BY <1>1, <1>6
<1>8. \A i \in 0..(N - 1) :
        g[i + 1] = ReplaceOnce(g[i], refs[i + 1], values[Tail(refs[i + 1])])
  <2> HIDE DEF h
  <2> SUFFICES ASSUME NEW i \in 0..(N - 1)
               PROVE  h[1..(i + 1)] = ReplaceOnce(h[1..i], refs[i + 1], values[Tail(refs[i + 1])])
    BY <1>1
  <2> HIDE DEF N
  <2>1. /\ 1..(i + 1) \subseteq 1..N /\ 1..(i + 1) # {} /\ Max(1..(i + 1)) = i + 1
        /\ (1..(i + 1)) \ {i + 1} = 1..i
    BY <1>1, PrefixOf
  <2>2. h[1..(i + 1)] = Body(h, 1..(i + 1))
    <3> HIDE DEF Body
    <3> QED BY <1>6, <2>1
  <2> QED BY <2>1, <2>2
<1>9. \A i \in 0..N : g[i] \in Seq(T)
  <2> HIDE DEF g, h
  <2> DEFINE U == {i \in 0..N : g[i] \in Seq(T)}
  <2>1. 0 \in U
    BY <1>1, <1>7
  <2>2. ASSUME NEW i \in 0..(N - 1), i \in U PROVE i + 1 \in U
    <3>1. i + 1 \in 0..N /\ g[i] \in Seq(T) /\ values[Tail(refs[i + 1])] \in Seq(T)
      BY <1>1, <2>2
    <3> QED BY <1>8, <3>1, ReplaceOnceType
  <2>3. 0..N \subseteq U
    <3> HIDE DEF U
    <3> QED BY <1>1, <2>1, <2>2, FiniteInduct
  <2> QED BY <2>3
<1>10. Replaces(g, T, c, refs, values)
  <2>1. g \in [0..N -> Seq(T)]
    BY <1>9
  <2> HIDE DEF g, h
  <2> QED BY <1>2, <1>7, <1>8, <2>1 DEF Replaces
<1> QED BY <1>10

\* What comes out has the tokens of the command and of the values.
LEMMA SubstituteWithin ==
  ASSUME NEW T, NEW c \in Seq(T), NEW R, NEW refs \in Seq(R), NEW values,
         \A i \in 1..Len(refs) : values[Tail(refs[i])] \in Seq(T)
  PROVE  Substitute(c, refs, values) \in Seq(T)
<1>1. PICK g : Replaces(g, T, c, refs, values)
  BY SubstituteFold
<1>2. Len(refs) \in 0..Len(refs)
  OBVIOUS
<1> QED
  BY <1>1, <1>2 DEF Replaces

-----------------------------------------------------------------------------
(* Replacing all references of one kind at once *)

Image(t, kind, values) == IF t[1] = kind THEN values[Tail(t)] ELSE <<t>>

Filled(c, kind, values) == FlattenSeq([i \in DOMAIN c |-> Image(c[i], kind, values)])

Fits(T, c, kind, values) == \A i \in 1..Len(c) : c[i][1] = kind => values[Tail(c[i])] \in Seq(T)

Fills(f, T, c, kind, values) ==
  /\ f \in [0..Len(c) -> Seq(T)]
  /\ f[0] = <<>> /\ Filled(c, kind, values) = f[Len(c)]
  /\ \A i \in 0..(Len(c) - 1) : f[i + 1] = f[i] \o Image(c[i + 1], kind, values)

Free(c, kind) == \A i \in 1..Len(c) : c[i][1] # kind

LEMMA FlattenFold ==
  ASSUME NEW T, NEW ss \in Seq(Seq(T))
  PROVE  \E g \in [0..Len(ss) -> Seq(T)] :
           /\ g[0] = <<>> /\ FlattenSeq(ss) = g[Len(ss)]
           /\ \A i \in 0..(Len(ss) - 1) : g[i + 1] = g[i] \o ss[i + 1]
<1> DEFINE N == Len(ss)
           Body(f, i) == IF i = 1 THEN ss[i] ELSE f[i - 1] \o ss[i]
           h == CHOOSE f : f = [i \in 1..N |-> Body(f, i)]
           op == [x \in Seq(T) \X (1..N) |-> x[1] \o ss[x[2]]]
           g == [i \in 0..N |-> IF i = 0 THEN <<>> ELSE h[i]]
<1>1. N \in Nat /\ \A i \in 1..N : ss[i] \in Seq(T)
  OBVIOUS
<1>2. FlattenSeq(ss) = g[N]
  <2>1. CASE N = 0
    BY <2>1 DEF FlattenSeq
  <2>2. CASE N # 0
    <3>1. FlattenSeq(ss) = h[N]
      BY <2>2 DEF FlattenSeq
    <3> HIDE DEF h
    <3> QED BY <1>1, <2>2, <3>1
  <2> QED BY <2>1, <2>2
<1>3. op \in [Seq(T) \X (1..N) -> Seq(T)]
  BY <1>1
<1>4. PICK f \in [0..N -> Seq(T)] : Iterates(f, N, <<>>, op)
  <2> HIDE DEF op, N
  <2>1. <<>> \in Seq(T)
    OBVIOUS
  <2> QED BY <1>1, <1>3, <2>1, RecursionExists
<1>5. \A i \in 0..(N - 1) : f[i] \in Seq(T) /\ f[i + 1] = f[i] \o ss[i + 1]
  <2> SUFFICES ASSUME NEW i \in 0..(N - 1)
               PROVE  f[i] \in Seq(T) /\ f[i + 1] = f[i] \o ss[i + 1]
    OBVIOUS
  <2>1. i \in 0..N /\ i + 1 \in 1..N
    BY <1>1
  <2>2. f[i] \in Seq(T)
    BY <2>1
  <2>3. f[i + 1] = op[<<f[i], i + 1>>]
    <3> HIDE DEF op
    <3> QED BY <1>4 DEF Iterates
  <2> QED BY <2>1, <2>2, <2>3
<1>6. f[0] = <<>>
  BY <1>4 DEF Iterates
<1>7. \E e : e = [i \in 1..N |-> Body(e, i)]
  <2> DEFINE e == [i \in 1..N |-> f[i]]
  <2>1. ASSUME NEW i \in 1..N PROVE e[i] = Body(e, i)
    <3>1. PICK k \in 0..(N - 1) : k = i - 1 /\ k + 1 = i
      <4>1. i - 1 \in 0..(N - 1) /\ (i - 1) + 1 = i
        BY <1>1
      <4> QED BY <4>1
    <3>2. f[i] = f[k] \o ss[i] /\ f[k] \in Seq(T)
      BY <1>5, <3>1
    <3>3. CASE i = 1
      <4>0. k = 0
        BY <3>1, <3>3
      <4>1. f[i] = <<>> \o ss[i]
        BY <1>6, <3>2, <4>0
      <4> QED BY <1>1, <3>3, <4>1
    <3>4. CASE i # 1
      <4>1. k \in 1..N
        BY <1>1, <3>1, <3>4
      <4> QED BY <3>1, <3>2, <3>4, <4>1
    <3> QED BY <3>3, <3>4
  <2> HIDE DEF Body
  <2>2. e = [i \in 1..N |-> Body(e, i)]
    BY <2>1
  <2> HIDE DEF e
  <2> QED BY <2>2
<1>8. h = [i \in 1..N |-> Body(h, i)]
  <2> HIDE DEF Body
  <2> QED BY <1>7
<1>9. \A i \in 0..(N - 1) : g[i + 1] = IF i = 0 THEN ss[i + 1] ELSE g[i] \o ss[i + 1]
  <2> HIDE DEF h
  <2> SUFFICES ASSUME NEW i \in 0..(N - 1)
               PROVE  h[i + 1] = IF i = 0 THEN ss[i + 1] ELSE h[i] \o ss[i + 1]
    BY <1>1
  <2>1. i + 1 \in 1..N /\ (i + 1) - 1 = i
    BY <1>1
  <2>2. h[i + 1] = Body(h, i + 1)
    <3> HIDE DEF Body
    <3> QED BY <1>8, <2>1
  <2> QED BY <2>1, <2>2
<1>10. g[0] = <<>>
  BY <1>1
<1>11. \A i \in 0..N : g[i] \in Seq(T)
  <2> HIDE DEF g, h
  <2> DEFINE U == {i \in 0..N : g[i] \in Seq(T)}
  <2>1. 0 \in U
    <3>1. <<>> \in Seq(T) /\ 0 \in 0..N
      BY <1>1
    <3> QED BY <1>10, <3>1
  <2>2. ASSUME NEW i \in 0..(N - 1), i \in U PROVE i + 1 \in U
    <3>1. i + 1 \in 0..N /\ g[i] \in Seq(T) /\ ss[i + 1] \in Seq(T)
      BY <1>1, <2>2
    <3>2. g[i] \o ss[i + 1] \in Seq(T)
      BY <3>1
    <3> QED BY <1>9, <3>1, <3>2
  <2>3. 0..N \subseteq U
    <3> HIDE DEF U
    <3> QED BY <1>1, <2>1, <2>2, FiniteInduct
  <2> QED BY <2>3
<1>12. \A i \in 0..(N - 1) : g[i + 1] = g[i] \o ss[i + 1]
  <2> HIDE DEF g, h
  <2> SUFFICES ASSUME NEW i \in 0..(N - 1) PROVE g[i + 1] = g[i] \o ss[i + 1]
    OBVIOUS
  <2>1. ss[i + 1] \in Seq(T)
    BY <1>1
  <2>2. <<>> \o ss[i + 1] = ss[i + 1]
    BY <2>1
  <2> QED BY <1>9, <1>10, <2>2
<1> QED
  <2>1. g \in [0..N -> Seq(T)]
    BY <1>11
  <2> HIDE DEF g, h
  <2> QED BY <1>2, <1>10, <1>12, <2>1

LEMMA FilledFold ==
  ASSUME NEW T, NEW c \in Seq(T), NEW kind, NEW values, Fits(T, c, kind, values)
  PROVE  \E g : Fills(g, T, c, kind, values)
<1> DEFINE ss == [i \in 1..Len(c) |-> Image(c[i], kind, values)]
<1>1. \A i \in 1..Len(c) : Image(c[i], kind, values) \in Seq(T)
  BY DEF Image, Fits
<1>2. ss \in Seq(Seq(T)) /\ Len(ss) = Len(c) /\ \A i \in 1..Len(c) : ss[i] = Image(c[i], kind, values)
  <2> HIDE DEF Image
  <2> QED BY <1>1
<1>3. Filled(c, kind, values) = FlattenSeq(ss)
  BY DEF Filled
<1> QED
  <2> HIDE DEF ss
  <2>1. PICK g \in [0..Len(ss) -> Seq(T)] :
           /\ g[0] = <<>> /\ FlattenSeq(ss) = g[Len(ss)]
           /\ \A i \in 0..(Len(ss) - 1) : g[i + 1] = g[i] \o ss[i + 1]
    BY <1>2, FlattenFold
  <2>2. \A i \in 0..(Len(c) - 1) : g[i + 1] = g[i] \o Image(c[i + 1], kind, values)
    <3> SUFFICES ASSUME NEW i \in 0..(Len(c) - 1) PROVE g[i + 1] = g[i] \o Image(c[i + 1], kind, values)
      OBVIOUS
    <3>1. i + 1 \in 1..Len(c)
      OBVIOUS
    <3> QED BY <1>2, <2>1, <3>1
  <2>3. Fills(g, T, c, kind, values)
    BY <1>2, <1>3, <2>1, <2>2 DEF Fills
  <2> QED BY <2>3

LEMMA FreeConcat ==
  ASSUME NEW T, NEW a \in Seq(T), NEW b \in Seq(T), NEW kind, Free(a, kind), Free(b, kind)
  PROVE  Free(a \o b, kind)
BY DEF Free

\* It is the same if no value has a reference of that kind.
LEMMA SubstituteIsFilled ==
  ASSUME NEW T, NEW c \in Seq(T), NEW kind, NEW values, Fits(T, c, kind, values),
         \A i \in 1..Len(c) : c[i][1] = kind => Free(values[Tail(c[i])], kind)
  PROVE  Substitute(c, References(c, kind), values) = Filled(c, kind, values)
<1>1. PICK n : Counts(n, c, kind)
  BY ReferencesInOrder
<1>2. PICK refs : refs = References(c, kind)
  OBVIOUS
<1>3. refs \in Seq({c[i] : i \in {j \in 1..Len(c) : c[j][1] = kind}})
  BY <1>2, ReferencesAre
<1>4. PICK h : Replaces(h, T, c, refs, values)
  <2>1. PICK K : K = {c[i] : i \in {j \in 1..Len(c) : c[j][1] = kind}}
    OBVIOUS
  <2>2. \A t \in K : values[Tail(t)] \in Seq(T)
    BY <2>1 DEF Fits
  <2>3. refs \in Seq(K)
    BY <1>3, <2>1
  <2>4. \A k \in 1..Len(refs) : values[Tail(refs[k])] \in Seq(T)
    BY <2>2, <2>3
  <2> QED BY <2>3, <2>4, SubstituteFold
<1>5. PICK f : Fills(f, T, c, kind, values)
  BY FilledFold
<1> DEFINE N == Len(c)
           Rest(i) == SubSeq(c, i + 1, N)
<1>0. N \in Nat /\ \A i \in 1..N : c[i] \in T
  OBVIOUS
<1> DEFINE U == {i \in 0..N : h[n[i]] = f[i] \o Rest(i) /\ Free(f[i], kind)}
<1>6. 0 \in U
  <2>1. c = <<>> \o SubSeq(c, 1, N)
    OBVIOUS
  <2>2. 0 \in 0..N /\ Free(<<>>, kind) /\ 0 + 1 = 1
    BY <1>0 DEF Free
  <2>3. h[n[0]] = c /\ f[0] = <<>>
    BY <1>1, <1>4, <1>5 DEF Counts, Replaces, Fills
  <2>4. h[n[0]] = f[0] \o Rest(0)
    BY <2>1, <2>2, <2>3
  <2> QED BY <2>2, <2>3, <2>4
<1>7. ASSUME NEW i \in 0..(N - 1), i \in U PROVE i + 1 \in U
  <2>1. i \in 0..N /\ i + 1 \in 0..N /\ i + 1 \in 1..N
    BY <1>0
  <2>2. PICK t \in T : t = c[i + 1]
    BY <1>0, <2>1
  <2>3. PICK s \in Seq(T) : s = f[i]
    BY <1>5, <2>1 DEF Fills
  <2>4. PICK u \in Seq(T) : u = Rest(i + 1)
    <3>1. SubSeq(c, (i + 1) + 1, Len(c)) \in Seq(T)
      BY <2>1
    <3> QED BY <3>1
  <2>5. PICK x \in Seq(T) : x = h[n[i]] /\ x = s \o Rest(i) /\ Free(s, kind)
    <3>1. Rest(i) \in Seq(T)
      BY <1>0, <2>1
    <3>2. s \o Rest(i) \in Seq(T)
      BY <3>1
    <3> QED BY <1>7, <2>3, <3>2
  <2>6. Around(x, s, t, u)
    <3>1. i + 1 \in 1..Len(c) /\ Len(c) \in (i + 1)..Len(c)
      BY <2>1
    <3>2. SubSeq(c, i + 1, Len(c)) = <<c[i + 1]>> \o SubSeq(c, (i + 1) + 1, Len(c))
      BY <3>1, SubSeqRecursiveFirst, Zenon
    <3> QED BY <2>2, <2>4, <2>5, <3>2 DEF Around
  <2>7. CASE t[1] = kind
    <3>1. PICK v \in Seq(T) : v = values[Tail(t)] /\ v = Image(t, kind, values) /\ Free(v, kind)
      BY <2>1, <2>2, <2>7 DEF Image, Fits
    <3>2. n[i] \in 0..(Len(refs) - 1) /\ n[i + 1] = n[i] + 1 /\ refs[n[i] + 1] = t
      <4>1. n[i] \in Nat
        BY <1>1, <2>1 DEF Counts
      <4>2. Len(refs) \in Nat
        BY <1>3
      <4> HIDE DEF N
      <4> QED BY <1>1, <1>2, <2>2, <2>7, <4>1, <4>2 DEF Counts, N
    <3>3. h[n[i + 1]] = ReplaceOnce(x, t, v)
      BY <1>4, <2>5, <3>1, <3>2 DEF Replaces
    <3>4. Misses(s, t)
      BY <2>5, <2>7 DEF Free, Misses
    <3>5. ReplaceOnce(x, t, v) = (s \o v) \o u
      BY <2>6, <3>4, ReplaceFirst
    <3>6. f[i + 1] = s \o v
      BY <1>5, <2>2, <2>3, <3>1 DEF Fills
    <3>7. Free(s \o v, kind)
      BY <2>5, <3>1, FreeConcat
    <3> QED BY <2>1, <2>4, <3>3, <3>5, <3>6, <3>7
  <2>8. CASE t[1] # kind
    <3>1. f[i + 1] = s \o <<t>>
      BY <1>5, <2>2, <2>3, <2>8 DEF Image, Fills
    <3>2. n[i + 1] = n[i]
      BY <1>1, <2>2, <2>8 DEF Counts
    <3>3. Free(s \o <<t>>, kind)
      BY <2>5, <2>8 DEF Free
    <3>4. x = (s \o <<t>>) \o u
      <4>1. x = s \o (<<t>> \o u)
        BY <2>6 DEF Around
      <4>2. PICK a \in Seq(T) : a = <<t>>
        <5>1. <<t>> \in Seq(T)
          OBVIOUS
        <5> QED BY <5>1
      <4>3. (s \o a) \o u = s \o (a \o u)
        BY <4>2, ConcatAssociative
      <4> QED BY <4>1, <4>2, <4>3
    <3> QED BY <2>1, <2>4, <2>5, <3>1, <3>2, <3>3, <3>4
  <2> QED BY <2>7, <2>8
<1>8. N \in U
  <2>1. 0..N \subseteq U
    <3> HIDE DEF U
    <3> QED BY <1>0, <1>6, <1>7, FiniteInduct
  <2> HIDE DEF U
  <2> QED BY <1>0, <2>1
<1>9. f[N] \o Rest(N) = f[N]
  <2>1. f[N] \in Seq(T)
    <3>1. N \in 0..N
      BY <1>0
    <3> QED BY <1>5, <3>1 DEF Fills
  <2>2. SubSeq(c, N + 1, N) = <<>>
    BY <1>0, SubSeqEmpty
  <2> QED BY <2>1, <2>2
<1> QED
  BY <1>1, <1>2, <1>4, <1>5, <1>8, <1>9 DEF Counts, Replaces, Fills

LEMMA FilledConcat ==
  ASSUME NEW T, NEW a \in Seq(T), NEW b \in Seq(T), NEW kind, NEW values,
         Fits(T, a, kind, values), Fits(T, b, kind, values)
  PROVE  /\ Filled(a, kind, values) \in Seq(T) /\ Filled(b, kind, values) \in Seq(T)
         /\ Filled(a \o b, kind, values) = Filled(a, kind, values) \o Filled(b, kind, values)
<1>0. PICK c \in Seq(T) : c = a \o b
  <2>1. a \o b \in Seq(T)
    OBVIOUS
  <2> QED BY <2>1
<1>1. /\ Len(c) = Len(a) + Len(b) /\ Len(a) \in Nat /\ Len(b) \in Nat
      /\ \A i \in 1..Len(a) : c[i] = a[i]
      /\ \A i \in 1..Len(b) : c[Len(a) + i] = b[i]
  BY <1>0
<1>2. Fits(T, c, kind, values)
  BY <1>0 DEF Fits
<1>3. PICK f : Fills(f, T, a, kind, values)
  BY FilledFold
<1>4. PICK g : Fills(g, T, b, kind, values)
  BY FilledFold
<1>5. PICK h : Fills(h, T, c, kind, values)
  BY <1>2, FilledFold
<1> DEFINE A == Len(a)
           B == Len(b)
           U == {i \in 0..A : h[i] = f[i]}
           W == {i \in 0..B : h[A + i] = f[A] \o g[i]}
<1>6. A \in U
  <2>1. 0 \in U
    BY <1>1, <1>3, <1>5 DEF Fills
  <2>2. ASSUME NEW i \in 0..(A - 1), i \in U PROVE i + 1 \in U
    <3>1. i + 1 \in 0..A /\ i + 1 \in 1..A /\ i \in 0..(Len(c) - 1)
      BY <1>1
    <3>2. c[i + 1] = a[i + 1]
      BY <1>1, <3>1
    <3> QED BY <1>3, <1>5, <2>2, <3>1, <3>2 DEF Fills
  <2>3. 0..A \subseteq U
    <3> HIDE DEF U
    <3> QED BY <1>1, <2>1, <2>2, FiniteInduct
  <2>4. A \in 0..A
    OBVIOUS
  <2> HIDE DEF U, A
  <2> QED BY <2>3, <2>4
<1>7. B \in W
  <2>0. PICK s \in Seq(T) : s = f[A] /\ s = h[A]
    <3>1. A \in 0..A
      BY <1>1
    <3> QED BY <1>3, <1>6, <3>1 DEF Fills
  <2>1. 0 \in W
    <3>1. s \o <<>> = s /\ A + 0 = A /\ 0 \in 0..B
      BY <1>1
    <3> QED BY <1>4, <2>0, <3>1 DEF Fills
  <2>2. ASSUME NEW i \in 0..(B - 1), i \in W PROVE i + 1 \in W
    <3>1. /\ i + 1 \in 0..B /\ i + 1 \in 1..B /\ A + i \in 0..(Len(c) - 1)
          /\ A + (i + 1) = (A + i) + 1 /\ i \in 0..B
      BY <1>1
    <3>2. c[A + (i + 1)] = b[i + 1]
      BY <1>1, <3>1
    <3>3. PICK v \in Seq(T) : v = Image(b[i + 1], kind, values)
      <4>1. b[i + 1] \in T /\ (b[i + 1][1] = kind => values[Tail(b[i + 1])] \in Seq(T))
        BY <3>1 DEF Fits
      <4>2. Image(b[i + 1], kind, values) \in Seq(T)
        BY <4>1 DEF Image
      <4> QED BY <4>2
    <3>4. PICK x \in Seq(T) : x = g[i]
      BY <1>4, <3>1 DEF Fills
    <3>5. h[A + (i + 1)] = (s \o x) \o v
      <4>1. h[(A + i) + 1] = h[A + i] \o Image(c[(A + i) + 1], kind, values)
        BY <1>5, <3>1 DEF Fills
      <4>2. c[(A + i) + 1] = b[i + 1]
        BY <3>1, <3>2
      <4> QED BY <2>0, <2>2, <3>1, <3>3, <3>4, <4>1, <4>2
    <3>6. g[i + 1] = x \o v
      BY <1>4, <3>3, <3>4 DEF Fills
    <3>7. (s \o x) \o v = s \o (x \o v)
      OBVIOUS
    <3> QED BY <2>0, <3>1, <3>5, <3>6, <3>7
  <2>3. 0..B \subseteq W
    <3> HIDE DEF W
    <3> QED BY <1>1, <2>1, <2>2, FiniteInduct
  <2> HIDE DEF W
  <2> QED BY <1>1, <2>3
<1>8. f[A] \in Seq(T) /\ g[B] \in Seq(T)
  <2>1. A \in 0..A /\ B \in 0..B
    BY <1>1
  <2> QED BY <1>3, <1>4, <2>1 DEF Fills
<1> QED
  BY <1>0, <1>1, <1>3, <1>4, <1>5, <1>7, <1>8 DEF Fills

LEMMA FilledFree ==
  ASSUME NEW T, NEW c \in Seq(T), NEW kind, NEW values, Free(c, kind)
  PROVE  Fits(T, c, kind, values) /\ Filled(c, kind, values) = c
<1>1. Fits(T, c, kind, values)
  BY DEF Fits, Free
<1>2. PICK f : Fills(f, T, c, kind, values)
  BY <1>1, FilledFold
<1> DEFINE N == Len(c)
           U == {i \in 0..N : f[i] = SubSeq(c, 1, i)}
<1>3. N \in Nat
  OBVIOUS
<1>4. 0 \in U
  <2>1. SubSeq(c, 1, 0) = <<>> /\ 0 \in 0..N
    BY <1>3, SubSeqEmpty
  <2> QED BY <1>2, <2>1 DEF Fills
<1>5. ASSUME NEW i \in 0..(N - 1), i \in U PROVE i + 1 \in U
  <2>1. i + 1 \in 0..N /\ i + 1 \in 1..N /\ i \in 0..N
    BY <1>3
  <2>2. f[i + 1] = f[i] \o <<c[i + 1]>>
    BY <1>2, <2>1 DEF Fills, Free, Image
  <2>3. SubSeq(c, 1, i + 1) = SubSeq(c, 1, i) \o <<c[i + 1]>>
    BY <2>1
  <2> QED BY <1>5, <2>1, <2>2, <2>3
<1>6. N \in U
  <2>1. 0..N \subseteq U
    <3> HIDE DEF U
    <3> QED BY <1>3, <1>4, <1>5, FiniteInduct
  <2> HIDE DEF U
  <2> QED BY <1>3, <2>1
<1>7. SubSeq(c, 1, N) = c
  OBVIOUS
<1> QED
  BY <1>1, <1>2, <1>6, <1>7 DEF Fills

LEMMA FilledOne ==
  ASSUME NEW T, NEW t \in T, NEW kind, NEW values, t[1] = kind => values[Tail(t)] \in Seq(T)
  PROVE  Fits(T, <<t>>, kind, values) /\ Filled(<<t>>, kind, values) = Image(t, kind, values)
<1>0. PICK c \in Seq(T) : c = <<t>>
  <2>1. <<t>> \in Seq(T)
    OBVIOUS
  <2> QED BY <2>1
<1>1. Fits(T, c, kind, values) /\ Len(c) = 1 /\ c[1] = t
  BY <1>0 DEF Fits
<1>2. PICK f : Fills(f, T, c, kind, values)
  BY <1>1, FilledFold
<1>3. PICK v \in Seq(T) : v = Image(t, kind, values)
  <2>1. Image(t, kind, values) \in Seq(T)
    BY DEF Image
  <2> QED BY <2>1
<1>4. f[0 + 1] = f[0] \o Image(c[0 + 1], kind, values)
  <2>1. 0 \in 0..(Len(c) - 1)
    BY <1>1
  <2> QED BY <1>2, <2>1 DEF Fills
<1>5. f[1] = v
  BY <1>1, <1>2, <1>3, <1>4 DEF Fills
<1> QED
  BY <1>0, <1>1, <1>2, <1>3, <1>5 DEF Fills

-----------------------------------------------------------------------------
(* Replacing outputs and secrets at once *)

Both(t, outputs, secrets) ==
  CASE t[1] = "output" -> outputs[Tail(t)]
    [] t[1] = "secret" -> secrets[Tail(t)]
    [] OTHER -> <<t>>

AtOnce(c, outputs, secrets) == FlattenSeq([i \in DOMAIN c |-> Both(c[i], outputs, secrets)])

\* No value has a reference that is still to be replaced when it is put in.
Replaceable(T, c, outputs, secrets) ==
  \A i \in 1..Len(c) :
    /\ c[i][1] = "output" =>
         /\ outputs[Tail(c[i])] \in Seq(T)
         /\ Free(outputs[Tail(c[i])], "output") /\ Free(outputs[Tail(c[i])], "secret")
    /\ c[i][1] = "secret" =>
         secrets[Tail(c[i])] \in Seq(T) /\ Free(secrets[Tail(c[i])], "secret")

Safe(T, x, secrets) ==
  /\ Fits(T, x, "secret", secrets)
  /\ \A j \in 1..Len(x) : x[j][1] = "secret" => Free(secrets[Tail(x[j])], "secret")

LEMMA SafeConcat ==
  ASSUME NEW T, NEW a \in Seq(T), NEW b \in Seq(T), NEW secrets, Safe(T, a, secrets), Safe(T, b, secrets)
  PROVE  Safe(T, a \o b, secrets)
<1>1. ASSUME NEW i \in 1..Len(a \o b)
      PROVE  \/ i \in 1..Len(a) /\ (a \o b)[i] = a[i]
             \/ \E j \in 1..Len(b) : (a \o b)[i] = b[j]
  <2>1. Len(a \o b) = Len(a) + Len(b) /\ Len(a) \in Nat /\ Len(b) \in Nat
    OBVIOUS
  <2>2. CASE i <= Len(a)
    BY <2>1, <2>2
  <2>3. CASE i > Len(a)
    <3>1. i - Len(a) \in 1..Len(b) /\ (a \o b)[i] = b[i - Len(a)]
      BY <2>1, <2>3
    <3> QED BY <3>1
  <2> QED BY <2>1, <2>2, <2>3
<1> QED
  BY <1>1 DEF Safe, Fits

LEMMA PartFilled ==
  ASSUME NEW T, NEW c \in Seq(T), NEW outputs, NEW secrets, Replaceable(T, c, outputs, secrets),
         NEW i \in 1..Len(c)
  PROVE  /\ Both(c[i], outputs, secrets) \in Seq(T)
         /\ Image(c[i], "output", outputs) \in Seq(T)
         /\ Safe(T, Image(c[i], "output", outputs), secrets)
         /\ Filled(Image(c[i], "output", outputs), "secret", secrets) = Both(c[i], outputs, secrets)
<1>1. PICK t \in T : t = c[i]
  OBVIOUS
<1>2. CASE t[1] = "output"
  <2>1. PICK v \in Seq(T) : v = outputs[Tail(t)] /\ Free(v, "secret")
    BY <1>1, <1>2 DEF Replaceable
  <2>2. Image(t, "output", outputs) = v /\ Both(t, outputs, secrets) = v
    BY <1>2, <2>1 DEF Image, Both
  <2>3. Fits(T, v, "secret", secrets) /\ Filled(v, "secret", secrets) = v
    BY <2>1, FilledFree
  <2>4. Safe(T, v, secrets)
    BY <2>1, <2>3 DEF Safe, Free
  <2> QED BY <1>1, <2>2, <2>3, <2>4
<1>3. CASE t[1] # "output"
  <2>1. t[1] = "secret" => secrets[Tail(t)] \in Seq(T) /\ Free(secrets[Tail(t)], "secret")
    BY <1>1 DEF Replaceable
  <2>2. Image(t, "output", outputs) = <<t>> /\ <<t>> \in Seq(T)
    BY <1>3 DEF Image
  <2>3. Both(t, outputs, secrets) = Image(t, "secret", secrets)
    BY <1>3 DEF Image, Both
  <2>4. Fits(T, <<t>>, "secret", secrets) /\ Filled(<<t>>, "secret", secrets) = Image(t, "secret", secrets)
    BY <2>1, FilledOne
  <2>5. Image(t, "secret", secrets) \in Seq(T)
    BY <2>1, <2>2 DEF Image
  <2>6. Safe(T, <<t>>, secrets)
    BY <2>1, <2>4 DEF Safe
  <2> QED BY <1>1, <2>2, <2>3, <2>4, <2>5, <2>6
<1> QED BY <1>2, <1>3

\* Outputs one by one and then the secrets of the result one by one, each in
\* the place of what then is its first occurrence, as ResolveTemplates does it, is
\* what the command says with every reference replaced by its value.
THEOREM ResolvedAtOnce ==
  ASSUME NEW T, NEW c \in Seq(T), NEW outputs, NEW secrets, Replaceable(T, c, outputs, secrets),
         NEW filled, filled = Substitute(c, References(c, "output"), outputs)
  PROVE  Substitute(filled, References(filled, "secret"), secrets) = AtOnce(c, outputs, secrets)
<1> DEFINE N == Len(c)
           ss == [i \in 1..N |-> Both(c[i], outputs, secrets)]
<1>0. N \in Nat
  OBVIOUS
<1>1. Fits(T, c, "output", outputs)
  BY DEF Replaceable, Fits
<1>2. filled = Filled(c, "output", outputs)
  <2>1. \A i \in 1..Len(c) : c[i][1] = "output" => Free(outputs[Tail(c[i])], "output")
    BY DEF Replaceable
  <2> QED BY <1>1, <2>1, SubstituteIsFilled
<1>3. PICK f : Fills(f, T, c, "output", outputs)
  BY <1>1, FilledFold
<1>4. ss \in Seq(Seq(T)) /\ Len(ss) = N /\ \A i \in 1..N : ss[i] = Both(c[i], outputs, secrets)
  <2>1. \A i \in 1..N : Both(c[i], outputs, secrets) \in Seq(T)
    BY PartFilled
  <2> QED BY <2>1
<1>5. AtOnce(c, outputs, secrets) = FlattenSeq(ss)
  BY DEF AtOnce
<1>6. PICK w \in [0..Len(ss) -> Seq(T)] :
        /\ w[0] = <<>> /\ FlattenSeq(ss) = w[Len(ss)]
        /\ \A i \in 0..(Len(ss) - 1) : w[i + 1] = w[i] \o ss[i + 1]
  <2> HIDE DEF ss
  <2> QED BY <1>4, FlattenFold
<1> HIDE DEF ss
<1> DEFINE U == {i \in 0..N : Safe(T, f[i], secrets) /\ Filled(f[i], "secret", secrets) = w[i]}
<1>7. 0 \in U
  <2>1. PICK e \in Seq(T) : e = <<>> /\ e = f[0] /\ e = w[0]
    BY <1>3, <1>6 DEF Fills
  <2>2. Free(e, "secret") /\ Len(e) = 0
    BY <2>1 DEF Free
  <2>3. Safe(T, e, secrets)
    BY <2>2 DEF Safe, Fits
  <2>4. Filled(e, "secret", secrets) = e
    BY <2>2, FilledFree
  <2>5. Safe(T, f[0], secrets) /\ Filled(f[0], "secret", secrets) = w[0] /\ 0 \in 0..N
    <3>1. f[0] = e /\ w[0] = e /\ 0 \in 0..N
      BY <1>0, <2>1
    <3> QED BY <2>3, <2>4, <3>1, Zenon
  <2> QED BY <2>5
<1>8. ASSUME NEW i \in 0..(N - 1), i \in U PROVE i + 1 \in U
  <2>1. i \in 0..N /\ i + 1 \in 0..N /\ i + 1 \in 1..N
    BY <1>0
  <2>2. PICK a \in Seq(T) : a = f[i]
    BY <1>3, <2>1 DEF Fills
  <2>3. PICK b \in Seq(T) : b = Image(c[i + 1], "output", outputs)
    BY <2>1, PartFilled
  <2>4. /\ Safe(T, b, secrets)
        /\ Filled(b, "secret", secrets) = Both(c[i + 1], outputs, secrets)
    BY <2>1, <2>3, PartFilled
  <2>5. f[i + 1] = a \o b
    BY <1>3, <2>2, <2>3 DEF Fills
  <2>6. Safe(T, a, secrets) /\ Filled(a, "secret", secrets) = w[i]
    BY <1>8, <2>2
  <2>7. Safe(T, a \o b, secrets)
    BY <2>4, <2>6, SafeConcat
  <2>8. Filled(a \o b, "secret", secrets) = Filled(a, "secret", secrets) \o Filled(b, "secret", secrets)
    BY <2>4, <2>6, FilledConcat DEF Safe
  <2>9. w[i + 1] = w[i] \o Both(c[i + 1], outputs, secrets)
    BY <1>4, <1>6, <2>1
  <2> QED BY <2>1, <2>4, <2>5, <2>6, <2>7, <2>8, <2>9
<1>9. N \in U
  <2>1. 0..N \subseteq U
    <3> HIDE DEF U
    <3> QED BY <1>0, <1>7, <1>8, FiniteInduct
  <2> HIDE DEF U
  <2> QED BY <1>0, <2>1
<1>10. PICK o \in Seq(T) : o = filled /\ o = f[N]
  <2>1. N \in 0..N
    BY <1>0
  <2> QED BY <1>2, <1>3, <2>1 DEF Fills
<1>11. Safe(T, o, secrets) /\ Filled(o, "secret", secrets) = w[N]
  BY <1>9, <1>10
<1>12. Substitute(o, References(o, "secret"), secrets) = Filled(o, "secret", secrets)
  BY <1>11, SubstituteIsFilled DEF Safe
<1> QED
  BY <1>4, <1>5, <1>6, <1>10, <1>11, <1>12
=============================================================================
