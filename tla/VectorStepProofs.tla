--------------------------- MODULE VectorStepProofs ---------------------------
(***************************************************************************)
(* Lists and vectors: what every step of a writer, of the publisher and of *)
(* a session preserves.  The lemmas about sequences need the induction     *)
(* principle for numbers, which they take as a hypothesis;                 *)
(* VectorPubSubProofs proves it from the library of well-founded           *)
(* relations, which would make every proof here slower.                    *)
(***************************************************************************)
EXTENDS VectorPubSub, PublisherProofs

\* A set that has 0, and with a number its successor, has every natural number.
NaturalInduction ==
    \A I : 0 \in I /\ (\A n \in Nat : n \in I => n + 1 \in I) => Nat \subseteq I

LEMMA Induction ==
    ASSUME NaturalInduction, NEW I, 0 \in I, \A n \in Nat : n \in I => n + 1 \in I
    PROVE  Nat \subseteq I
    BY Zenon DEF NaturalInduction

-----------------------------------------------------------------------------
(* Folds. *)

\* What can be folded over sequences of S, with results in T.
Folder(S, T) == [T \X S -> T]

\* r goes through the intermediate results of a fold.
IsRun(r, f, x, q) ==
    /\ DOMAIN r = 0 .. Len(q)
    /\ r[0] = x
    /\ \A n \in 1 .. Len(q) : r[n] = f[<<r[n - 1], q[n]>>]

\* They exist.
LEMMA RunExists ==
    ASSUME NaturalInduction, NEW S, NEW T, NEW f \in Folder(S, T), NEW x \in T, NEW q \in Seq(S)
    PROVE  \E r \in [0 .. Len(q) -> T] : IsRun(r, f, x, q)
<1>. DEFINE Steps(r, n) == r[0] = x /\ \A i \in 1 .. n : r[i] = f[<<r[i - 1], q[i]>>]
<1>. DEFINE P(n) == n <= Len(q) => \E r \in [0 .. n -> T] : Steps(r, n)
<1>. DEFINE I == {n \in Nat : P(n)}
<1>1. 0 \in I
  <2>1. [i \in 0 .. 0 |-> x] \in [0 .. 0 -> T] /\ Steps([i \in 0 .. 0 |-> x], 0)
      OBVIOUS
  <2>2. P(0)
      BY <2>1, Zenon
  <2>. QED BY <2>2
<1>2. ASSUME NEW n \in Nat, n \in I PROVE n + 1 \in I
  <2>. SUFFICES ASSUME n + 1 <= Len(q) PROVE \E r \in [0 .. n + 1 -> T] : Steps(r, n + 1)
      OBVIOUS
  <2>1. PICK r \in [0 .. n -> T] : Steps(r, n)
      BY <1>2
  <2>2. q[n + 1] \in S /\ r[n] \in T
      OBVIOUS
  <2>3. f[<<r[n], q[n + 1]>>] \in T
      BY <2>2 DEF Folder
  <2>. DEFINE g == [i \in 0 .. n + 1 |-> IF i <= n THEN r[i] ELSE f[<<r[n], q[n + 1]>>]]
  <2>4. g \in [0 .. n + 1 -> T]
    <3>1. ASSUME NEW i \in 0 .. n + 1 PROVE (IF i <= n THEN r[i] ELSE f[<<r[n], q[n + 1]>>]) \in T
        BY <2>3
    <3>. QED BY <3>1
  <2>5. g[0] = x /\ g[n + 1] = f[<<g[n], q[n + 1]>>]
    <3>1. 0 \in 0 .. n + 1 /\ n \in 0 .. n + 1 /\ n + 1 \in 0 .. n + 1 /\ ~(n + 1 <= n)
        OBVIOUS
    <3>2. g[0] = r[0] /\ g[n] = r[n] /\ g[n + 1] = f[<<r[n], q[n + 1]>>]
        BY <3>1
    <3>3. r[0] = x
        BY <2>1
    <3>. QED BY <3>2, <3>3, Zenon
  <2>6. ASSUME NEW i \in 1 .. n PROVE g[i] = f[<<g[i - 1], q[i]>>]
    <3>1. g[i] = r[i] /\ g[i - 1] = r[i - 1]
        OBVIOUS
    <3>. QED BY <2>1, <3>1
  <2>7. Steps(g, n + 1)
    <3>. HIDE DEF g
    <3>1. ASSUME NEW i \in 1 .. n + 1 PROVE g[i] = f[<<g[i - 1], q[i]>>]
      <4>1. CASE i \in 1 .. n
          BY <2>6, <4>1
      <4>2. CASE i = n + 1
        <5>1. i - 1 = n
            BY <4>2
        <5>. QED BY <2>5, <4>2, <5>1
      <4>. QED BY <4>1, <4>2
    <3>. QED BY <2>5, <3>1
  <2>. QED BY <2>4, <2>7, Zenon
<1>3. Nat \subseteq I
  <2>. HIDE DEF I
  <2>. QED BY <1>1, <1>2, Induction
<1>4. P(Len(q))
    BY <1>3
<1>. QED BY <1>4 DEF IsRun

\* There is one series of them.
LEMMA RunUnique ==
    ASSUME NaturalInduction, NEW q, Len(q) \in Nat, NEW f, NEW x, NEW r, NEW s, IsRun(r, f, x, q), IsRun(s, f, x, q)
    PROVE  \A n \in 0 .. Len(q) : r[n] = s[n]
<1>. DEFINE I == {n \in Nat : n <= Len(q) => r[n] = s[n]}
<1>1. 0 \in I
    BY DEF IsRun
<1>2. ASSUME NEW n \in Nat, n \in I PROVE n + 1 \in I
  <2>. SUFFICES ASSUME n + 1 <= Len(q) PROVE r[n + 1] = s[n + 1]
      OBVIOUS
  <2>1. n + 1 \in 1 .. Len(q) /\ n + 1 - 1 = n /\ r[n] = s[n]
      BY <1>2
  <2>2. r[n + 1] = f[<<r[n + 1 - 1], q[n + 1]>>] /\ s[n + 1] = f[<<s[n + 1 - 1], q[n + 1]>>]
    <3>1. PICK k \in 1 .. Len(q) : k = n + 1
        BY <2>1
    <3>2. r[k] = f[<<r[k - 1], q[k]>>] /\ s[k] = f[<<s[k - 1], q[k]>>]
        BY DEF IsRun
    <3>. QED BY <3>1, <3>2
  <2>. QED BY <2>1, <2>2
<1>3. Nat \subseteq I
  <2>. HIDE DEF I
  <2>. QED BY <1>1, <1>2, Induction
<1>. QED BY <1>3

\* The fold is the last of them.
LEMMA FoldIsLast ==
    ASSUME NaturalInduction, NEW q, Len(q) \in Nat, NEW f, NEW x, NEW r, IsRun(r, f, x, q)
    PROVE  Fold(f, x, q) = r[Len(q)]
<1>. DEFINE Eq(g) == g = [n \in 0 .. Len(q) |-> IF n = 0 THEN x ELSE f[<<g[n - 1], q[n]>>]]
<1>. DEFINE s == CHOOSE g : Eq(g)
<1>1. \E g : Eq(g)
  <2>. DEFINE g == [n \in 0 .. Len(q) |-> r[n]]
  <2>1. ASSUME NEW n \in 0 .. Len(q)
        PROVE  g[n] = IF n = 0 THEN x ELSE f[<<g[n - 1], q[n]>>]
    <3>1. n # 0 => n \in 1 .. Len(q) /\ n - 1 \in 0 .. Len(q)
        OBVIOUS
    <3>. QED BY <3>1 DEF IsRun
  <2>2. Eq(g)
      BY <2>1
  <2>. QED BY <2>2, Zenon
<1>2. Eq(s)
    BY <1>1, Zenon
<1>3. IsRun(s, f, x, q)
  <2>. HIDE DEF s
  <2>1. DOMAIN s = 0 .. Len(q)
      BY <1>2
  <2>2. s[0] = x
      BY <1>2
  <2>3. ASSUME NEW n \in 1 .. Len(q) PROVE s[n] = f[<<s[n - 1], q[n]>>]
    <3>1. n \in 0 .. Len(q) /\ n # 0
        OBVIOUS
    <3>. QED BY <1>2, <3>1, Zenon
  <2>. QED BY <2>1, <2>2, <2>3 DEF IsRun
<1>4. s[Len(q)] = r[Len(q)]
  <2>1. Len(q) \in 0 .. Len(q)
      OBVIOUS
  <2>. HIDE DEF s
  <2>. QED BY <1>3, <2>1, RunUnique
<1>. QED BY <1>4 DEF Fold

\* It is of the type the function maps to, and its start if there is nothing to fold.
LEMMA FoldType ==
    ASSUME NaturalInduction, NEW S, NEW T, NEW f \in Folder(S, T), NEW x \in T, NEW q \in Seq(S)
    PROVE  Fold(f, x, q) \in T
<1>1. PICK r \in [0 .. Len(q) -> T] : IsRun(r, f, x, q)
    BY RunExists
<1>2. Len(q) \in Nat
    OBVIOUS
<1>3. Fold(f, x, q) = r[Len(q)]
    BY <1>1, <1>2, FoldIsLast
<1>. QED BY <1>2, <1>3

LEMMA FoldEmpty ==
    ASSUME NaturalInduction, NEW f, NEW x
    PROVE  Fold(f, x, <<>>) = x
<1>. DEFINE r == [n \in 0 .. Len(<<>>) |-> x]
<1>1. Len(<<>>) = 0
    OBVIOUS
<1>2. IsRun(r, f, x, <<>>)
    BY <1>1 DEF IsRun
<1>3. Fold(f, x, <<>>) = r[Len(<<>>)]
  <2>1. Len(<<>>) \in Nat
      BY <1>1
  <2>. HIDE DEF r
  <2>. QED BY <1>2, <2>1, FoldIsLast
<1>. QED BY <1>1, <1>3

\* A fold over a concatenation goes on with its second part where the first one ends.
LEMMA FoldConcat ==
    ASSUME NaturalInduction, NEW S, NEW T, NEW f \in Folder(S, T), NEW x \in T, NEW p \in Seq(S), NEW q \in Seq(S)
    PROVE  Fold(f, x, p \o q) = Fold(f, Fold(f, x, p), q)
<1>1. PICK y \in T : y = Fold(f, x, p)
    BY FoldType
<1>2. PICK r \in [0 .. Len(p) -> T] : IsRun(r, f, x, p)
    BY RunExists
<1>3. PICK s \in [0 .. Len(q) -> T] : IsRun(s, f, y, q)
    BY RunExists
<1>4. PICK k \in Nat : k = Len(p)
    OBVIOUS
<1>5. PICK m \in Nat : m = Len(q)
    OBVIOUS
<1>6. r[k] = y /\ s[0] = y /\ s[m] = Fold(f, y, q)
  <2>1. Fold(f, x, p) = r[Len(p)]
      BY <1>2, <1>4, FoldIsLast
  <2>2. Fold(f, y, q) = s[Len(q)]
      BY <1>3, <1>5, FoldIsLast
  <2>. QED BY <1>1, <1>3, <1>4, <1>5, <2>1, <2>2 DEF IsRun
<1>7. PICK u : u = p \o q
    BY Zenon
<1>8. /\ Len(u) = k + m
      /\ \A i \in 1 .. k : u[i] = p[i]
      /\ \A i \in k + 1 .. k + m : u[i] = q[i - k]
    BY <1>4, <1>5, <1>7
<1>. DEFINE t == [i \in 0 .. k + m |-> IF i <= k THEN r[i] ELSE s[i - k]]
<1>9. IsRun(t, f, x, u)
  <2>1. ASSUME NEW i \in 1 .. k PROVE t[i] = f[<<t[i - 1], u[i]>>]
    <3>1. t[i] = r[i] /\ t[i - 1] = r[i - 1] /\ u[i] = p[i]
        BY <1>8, SMT, Z3
    <3>. QED BY <1>2, <1>4, <3>1 DEF IsRun
  <2>2. ASSUME NEW i \in k + 1 .. k + m PROVE t[i] = f[<<t[i - 1], u[i]>>]
    <3>1. PICK j \in 1 .. m : j = i - k
        OBVIOUS
    <3>2. t[i] = s[j] /\ u[i] = q[j]
        BY <1>8, <3>1, SMT, Z3
    <3>3. t[i - 1] = s[j - 1]
      <4>1. CASE j = 1
        <5>1. i - 1 = k /\ j - 1 = 0 /\ k \in 0 .. k + m
            BY <3>1, <4>1
        <5>2. t[k] = r[k]
            BY <5>1
        <5>. HIDE DEF t
        <5>. QED BY <1>6, <5>1, <5>2
      <4>2. CASE j # 1
        <5>1. ~(i - 1 <= k) /\ (i - 1) - k = j - 1 /\ i - 1 \in 0 .. k + m
            BY <3>1, <4>2
        <5>. QED BY <5>1
      <4>. QED BY <4>1, <4>2
    <3>4. s[j] = f[<<s[j - 1], q[j]>>]
        BY <1>3, <1>5 DEF IsRun
    <3>. QED BY <3>2, <3>3, <3>4, Zenon
  <2>3. DOMAIN t = 0 .. k + m /\ t[0] = x
      BY <1>2 DEF IsRun
  <2>4. ASSUME NEW i \in 1 .. k + m PROVE t[i] = f[<<t[i - 1], u[i]>>]
    <3>1. i \in 1 .. k \/ i \in k + 1 .. k + m
        OBVIOUS
    <3>. QED BY <2>1, <2>2, <3>1, Zenon
  <2>. HIDE DEF t
  <2>. QED BY <1>8, <2>3, <2>4 DEF IsRun
<1>10. Fold(f, x, u) = t[Len(u)]
  <2>1. Len(u) \in Nat
      BY <1>8
  <2>. HIDE DEF t
  <2>. QED BY <1>9, <2>1, FoldIsLast
<1>11. t[Len(u)] = s[m]
  <2>1. CASE m = 0
    <3>1. t[k] = r[k]
        OBVIOUS
    <3>. QED BY <1>6, <1>8, <2>1, <3>1, SMT, Z3
  <2>2. CASE m # 0
    <3>1. ~(k + m <= k) /\ (k + m) - k = m /\ k + m \in 0 .. k + m
        BY <2>2
    <3>. QED BY <1>8, <3>1
  <2>. QED BY <2>1, <2>2
<1>. QED BY <1>1, <1>6, <1>7, <1>10, <1>11

LEMMA Singleton ==
    ASSUME NEW S, NEW e \in S
    PROVE  <<e>> \in Seq(S) /\ Len(<<e>>) = 1 /\ <<e>>[1] = e
<1>1. <<e>> = Append(<<>>, e) /\ <<>> \in Seq(S)
    OBVIOUS
<1>2. \A q \in Seq(S) : Append(q, e) \in Seq(S)
    OBVIOUS
<1>3. <<e>> \in Seq(S)
    BY <1>1, <1>2, Zenon
<1>. QED BY <1>3

\* A fold over one element applies the function once.
LEMMA FoldOne ==
    ASSUME NaturalInduction, NEW S, NEW T, NEW f \in Folder(S, T), NEW x \in T, NEW e \in S
    PROVE  Fold(f, x, <<e>>) = f[<<x, e>>]
<1>1. PICK q \in Seq(S) : q = <<e>>
    BY Singleton, Zenon
<1>2. Len(q) = 1 /\ q[1] = e
    BY <1>1
<1>3. PICK r \in [0 .. Len(q) -> T] : IsRun(r, f, x, q)
    BY RunExists
<1>4. Fold(f, x, q) = r[Len(q)]
    BY <1>2, <1>3, FoldIsLast, SMT, Z3
<1>5. r[1] = f[<<r[0], q[1]>>] /\ r[0] = x
  <2>1. 1 \in 1 .. Len(q) /\ 1 - 1 = 0
      BY <1>2
  <2>2. r[1] = f[<<r[1 - 1], q[1]>>]
      BY <1>3, <2>1, Zenon DEF IsRun
  <2>. QED BY <1>3, <2>1, <2>2 DEF IsRun
<1>. QED BY <1>1, <1>2, <1>4, <1>5

\* Folding what was appended last, and folding the first element first.
LEMMA FoldAppend ==
    ASSUME NaturalInduction, NEW S, NEW T, NEW f \in Folder(S, T), NEW x \in T, NEW q \in Seq(S), NEW e \in S
    PROVE  Fold(f, x, Append(q, e)) = f[<<Fold(f, x, q), e>>]
<1>1. PICK one \in Seq(S) : one = <<e>>
    BY Singleton, Zenon
<1>2. Append(q, e) = q \o one
    BY <1>1
<1>3. PICK y \in T : y = Fold(f, x, q)
    BY FoldType
<1>4. f \in Folder(S, T)
    OBVIOUS
<1>5. Fold(f, x, q \o one) = Fold(f, y, one)
    BY <1>3, <1>4, FoldConcat, SMT, Z3
<1>6. Fold(f, y, one) = f[<<y, e>>]
    BY <1>1, <1>4, FoldOne
<1>. QED BY <1>2, <1>3, <1>5, <1>6

LEMMA FoldFirst ==
    ASSUME NaturalInduction, NEW S, NEW T, NEW f \in Folder(S, T), NEW x \in T, NEW q \in Seq(S), q # <<>>
    PROVE  Fold(f, x, q) = Fold(f, f[<<x, Head(q)>>], Tail(q))
<1>1. PICK e \in S : e = Head(q)
  <2>1. Head(q) \in S
      OBVIOUS
  <2>. QED BY <2>1
<1>2. PICK one \in Seq(S) : one = <<e>>
    BY Singleton, Zenon
<1>3. PICK rest \in Seq(S) : rest = Tail(q)
  <2>1. Tail(q) \in Seq(S)
      OBVIOUS
  <2>. QED BY <2>1, Zenon
<1>4. q = one \o rest
  <2>1. /\ one \o rest \in Seq(S)
        /\ Len(one \o rest) = 1 + Len(rest)
        /\ (one \o rest)[1] = e
        /\ \A i \in 2 .. 1 + Len(rest) : (one \o rest)[i] = rest[i - 1]
      BY <1>2, SMT, Z3
  <2>2. Len(q) = 1 + Len(rest) /\ q[1] = e /\ \A i \in 2 .. Len(q) : q[i] = rest[i - 1]
      BY <1>1, <1>3
  <2>3. ASSUME NEW i \in 1 .. Len(q) PROVE q[i] = (one \o rest)[i]
    <3>1. i = 1 \/ i \in 2 .. Len(q)
        OBVIOUS
    <3>. QED BY <2>1, <2>2, <3>1
  <2>. QED BY <2>1, <2>2, <2>3, SMT, Z3
<1>5. f \in Folder(S, T) /\ x \in T
    OBVIOUS
<1>6. Fold(f, x, one \o rest) = Fold(f, Fold(f, x, one), rest)
    BY <1>5, FoldConcat
<1>7. Fold(f, x, one) = f[<<x, e>>]
    BY <1>2, <1>5, FoldOne, SMT, Z3
<1>. QED BY <1>1, <1>3, <1>4, <1>6, <1>7, Zenon

-----------------------------------------------------------------------------
(* Concatenation as a symbol of its own, of which the provers know what these  *)
(* lemmas say.                                                                 *)

Cat(r, q) == r \o q

\* A concatenation begins with its first part.
LEMMA PrefixOfConcat ==
    ASSUME NEW S, NEW r \in Seq(S), NEW q \in Seq(S)
    PROVE  /\ r \o q \in Seq(S)
           /\ Len(r \o q) = Len(r) + Len(q)
           /\ SubSeq(r \o q, 1, Len(r)) = r
<1>1. r \o q \in Seq(S) /\ Len(r \o q) = Len(r) + Len(q)
    OBVIOUS
<1>2. CASE r = <<>>
    BY <1>2
<1>3. CASE r # <<>>
  <2>1. 1 \in 1 .. Len(r) /\ Len(r) \in 1 .. Len(r)
      BY <1>3
  <2>2. SubSeq(r \o q, 1, Len(r)) = SubSeq(r, 1, Len(r))
      BY <2>1
  <2>. QED BY <1>1, <2>2
<1>. QED BY <1>1, <1>2, <1>3

LEMMA CatLaws ==
    ASSUME NEW S
    PROVE  /\ \A r, q \in Seq(S) :
                 /\ Cat(r, q) \in Seq(S)
                 /\ Len(Cat(r, q)) = Len(r) + Len(q)
                 /\ SubSeq(Cat(r, q), 1, Len(r)) = r
                 /\ \A u \in Seq(S) : Cat(Cat(r, q), u) = Cat(r, Cat(q, u))
           /\ \A r \in Seq(S) : Cat(r, <<>>) = r /\ Cat(<<>>, r) = r
<1>1. ASSUME NEW r \in Seq(S), NEW q \in Seq(S)
      PROVE  /\ Cat(r, q) \in Seq(S)
             /\ Len(Cat(r, q)) = Len(r) + Len(q)
             /\ SubSeq(Cat(r, q), 1, Len(r)) = r
    BY PrefixOfConcat DEF Cat
<1>2. ASSUME NEW r \in Seq(S), NEW q \in Seq(S), NEW u \in Seq(S)
      PROVE  Cat(Cat(r, q), u) = Cat(r, Cat(q, u))
    BY DEF Cat
<1>3. ASSUME NEW r \in Seq(S) PROVE Cat(r, <<>>) = r /\ Cat(<<>>, r) = r
    BY DEF Cat
<1>. QED BY <1>1, <1>2, <1>3, Zenon

\* What is appended to a concatenation is appended to its second part.
LEMMA CatAppend ==
    ASSUME NEW S, NEW r \in Seq(S), NEW q \in Seq(S), NEW m \in S
    PROVE  Append(Cat(r, q), m) = Cat(r, Append(q, m))
<1>1. PICK one \in Seq(S) : one = <<m>>
    BY Singleton, Zenon
<1>2. r \o q \in Seq(S)
    OBVIOUS
<1>3. \A u \in Seq(S) : Append(u, m) = u \o <<m>>
    OBVIOUS
<1>4. Append(r \o q, m) = (r \o q) \o one /\ Append(q, m) = q \o one
    BY <1>1, <1>2, <1>3
<1>5. (r \o q) \o one = r \o (q \o one)
    OBVIOUS
<1>. QED BY <1>4, <1>5 DEF Cat

-----------------------------------------------------------------------------
(* The rest of a sequence. *)

LEMMA SameElements ==
    ASSUME NEW S, NEW q \in Seq(S), NEW r \in Seq(S), Len(q) = Len(r),
           \A i \in 1 .. Len(q) : q[i] = r[i]
    PROVE  q = r
    OBVIOUS

LEMMA RestFacts ==
    ASSUME NEW S, NEW q \in Seq(S), NEW n \in 0 .. Len(q)
    PROVE  /\ Rest(q, n) \in Seq(S)
           /\ Len(Rest(q, n)) = Len(q) - n
           /\ \A i \in 1 .. Len(q) - n : Rest(q, n)[i] = q[n + i]
           /\ n = Len(q) => Rest(q, n) = <<>>
<1>1. Len(q) \in Nat /\ n \in Nat /\ n <= Len(q)
    OBVIOUS
<1>2. CASE n = Len(q)
  <2>1. SubSeq(q, n + 1, Len(q)) = <<>>
      BY <1>1, <1>2
  <2>. QED BY <1>1, <1>2, <2>1 DEF Rest
<1>3. CASE n # Len(q)
  <2>1. n + 1 \in 1 .. Len(q) /\ Len(q) \in 1 .. Len(q)
      BY <1>1, <1>3
  <2>2. /\ SubSeq(q, n + 1, Len(q)) \in Seq(S)
        /\ Len(SubSeq(q, n + 1, Len(q))) = Len(q) - (n + 1) + 1
        /\ \A i \in 1 .. Len(q) - (n + 1) + 1 : SubSeq(q, n + 1, Len(q))[i] = q[n + 1 + i - 1]
      BY <1>1, <2>1
  <2>3. \A i \in 1 .. Len(q) - n : Rest(q, n)[i] = q[n + i]
      BY <1>1, <2>2 DEF Rest
  <2>. QED BY <1>1, <1>3, <2>2, <2>3, SMTT(30), Z3T(30) DEF Rest
<1>. QED BY <1>2, <1>3

LEMMA NoElements ==
    ASSUME NEW S, NEW q \in Seq(S), Len(q) = 0
    PROVE  q = <<>>
    OBVIOUS

\* What is appended to a sequence is appended to any rest of it.
LEMMA RestAppend ==
    ASSUME NEW S, NEW q \in Seq(S), NEW n \in 0 .. Len(q), NEW e \in S
    PROVE  n \in 0 .. Len(Append(q, e)) /\ Rest(Append(q, e), n) = Append(Rest(q, n), e)
<1>1. PICK u \in Seq(S) : u = Append(q, e)
  <2>1. Append(q, e) \in Seq(S)
      OBVIOUS
  <2>. QED BY <2>1, Zenon
<1>2. PICK m \in Nat : m = Len(q)
    OBVIOUS
<1>3. Len(u) = m + 1 /\ u[m + 1] = e /\ \A i \in 1 .. m : u[i] = q[i]
    BY <1>1, <1>2
<1>4. n \in 0 .. Len(u) /\ n \in Nat /\ n <= m
    BY <1>2, <1>3, SMT, Z3
<1>5. /\ Rest(u, n) \in Seq(S) /\ Len(Rest(u, n)) = m + 1 - n
      /\ \A i \in 1 .. m + 1 - n : Rest(u, n)[i] = u[n + i]
  <2>1. /\ Rest(u, n) \in Seq(S) /\ Len(Rest(u, n)) = Len(u) - n
        /\ \A i \in 1 .. Len(u) - n : Rest(u, n)[i] = u[n + i]
      BY <1>4, RestFacts
  <2>. QED BY <1>3, <2>1, SMT, Z3
<1>6. PICK r \in Seq(S) : r = Rest(q, n)
    BY RestFacts
<1>7. Len(r) = m - n /\ \A i \in 1 .. m - n : r[i] = q[n + i]
    BY <1>2, <1>6, RestFacts, Zenon
<1>8. /\ Append(r, e) \in Seq(S) /\ Len(Append(r, e)) = m + 1 - n
      /\ Append(r, e)[m + 1 - n] = e
      /\ \A i \in 1 .. m - n : Append(r, e)[i] = r[i]
    BY <1>4, <1>7, SMT, Z3
<1>9. ASSUME NEW i \in 1 .. m + 1 - n PROVE Rest(u, n)[i] = Append(r, e)[i]
  <2>1. CASE i \in 1 .. m - n
    <3>1. n + i \in 1 .. m
        BY <1>4, <2>1
    <3>. QED BY <1>3, <1>5, <1>7, <1>8, <2>1, <3>1, Zenon
  <2>2. CASE i = m + 1 - n
    <3>1. n + i = m + 1
        BY <1>4, <2>2
    <3>. QED BY <1>3, <1>5, <1>8, <2>2, <3>1
  <2>3. i \in 1 .. m - n \/ i = m + 1 - n
      BY <1>4
  <2>. QED BY <2>1, <2>2, <2>3, Zenon
<1>10. Rest(u, n) = Append(r, e)
  <2>1. Len(Rest(u, n)) = Len(Append(r, e)) /\ 1 .. Len(Rest(u, n)) = 1 .. m + 1 - n
      BY <1>5, <1>8
  <2>. QED BY <1>5, <1>8, <1>9, <2>1, SMTT(30), Z3T(30)
<1>. QED BY <1>1, <1>4, <1>6, <1>10

\* A rest that begins with e, without it.
LEMMA RestTail ==
    ASSUME NEW S, NEW q \in Seq(S), NEW n \in 0 .. Len(q), NEW e \in S, NEW r \in Seq(S),
           Rest(q, n) = Cat(<<e>>, r)
    PROVE  n + 1 \in 0 .. Len(q) /\ r = Rest(q, n + 1)
<1>1. PICK m \in Nat : m = Len(q)
    OBVIOUS
<1>2. PICK k \in Nat : k = Len(r)
    OBVIOUS
<1>3. PICK one \in Seq(S) : one = <<e>> /\ Len(one) = 1
    BY Singleton, Zenon
<1>4. /\ Len(Cat(one, r)) = 1 + k
      /\ \A i \in 1 .. k : Cat(one, r)[1 + i] = r[i]
    BY <1>2, <1>3 DEF Cat
<1>5. /\ Len(Rest(q, n)) = m - n
      /\ \A i \in 1 .. m - n : Rest(q, n)[i] = q[n + i]
    BY <1>1, RestFacts, Zenon
<1>6. k = m - n - 1 /\ n \in Nat /\ n + 1 \in 0 .. m
  <2>1. Rest(q, n) = Cat(one, r)
      BY <1>3
  <2>2. m - n = 1 + k /\ n \in Nat
      BY <1>4, <1>5, <2>1, SMT, Z3
  <2>. QED BY <2>2
<1>7. /\ Rest(q, n + 1) \in Seq(S) /\ Len(Rest(q, n + 1)) = m - (n + 1)
      /\ \A i \in 1 .. m - (n + 1) : Rest(q, n + 1)[i] = q[n + 1 + i]
    BY <1>1, <1>6, RestFacts, Zenon
<1>8. ASSUME NEW i \in 1 .. k PROVE r[i] = Rest(q, n + 1)[i]
  <2>1. 1 + i \in 1 .. m - n /\ n + (1 + i) = n + 1 + i /\ i \in 1 .. m - (n + 1)
      BY <1>6, SMT, Z3
  <2>2. r[i] = Cat(one, r)[1 + i] /\ Rest(q, n)[1 + i] = q[n + (1 + i)]
      BY <1>4, <1>5, <2>1, Zenon
  <2>. QED BY <1>3, <1>7, <2>1, <2>2
<1>9. r = Rest(q, n + 1)
  <2>1. Len(r) = Len(Rest(q, n + 1))
      BY <1>2, <1>6, <1>7, SMT, Z3
  <2>. QED BY <1>2, <1>7, <1>8, <2>1, SameElements, Zenon
<1>. QED BY <1>1, <1>6, <1>9

-----------------------------------------------------------------------------
(* All of a sequence but its last element. *)

LEMMA FrontType ==
    ASSUME NEW S, NEW q \in Seq(S), q # <<>>
    PROVE  /\ AllButLast(q) \in Seq(S) /\ LastOf(q) \in S /\ Len(AllButLast(q)) = Len(q) - 1
           /\ \A i \in 1 .. Len(q) - 1 : AllButLast(q)[i] = q[i]
           /\ Append(AllButLast(q), LastOf(q)) = q
<1>1. PICK m \in Nat : m = Len(q) /\ m > 0
    OBVIOUS
<1>2. LastOf(q) \in S /\ LastOf(q) = q[m]
    BY <1>1 DEF LastOf
<1>3. /\ AllButLast(q) \in Seq(S) /\ Len(AllButLast(q)) = m - 1
      /\ \A i \in 1 .. m - 1 : AllButLast(q)[i] = q[i]
  <2>1. CASE m = 1
    <3>1. SubSeq(q, 1, 0) = <<>>
        OBVIOUS
    <3>. QED BY <1>1, <2>1, <3>1 DEF AllButLast
  <2>2. CASE m # 1
    <3>1. 1 \in 1 .. Len(q) /\ m - 1 \in 1 .. Len(q)
        BY <1>1, <2>2
    <3>2. /\ SubSeq(q, 1, m - 1) \in Seq(S)
          /\ Len(SubSeq(q, 1, m - 1)) = m - 1
          /\ \A i \in 1 .. m - 1 : SubSeq(q, 1, m - 1)[i] = q[i]
        BY <1>1, <3>1
    <3>. QED BY <1>1, <3>2 DEF AllButLast
  <2>. QED BY <2>1, <2>2
<1>4. PICK f \in Seq(S) : f = AllButLast(q)
    BY <1>3
<1>5. PICK x \in S : x = LastOf(q)
    BY <1>2
<1>6. /\ Append(f, x) \in Seq(S) /\ Len(Append(f, x)) = m /\ Append(f, x)[m] = x
      /\ \A i \in 1 .. m - 1 : Append(f, x)[i] = f[i]
    BY <1>1, <1>3, <1>4, SMT, Z3
<1>7. \A i \in 1 .. m : i \in 1 .. m - 1 \/ i = m
    BY <1>1
<1>8. \A i \in 1 .. m : Append(f, x)[i] = q[i]
    BY <1>2, <1>3, <1>4, <1>5, <1>6, <1>7
<1>9. Append(f, x) = q
    BY <1>1, <1>6, <1>8
<1>. QED BY <1>1, <1>2, <1>3, <1>4, <1>5, <1>9

LEMMA FrontAppend ==
    ASSUME NEW S, NEW q \in Seq(S), NEW e \in S
    PROVE  AllButLast(Append(q, e)) = q /\ LastOf(Append(q, e)) = e /\ Append(q, e) # <<>>
<1>1. PICK u \in Seq(S) : u = Append(q, e)
  <2>1. Append(q, e) \in Seq(S)
      OBVIOUS
  <2>. QED BY <2>1, Zenon
<1>2. u # <<>> /\ Len(u) = Len(q) + 1 /\ u[Len(u)] = e /\ \A i \in 1 .. Len(q) : u[i] = q[i]
    BY <1>1
<1>3. /\ AllButLast(u) \in Seq(S) /\ Len(AllButLast(u)) = Len(u) - 1
      /\ \A i \in 1 .. Len(u) - 1 : AllButLast(u)[i] = u[i]
    BY <1>2, FrontType, Zenon
<1>4. Len(AllButLast(u)) = Len(q) /\ \A i \in 1 .. Len(q) : AllButLast(u)[i] = q[i]
    BY <1>2, <1>3, SMT, Z3
<1>5. AllButLast(u) = q
    BY <1>3, <1>4, SMT, Z3
<1>. QED BY <1>1, <1>2, <1>5 DEF LastOf

-----------------------------------------------------------------------------
(* The list operations. *)

LEMMA PieceFacts ==
    ASSUME NEW S, NEW l \in Seq(S), NEW i \in 1 .. Len(l) + 1
    PROVE  /\ SubSeq(l, 1, i - 1) \in Seq(S) /\ Len(SubSeq(l, 1, i - 1)) = i - 1
           /\ SubSeq(l, i, Len(l)) \in Seq(S) /\ Len(SubSeq(l, i, Len(l))) = Len(l) - i + 1
<1>1. PICK m \in Nat : m = Len(l)
    OBVIOUS
<1>2. \A j \in 1 .. i - 1 : l[j] \in S
  <2>1. \A j \in 1 .. i - 1 : j \in 1 .. Len(l)
      BY <1>1
  <2>. QED BY <2>1
<1>3. \A j \in i .. m : l[j] \in S
  <2>1. \A j \in i .. m : j \in 1 .. Len(l)
      BY <1>1
  <2>. QED BY <2>1
<1>4. i \in Int /\ 1 \in Int /\ i - 1 \in Int /\ m \in Int
    BY <1>1
<1>5. /\ SubSeq(l, 1, i - 1) \in Seq(S)
      /\ Len(SubSeq(l, 1, i - 1)) = IF 1 <= i - 1 THEN i - 1 - 1 + 1 ELSE 0
    BY <1>2, <1>4
<1>6. /\ SubSeq(l, i, m) \in Seq(S)
      /\ Len(SubSeq(l, i, m)) = IF i <= m THEN m - i + 1 ELSE 0
    BY <1>3, <1>4
<1>. QED BY <1>1, <1>5, <1>6

LEMMA InsertFacts ==
    ASSUME NEW S, NEW l \in Seq(S), NEW i \in 1 .. Len(l) + 1, NEW v \in S
    PROVE  /\ Inserted(l, i, v) \in Seq(S)
           /\ Len(Inserted(l, i, v)) = Len(l) + 1
           /\ i = 1 => Inserted(l, i, v) = <<v>> \o l
<1>1. PICK a \in Seq(S) : a = SubSeq(l, 1, i - 1) /\ Len(a) = i - 1
    BY PieceFacts, Zenon
<1>2. PICK b \in Seq(S) : b = SubSeq(l, i, Len(l)) /\ Len(b) = Len(l) - i + 1
    BY PieceFacts, Zenon
<1>3. PICK one \in Seq(S) : one = <<v>> /\ Len(one) = 1
    BY Singleton, Zenon
<1>4. PICK d \in Seq(S) : d = Cat(a, one) /\ Len(d) = Len(a) + Len(one)
    BY CatLaws, SMT, Z3
<1>5. Cat(d, b) \in Seq(S) /\ Len(Cat(d, b)) = Len(d) + Len(b)
    BY CatLaws, SMT, Z3
<1>6. Inserted(l, i, v) = Cat(d, b)
    BY <1>1, <1>2, <1>3, <1>4 DEF Inserted, Cat
<1>7. ASSUME i = 1 PROVE Inserted(l, i, v) = <<v>> \o l
  <2>1. a = <<>>
      BY <1>1, <1>7
  <2>2. b = l
      BY <1>2, <1>7
  <2>3. d = one
      BY <1>4, <2>1, CatLaws
  <2>. QED BY <1>3, <1>6, <2>2, <2>3 DEF Cat
<1>8. Len(l) \in Nat /\ i \in Nat
    OBVIOUS
<1>9. Len(Cat(d, b)) = Len(l) + 1
    BY <1>1, <1>2, <1>3, <1>4, <1>5, <1>8, SMT, Z3
<1>. QED BY <1>5, <1>6, <1>7, <1>9, Zenon

LEMMA RemoveFacts ==
    ASSUME NEW S, NEW l \in Seq(S), NEW i \in 1 .. Len(l)
    PROVE  /\ Erased(l, i) \in Seq(S)
           /\ Len(Erased(l, i)) = Len(l) - 1
           /\ i = 1 => Erased(l, i) = Tail(l)
           /\ i = Len(l) => Erased(l, i) = AllButLast(l)
<1>1. Len(l) \in Nat /\ i \in Nat /\ i >= 1 /\ i <= Len(l) /\ l # <<>>
      /\ i \in 1 .. Len(l) + 1 /\ i + 1 \in 1 .. Len(l) + 1
    OBVIOUS
<1>2. PICK a \in Seq(S) : a = SubSeq(l, 1, i - 1) /\ Len(a) = i - 1
    BY <1>1, PieceFacts, Zenon
<1>3. PICK b \in Seq(S) : b = SubSeq(l, i + 1, Len(l)) /\ Len(b) = Len(l) - (i + 1) + 1
    BY <1>1, PieceFacts, Zenon
<1>4. Cat(a, b) \in Seq(S) /\ Len(Cat(a, b)) = Len(a) + Len(b)
    BY CatLaws, SMT, Z3
<1>5. Erased(l, i) = Cat(a, b)
    BY <1>2, <1>3 DEF Erased, Cat
<1>6. ASSUME i = 1 PROVE Erased(l, i) = Tail(l)
  <2>1. a = <<>>
      BY <1>2, <1>6
  <2>2. b = Tail(l)
    <3>1. Tail(l) = SubSeq(l, 2, Len(l))
        BY <1>1
    <3>. QED BY <1>3, <1>6, <3>1
  <2>. QED BY <1>5, <2>1, <2>2, CatLaws, Zenon
<1>7. ASSUME i = Len(l) PROVE Erased(l, i) = AllButLast(l)
  <2>1. b = <<>>
      BY <1>1, <1>3, <1>7
  <2>2. a = AllButLast(l)
      BY <1>2, <1>7 DEF AllButLast
  <2>. QED BY <1>5, <2>1, <2>2, CatLaws
<1>8. Len(Cat(a, b)) = Len(l) - 1
  <2>1. Len(Cat(a, b)) = (i - 1) + (Len(l) - (i + 1) + 1)
      BY <1>2, <1>3, <1>4, Zenon
  <2>2. \A m \in Nat, j \in Nat : (j - 1) + (m - (j + 1) + 1) = m - 1
      OBVIOUS
  <2>. QED BY <1>1, <2>1, <2>2
<1>. QED BY <1>4, <1>5, <1>6, <1>7, <1>8

LEMMA ReplaceFacts ==
    ASSUME NEW S, NEW l \in Seq(S), NEW i \in 1 .. Len(l), NEW v \in S
    PROVE  Assigned(l, i, v) \in Seq(S) /\ Len(Assigned(l, i, v)) = Len(l)
    BY DEF Assigned

LEMMA TailFacts ==
    ASSUME NEW S, NEW l \in Seq(S), l # <<>>
    PROVE  Tail(l) \in Seq(S) /\ Len(Tail(l)) = Len(l) - 1
    OBVIOUS

-----------------------------------------------------------------------------
(* The updates of one storage in a queue. *)

LEMMA KeepType == \A c : Keep(c) \in Folder(EventInfo, Seq(EventInfo))
<1>. SUFFICES ASSUME NEW c PROVE Keep(c) \in Folder(EventInfo, Seq(EventInfo))
    OBVIOUS
<1>1. ASSUME NEW p \in Seq(EventInfo) \X EventInfo
      PROVE  (IF IsUpdateOf(c, p[2]) THEN Append(p[1], p[2]) ELSE p[1]) \in Seq(EventInfo)
  <2>1. p[1] \in Seq(EventInfo) /\ p[2] \in EventInfo
      OBVIOUS
  <2>2. Append(p[1], p[2]) \in Seq(EventInfo)
      BY <2>1
  <2>. QED BY <2>1, <2>2
<1>. QED BY <1>1 DEF Keep, Folder

\* One step of the selection.
LEMMA KeepValue ==
    ASSUME NEW c, NEW a \in Seq(EventInfo), NEW e \in EventInfo
    PROVE  Keep(c)[<<a, e>>] = IF IsUpdateOf(c, e) THEN Append(a, e) ELSE a
    BY DEF Keep

LEMMA UpdatesType ==
    ASSUME NaturalInduction, NEW c, NEW q \in Seq(EventInfo)
    PROVE  UpdatesOf(c, q) \in Seq(EventInfo)
<1>1. <<>> \in Seq(EventInfo)
    OBVIOUS
<1>. QED BY <1>1, KeepType, FoldType, Zenon DEF UpdatesOf

LEMMA UpdatesEmpty ==
    ASSUME NaturalInduction
    PROVE  \A c : UpdatesOf(c, <<>>) = <<>>
    BY FoldEmpty DEF UpdatesOf

LEMMA UpdatesAppend ==
    ASSUME NaturalInduction, NEW c, NEW q \in Seq(EventInfo), NEW e \in EventInfo
    PROVE  UpdatesOf(c, Append(q, e)) =
              IF IsUpdateOf(c, e) THEN Append(UpdatesOf(c, q), e) ELSE UpdatesOf(c, q)
<1>1. <<>> \in Seq(EventInfo) /\ Keep(c) \in Folder(EventInfo, Seq(EventInfo))
    BY KeepType
<1>2. Fold(Keep(c), <<>>, Append(q, e)) = Keep(c)[<<Fold(Keep(c), <<>>, q), e>>]
  <2>1. PICK f \in Folder(EventInfo, Seq(EventInfo)) : f = Keep(c)
      BY <1>1
  <2>2. PICK x \in Seq(EventInfo) : x = <<>>
      BY <1>1, Zenon
  <2>3. Fold(f, x, Append(q, e)) = f[<<Fold(f, x, q), e>>]
      BY FoldAppend, SMT, Z3
  <2>. QED BY <2>1, <2>2, <2>3
<1>3. PICK a \in Seq(EventInfo) : a = UpdatesOf(c, q)
    BY UpdatesType
<1>. QED BY <1>2, <1>3, KeepValue, Zenon DEF UpdatesOf

LEMMA UpdatesOne ==
    ASSUME NaturalInduction, NEW c, NEW e \in EventInfo
    PROVE  UpdatesOf(c, <<e>>) = IF IsUpdateOf(c, e) THEN <<e>> ELSE <<>>
<1>1. <<>> \in Seq(EventInfo) /\ Keep(c) \in Folder(EventInfo, Seq(EventInfo))
    BY KeepType
<1>2. Fold(Keep(c), <<>>, <<e>>) = Keep(c)[<<<<>>, e>>]
  <2>1. PICK f \in Folder(EventInfo, Seq(EventInfo)) : f = Keep(c)
      BY <1>1
  <2>2. PICK x \in Seq(EventInfo) : x = <<>>
      BY <1>1, Zenon
  <2>3. Fold(f, x, <<e>>) = f[<<x, e>>]
      BY FoldOne, SMT, Z3
  <2>. QED BY <2>1, <2>2, <2>3
<1>3. Keep(c)[<<<<>>, e>>] = IF IsUpdateOf(c, e) THEN Append(<<>>, e) ELSE <<>>
    BY <1>1, KeepValue, Zenon
<1>. QED BY <1>2, <1>3, SMT, Z3 DEF UpdatesOf

\* A selection that starts with something goes on behind it.
LEMMA UpdatesBehind ==
    ASSUME NaturalInduction, NEW c, NEW a \in Seq(EventInfo), NEW q \in Seq(EventInfo)
    PROVE  Fold(Keep(c), a, q) = Cat(a, UpdatesOf(c, q))
<1>. DEFINE K == Keep(c)
<1>1. <<>> \in Seq(EventInfo) /\ K \in Folder(EventInfo, Seq(EventInfo)) /\ Len(q) \in Nat
    BY KeepType
<1>. HIDE DEF K
<1>2. PICK r \in [0 .. Len(q) -> Seq(EventInfo)] : IsRun(r, K, <<>>, q)
    BY <1>1, RunExists, Zenon
<1>. DEFINE t == [n \in 0 .. Len(q) |-> Cat(a, r[n])]
<1>3. IsRun(t, K, a, q)
  <2>1. t[0] = a
    <3>1. r[0] = <<>> /\ 0 \in 0 .. Len(q)
        BY <1>1, <1>2, SMT, Z3 DEF IsRun
    <3>. QED BY <3>1, CatLaws
  <2>2. ASSUME NEW n \in 1 .. Len(q) PROVE t[n] = K[<<t[n - 1], q[n]>>]
    <3>1. n \in 0 .. Len(q) /\ n - 1 \in 0 .. Len(q)
        BY <1>1
    <3>2. PICK b \in Seq(EventInfo) : b = r[n - 1]
        BY <3>1, Zenon
    <3>3. PICK e \in EventInfo : e = q[n]
        OBVIOUS
    <3>4. r[n] = K[<<b, e>>]
        BY <1>2, <3>2, <3>3 DEF IsRun
    <3>5. r[n] = IF IsUpdateOf(c, e) THEN Append(b, e) ELSE b
        BY <3>4, KeepValue DEF K
    <3>6. PICK d \in Seq(EventInfo) : d = Cat(a, b)
        BY CatLaws
    <3>7. K[<<d, e>>] = IF IsUpdateOf(c, e) THEN Append(d, e) ELSE d
        BY KeepValue DEF K
    <3>8. Append(d, e) = Cat(a, Append(b, e))
      <4>1. Append(Cat(a, b), e) = Cat(a, Append(b, e))
          BY CatAppend, SMT, Z3
      <4>. QED BY <3>6, <4>1
    <3>9. t[n] = Cat(a, r[n]) /\ t[n - 1] = d
        BY <3>1, <3>2, <3>6
    <3>. QED BY <3>3, <3>5, <3>6, <3>7, <3>8, <3>9, Zenon
  <2>. QED BY <2>1, <2>2, Zenon DEF IsRun
<1>4. Fold(K, a, q) = t[Len(q)]
  <2>. HIDE DEF t
  <2>. QED BY <1>1, <1>3, FoldIsLast
<1>5. Fold(K, <<>>, q) = r[Len(q)]
    BY <1>1, <1>2, FoldIsLast
<1>6. t[Len(q)] = Cat(a, r[Len(q)])
    BY <1>1
<1>. QED BY <1>4, <1>5, <1>6 DEF UpdatesOf, K

LEMMA UpdatesFirst ==
    ASSUME NaturalInduction, NEW c, NEW q \in Seq(EventInfo), q # <<>>
    PROVE  UpdatesOf(c, q) = Cat(UpdatesOf(c, <<Head(q)>>), UpdatesOf(c, Tail(q)))
<1>1. <<>> \in Seq(EventInfo) /\ Keep(c) \in Folder(EventInfo, Seq(EventInfo))
    BY KeepType
<1>2. PICK f \in Folder(EventInfo, Seq(EventInfo)) : f = Keep(c)
    BY <1>1
<1>3. PICK x \in Seq(EventInfo) : x = <<>>
    BY <1>1, Zenon
<1>4. PICK h \in EventInfo : h = Head(q)
    BY RangeHeadTail
<1>5. PICK rest \in Seq(EventInfo) : rest = Tail(q)
    BY RangeHeadTail, Zenon
<1>6. Fold(f, x, q) = Fold(f, f[<<x, h>>], rest)
    BY <1>4, <1>5, FoldFirst, SMT, Z3
<1>7. Fold(f, x, <<h>>) = f[<<x, h>>]
    BY FoldOne, SMT, Z3
<1>8. PICK a \in Seq(EventInfo) : a = UpdatesOf(c, <<h>>)
  <2>1. <<h>> \in Seq(EventInfo)
      BY Singleton
  <2>. QED BY <2>1, UpdatesType, Zenon
<1>9. a = f[<<x, h>>] /\ UpdatesOf(c, q) = Fold(f, x, q)
    BY <1>2, <1>3, <1>7, <1>8 DEF UpdatesOf
<1>10. Fold(f, a, rest) = Cat(a, UpdatesOf(c, rest))
    BY <1>2, UpdatesBehind
<1>. QED BY <1>4, <1>5, <1>6, <1>8, <1>9, <1>10

-----------------------------------------------------------------------------
(* The index arithmetic. *)

LEMMA WrapType ==
    ASSUME NEW x \in Int
    PROVE  Wrap(x) \in Int
<1>1. MaxInt \in Nat /\ MinInt \in Int
    BY MaxIntAssumption DEF MinInt
<1>2. PICK m \in Nat : m = 2 * MaxInt + 2 /\ m > 0
    BY <1>1
<1>3. (x - MinInt) % m \in Int
    BY <1>1, <1>2
<1>. QED BY <1>1, <1>2, <1>3 DEF Wrap

LEMMA AbsType ==
    ASSUME NEW x \in Int
    PROVE  abs(x) \in Int
<1>1. PICK y \in Int : y = IF x < 0 THEN -x ELSE x
    OBVIOUS
<1>. QED BY <1>1, WrapType DEF abs

\* A number that is a C int stays as it is.
LEMMA WrapInRange ==
    ASSUME NEW x \in CInt
    PROVE  Wrap(x) = x
<1>1. MaxInt \in Nat /\ MinInt = -MaxInt - 1 /\ x \in Int
    BY MaxIntAssumption DEF MinInt, CInt
<1>2. PICK y \in Nat : y = x - MinInt /\ y < 2 * MaxInt + 2
    BY <1>1 DEF CInt
<1>3. PICK m \in Nat : m = 2 * MaxInt + 2 /\ m > 0
    BY <1>1
<1>4. y % m = y
    BY <1>2, <1>3
<1>. QED BY <1>1, <1>2, <1>3, <1>4, SMT, Z3 DEF Wrap

\* The numbers just beyond the largest C int become the smallest.
LEMMA WrapBeyond ==
    ASSUME NEW d \in 0 .. MaxInt
    PROVE  Wrap(MaxInt + 1 + d) = MinInt + d
<1>1. MaxInt \in Nat /\ MinInt = -MaxInt - 1 /\ d \in Nat
    BY MaxIntAssumption DEF MinInt
<1>2. PICK m \in Nat : m = 2 * MaxInt + 2 /\ m > 0
    BY <1>1
<1>3. MaxInt + 1 + d - MinInt = m + d /\ d < m
    BY <1>1, <1>2
<1>4. (m + d) % m = d
    BY <1>1, <1>2, <1>3
<1>. QED BY <1>1, <1>2, <1>3, <1>4 DEF Wrap

\* An index that NormalizeIndex takes is one of the list, counted from the end when it is
\* negative; the smallest C int, which has no absolute value, passes for the first.
LEMMA NormalIndex ==
    ASSUME NEW index \in CInt, NEW size \in 0 .. MaxInt,
           NormalizeIndex(index, size) # OutOfBounds
    PROVE  /\ NormalizeIndex(index, size) \in 0 .. size
           /\ size # 0 => NormalizeIndex(index, size) < size
           /\ index # MinInt =>
                 IF index < 0 THEN -index <= size /\ NormalizeIndex(index, size) = size + index
                              ELSE /\ NormalizeIndex(index, size) = index
                                   /\ index = 0 \/ index < size
<1>1. MaxInt \in Nat /\ MaxInt > 0 /\ MinInt = -MaxInt - 1 /\ index \in Int /\ size \in Nat
      /\ index >= MinInt /\ index <= MaxInt /\ size <= MaxInt
    BY MaxIntAssumption DEF MinInt, CInt
<1>2. CASE index >= 0
  <2>1. ~(index < 0)
      BY <1>1, <1>2, SMT, Z3
  <2>2. index = 0 \/ (index > 0 /\ index < size)
      BY <1>1, <1>2, <2>1 DEF NormalizeIndex
  <2>3. NormalizeIndex(index, size) = index
      BY <1>1, <2>1, <2>2 DEF NormalizeIndex
  <2>. QED BY <1>1, <2>1, <2>2, <2>3, SMT, Z3
<1>3. CASE index < 0 /\ index # MinInt
  <2>1. -index \in CInt /\ -index > 0
      BY <1>1, <1>3 DEF CInt
  <2>2. abs(index) = -index
      BY <1>3, <2>1, WrapInRange DEF abs
  <2>3. -index <= size
    <3>1. index # 0 /\ (~(-index <= size) => -index > size)
        BY <1>1, <1>3
    <3>2. abs(index) > size => NormalizeIndex(index, size) = OutOfBounds
        BY <1>1, <1>3, <2>2, <3>1 DEF NormalizeIndex
    <3>. QED BY <2>2, <3>1, <3>2
  <2>4. NormalizeIndex(index, size) = FromTheEnd(index, size)
      BY <1>1, <1>3, <2>2, <2>3 DEF NormalizeIndex
  <2>5. size + index \in CInt /\ size + index >= 0 /\ size - abs(index) = size + index
      BY <1>1, <1>3, <2>2, <2>3, SMT, Z3 DEF CInt
  <2>6. Wrap(size + index) = size + index
      BY <2>5, WrapInRange
  <2>7. FromTheEnd(index, size) = size + index
      BY <1>1, <2>5, <2>6, SMT, Z3 DEF FromTheEnd
  <2>. QED BY <1>1, <1>3, <2>3, <2>4, <2>5, <2>7, SMT, Z3
<1>4. CASE index = MinInt
  <2>1. Wrap(MaxInt + 1) = MinInt
    <3>1. 0 \in 0 .. MaxInt
        BY <1>1
    <3>2. Wrap(MaxInt + 1 + 0) = MinInt + 0
        BY <3>1, WrapBeyond
    <3>. QED BY <1>1, <3>2
  <2>2. index < 0 /\ -index = MaxInt + 1
      BY <1>1, <1>4
  <2>3. abs(index) = MinInt
      BY <2>1, <2>2 DEF abs
  <2>4. Wrap(MaxInt + 1 + size) = MinInt + size /\ size - abs(index) = MaxInt + 1 + size
    <3>1. Wrap(MaxInt + 1 + size) = MinInt + size
        BY WrapBeyond
    <3>2. size - MinInt = MaxInt + 1 + size
        BY <1>1
    <3>. QED BY <2>3, <3>1, <3>2
  <2>5. FromTheEnd(index, size) = 0
      BY <1>1, <2>4, SMT, Z3 DEF FromTheEnd
  <2>6. NormalizeIndex(index, size) = 0
      BY <1>1, <2>2, <2>3, <2>5 DEF NormalizeIndex
  <2>. QED BY <1>1, <1>4, <2>6, SMT, Z3
<1>. QED BY <1>1, <1>2, <1>3, <1>4, SMT, Z3

\* Query(0, 0) returns the list.
LEMMA QueryAll ==
    ASSUME NEW c, data[c] \in Seq(Values)
    PROVE  Query(c, 0) = data[c]
<1>1. Size(c) \in Nat
    BY DEF Size
<1>2. NormalizeForQueries(0, Size(c)) = 0
    BY <1>1 DEF NormalizeForQueries, NormalizeIndex
<1>3. NormalizeQueryLimits(0, 0, Size(c)) = [start |-> 0, end |-> Size(c)]
    BY <1>1, <1>2, SMT, Z3 DEF NormalizeQueryLimits
<1>4. Query(c, 0) = SubSeq(data[c], 1, Len(data[c]))
    BY <1>3, SMT, Z3 DEF Query, Size
<1>. QED BY <1>4, SMT, Z3

-----------------------------------------------------------------------------
(* What the operations on a list publish. *)

\* A change of storage c to these contents, with an event that tells a copy to do the same.
Tells(c, contents, code, k, v) ==
    /\ contents \in Seq(Values)
    /\ Len(contents) <= Len(data[c]) + 1
    /\ code \in UpdateCodes /\ k \in Keys \cup {Null} /\ v \in Values \cup {Null}
    /\ code # "CLEAR" => k \in Int
    /\ MinInt \notin Indexes => Apply(data[c], Event(c, code, k, v)) = contents

LEMMA ApplyCases ==
    ASSUME NEW l, NEW c, NEW k, NEW v
    PROVE  /\ Apply(l, Event(c, "PUSH_BACK", k, v)) = Append(l, v)
           /\ Apply(l, Event(c, "PUSH_FRONT", k, v)) = <<v>> \o l
           /\ Apply(l, Event(c, "INSERT", k, v)) = PyInsert(l, k, v)
           /\ Apply(l, Event(c, "CLEAR", k, v)) = <<>>
    BY DEF Apply, Event

LEMMA ApplyInRange ==
    ASSUME NEW l, NEW c, NEW k, NEW v, InRange(l, k)
    PROVE  /\ Apply(l, Event(c, "DELETE", k, v)) = Erased(l, At(l, k))
           /\ Apply(l, Event(c, "SET", k, v)) = Assigned(l, At(l, k), v)
    BY DEF Apply, Event

LEMMA SizeFacts ==
    ASSUME TypeOK, IndexInv, NEW c \in Storages
    PROVE  /\ data[c] \in Seq(Values) /\ Size(c) = Len(data[c])
           /\ Size(c) \in 0 .. MaxInt
           /\ 0 .. Size(c) \subseteq Keys /\ Indexes \subseteq Keys
           /\ Indexes \subseteq CInt /\ NewValues \subseteq Values
<1>1. /\ data[c] \in Seq(Values) /\ Size(c) = Len(data[c]) /\ Size(c) \in Nat
      /\ Len(published[c]) \in Nat /\ Len(Contents[c]) \in Nat /\ MaxWrites \in Nat
    BY ListAssumption, SMT, Z3 DEF TypeOK, Size
<1>2. PICK top \in Nat : top = Len(Contents[c]) + MaxWrites
    BY <1>1, SMT, Z3
<1>3. Size(c) <= top
  <2>1. Len(data[c]) <= Len(Contents[c]) + Len(published[c]) /\ Len(published[c]) <= MaxWrites
      BY Zenon DEF IndexInv
  <2>2. \A x, y, z, w \in Nat : x <= y + z /\ z <= w => x <= y + w
      OBVIOUS
  <2>. QED BY <1>1, <1>2, <2>1, <2>2, Zenon
<1>4. top <= MaxInt /\ (0 .. top) \cup Indexes \subseteq Keys
    BY <1>2, ListAssumption
<1>5. 0 .. Size(c) \subseteq 0 .. top /\ Size(c) \in 0 .. MaxInt
    BY <1>1, <1>3, <1>4, MaxIntAssumption, SMTT(30), Z3T(30)
<1>. QED BY <1>1, <1>4, <1>5, ListAssumption

LEMMA TellsPush ==
    ASSUME TypeOK, IndexInv, NEW c \in Storages,
           NEW v \in NewValues
    PROVE  /\ Tells(c, Append(data[c], v), "PUSH_BACK", Size(c), v)
           /\ Tells(c, <<v>> \o data[c], "PUSH_FRONT", 0, v)
           /\ Tells(c, Append(data[c], v), "INSERT", Size(c), v)
           /\ Tells(c, <<v>> \o data[c], "INSERT", 0, v)
<1>1. PICK l \in Seq(Values) : l = data[c] /\ Size(c) = Len(l)
    BY SizeFacts
<1>2. PICK m \in Nat : m = Len(l)
    OBVIOUS
<1>3. v \in Values /\ Size(c) \in Keys /\ 0 \in Keys /\ Size(c) \in Int
  <2>1. 0 \in 0 .. Size(c) /\ Size(c) \in 0 .. Size(c)
      BY <1>1, <1>2, SMT, Z3
  <2>. QED BY <1>1, <1>2, <2>1, SizeFacts, SMT, Z3
<1>4. Append(l, v) \in Seq(Values) /\ Len(Append(l, v)) = m + 1
    BY <1>2, <1>3
<1>5. PICK one \in Seq(Values) : one = <<v>> /\ Len(one) = 1
    BY <1>3, Singleton, Zenon
<1>6. <<v>> \o l \in Seq(Values) /\ Len(<<v>> \o l) = m + 1
  <2>1. Cat(one, l) \in Seq(Values) /\ Len(Cat(one, l)) = Len(one) + Len(l)
      BY CatLaws, SMT, Z3
  <2>. QED BY <1>2, <1>5, <2>1 DEF Cat
<1>7. PyInsert(l, m, v) = Append(l, v)
  <2>1. m >= Len(l) /\ (m <= -Len(l) => m = 0)
      BY <1>2
  <2>2. m = 0 => l = <<>> /\ Append(l, v) = <<v>> \o l
    <3>1. ASSUME m = 0 PROVE l = <<>>
        BY <1>2, <3>1, NoElements, Zenon
    <3>2. Append(<<>>, v) = <<v>> \o <<>>
        OBVIOUS
    <3>. QED BY <3>1, <3>2
  <2>. QED BY <1>2, <2>1, <2>2 DEF PyInsert
<1>8. PyInsert(l, 0, v) = <<v>> \o l
  <2>1. CASE m = 0
    <3>1. l = <<>>
        BY <1>2, <2>1, NoElements, Zenon
    <3>2. Append(<<>>, v) = <<v>> \o <<>>
        OBVIOUS
    <3>. QED BY <1>7, <2>1, <3>1, <3>2
  <2>2. CASE m # 0
    <3>1. ~(0 >= Len(l)) /\ ~(0 <= -Len(l)) /\ 1 \in 1 .. Len(l) + 1
        BY <1>2, <2>2
    <3>2. At(l, 0) = 1
        BY DEF At
    <3>3. Inserted(l, 1, v) = <<v>> \o l
        BY <1>3, <3>1, InsertFacts, SMT, Z3
    <3>. QED BY <3>1, <3>2, <3>3 DEF PyInsert
  <2>. QED BY <2>1, <2>2
<1>9. /\ Apply(l, Event(c, "PUSH_BACK", m, v)) = Append(l, v)
      /\ Apply(l, Event(c, "PUSH_FRONT", 0, v)) = <<v>> \o l
      /\ Apply(l, Event(c, "INSERT", m, v)) = Append(l, v)
      /\ Apply(l, Event(c, "INSERT", 0, v)) = <<v>> \o l
    BY <1>7, <1>8, ApplyCases, SMTT(30), Z3T(30)
<1>10. m + 1 <= m + 1 /\ 0 \in Int
    OBVIOUS
<1>. QED BY <1>1, <1>2, <1>3, <1>4, <1>6, <1>9, <1>10 DEF Tells, UpdateCodes

LEMMA TellsPop ==
    ASSUME TypeOK, IndexInv, NEW c \in Storages, data[c] # <<>>
    PROVE  /\ Tells(c, AllButLast(data[c]), "DELETE", Size(c) - 1, Null)
           /\ Tells(c, Tail(data[c]), "DELETE", 0, Null)
<1>1. PICK l \in Seq(Values) : l = data[c] /\ Size(c) = Len(l)
    BY SizeFacts
<1>2. PICK m \in Nat : m = Len(l) /\ m > 0
    BY <1>1, SMT, Z3
<1>3. m - 1 \in Keys /\ 0 \in Keys /\ m - 1 \in Int
  <2>1. 0 \in 0 .. m /\ m - 1 \in 0 .. m
      BY <1>2, SMT, Z3
  <2>. QED BY <1>1, <1>2, <2>1, SizeFacts, SMT, Z3
<1>4. AllButLast(l) \in Seq(Values) /\ Len(AllButLast(l)) = m - 1
    BY <1>1, <1>2, FrontType
<1>5. Tail(l) \in Seq(Values) /\ Len(Tail(l)) = m - 1
    BY <1>1, <1>2, TailFacts
<1>6. InRange(l, m - 1) /\ InRange(l, 0) /\ At(l, m - 1) = m /\ At(l, 0) = 1
    BY <1>2, SMT, Z3 DEF InRange, At
<1>7. Erased(l, m) = AllButLast(l) /\ Erased(l, 1) = Tail(l)
  <2>1. m \in 1 .. Len(l) /\ 1 \in 1 .. Len(l)
      BY <1>2, SMTT(30), Z3T(30)
  <2>. QED BY <1>2, <2>1, RemoveFacts, Zenon
<1>8. Apply(l, Event(c, "DELETE", m - 1, Null)) = AllButLast(l)
  <2>1. Apply(l, Event(c, "DELETE", m - 1, Null)) = Erased(l, At(l, m - 1))
      BY <1>6, ApplyInRange, Zenon
  <2>. QED BY <1>6, <1>7, <2>1, Zenon
<1>9. Apply(l, Event(c, "DELETE", 0, Null)) = Tail(l)
  <2>1. Apply(l, Event(c, "DELETE", 0, Null)) = Erased(l, At(l, 0))
      BY <1>6, ApplyInRange
  <2>. QED BY <1>6, <1>7, <2>1, Zenon
<1>10. m - 1 <= m + 1
    BY SMT, Z3
<1>. QED BY <1>1, <1>2, <1>3, <1>4, <1>5, <1>8, <1>9, <1>10, SMTT(30), Z3T(30) DEF Tells, UpdateCodes

\* A record that is there: Set writes it, and so does a copy.
LEMMA TellsReplace ==
    ASSUME TypeOK, IndexInv, NEW c \in Storages,
           NEW index \in Indexes, NEW i \in 1 .. Size(c), NEW v \in NewValues,
           MinInt \notin Indexes => IF index < 0 THEN i = Size(c) + index + 1 ELSE i = index + 1
    PROVE  Tells(c, Assigned(data[c], i, v), "SET", index, v)
<1>1. PICK l \in Seq(Values) : l = data[c] /\ Size(c) = Len(l)
    BY SizeFacts
<1>2. PICK m \in Nat : m = Len(l)
    OBVIOUS
<1>3. v \in Values /\ index \in Keys /\ index \in CInt /\ index \in Int
  <2>1. v \in Values /\ index \in Keys /\ index \in CInt
      BY SizeFacts
  <2>. QED BY <2>1, MaxIntAssumption, SMT, Z3 DEF CInt, MinInt
<1>4. Assigned(l, i, v) \in Seq(Values) /\ Len(Assigned(l, i, v)) = m
  <2>1. i \in 1 .. Len(l)
      BY <1>1
  <2>2. Assigned(l, i, v) \in Seq(Values) /\ Len(Assigned(l, i, v)) = Len(l)
      BY <1>3, <2>1, ReplaceFacts, SMT, Z3
  <2>. QED BY <1>2, <2>2
<1>5. ASSUME MinInt \notin Indexes
      PROVE  Apply(l, Event(c, "SET", index, v)) = Assigned(l, i, v)
  <2>1. i \in Int /\ 1 <= i /\ i <= m /\ IF index < 0 THEN i = m + index + 1 ELSE i = index + 1
      BY <1>1, <1>2, <1>5, SMT, Z3
  <2>2. InRange(l, index) /\ At(l, index) = i
      BY <1>2, <1>3, <2>1, SMT, Z3 DEF InRange, At
  <2>3. Apply(l, Event(c, "SET", index, v)) = Assigned(l, At(l, index), v)
      BY <2>2, ApplyInRange
  <2>. QED BY <2>2, <2>3
<1>6. m <= m + 1
    BY SMTT(30), Z3T(30)
<1>. QED BY <1>1, <1>2, <1>3, <1>4, <1>5, <1>6 DEF Tells, UpdateCodes

\* GetOffset finds a record of a list that has any.
LEMMA OffsetFacts ==
    ASSUME TypeOK, IndexInv, NEW c \in Storages,
           NEW index \in Indexes, GetOffset(c, index) # OutOfBounds
    PROVE  /\ GetOffset(c, index) = NormalizeIndex(index, Size(c)) + 1
           /\ NormalizeIndex(index, Size(c)) \in 0 .. Size(c)
           /\ data[c] # <<>> => NormalizeIndex(index, Size(c)) < Size(c)
           /\ MinInt \notin Indexes =>
                 IF index < 0
                 THEN -index <= Size(c) /\ NormalizeIndex(index, Size(c)) = Size(c) + index
                 ELSE /\ NormalizeIndex(index, Size(c)) = index
                      /\ index = 0 \/ index < Size(c)
<1>1. Size(c) \in 0 .. MaxInt /\ index \in CInt /\ data[c] \in Seq(Values) /\ Size(c) = Len(data[c])
    BY SizeFacts
<1>2. NormalizeIndex(index, Size(c)) # OutOfBounds
    BY DEF GetOffset
<1>3. GetOffset(c, index) = NormalizeIndex(index, Size(c)) + 1
    BY <1>2 DEF GetOffset
<1>4. data[c] # <<>> => Size(c) # 0
    BY <1>1, SMT, Z3
<1>5. MinInt \notin Indexes => index # MinInt
    BY Zenon
<1>. QED BY <1>1, <1>2, <1>3, <1>4, <1>5, NormalIndex

LEMMA TellsSet ==
    ASSUME TypeOK, IndexInv, NEW c \in Storages,
           NEW index \in Indexes, GetOffset(c, index) # OutOfBounds, data[c] # <<>>,
           NEW v \in NewValues
    PROVE  Tells(c, Assigned(data[c], GetOffset(c, index), v), "SET", index, v)
<1>1. PICK n \in 0 .. Size(c) : n = NormalizeIndex(index, Size(c))
    BY OffsetFacts, Zenon
<1>2. GetOffset(c, index) = n + 1 /\ n < Size(c)
    BY <1>1, OffsetFacts, Zenon
<1>3. Size(c) \in Nat /\ n + 1 \in 1 .. Size(c)
    BY <1>2, SizeFacts, SMT, Z3
<1>4. MinInt \notin Indexes => IF index < 0 THEN n + 1 = Size(c) + index + 1 ELSE n + 1 = index + 1
    BY <1>1, OffsetFacts, Zenon
<1>. QED BY <1>2, <1>3, <1>4, TellsReplace, Zenon

LEMMA TellsDelete ==
    ASSUME TypeOK, IndexInv, NEW c \in Storages,
           NEW index \in Indexes, GetOffset(c, index) # OutOfBounds, data[c] # <<>>
    PROVE  Tells(c, Erased(data[c], GetOffset(c, index)), "DELETE",
                 NormalizeIndex(index, Size(c)), Null)
<1>1. PICK l \in Seq(Values) : l = data[c] /\ Size(c) = Len(l)
    BY SizeFacts
<1>2. PICK m \in Nat : m = Len(l)
    BY SMT, Z3
<1>3. PICK n \in 0 .. m : n = NormalizeIndex(index, Size(c))
    BY <1>1, <1>2, OffsetFacts, Zenon
<1>4. GetOffset(c, index) = n + 1 /\ n < m /\ n \in Keys
  <2>1. n \in 0 .. Size(c)
      BY <1>1, <1>2
  <2>. QED BY <1>1, <1>2, <1>3, <2>1, OffsetFacts, SizeFacts
<1>5. n + 1 \in 1 .. Len(l)
    BY <1>2, <1>4, SMTT(30), Z3T(30)
<1>6. Erased(l, n + 1) \in Seq(Values) /\ Len(Erased(l, n + 1)) = m - 1
    BY <1>2, <1>5, RemoveFacts
<1>7. InRange(l, n) /\ At(l, n) = n + 1
    BY <1>2, <1>4, SMTT(30), Z3T(30) DEF InRange, At
<1>8. Apply(l, Event(c, "DELETE", n, Null)) = Erased(l, n + 1)
    BY <1>7, ApplyInRange
<1>9. m - 1 <= m + 1 /\ n \in Int
    BY SMTT(30), Z3T(30)
<1>. QED BY <1>1, <1>2, <1>3, <1>4, <1>6, <1>8, <1>9, Zenon DEF Tells, UpdateCodes

LEMMA TellsInsert ==
    ASSUME TypeOK, IndexInv, NEW c \in Storages,
           NEW index \in Indexes, GetOffset(c, index) # OutOfBounds, index # 0, index # Size(c),
           NEW v \in NewValues
    PROVE  Tells(c, Inserted(data[c], GetOffset(c, index), v), "INSERT", index, v)
<1>1. PICK l \in Seq(Values) : l = data[c] /\ Size(c) = Len(l)
    BY SizeFacts
<1>2. PICK m \in Nat : m = Len(l)
    OBVIOUS
<1>3. v \in Values /\ index \in Keys /\ index \in Int
  <2>1. v \in Values /\ index \in Keys /\ index \in CInt
      BY SizeFacts, Zenon
  <2>. QED BY <2>1, MaxIntAssumption, SMT, Z3 DEF CInt, MinInt
<1>4. PICK n \in 0 .. m : n = NormalizeIndex(index, Size(c)) /\ GetOffset(c, index) = n + 1
    BY <1>1, <1>2, OffsetFacts
<1>5. n + 1 \in 1 .. Len(l) + 1
    BY <1>2, SMT, Z3
<1>6. /\ Inserted(l, n + 1, v) \in Seq(Values) /\ Len(Inserted(l, n + 1, v)) = m + 1
      /\ n + 1 = 1 => Inserted(l, n + 1, v) = <<v>> \o l
  <2>1. PICK i \in 1 .. Len(l) + 1 : i = n + 1
      BY <1>5
  <2>2. /\ Inserted(l, i, v) \in Seq(Values) /\ Len(Inserted(l, i, v)) = Len(l) + 1
        /\ i = 1 => Inserted(l, i, v) = <<v>> \o l
      BY <1>3, InsertFacts, SMT, Z3
  <2>. QED BY <1>2, <2>1, <2>2
<1>7. ASSUME MinInt \notin Indexes
      PROVE  Apply(l, Event(c, "INSERT", index, v)) = Inserted(l, n + 1, v)
  <2>1. IF index < 0 THEN -index <= m /\ n = m + index ELSE n = index /\ (index = 0 \/ index < m)
      BY <1>1, <1>2, <1>4, <1>7, OffsetFacts, Zenon
  <2>2. CASE index < 0 /\ index = -m
    <3>1. ~(index >= Len(l)) /\ index <= -Len(l) /\ n + 1 = 1
        BY <1>2, <1>3, <2>1, <2>2, SMT, Z3
    <3>2. PyInsert(l, index, v) = <<v>> \o l
        BY <3>1 DEF PyInsert
    <3>. QED BY <1>6, <3>1, <3>2, ApplyCases, SMT, Z3
  <2>3. CASE ~(index < 0 /\ index = -m)
    <3>1. ~(index >= Len(l)) /\ ~(index <= -Len(l)) /\ At(l, index) = n + 1
        BY <1>1, <1>2, <1>3, <2>1, <2>3, SMT, Z3 DEF At
    <3>2. PyInsert(l, index, v) = Inserted(l, n + 1, v)
        BY <3>1 DEF PyInsert
    <3>. QED BY <3>2, ApplyCases, ZenonT(30)
  <2>. QED BY <2>2, <2>3, Zenon
<1>8. m + 1 <= m + 1
    BY SMT, Z3
<1>. QED BY <1>1, <1>2, <1>3, <1>4, <1>6, <1>7, <1>8 DEF Tells, UpdateCodes

LEMMA TellsClear ==
    ASSUME TypeOK, NEW c \in Storages
    PROVE  Tells(c, <<>>, "CLEAR", Null, Null)
<1>1. <<>> \in Seq(Values) /\ Len(<<>>) = 0 /\ Len(data[c]) \in Nat
    BY SMT, Z3 DEF TypeOK
<1>2. 0 <= Len(data[c]) + 1
    BY <1>1
<1>3. Apply(data[c], Event(c, "CLEAR", Null, Null)) = <<>>
    BY DEF Apply, Event
<1>. QED BY <1>1, <1>2, <1>3 DEF Tells, UpdateCodes

\* Every operation on a list publishes what it did.
LEMMA ListWriterTells ==
    ASSUME TypeOK, IndexInv, ListWriter
    PROVE  \E c \in Storages : \E contents, code, k, v :
              Tells(c, contents, code, k, v) /\ UpdateRevNumAndPublish(c, contents, code, k, v)
<1>1. PICK c \in Storages :
        \/ PopBack(c) \/ PopFront(c) \/ Clear(c)
        \/ \E v \in NewValues : PushBack(c, v) \/ PushFront(c, v)
        \/ \E i \in Indexes : Delete(c, i)
        \/ \E i \in Indexes, v \in NewValues : Set(c, i, v) \/ Insert(c, i, v)
    BY Zenon DEF ListWriter
<1>2. CASE PopBack(c) \/ PopFront(c)
    BY <1>2, TellsPop DEF PopBack, PopFront
<1>3. CASE Clear(c)
    BY <1>3, TellsClear DEF Clear
<1>4. ASSUME NEW v \in NewValues, PushBack(c, v) \/ PushFront(c, v)
      PROVE  \E contents, code, k, x :
              Tells(c, contents, code, k, x) /\ UpdateRevNumAndPublish(c, contents, code, k, x)
    BY <1>4, TellsPush, Zenon DEF PushBack, PushFront
<1>5. ASSUME NEW i \in Indexes, Delete(c, i)
      PROVE  \E contents, code, k, x :
              Tells(c, contents, code, k, x) /\ UpdateRevNumAndPublish(c, contents, code, k, x)
    BY <1>5, TellsDelete, Zenon DEF Delete
<1>6. ASSUME NEW i \in Indexes, NEW v \in NewValues, Set(c, i, v)
      PROVE  \E contents, code, k, x :
              Tells(c, contents, code, k, x) /\ UpdateRevNumAndPublish(c, contents, code, k, x)
    BY <1>6, TellsSet, Zenon DEF Set
<1>7. ASSUME NEW i \in Indexes, NEW v \in NewValues, Insert(c, i, v)
      PROVE  \E contents, code, k, x :
              Tells(c, contents, code, k, x) /\ UpdateRevNumAndPublish(c, contents, code, k, x)
    BY <1>7, TellsPush, TellsInsert DEF Insert
<1>. QED BY <1>1, <1>2, <1>3, <1>4, <1>5, <1>6, <1>7

-----------------------------------------------------------------------------
(* What a copy holds. *)

LEMMA QueryLimit ==
    ASSUME NEW index \in CInt, NEW size \in 0 .. MaxInt
    PROVE  NormalizeForQueries(index, size) \in 0 .. size
<1>1. MaxInt \in Nat /\ index \in Int /\ size \in Nat
    BY MaxIntAssumption DEF CInt, MinInt
<1>2. CASE size = 0
    BY <1>1, <1>2 DEF NormalizeForQueries
<1>3. CASE size # 0 /\ index >= size
  <2>1. ~(index < 0)
      BY <1>1, <1>3
  <2>2. NormalizeForQueries(index, size) = size
      BY <1>3, <2>1 DEF NormalizeForQueries
  <2>. QED BY <1>1, <2>2
<1>4. CASE size # 0 /\ ~(index >= size)
  <2>1. CASE index < 0 /\ abs(index) > size
    <3>1. NormalizeForQueries(index, size) = 0
        BY <1>4, <2>1 DEF NormalizeForQueries
    <3>. QED BY <1>1, <3>1
  <2>2. CASE ~(index < 0 /\ abs(index) > size)
    <3>1. NormalizeForQueries(index, size) = NormalizeIndex(index, size)
        BY <1>4, <2>2 DEF NormalizeForQueries
    <3>2. NormalizeIndex(index, size) # OutOfBounds
      <4>1. CASE index >= 0
        <5>1. index = 0 \/ (index > 0 /\ index < size /\ ~(index >= size))
            BY <1>1, <1>4, <4>1
        <5>2. NormalizeIndex(index, size) = index
            BY <1>1, <4>1, <5>1 DEF NormalizeIndex
        <5>. QED BY <1>1, <4>1, <5>2 DEF OutOfBounds
      <4>2. CASE index < 0
        <5>1. PICK a \in Int : a = abs(index)
            BY <1>1, AbsType
        <5>2. a <= size /\ ~(a > size) /\ index # 0 /\ ~(index > 0)
            BY <1>1, <2>2, <4>2, <5>1, SMT, Z3
        <5>3. NormalizeIndex(index, size) = FromTheEnd(index, size)
            BY <4>2, <5>1, <5>2 DEF NormalizeIndex
        <5>4. PICK b \in Int : b = Wrap(size - abs(index))
          <6>1. size - a \in Int
              BY <1>1
          <6>. QED BY <5>1, <6>1, WrapType
        <5>5. FromTheEnd(index, size) = IF b < 0 THEN 0 ELSE b
            BY <5>4 DEF FromTheEnd
        <5>. QED BY <5>3, <5>5 DEF OutOfBounds
      <4>. QED BY <1>1, <4>1, <4>2
    <3>. QED BY <3>1, <3>2, NormalIndex, SMT, Z3
  <2>. QED BY <2>1, <2>2
<1>. QED BY <1>2, <1>3, <1>4

LEMMA QueryType ==
    ASSUME TypeOK, IndexInv, NEW c \in Storages, NEW start \in CInt
    PROVE  Query(c, start) \in Seq(Values)
<1>1. PICK l \in Seq(Values) : l = data[c] /\ Size(c) = Len(l)
    BY SizeFacts
<1>2. PICK first \in 0 .. Len(l) : first = NormalizeForQueries(start, Size(c))
    BY <1>1, QueryLimit, SizeFacts
<1>3. first <= Len(l) /\ first \in Nat /\ Len(l) \in Nat /\ first + 1 \in 1 .. Len(l) + 1
    BY SMTT(30), Z3T(30)
<1>4. NormalizeQueryLimits(start, 0, Size(c)) = [start |-> first, end |-> Len(l)]
    BY <1>1, <1>2, <1>3, SMTT(30), Z3T(30) DEF NormalizeQueryLimits
<1>5. Query(c, start) = SubSeq(l, first + 1, Len(l))
    BY <1>1, <1>4, SMTT(30), Z3T(30) DEF Query
<1>. QED BY <1>3, <1>5, PieceFacts

LEMMA ApplyType ==
    ASSUME NEW l \in Seq(Values \cup {Null}), NEW e \in ListEvents
    PROVE  Apply(l, e) \in Seq(Values \cup {Null})
<1>. DEFINE V == Values \cup {Null}
<1>1. PICK v \in V : v = e.v
    BY DEF ListEvents, Updates, EventInfo
<1>2. e.eventCode \in UpdateCodes /\ (e.eventCode # "CLEAR" => e.k \in Int)
    BY DEF ListEvents, Updates
<1>3. PICK m \in Nat : m = Len(l)
    OBVIOUS
<1>4. Append(l, v) \in Seq(V) /\ <<>> \in Seq(V)
    OBVIOUS
<1>5. <<v>> \o l \in Seq(V)
  <2>1. PICK one \in Seq(V) : one = <<v>>
      BY Singleton, Zenon
  <2>. QED BY <2>1, CatLaws DEF Cat
<1>6. CASE e.eventCode = "PUSH_BACK"
    BY <1>1, <1>4, <1>6 DEF Apply
<1>7. CASE e.eventCode = "PUSH_FRONT"
    BY <1>1, <1>5, <1>7 DEF Apply
<1>8. CASE e.eventCode = "CLEAR"
    BY <1>4, <1>8 DEF Apply
<1>9. CASE e.eventCode = "INSERT"
  <2>1. PICK k \in Int : k = e.k
      BY <1>2, <1>9
  <2>2. Apply(l, e) = PyInsert(l, k, v)
      BY <1>1, <1>9, <2>1 DEF Apply
  <2>3. CASE k >= m
    <3>1. m > 0 => ~(k <= -m)
        BY <2>3
    <3>2. CASE m > 0
        BY <1>3, <1>4, <2>2, <2>3, <3>1, <3>2 DEF PyInsert
    <3>3. CASE m = 0
      <4>1. l = <<>>
          BY <1>3, <3>3, NoElements, Zenon
      <4>2. Append(<<>>, v) = <<v>> \o <<>>
          OBVIOUS
      <4>. QED BY <1>3, <1>4, <2>2, <2>3, <4>1, <4>2, Zenon DEF PyInsert
    <3>. QED BY <3>2, <3>3, SMT, Z3
  <2>4. CASE ~(k >= m) /\ k <= -m
      BY <1>3, <1>5, <2>2, <2>4 DEF PyInsert
  <2>5. CASE ~(k >= m) /\ ~(k <= -m)
    <3>1. PICK i \in 1 .. Len(l) + 1 : i = At(l, k)
        BY <1>3, <2>5, SMT, Z3 DEF At
    <3>2. PyInsert(l, k, v) = Inserted(l, i, v)
        BY <1>3, <2>5, <3>1 DEF PyInsert
    <3>3. Inserted(l, i, v) \in Seq(V)
        BY InsertFacts, Zenon
    <3>. QED BY <2>2, <3>2, <3>3
  <2>. QED BY <2>3, <2>4, <2>5
<1>10. CASE e.eventCode \in {"DELETE", "SET"}
  <2>1. PICK k \in Int : k = e.k
      BY <1>2, <1>10
  <2>2. CASE InRange(l, k)
    <3>1. PICK i \in 1 .. Len(l) : i = At(l, k)
        BY <1>3, <2>2, SMT, Z3 DEF At, InRange
    <3>2. Erased(l, i) \in Seq(V) /\ Assigned(l, i, v) \in Seq(V)
        BY RemoveFacts, ReplaceFacts
    <3>3. Apply(l, e) = Erased(l, i) \/ Apply(l, e) = Assigned(l, i, v)
        BY <1>1, <1>10, <2>1, <2>2, <3>1 DEF Apply
    <3>. QED BY <3>2, <3>3
  <2>3. CASE ~InRange(l, k)
      BY <1>10, <2>1, <2>3, Zenon DEF Apply
  <2>. QED BY <2>2, <2>3
<1>. QED BY <1>2, <1>6, <1>7, <1>8, <1>9, <1>10 DEF UpdateCodes

-----------------------------------------------------------------------------
(* Sequences in which nothing occurs twice. *)

LEMMA InjectiveTail ==
    ASSUME NEW S, NEW q \in Seq(S), q # <<>>, IsInjective(q)
    PROVE  IsInjective(Tail(q)) /\ Head(q) \notin Range(Tail(q))
<1>1. PICK m \in Nat : m = Len(q) /\ m > 0
    OBVIOUS
<1>2. /\ DOMAIN q = 1 .. m /\ Head(q) = q[1]
      /\ DOMAIN Tail(q) = 1 .. m - 1 /\ \A i \in 1 .. m - 1 : Tail(q)[i] = q[i + 1]
    BY <1>1, SMT, Z3
<1>3. \A i \in 1 .. m - 1 : i + 1 \in 1 .. m /\ i + 1 # 1 /\ 1 \in 1 .. m
    BY <1>1
<1>4. \A i, j \in 1 .. m - 1 : i + 1 = j + 1 => i = j
    OBVIOUS
<1>. QED BY <1>2, <1>3, <1>4, SMT, Z3 DEF IsInjective, Range

LEMMA InjectiveAppend ==
    ASSUME NEW S, NEW q \in Seq(S), NEW x \in S, IsInjective(q), x \notin Range(q)
    PROVE  IsInjective(Append(q, x))
<1>1. PICK m \in Nat : m = Len(q)
    OBVIOUS
<1>2. /\ DOMAIN q = 1 .. m /\ DOMAIN Append(q, x) = 1 .. m + 1
      /\ \A i \in 1 .. m : Append(q, x)[i] = q[i]
      /\ Append(q, x)[m + 1] = x
    BY <1>1, SMT, Z3
<1>3. \A i \in 1 .. m + 1 : i \in 1 .. m \/ i = m + 1
    BY <1>1, SMT, Z3
<1>. QED BY <1>2, <1>3 DEF IsInjective, Range

-----------------------------------------------------------------------------
(* What an action does to the updates on their way. *)

\* A queue without events of a storage.
LEMMA NoUpdates ==
    ASSUME NaturalInduction, NEW c, NEW q \in Seq(EventInfo), ~EventsOf(c, q)
    PROVE  UpdatesOf(c, q) = <<>>
<1>. DEFINE r == [n \in 0 .. Len(q) |-> <<>>]
<1>1. <<>> \in Seq(EventInfo) /\ Len(q) \in Nat
    OBVIOUS
<1>2. IsRun(r, Keep(c), <<>>, q)
  <2>1. ASSUME NEW n \in 1 .. Len(q) PROVE r[n] = Keep(c)[<<r[n - 1], q[n]>>]
    <3>1. n \in 0 .. Len(q) /\ n - 1 \in 0 .. Len(q)
        BY <1>1
    <3>2. r[n] = <<>> /\ r[n - 1] = <<>>
        BY <3>1
    <3>3. q[n] \in EventInfo /\ ~IsUpdateOf(c, q[n])
        BY SMT, Z3 DEF EventsOf, IsUpdateOf
    <3>4. Keep(c)[<<<<>>, q[n]>>] = <<>>
        BY <1>1, <3>3, KeepValue, Zenon
    <3>. QED BY <3>2, <3>4, Zenon
  <2>2. r[0] = <<>> /\ DOMAIN r = 0 .. Len(q)
      BY <1>1
  <2>. QED BY <2>1, <2>2 DEF IsRun
<1>3. Fold(Keep(c), <<>>, q) = r[Len(q)]
  <2>. HIDE DEF r
  <2>. QED BY <1>1, <1>2, FoldIsLast
<1>4. r[Len(q)] = <<>>
    BY <1>1
<1>. QED BY <1>3, <1>4 DEF UpdatesOf

\* The types of what is on its way.
LEMMA StreamTypes ==
    ASSUME NaturalInduction, PubTypeOK, WalkOnce
    PROVE  /\ \A c : /\ UpdatesOf(c, localEventQueue) \in Seq(EventInfo)
                     /\ UpdatesOf(c, eventQueue) \in Seq(EventInfo)
                     /\ Queued(c) = Cat(UpdatesOf(c, localEventQueue), UpdatesOf(c, eventQueue))
                     /\ Queued(c) \in Seq(EventInfo)
           /\ interestedSubscribers # <<>> => eventInfo \in EventInfo
           /\ \A s \in Subscriptions :
                 /\ Now(s) \in Seq(EventInfo)
                 /\ UnderWay(s) = Cat(Now(s), Queued(StorageOf[s]))
                 /\ UnderWay(s) \in Seq(EventInfo)
<1>1. ASSUME NEW c
      PROVE  /\ UpdatesOf(c, localEventQueue) \in Seq(EventInfo)
             /\ UpdatesOf(c, eventQueue) \in Seq(EventInfo)
             /\ Queued(c) = Cat(UpdatesOf(c, localEventQueue), UpdatesOf(c, eventQueue))
             /\ Queued(c) \in Seq(EventInfo)
  <2>1. PICK a \in Seq(EventInfo) : a = UpdatesOf(c, localEventQueue)
      BY UpdatesType DEF PubTypeOK
  <2>2. PICK b \in Seq(EventInfo) : b = UpdatesOf(c, eventQueue)
      BY UpdatesType DEF PubTypeOK
  <2>3. Cat(a, b) \in Seq(EventInfo)
      BY CatLaws
  <2>. QED BY <2>1, <2>2, <2>3 DEF Queued, Cat
<1>2. interestedSubscribers # <<>> => eventInfo \in EventInfo
    BY DEF WalkOnce, PubTypeOK
<1>3. ASSUME NEW s \in Subscriptions
      PROVE  /\ Now(s) \in Seq(EventInfo)
             /\ UnderWay(s) = Cat(Now(s), Queued(StorageOf[s]))
             /\ UnderWay(s) \in Seq(EventInfo)
  <2>1. PICK a \in Seq(EventInfo) : a = Now(s)
    <3>1. <<>> \in Seq(EventInfo)
        OBVIOUS
    <3>2. s \in Range(interestedSubscribers) => UpdatesOf(StorageOf[s], <<eventInfo>>) \in Seq(EventInfo)
        BY <1>2, RangeEmpty, Singleton, UpdatesType, Zenon
    <3>. QED BY <3>1, <3>2, Zenon DEF Now
  <2>2. PICK b \in Seq(EventInfo) : b = Queued(StorageOf[s])
      BY <1>1
  <2>3. Cat(a, b) \in Seq(EventInfo)
      BY CatLaws, Zenon
  <2>. QED BY <2>1, <2>2, <2>3 DEF UnderWay, Cat
<1>. QED BY <1>1, <1>2, <1>3, Zenon

\* OnAnyContainerEvent puts an update behind those of its storage, if anybody subscribed.
LEMMA EventStreams ==
    ASSUME NaturalInduction, PubTypeOK, WalkOnce, NEW e \in Updates, OnAnyContainerEvent(e), NEW c
    PROVE  Queued(c)' = IF c = e.storageId /\ subscribers[c] # <<>> THEN Append(Queued(c), e)
                                                                    ELSE Queued(c)
<1>1. e \in EventInfo /\ (IsUpdateOf(c, e) <=> c = e.storageId)
    BY DEF Updates, IsUpdateOf
<1>2. localEventQueue' = localEventQueue
    BY DEF OnAnyContainerEvent
<1>3. CASE subscribers[e.storageId] = <<>>
  <2>1. eventQueue' = eventQueue
      BY <1>3 DEF OnAnyContainerEvent
  <2>. QED BY <1>2, <1>3, <2>1 DEF Queued
<1>4. CASE subscribers[e.storageId] # <<>>
  <2>1. eventQueue' = Append(eventQueue, e) /\ eventQueue \in Seq(EventInfo)
      BY <1>4 DEF OnAnyContainerEvent, PubTypeOK
  <2>2. PICK a \in Seq(EventInfo) : a = UpdatesOf(c, localEventQueue)
      BY StreamTypes
  <2>3. PICK b \in Seq(EventInfo) : b = UpdatesOf(c, eventQueue)
      BY StreamTypes
  <2>4. UpdatesOf(c, eventQueue') = IF c = e.storageId THEN Append(b, e) ELSE b
      BY <1>1, <2>1, <2>3, UpdatesAppend
  <2>5. Append(Cat(a, b), e) = Cat(a, Append(b, e))
      BY <1>1, CatAppend, SMT, Z3
  <2>6. Queued(c) = Cat(a, b) /\ Queued(c)' = Cat(a, UpdatesOf(c, eventQueue'))
      BY <1>2, <2>2, <2>3 DEF Queued, Cat
  <2>. QED BY <1>4, <2>4, <2>5, <2>6, Zenon
<1>. QED BY <1>3, <1>4

LEMMA SwapStreams ==
    ASSUME NaturalInduction, PubTypeOK, WalkOnce, SwapEventQueue
    PROVE  /\ \A c : Queued(c)' = Queued(c)
           /\ \A s \in Subscriptions : Now(s)' = Now(s)
<1>1. ASSUME NEW c PROVE Queued(c)' = Queued(c)
  <2>1. PICK b \in Seq(EventInfo) : b = UpdatesOf(c, eventQueue)
      BY StreamTypes
  <2>2. UpdatesOf(c, <<>>) = <<>>
      BY UpdatesEmpty
  <2>3. Queued(c) = Cat(<<>>, b) /\ Queued(c)' = Cat(b, <<>>)
      BY <2>1, <2>2 DEF Queued, Cat, SwapEventQueue
  <2>4. Cat(<<>>, b) = b /\ Cat(b, <<>>) = b
      BY CatLaws
  <2>. QED BY <2>3, <2>4
<1>2. ASSUME NEW s \in Subscriptions PROVE Now(s)' = Now(s)
    BY DEF Now, SwapEventQueue
<1>. QED BY <1>1, <1>2, Zenon

\* The event the publisher takes goes from the queue to the walk.
LEMMA TakeStreams ==
    ASSUME NaturalInduction, PubInv, WalkOnce, TakeEvent
    PROVE  /\ \E h \in EventInfo : \A c :
                 Queued(c) = Cat(IF IsUpdateOf(c, h) THEN <<h>> ELSE <<>>, Queued(c)')
           /\ \A c : Queued(c)' \in Seq(EventInfo)
           /\ \A s \in Subscriptions : Now(s) = <<>>
           /\ \A s \in Subscriptions : Subscribed(s) => UnderWay(s)' = UnderWay(s)
<1>1. PubTypeOK /\ localEventQueue \in Seq(EventInfo) /\ localEventQueue # <<>>
    BY DEF PubInv, PubTypeOK, TakeEvent
<1>2. PICK h \in EventInfo : h = Head(localEventQueue)
    BY <1>1, RangeHeadTail
<1>3. PICK rest \in Seq(EventInfo) : rest = Tail(localEventQueue)
    BY <1>1, RangeHeadTail, Zenon
<1>4. ASSUME NEW c
      PROVE  /\ Queued(c) = Cat(UpdatesOf(c, <<h>>), Queued(c)')
             /\ Queued(c)' \in Seq(EventInfo)
             /\ UpdatesOf(c, <<h>>) = IF IsUpdateOf(c, h) THEN <<h>> ELSE <<>>
             /\ UpdatesOf(c, <<h>>) \in Seq(EventInfo)
  <2>1. PICK one \in Seq(EventInfo) : one = <<h>>
      BY Singleton, Zenon
  <2>2. PICK a \in Seq(EventInfo) : a = UpdatesOf(c, <<h>>)
      BY <2>1, UpdatesType, Zenon
  <2>3. PICK b \in Seq(EventInfo) : b = UpdatesOf(c, rest)
      BY UpdatesType
  <2>4. PICK d \in Seq(EventInfo) : d = UpdatesOf(c, eventQueue)
      BY <1>1, StreamTypes
  <2>5. UpdatesOf(c, localEventQueue) = Cat(a, b)
      BY <1>1, <1>2, <1>3, <2>2, <2>3, UpdatesFirst, Zenon
  <2>6. Queued(c) = Cat(Cat(a, b), d) /\ Queued(c)' = Cat(b, d)
      BY <1>3, <2>3, <2>4, <2>5, Zenon DEF Queued, Cat, TakeEvent
  <2>7. Cat(Cat(a, b), d) = Cat(a, Cat(b, d)) /\ Cat(b, d) \in Seq(EventInfo)
      BY CatLaws, SMT, Z3
  <2>8. UpdatesOf(c, <<h>>) = IF IsUpdateOf(c, h) THEN <<h>> ELSE <<>>
      BY UpdatesOne
  <2>. QED BY <2>2, <2>6, <2>7, <2>8
<1>5. ASSUME NEW s \in Subscriptions PROVE Now(s) = <<>>
  <2>1. interestedSubscribers = <<>>
      BY DEF WalkOnce, TakeEvent
  <2>. QED BY <2>1, RangeEmpty, Zenon DEF Now
<1>6. ASSUME NEW s \in Subscriptions, Subscribed(s) PROVE UnderWay(s)' = UnderWay(s)
  <2>. DEFINE c == StorageOf[s]
  <2>1. interestedSubscribers' = subscribers[h.storageId]
      BY <1>2 DEF TakeEvent
  <2>4. UnderWay(s) = Queued(c) /\ UnderWay(s)' = Cat(Now(s)', Queued(c)')
    <3>1. PICK b \in Seq(EventInfo) : b = Queued(c)
        BY <1>1, StreamTypes
    <3>2. UnderWay(s) = Cat(<<>>, b)
        BY <1>5, <3>1 DEF UnderWay, Cat
    <3>3. Cat(<<>>, b) = b
        BY CatLaws
    <3>. QED BY <3>1, <3>2, <3>3 DEF UnderWay, Cat
  <2>2. CASE h.storageId = c
    <3>1. s \in Range(interestedSubscribers')
        BY <1>6, <2>1, <2>2 DEF Subscribed
    <3>2. eventInfo' = h
        BY <1>2, <3>1, RangeEmpty DEF TakeEvent
    <3>3. Now(s)' = UpdatesOf(c, <<h>>)
        BY <3>1, <3>2, Zenon DEF Now
    <3>. QED BY <1>4, <2>4, <3>3
  <2>3. CASE h.storageId # c
    <3>1. ~IsUpdateOf(c, h) /\ UpdatesOf(c, <<h>>) = <<>>
        BY <1>4, <2>3 DEF IsUpdateOf
    <3>2. s \in Range(interestedSubscribers') => eventInfo' = h
        BY <1>2, RangeEmpty, Zenon DEF TakeEvent
    <3>3. Now(s)' = <<>>
        BY <3>1, <3>2, Zenon DEF Now
    <3>4. Cat(<<>>, Queued(c)') = Queued(c)'
        BY <1>4, CatLaws, Zenon
    <3>. QED BY <1>4, <2>4, <3>1, <3>3, <3>4, Zenon
  <2>. QED BY <2>2, <2>3
<1>. QED BY <1>4, <1>5, <1>6

\* The walk moves on from t: the event under way has been dealt with for t only.
LEMMA WalkStreams ==
    ASSUME NaturalInduction, PubInv, WalkOnce, NEW t \in Subscriptions, AtSubscriber(t), NextSubscriber
    PROVE  /\ \A c : Queued(c)' = Queued(c)
           /\ \A s \in Subscriptions \ {t} : Now(s)' = Now(s)
           /\ Now(t)' = <<>>
           /\ Now(t) = IF InSnapshotLoop THEN <<>> ELSE <<eventInfo>>
           /\ eventInfo \in EventInfo
           /\ eventInfo.storageId = StorageOf[t] /\ Subscribed(t)
           /\ WalkOnce'
<1>. DEFINE w == interestedSubscribers
<1>1. PubTypeOK /\ RightAudience /\ w \in Seq(Subscriptions) /\ w # <<>> /\ t = Head(w)
    BY DEF PubInv, PubTypeOK, AtSubscriber
<1>2. w' = Tail(w) /\ eventQueue' = eventQueue /\ localEventQueue' = localEventQueue
      /\ subscribers' = subscribers /\ eventInfo' = IF w' = <<>> THEN NoEvent ELSE eventInfo
    BY DEF NextSubscriber
<1>3. Range(w) = {t} \cup Range(w') /\ Tail(w) \in Seq(Subscriptions)
    BY <1>1, <1>2, RangeHeadTail, Zenon
<1>4. IsInjective(w') /\ t \notin Range(w')
    BY <1>1, <1>2, InjectiveTail DEF WalkOnce
<1>5. eventInfo \in EventInfo /\ eventInfo # NoEvent
    BY <1>1, Zenon DEF WalkOnce, PubTypeOK
<1>6. eventInfo.storageId = StorageOf[t] /\ Subscribed(t)
    BY <1>1, <1>3 DEF RightAudience
<1>7. ASSUME NEW c PROVE Queued(c)' = Queued(c)
    BY <1>2 DEF Queued
<1>8. ASSUME NEW s \in Subscriptions \ {t} PROVE Now(s)' = Now(s)
  <2>1. s \in Range(w') <=> s \in Range(w)
      BY <1>3
  <2>2. s \in Range(w') => eventInfo' = eventInfo
      BY <1>2, RangeEmpty, Zenon
  <2>. QED BY <2>1, <2>2 DEF Now
<1>9. Now(t)' = <<>>
    BY <1>4 DEF Now
<1>10. Now(t) = IF InSnapshotLoop THEN <<>> ELSE <<eventInfo>>
  <2>1. Now(t) = UpdatesOf(StorageOf[t], <<eventInfo>>)
      BY <1>3 DEF Now
  <2>2. IsUpdateOf(StorageOf[t], eventInfo) <=> ~InSnapshotLoop
      BY <1>5, <1>6, Zenon DEF IsUpdateOf, InSnapshotLoop, EventInfo, UpdateCodes
  <2>. QED BY <1>5, <2>1, <2>2, UpdatesOne
<1>11. WalkOnce'
    BY <1>2, <1>4, <1>5 DEF WalkOnce
<1>. QED BY <1>5, <1>6, <1>7, <1>8, <1>9, <1>10, <1>11

\* A subscription changes nothing that is on its way.
LEMMA SubscribeStreams ==
    ASSUME NaturalInduction, PubInv, WalkOnce, NEW t \in Subscriptions, SessionAsyncSubscribe(t)
    PROVE  /\ \A c : Queued(c)' = Queued(c)
           /\ \A s \in Subscriptions : Now(s)' = Now(s)
           /\ \A s \in Subscriptions \ {t} : Subscribed(s)' = Subscribed(s)
           /\ Now(t) = <<>> /\ snapshotPending[t]
           /\ WalkOnce'
<1>. DEFINE c == StorageOf[t]
<1>1. PubTypeOK /\ RightAudience /\ c \in Storages /\ subscribers[c] \in Seq(Subscriptions)
    BY SubscriptionsAssumption DEF PubInv, PubTypeOK
<1>2. SnapshotEnd(c) \in EventInfo /\ SnapshotEnd(c).eventCode = "SNAPSHOT_END"
    BY <1>1, SnapshotEndFacts
<1>3. eventQueue' = Append(eventQueue, SnapshotEnd(c)) /\ localEventQueue' = localEventQueue
      /\ eventInfo' = eventInfo /\ interestedSubscribers' = interestedSubscribers
      /\ subscribers' = [subscribers EXCEPT ![c] = Append(subscribers[c], t)]
      /\ ~Subscribed(t)
    BY DEF SessionAsyncSubscribe
<1>4. ASSUME NEW d PROVE Queued(d)' = Queued(d)
  <2>1. ~IsUpdateOf(d, SnapshotEnd(c))
      BY <1>2 DEF IsUpdateOf, UpdateCodes
  <2>2. eventQueue \in Seq(EventInfo)
      BY <1>1 DEF PubTypeOK
  <2>3. UpdatesOf(d, Append(eventQueue, SnapshotEnd(c))) = UpdatesOf(d, eventQueue)
      BY <1>2, <2>1, <2>2, UpdatesAppend
  <2>. QED BY <1>3, <2>3 DEF Queued
<1>5. ASSUME NEW s \in Subscriptions PROVE Now(s)' = Now(s)
    BY <1>3 DEF Now
<1>6. ASSUME NEW s \in Subscriptions \ {t} PROVE Subscribed(s)' = Subscribed(s)
  <2>1. StorageOf[s] \in Storages /\ Range(Append(subscribers[c], t)) = Range(subscribers[c]) \cup {t}
      BY <1>1, RangeAppend, SubscriptionsAssumption, SMT, Z3
  <2>2. subscribers \in [Storages -> Seq(Subscriptions)]
      BY <1>1, Zenon DEF PubTypeOK
  <2>. QED BY <1>3, <2>1, <2>2, SMT, Z3 DEF Subscribed
<1>7. Now(t) = <<>> /\ snapshotPending[t]
    BY <1>1, <1>3, Zenon DEF RightAudience, Now
<1>8. WalkOnce'
  <2>1. IsInjective(Append(subscribers[c], t))
      BY <1>1, <1>3, InjectiveAppend DEF WalkOnce, Subscribed
  <2>2. subscribers \in [Storages -> Seq(Subscriptions)]
      BY <1>1 DEF PubTypeOK
  <2>3. ASSUME NEW d \in Storages PROVE IsInjective(subscribers'[d])
      BY <1>3, <2>1, <2>2 DEF WalkOnce
  <2>. QED BY <1>3, <2>3, Zenon DEF WalkOnce
<1>. QED BY <1>4, <1>5, <1>6, <1>7, <1>8

-----------------------------------------------------------------------------
(* The order of the updates. *)

LEMMA AnnouncedType ==
    ASSUME TypeOK, WriterInv
    PROVE  \A c \in Storages :
              Announced(c) \in Seq(EventInfo) /\ Len(Announced(c)) <= Len(published[c])
<1>. SUFFICES ASSUME NEW c \in Storages
              PROVE  Announced(c) \in Seq(EventInfo) /\ Len(Announced(c)) <= Len(published[c])
    OBVIOUS
<1>1. published[c] \in Seq(EventInfo)
    BY DEF TypeOK
<1>2. CASE Unpublished(c) # {}
  <2>1. published[c] # <<>>
      BY <1>2, Zenon DEF Unpublished, WriterInv
  <2>2. /\ AllButLast(published[c]) \in Seq(EventInfo)
        /\ Len(AllButLast(published[c])) = Len(published[c]) - 1
      BY <1>1, <2>1, FrontType
  <2>. QED BY <1>1, <1>2, <2>2, SMT, Z3 DEF Announced
<1>3. CASE Unpublished(c) = {}
    BY <1>1, <1>3, SMT, Z3 DEF Announced
<1>. QED BY <1>2, <1>3

\* What a subscriber was sent and has on its way.
LEMMA SentType ==
    ASSUME NaturalInduction, TypeOK, WalkOnce, NEW s \in Subscriptions
    PROVE  /\ received[s] \in Seq(EventInfo)
           /\ Sent(s) = Cat(received[s], UnderWay(s))
           /\ Sent(s) \in Seq(EventInfo)
<1>1. PubTypeOK /\ received[s] \in Seq(EventInfo)
    BY DEF TypeOK
<1>2. PICK r \in Seq(EventInfo) : r = received[s]
    BY <1>1, Zenon
<1>3. PICK u \in Seq(EventInfo) : u = UnderWay(s)
    BY <1>1, StreamTypes, Zenon
<1>4. Cat(r, u) \in Seq(EventInfo)
    BY CatLaws
<1>. QED BY <1>2, <1>3, <1>4 DEF Sent, Cat

\* An update is on its way to every subscriber of its storage and to nobody else.
LEMMA EventSent ==
    ASSUME NaturalInduction, TypeOK, WalkOnce, NEW e \in Updates, OnAnyContainerEvent(e), received' = received,
           NEW s \in Subscriptions, Subscribed(s)
    PROVE  IF StorageOf[s] = e.storageId
           THEN UnderWay(s)' = Append(UnderWay(s), e) /\ Sent(s)' = Append(Sent(s), e)
           ELSE UnderWay(s)' = UnderWay(s) /\ Sent(s)' = Sent(s)
<1>. DEFINE c == StorageOf[s]
<1>1. PubTypeOK /\ e \in EventInfo
    BY DEF TypeOK, Updates
<1>2. PICK n \in Seq(EventInfo) : n = Now(s)
    BY <1>1, StreamTypes, Zenon
<1>3. PICK q \in Seq(EventInfo) : q = Queued(c)
    BY <1>1, StreamTypes
<1>4. PICK r \in Seq(EventInfo) : r = received[s]
    BY SentType, Zenon
<1>5. Now(s)' = n
    BY <1>2 DEF Now, OnAnyContainerEvent
<1>6. UnderWay(s) = Cat(n, q) /\ UnderWay(s)' = Cat(n, Queued(c)')
    BY <1>2, <1>3, <1>5 DEF UnderWay, Cat
<1>7. Sent(s) = Cat(r, Cat(n, q)) /\ Sent(s)' = Cat(r, UnderWay(s)')
    BY <1>4, <1>6, Zenon DEF Sent, Cat
<1>8. CASE c = e.storageId
  <2>1. subscribers[c] # <<>>
      BY RangeEmpty DEF Subscribed
  <2>2. Queued(c)' = Append(q, e)
      BY <1>1, <1>3, <1>8, <2>1, EventStreams, Zenon
  <2>3. Append(Cat(n, q), e) = Cat(n, Append(q, e))
      BY <1>1, CatAppend, SMTT(30), Z3T(30)
  <2>4. PICK u \in Seq(EventInfo) : u = Cat(n, q)
      BY CatLaws
  <2>5. Append(Cat(r, u), e) = Cat(r, Append(u, e))
      BY <1>1, CatAppend, SMTT(30), Z3T(30)
  <2>. QED BY <1>6, <1>7, <1>8, <2>2, <2>3, <2>4, <2>5, Zenon
<1>9. CASE c # e.storageId
  <2>1. Queued(c)' = q
      BY <1>1, <1>3, <1>9, EventStreams, Zenon
  <2>. QED BY <1>6, <1>7, <1>9, <2>1
<1>. QED BY <1>8, <1>9

\* The next update of a storage is announced.
LEMMA AnnounceStream ==
    ASSUME NaturalInduction, TypeOK, PubInv, WalkOnce, StreamInv, NEW e \in Updates, OnAnyContainerEvent(e),
           UNCHANGED <<mirror, received, snapshotAt>>,
           \A c \in Storages : Announced(c) \in Seq(EventInfo),
           Announced(e.storageId)' = Append(Announced(e.storageId), e),
           \A c \in Storages \ {e.storageId} : Announced(c)' = Announced(c)
    PROVE  StreamInv'
<1>. DEFINE c0 == e.storageId
<1>1. PubTypeOK /\ e \in EventInfo /\ c0 \in Storages
    BY DEF TypeOK, Updates, EventInfo
<1>2. PICK a \in Seq(EventInfo) : a = Announced(c0)
    BY <1>1
<1>3. Append(a, e) \in Seq(EventInfo)
    BY <1>1, SMT, Z3
<1>4. PICK b \in Seq(EventInfo) : b = Append(a, e) /\ b = Announced(c0)'
    BY <1>2, <1>3, Zenon
<1>5. ASSUME NEW c \in Storages PROVE QueueFollows(c)'
  <2>1. CASE c # c0
    <3>1. Queued(c)' = Queued(c) /\ Announced(c)' = Announced(c)
        BY <1>1, <2>1, EventStreams
    <3>. QED BY <3>1, Zenon DEF QueueFollows, StreamInv
  <2>2. CASE c = c0 /\ subscribers[c] # <<>>
    <3>1. PICK n \in 0 .. Len(a) : Queued(c) = Rest(a, n)
        BY <1>2, <2>2 DEF QueueFollows, StreamInv
    <3>2. Queued(c)' = Append(Rest(a, n), e)
        BY <1>1, <2>2, <3>1, EventStreams, Zenon
    <3>3. n \in 0 .. Len(b) /\ Rest(b, n) = Append(Rest(a, n), e)
      <4>1. n \in 0 .. Len(Append(a, e)) /\ Rest(Append(a, e), n) = Append(Rest(a, n), e)
          BY <1>1, RestAppend, SMT, Z3
      <4>. QED BY <1>4, <4>1
    <3>. QED BY <1>4, <2>2, <3>2, <3>3, ZenonT(30) DEF QueueFollows
  <2>3. CASE c = c0 /\ subscribers[c] = <<>>
    <3>1. ~EventsOf(c, eventQueue) /\ ~EventsOf(c, localEventQueue)
        BY <2>3, Zenon DEF PubInv, RightAudience
    <3>2. UpdatesOf(c, eventQueue) = <<>> /\ UpdatesOf(c, localEventQueue) = <<>>
        BY <1>1, <3>1, NoUpdates, Zenon DEF PubTypeOK
    <3>3. Queued(c) = <<>>
        BY <3>2, SMTT(30), Z3T(30) DEF Queued
    <3>4. Queued(c)' = <<>>
        BY <1>1, <2>3, <3>3, EventStreams, Zenon
    <3>5. Len(b) \in 0 .. Len(b) /\ Rest(b, Len(b)) = <<>>
      <4>1. Len(b) \in 0 .. Len(b)
          BY SMTT(30), Z3T(30)
      <4>. QED BY <4>1, RestFacts
    <3>. QED BY <1>4, <2>3, <3>4, <3>5, Zenon DEF QueueFollows
  <2>. QED BY <2>1, <2>2, <2>3, Zenon
<1>6. ASSUME NEW s \in Subscriptions, Subscribed(s)', CanSend(s)' PROVE SentFollows(s)'
  <2>1. Subscribed(s) /\ CanSend(s) /\ snapshotPending' = snapshotPending /\ StorageOf[s] \in Storages
      BY <1>6, SubscriptionsAssumption DEF OnAnyContainerEvent, Subscribed, CanSend
  <2>2. PICK n \in 0 .. Len(Announced(StorageOf[s])) :
            /\ Sent(s) = Rest(Announced(StorageOf[s]), n)
            /\ ~snapshotPending[s] => n <= snapshotAt[s]
      BY <2>1, Zenon DEF StreamInv, SentFollows
  <2>3. CASE StorageOf[s] # c0
    <3>1. Sent(s)' = Sent(s) /\ Announced(StorageOf[s])' = Announced(StorageOf[s])
        BY <2>1, <2>3, EventSent, Zenon
    <3>. QED BY <2>1, <2>2, <3>1, Zenon DEF SentFollows
  <2>4. CASE StorageOf[s] = c0
    <3>1. Sent(s)' = Append(Rest(a, n), e) /\ n \in 0 .. Len(a)
        BY <1>2, <2>1, <2>2, <2>4, EventSent, Zenon
    <3>2. n \in 0 .. Len(b) /\ Rest(b, n) = Append(Rest(a, n), e)
      <4>1. n \in 0 .. Len(Append(a, e)) /\ Rest(Append(a, e), n) = Append(Rest(a, n), e)
          BY <1>1, <3>1, RestAppend, SMT, Z3
      <4>. QED BY <1>4, <4>1, Zenon
    <3>. QED BY <1>4, <2>1, <2>2, <2>4, <3>1, <3>2, Zenon DEF SentFollows
  <2>. QED BY <2>3, <2>4, Zenon
<1>7. ASSUME NEW s \in Subscriptions
      PROVE  snapshotPending'[s] => received'[s] = <<>> /\ mirror'[s] = <<>>
    BY Zenon DEF StreamInv, OnAnyContainerEvent
<1>. QED BY <1>5, <1>6, <1>7, Zenon DEF StreamInv

\* A step that moves no update.
LEMMA StreamKept ==
    ASSUME StreamInv, \A c \in Storages : Queued(c)' = Queued(c) /\ Announced(c)' = Announced(c),
           \A s \in Subscriptions : Now(s)' = Now(s),
           UNCHANGED <<snapshotPending, mirror, received, snapshotAt>>,
           \A s \in Subscriptions : Subscribed(s)' /\ CanSend(s)' => Subscribed(s) /\ CanSend(s)
    PROVE  StreamInv'
<1>1. ASSUME NEW c \in Storages PROVE QueueFollows(c)'
    BY Zenon DEF QueueFollows, StreamInv
<1>2. ASSUME NEW s \in Subscriptions, Subscribed(s)', CanSend(s)' PROVE SentFollows(s)'
  <2>1. SentFollows(s) /\ StorageOf[s] \in Storages
      BY <1>2, SubscriptionsAssumption, Zenon DEF StreamInv
  <2>2. Sent(s)' = Sent(s)
      BY <2>1, Zenon DEF Sent, UnderWay
  <2>. QED BY <2>1, <2>2, Zenon DEF SentFollows
<1>3. ASSUME NEW s \in Subscriptions
      PROVE  snapshotPending'[s] => received'[s] = <<>> /\ mirror'[s] = <<>>
    BY Zenon DEF StreamInv
<1>. QED BY <1>1, <1>2, <1>3, Zenon DEF StreamInv

\* A new subscriber gets, of the updates, those that are still queued.
LEMMA SubscribeStream ==
    ASSUME NaturalInduction, TypeOK, PubInv, WalkOnce, StreamInv, NEW t \in Subscriptions, SessionAsyncSubscribe(t),
           UNCHANGED <<mirror, received, snapshotAt>>,
           \A c \in Storages : Announced(c)' = Announced(c)
    PROVE  StreamInv'
<1>1. /\ \A c : Queued(c)' = Queued(c)
      /\ \A s \in Subscriptions : Now(s)' = Now(s)
      /\ \A s \in Subscriptions \ {t} : Subscribed(s)' = Subscribed(s)
      /\ Now(t) = <<>> /\ snapshotPending[t]
    BY SubscribeStreams
<1>2. snapshotPending' = snapshotPending /\ sessionState' = sessionState
    BY Zenon DEF SessionAsyncSubscribe
<1>3. ASSUME NEW c \in Storages PROVE QueueFollows(c)'
    BY <1>1, Zenon DEF QueueFollows, StreamInv
<1>4. ASSUME NEW s \in Subscriptions PROVE Sent(s)' = Sent(s)
    BY <1>1, Zenon DEF Sent, UnderWay
<1>5. ASSUME NEW s \in Subscriptions, Subscribed(s)', CanSend(s)' PROVE SentFollows(s)'
  <2>1. StorageOf[s] \in Storages
      BY SubscriptionsAssumption
  <2>2. CASE s # t
    <3>1. SentFollows(s)
        BY <1>1, <1>2, <1>5, <2>2, Zenon DEF StreamInv, CanSend
    <3>. QED BY <1>2, <1>4, <2>1, <3>1, Zenon DEF SentFollows
  <2>3. CASE s = t
    <3>1. PICK n \in 0 .. Len(Announced(StorageOf[t])) :
              Queued(StorageOf[t]) = Rest(Announced(StorageOf[t]), n)
        BY <2>1, <2>3, Zenon DEF StreamInv, QueueFollows
    <3>2. PICK q \in Seq(EventInfo) : q = Queued(StorageOf[t])
        BY StreamTypes, Zenon DEF TypeOK
    <3>3. received[t] = <<>>
        BY <1>1, Zenon DEF StreamInv
    <3>4. Sent(t) = Cat(<<>>, Cat(<<>>, q))
        BY <1>1, <3>2, <3>3, Zenon DEF Sent, UnderWay, Cat
    <3>5. Cat(<<>>, q) = q
        BY CatLaws
    <3>. QED BY <1>1, <1>2, <1>4, <2>1, <2>3, <3>1, <3>2, <3>4, <3>5, Zenon DEF SentFollows
  <2>. QED BY <2>2, <2>3
<1>6. ASSUME NEW s \in Subscriptions
      PROVE  snapshotPending'[s] => received'[s] = <<>> /\ mirror'[s] = <<>>
    BY <1>2, Zenon DEF StreamInv
<1>. QED BY <1>3, <1>5, <1>6, Zenon DEF StreamInv

LEMMA TakeStream ==
    ASSUME NaturalInduction, TypeOK, PubInv, WalkOnce, StreamInv, TakeEvent,
           UNCHANGED <<mirror, received, snapshotAt>>,
           \A c \in Storages : Announced(c) \in Seq(EventInfo) /\ Announced(c)' = Announced(c)
    PROVE  StreamInv'
<1>1. /\ \A s \in Subscriptions : Subscribed(s) => UnderWay(s)' = UnderWay(s)
      /\ \A c : Queued(c)' \in Seq(EventInfo)
    BY TakeStreams
<1>2. PICK h \in EventInfo : \A c :
          Queued(c) = Cat(IF IsUpdateOf(c, h) THEN <<h>> ELSE <<>>, Queued(c)')
    BY TakeStreams, Zenon
<1>3. snapshotPending' = snapshotPending /\ sessionState' = sessionState /\ subscribers' = subscribers
    BY DEF TakeEvent
<1>4. ASSUME NEW c \in Storages PROVE QueueFollows(c)'
  <2>1. PICK a \in Seq(EventInfo) : a = Announced(c)
      BY Zenon
  <2>2. PICK n \in 0 .. Len(a) : Queued(c) = Rest(a, n)
      BY <2>1 DEF StreamInv, QueueFollows
  <2>3. PICK q \in Seq(EventInfo) : q = Queued(c)'
      BY <1>1
  <2>4. CASE IsUpdateOf(c, h)
    <3>1. Rest(a, n) = Cat(<<h>>, q)
        BY <1>2, <2>2, <2>3, <2>4
    <3>2. n + 1 \in 0 .. Len(a) /\ q = Rest(a, n + 1)
        BY <3>1, RestTail, SMT, Z3
    <3>. QED BY <2>1, <2>3, <3>2 DEF QueueFollows
  <2>5. CASE ~IsUpdateOf(c, h)
    <3>1. Rest(a, n) = Cat(<<>>, q) /\ Cat(<<>>, q) = q
        BY <1>2, <2>2, <2>3, <2>5, CatLaws
    <3>. QED BY <2>1, <2>3, <3>1, Zenon DEF QueueFollows
  <2>. QED BY <2>4, <2>5
<1>5. ASSUME NEW s \in Subscriptions, Subscribed(s)', CanSend(s)' PROVE SentFollows(s)'
  <2>1. Subscribed(s) /\ SentFollows(s) /\ StorageOf[s] \in Storages
      BY <1>3, <1>5, SubscriptionsAssumption, Zenon DEF StreamInv, Subscribed, CanSend
  <2>2. Sent(s)' = Sent(s)
      BY <1>1, <2>1, Zenon DEF Sent
  <2>. QED BY <1>3, <2>1, <2>2, Zenon DEF SentFollows
<1>6. ASSUME NEW s \in Subscriptions
      PROVE  snapshotPending'[s] => received'[s] = <<>> /\ mirror'[s] = <<>>
    BY <1>3 DEF StreamInv
<1>. QED BY <1>4, <1>5, <1>6, Zenon DEF StreamInv

\* The walk leaves t: only t's copy and histories may change.
LEMMA WalkStream ==
    ASSUME NaturalInduction, TypeOK, PubInv, WalkOnce, StreamInv, NEW t \in Subscriptions, AtSubscriber(t),
           NextSubscriber,
           \A s \in Subscriptions \ {t} :
               /\ snapshotPending'[s] = snapshotPending[s] /\ mirror'[s] = mirror[s]
               /\ received'[s] = received[s] /\ snapshotAt'[s] = snapshotAt[s],
           \A c \in Storages : Announced(c)' = Announced(c),
           snapshotPending'[t] => received'[t] = <<>> /\ mirror'[t] = <<>>,
           CanSend(t) => SentFollows(t)'
    PROVE  StreamInv'
<1>1. /\ \A c : Queued(c)' = Queued(c)
      /\ \A s \in Subscriptions \ {t} : Now(s)' = Now(s)
    BY WalkStreams, Zenon
<1>2. sessionState' = sessionState /\ subscribers' = subscribers
    BY Zenon DEF NextSubscriber
<1>3. ASSUME NEW c \in Storages PROVE QueueFollows(c)'
    BY <1>1, Zenon DEF QueueFollows, StreamInv
<1>4. ASSUME NEW s \in Subscriptions, Subscribed(s)', CanSend(s)' PROVE SentFollows(s)'
  <2>1. CASE s = t
      BY <1>2, <1>4, <2>1, Zenon DEF CanSend
  <2>2. CASE s # t
    <3>1. SentFollows(s) /\ StorageOf[s] \in Storages
        BY <1>2, <1>4, SubscriptionsAssumption, Zenon DEF StreamInv, Subscribed, CanSend
    <3>2. Sent(s)' = Sent(s)
        BY <1>1, <2>2, Zenon DEF Sent, UnderWay
    <3>. QED BY <2>2, <3>1, <3>2, Zenon DEF SentFollows
  <2>. QED BY <2>1, <2>2, Zenon
<1>5. ASSUME NEW s \in Subscriptions
      PROVE  snapshotPending'[s] => received'[s] = <<>> /\ mirror'[s] = <<>>
    BY Zenon DEF StreamInv
<1>. QED BY <1>3, <1>4, <1>5, Zenon DEF StreamInv

\* What the walk does to the subscriber it leaves.
LEMMA WalkSent ==
    ASSUME NaturalInduction, TypeOK, PubInv, WalkOnce, NEW t \in Subscriptions, AtSubscriber(t), NextSubscriber
    PROVE  \E q \in Seq(EventInfo), r \in Seq(EventInfo) :
              /\ r = received[t]
              /\ UnderWay(t) = IF InSnapshotLoop THEN q ELSE Cat(<<eventInfo>>, q)
              /\ Sent(t) = Cat(r, UnderWay(t))
              /\ UnderWay(t)' = q
              /\ Sent(t)' = Cat(received'[t], q)
<1>. DEFINE c == StorageOf[t]
<1>1. PICK q \in Seq(EventInfo) : q = Queued(c)
    BY StreamTypes DEF TypeOK
<1>2. PICK r \in Seq(EventInfo) : r = received[t]
    BY SentType
<1>3. /\ Queued(c)' = Queued(c)
      /\ Now(t)' = <<>>
      /\ Now(t) = IF InSnapshotLoop THEN <<>> ELSE <<eventInfo>>
    BY WalkStreams, Zenon
<1>4. Cat(<<>>, q) = q
    BY CatLaws, Zenon
<1>5. UnderWay(t) = Cat(Now(t), q) /\ UnderWay(t)' = Cat(<<>>, q)
    BY <1>1, <1>3 DEF UnderWay, Cat
<1>6. Sent(t) = Cat(r, UnderWay(t)) /\ Sent(t)' = Cat(received'[t], UnderWay(t)')
    BY <1>2, Zenon DEF Sent, Cat
<1>. QED BY <1>2, <1>3, <1>4, <1>5, <1>6, Zenon

LEMMA SkipStream ==
    ASSUME NaturalInduction, TypeOK, PubInv, WalkOnce, StreamInv, NEW t \in Subscriptions, SkipSubscriber(t),
           UNCHANGED listVars,
           \A c \in Storages : Announced(c) \in Seq(EventInfo) /\ Announced(c)' = Announced(c)
    PROVE  StreamInv'
<1>1. AtSubscriber(t) /\ NextSubscriber /\ snapshotPending' = snapshotPending
    BY Zenon DEF SkipSubscriber
<1>2. UNCHANGED <<mirror, received, snapshotAt>>
    BY DEF listVars
<1>3. ASSUME CanSend(t) PROVE SentFollows(t)'
  <2>1. StorageOf[t] \in Storages /\ Subscribed(t) /\ eventInfo \in EventInfo
      BY <1>1, WalkStreams, SubscriptionsAssumption
  <2>2. PICK a \in Seq(EventInfo) : a = Announced(StorageOf[t]) /\ a = Announced(StorageOf[t])'
      BY <2>1
  <2>3. PICK n \in 0 .. Len(a) :
            /\ Sent(t) = Rest(a, n)
            /\ ~snapshotPending[t] => n <= snapshotAt[t]
      BY <1>3, <2>1, <2>2, Zenon DEF StreamInv, SentFollows
  <2>4. PICK q \in Seq(EventInfo), r \in Seq(EventInfo) :
            /\ r = received[t]
            /\ UnderWay(t) = IF InSnapshotLoop THEN q ELSE Cat(<<eventInfo>>, q)
            /\ Sent(t) = Cat(r, UnderWay(t))
            /\ UnderWay(t)' = q
            /\ Sent(t)' = Cat(received'[t], q)
      BY <1>1, WalkSent, Zenon
  <2>5. CASE InSnapshotLoop
    <3>1. Sent(t)' = Rest(a, n)
        BY <1>2, <2>3, <2>4, <2>5
    <3>. QED BY <1>1, <1>2, <2>2, <2>3, <3>1, ZenonT(30) DEF SentFollows
  <2>6. CASE ~InSnapshotLoop
    <3>1. ~SessionGone(t)
        BY <1>3 DEF SessionGone, CanSend
    <3>2. snapshotPending[t]
        BY <2>6, <3>1, Zenon DEF SkipSubscriber
    <3>3. r = <<>>
        BY <2>4, <3>2, Zenon DEF StreamInv
    <3>4. Cat(<<eventInfo>>, q) \in Seq(EventInfo)
        BY <2>1, Singleton, CatLaws, Zenon
    <3>5. Cat(<<>>, Cat(<<eventInfo>>, q)) = Cat(<<eventInfo>>, q) /\ Cat(<<>>, q) = q
        BY <3>4, CatLaws
    <3>6. Rest(a, n) = Cat(<<eventInfo>>, q) /\ Sent(t)' = q
        BY <1>2, <2>3, <2>4, <2>6, <3>3, <3>5, Zenon
    <3>7. n + 1 \in 0 .. Len(a) /\ q = Rest(a, n + 1)
        BY <2>1, <3>6, RestTail, SMT, Z3
    <3>. QED BY <1>1, <2>2, <3>2, <3>6, <3>7, Zenon DEF SentFollows
  <2>. QED BY <2>5, <2>6
<1>4. snapshotPending'[t] => received'[t] = <<>> /\ mirror'[t] = <<>>
    BY <1>1, <1>2, Zenon DEF StreamInv
<1>. QED BY <1>1, <1>2, <1>3, <1>4, WalkStream, Zenon

\* A subscriber that is taken for served has nothing on its way but later updates.
LEMMA ServedStream ==
    ASSUME NaturalInduction, TypeOK, PubInv, WalkOnce, StreamInv, NEW t \in Subscriptions,
           AtSubscriber(t), InSnapshotLoop, NextSubscriber,
           snapshotPending' = [snapshotPending EXCEPT ![t] = FALSE],
           snapshotAt' = [snapshotAt EXCEPT ![t] = Len(published[StorageOf[t]])],
           received' = received, \A s \in Subscriptions \ {t} : mirror'[s] = mirror[s],
           \A c \in Storages : /\ Announced(c) \in Seq(EventInfo) /\ Announced(c)' = Announced(c)
                                /\ Len(Announced(c)) <= Len(published[c])
    PROVE  StreamInv'
<1>1. /\ snapshotPending'[t] = FALSE
      /\ \A s \in Subscriptions \ {t} : snapshotPending'[s] = snapshotPending[s]
    BY DEF TypeOK, PubTypeOK
<1>2. /\ snapshotAt'[t] = Len(published[StorageOf[t]])
      /\ \A s \in Subscriptions \ {t} : snapshotAt'[s] = snapshotAt[s]
    BY DEF TypeOK
<1>3. ASSUME CanSend(t) PROVE SentFollows(t)'
  <2>1. StorageOf[t] \in Storages /\ Subscribed(t)
      BY WalkStreams, SubscriptionsAssumption, Zenon
  <2>2. PICK a \in Seq(EventInfo) : a = Announced(StorageOf[t]) /\ a = Announced(StorageOf[t])'
      BY <2>1, Zenon
  <2>3. PICK n \in 0 .. Len(a) : Sent(t) = Rest(a, n)
      BY <1>3, <2>1, <2>2, Zenon DEF StreamInv, SentFollows
  <2>4. Sent(t)' = Rest(a, n)
      BY <2>3, WalkSent, Zenon
  <2>5. n <= Len(published[StorageOf[t]])
    <3>1. PICK p \in Seq(EventInfo) : p = published[StorageOf[t]]
        BY <2>1, Zenon DEF TypeOK
    <3>2. Len(a) <= Len(p)
        BY <2>1, <2>2, <3>1, ZenonT(30)
    <3>3. Len(a) \in Nat /\ Len(p) \in Nat
        BY SMTT(30), Z3T(30)
    <3>4. n <= Len(p)
        BY <3>2, <3>3, SMT, Z3
    <3>. QED BY <3>1, <3>4, Zenon
  <2>. QED BY <1>2, <2>2, <2>4, <2>5, Zenon DEF SentFollows
<1>. QED BY <1>1, <1>2, <1>3, WalkStream, Zenon

\* An update that is published moves from what is on its way to what was sent.
LEMMA PublishStream ==
    ASSUME NaturalInduction, TypeOK, PubInv, WalkOnce, StreamInv, NEW t \in Subscriptions, ListPublish(t),
           \A c \in Storages : Announced(c) \in Seq(EventInfo) /\ Announced(c)' = Announced(c)
    PROVE  StreamInv'
<1>1. /\ AtSubscriber(t) /\ NextSubscriber /\ ~InSnapshotLoop /\ ~snapshotPending[t]
      /\ snapshotPending' = snapshotPending /\ snapshotAt' = snapshotAt
    BY DEF ListPublish, PublishEvent
<1>2. \A s \in Subscriptions \ {t} : mirror'[s] = mirror[s] /\ received'[s] = received[s]
    BY DEF ListPublish, TypeOK
<1>3. ASSUME CanSend(t) PROVE SentFollows(t)'
  <2>1. StorageOf[t] \in Storages /\ Subscribed(t) /\ eventInfo \in EventInfo
      BY <1>1, WalkStreams, SubscriptionsAssumption, Zenon
  <2>2. SentFollows(t) /\ Announced(StorageOf[t])' = Announced(StorageOf[t])
      BY <1>3, <2>1 DEF StreamInv
  <2>3. PICK q \in Seq(EventInfo), r \in Seq(EventInfo) :
            /\ r = received[t]
            /\ UnderWay(t) = Cat(<<eventInfo>>, q)
            /\ Sent(t) = Cat(r, UnderWay(t))
            /\ Sent(t)' = Cat(received'[t], q)
      BY <1>1, WalkSent, Zenon
  <2>4. received'[t] = Append(r, eventInfo)
      BY <1>3, <2>3, Zenon DEF ListPublish, TypeOK
  <2>5. PICK one \in Seq(EventInfo) : one = <<eventInfo>>
      BY <2>1, Singleton, Zenon
  <2>6. Append(r, eventInfo) = Cat(r, one)
    <3>1. \A x \in EventInfo : Append(r, x) = r \o <<x>>
        BY SMTT(30), Z3T(30)
    <3>. QED BY <2>1, <2>5, <3>1, Zenon DEF Cat
  <2>7. Cat(Cat(r, one), q) = Cat(r, Cat(one, q))
      BY CatLaws, SMTT(30), Z3T(30)
  <2>8. Sent(t)' = Sent(t)
      BY <2>3, <2>4, <2>5, <2>6, <2>7, Zenon
  <2>. QED BY <1>1, <2>2, <2>8, Zenon DEF SentFollows
<1>. QED BY <1>1, <1>2, <1>3, WalkStream, Zenon

-----------------------------------------------------------------------------
(* The invariant. *)

\* Vectors have one writer; lists may have any number.
OneWriter == "vector" \in Kinds => \A v, w \in Writers : v = w

LEMMA InitVectorInv ==
    ASSUME NaturalInduction
    PROVE  InitVector => VectorInv
<1>. SUFFICES ASSUME InitVector PROVE VectorInv
    OBVIOUS
<1>. USE SubscriptionsAssumption, ListAssumption
<1>1. Init /\ PubInit /\ PubInv
    BY PubInitInv DEF InitVector, Init
<1>2. TypeOK
  <2>1. PubTypeOK
      BY <1>1 DEF PubInv
  <2>2. <<>> \in Seq(Values \cup {Null}) /\ <<>> \in Seq(EventInfo)
      BY SMT, Z3
  <2>. QED BY <1>1, <2>1, <2>2 DEF TypeOK, Init
<1>3. WalkOnce
  <2>1. IsInjective(<<>>)
      BY SMT, Z3 DEF IsInjective
  <2>. QED BY <1>1, <2>1 DEF WalkOnce, PubInit
<1>4. WriterInv
    BY Zenon DEF WriterInv, InitVector
<1>5. \A c \in Storages : Unpublished(c) = {} /\ Announced(c) = <<>>
    BY <1>1, Zenon DEF InitVector, Init, Unpublished, Announced
<1>6. StreamInv
  <2>1. ASSUME NEW c \in Storages PROVE QueueFollows(c)
    <3>1. Queued(c) = <<>>
        BY <1>1, UpdatesEmpty, SMT, Z3 DEF Queued, PubInit
    <3>2. 0 \in 0 .. Len(<<>>) /\ Rest(<<>>, 0) = <<>>
        BY SMT, Z3 DEF Rest
    <3>. QED BY <1>5, <3>1, <3>2, Zenon DEF QueueFollows
  <2>2. ASSUME NEW s \in Subscriptions PROVE ~Subscribed(s)
      BY <1>1, RangeEmpty, Zenon DEF PubInit, Subscribed
  <2>. QED BY <1>1, <2>1, <2>2, Zenon DEF StreamInv, Init
<1>7. IndexInv
  <2>1. ASSUME NEW c \in Storages
        PROVE  Len(data[c]) = Len(Contents[c]) /\ published[c] = <<>> /\ Len(Contents[c]) \in Nat
      BY <1>1, SMT, Z3 DEF Init
  <2>2. Len(<<>>) = 0 /\ DOMAIN <<>> = {}
      BY SMT, Z3
  <2>. QED BY <2>1, <2>2, SMTT(30), Z3T(30) DEF IndexInv
<1>8. NoVectorSnapshot
    BY <1>1 DEF NoVectorSnapshot, PubInit
<1>. QED BY <1>1, <1>2, <1>3, <1>4, <1>6, <1>7, <1>8 DEF VectorInv, PubInv

LEMMA VectorInvPub == VectorInv => PubInv
    BY DEF VectorInv, PubInv, TypeOK

\* What a change does to the history, the contents and their indexes.
LEMMA ChangedIndexes ==
    ASSUME TypeOK, IndexInv, NEW c \in Storages, NEW contents \in Seq(Values), NEW e \in ListEvents,
           Len(contents) <= Len(data[c]) + 1, Len(published[c]) < MaxWrites,
           data' = [data EXCEPT ![c] = contents],
           published' = [published EXCEPT ![c] = Append(published[c], e)]
    PROVE  /\ data' \in [Storages -> Seq(Values)]
           /\ published' \in [Storages -> Seq(EventInfo)]
           /\ data'[c] = contents /\ published'[c] = Append(published[c], e)
           /\ \A d \in Storages \ {c} : data'[d] = data[d] /\ published'[d] = published[d]
           /\ IndexInv'
<1>1. PICK p \in Seq(EventInfo) : p = published[c]
    BY DEF TypeOK
<1>2. e \in EventInfo
    BY Zenon DEF ListEvents, Updates
<1>3. /\ Append(p, e) \in Seq(EventInfo) /\ Len(Append(p, e)) = Len(p) + 1
      /\ DOMAIN Append(p, e) = 1 .. Len(p) + 1 /\ DOMAIN p = 1 .. Len(p)
      /\ \A i \in 1 .. Len(p) : Append(p, e)[i] = p[i]
      /\ Append(p, e)[Len(p) + 1] = e
    BY <1>2, SMTT(30), Z3T(30)
<1>4. /\ data' \in [Storages -> Seq(Values)]
      /\ published' \in [Storages -> Seq(EventInfo)]
      /\ data'[c] = contents /\ published'[c] = Append(p, e)
      /\ \A d \in Storages \ {c} : data'[d] = data[d] /\ published'[d] = published[d]
    BY <1>1, <1>3 DEF TypeOK
<1>5. /\ Len(contents) <= Len(Contents[c]) + Len(Append(p, e))
      /\ Len(Append(p, e)) <= MaxWrites
  <2>1. Len(data[c]) <= Len(Contents[c]) + Len(p)
      BY <1>1, Zenon DEF IndexInv
  <2>2. /\ Len(p) \in Nat /\ Len(Contents[c]) \in Nat /\ Len(data[c]) \in Nat /\ MaxWrites \in Nat
        /\ Len(contents) \in Nat
      BY ListAssumption, SMT, Z3 DEF TypeOK
  <2>3. \A a, b, x, y, w \in Nat :
            a <= b + 1 /\ b <= x + y /\ y < w => a <= x + (y + 1) /\ y + 1 <= w
      BY SMT, Z3
  <2>4. Len(p) < MaxWrites
      BY <1>1
  <2>5. Len(contents) <= Len(Contents[c]) + (Len(p) + 1) /\ Len(p) + 1 <= MaxWrites
      BY <2>1, <2>2, <2>3, <2>4, ZenonT(30)
  <2>. QED BY <1>3, <2>5, Zenon
<1>6. \A i \in DOMAIN Append(p, e) : Append(p, e)[i] \in ListEvents
  <2>1. \A i \in 1 .. Len(p) : p[i] \in ListEvents
      BY <1>1, <1>3, Zenon DEF IndexInv
  <2>2. \A i \in 1 .. Len(p) + 1 : i \in 1 .. Len(p) \/ i = Len(p) + 1
      BY SMT, Z3
  <2>. QED BY <1>3, <2>1, <2>2
<1>7. IndexInv'
  <2>1. ASSUME NEW d \in Storages
        PROVE  /\ Len(data'[d]) <= Len(Contents[d]) + Len(published'[d])
               /\ Len(published'[d]) <= MaxWrites
               /\ \A i \in DOMAIN published'[d] : published'[d][i] \in ListEvents
    <3>1. CASE d = c
        BY <1>4, <1>5, <1>6, <3>1, Zenon
    <3>2. CASE d # c
        BY <1>4, <3>2, Zenon DEF IndexInv
    <3>. QED BY <3>1, <3>2, Zenon
  <2>. QED BY <2>1, Zenon DEF IndexInv
<1>. QED BY <1>1, <1>4, <1>7, Zenon

LEMMA TellsEvent ==
    ASSUME NEW c \in Storages, NEW contents, NEW code, NEW k, NEW v, Tells(c, contents, code, k, v)
    PROVE  /\ Event(c, code, k, v) \in ListEvents /\ Event(c, code, k, v) \in Updates
           /\ Event(c, code, k, v).storageId = c
<1>1. Event(c, code, k, v) \in EventInfo
    BY Zenon DEF Event, EventInfo, Tells
<1>. QED BY <1>1, Zenon DEF Event, Tells, ListEvents, Updates

LEMMA EventStep ==
    ASSUME PubInv, WalkOnce, NEW e \in Updates, OnAnyContainerEvent(e)
    PROVE  PubInv' /\ WalkOnce' /\ snapshotPending' = snapshotPending
<1>1. PubInv'
    BY PubStepInv, Zenon DEF PubNext
<1>. QED BY <1>1 DEF WalkOnce, OnAnyContainerEvent

LEMMA ListWriteInv ==
    ASSUME NaturalInduction, VectorInv, kind = "list", NEW c \in Storages,
           NEW contents, NEW code, NEW k, NEW v, Tells(c, contents, code, k, v),
           UpdateRevNumAndPublish(c, contents, code, k, v), UNCHANGED vectorVars
    PROVE  VectorInv'
<1>. USE DEF VectorInv
<1>1. PICK e \in ListEvents : e = Event(c, code, k, v) /\ e \in Updates /\ e.storageId = c
    BY TellsEvent, SMTT(30), Z3T(30)
<1>2. /\ OnAnyContainerEvent(e) /\ Len(published[c]) < MaxWrites
      /\ data' = [data EXCEPT ![c] = contents]
      /\ published' = [published EXCEPT ![c] = Append(published[c], e)]
      /\ UNCHANGED <<mirror, received, snapshotAt>>
    BY <1>1, Zenon DEF UpdateRevNumAndPublish, Event
<1>3. PubInv' /\ WalkOnce' /\ snapshotPending' = snapshotPending
    BY <1>1, <1>2, EventStep, VectorInvPub, Zenon
<1>4. contents \in Seq(Values) /\ Len(contents) <= Len(data[c]) + 1
    BY DEF Tells
<1>5. /\ data' \in [Storages -> Seq(Values)]
      /\ published' \in [Storages -> Seq(EventInfo)]
      /\ published'[c] = Append(published[c], e)
      /\ \A d \in Storages \ {c} : published'[d] = published[d]
      /\ IndexInv'
    BY <1>2, <1>4, ChangedIndexes, Zenon
<1>6. TypeOK'
    BY <1>2, <1>3, <1>5 DEF TypeOK, PubInv
<1>7. vpc' = vpc /\ pending' = pending /\ kind' = kind /\ \A w \in Writers : vpc[w] = "idle"
    BY Zenon DEF vectorVars, WriterInv
<1>8. WriterInv'
    BY <1>7 DEF WriterInv
<1>9. \A d \in Storages : Announced(d) = published[d] /\ Announced(d)' = published'[d]
    BY <1>7, Zenon DEF Announced, Unpublished
<1>10. StreamInv'
  <2>1. Announced(e.storageId)' = Append(Announced(e.storageId), e)
      BY <1>1, <1>5, <1>9, Zenon
  <2>2. \A d \in Storages \ {e.storageId} : Announced(d)' = Announced(d)
      BY <1>1, <1>5, <1>9, Zenon
  <2>3. \A d \in Storages : Announced(d) \in Seq(EventInfo)
      BY AnnouncedType
  <2>. QED BY <1>1, <1>2, <2>1, <2>2, <2>3, VectorInvPub, AnnounceStream, SMTT(30), ZenonT(30)
<1>11. NoVectorSnapshot'
    BY <1>7, Zenon DEF NoVectorSnapshot
<1>. QED BY <1>3, <1>5, <1>6, <1>8, <1>10, <1>11, SMTT(30), ZenonT(30) DEF PubInv

-----------------------------------------------------------------------------
(* The writers of vectors. *)

LEMMA TheWriter ==
    ASSUME OneWriter, VectorInv, kind = "vector", NEW w \in Writers
    PROVE  Writers = {w}
    BY DEF OneWriter, VectorInv, WriterInv

\* The change of a vector, made by the one writer.
LEMMA ChangeInv ==
    ASSUME OneWriter, VectorInv, NEW w \in Writers, NEW c \in Storages, NEW contents \in Seq(Values),
           Len(contents) <= Len(data[c]) + 1, NEW e \in ListEvents, e.storageId = c,
           vpc[w] \in {"idle", "popBack", "popFront"}, NEW next,
           next = "publish" \/ (next = "size" /\ e.k = Len(contents) - 1),
           Change(w, c, contents, e, e, next)
    PROVE  VectorInv'
<1>. USE DEF VectorInv
<1>1. /\ kind = "vector" /\ Len(published[c]) < MaxWrites
      /\ data' = [data EXCEPT ![c] = contents]
      /\ published' = [published EXCEPT ![c] = Append(published[c], e)]
      /\ pending' = [pending EXCEPT ![w] = e]
      /\ vpc' = [vpc EXCEPT ![w] = next]
      /\ UNCHANGED <<pubVars, mirror, received, snapshotAt, kind, mutex>>
    BY Zenon DEF Change
<1>2. Writers = {w}
    BY <1>1, TheWriter
<1>3. /\ data' \in [Storages -> Seq(Values)]
      /\ published' \in [Storages -> Seq(EventInfo)]
      /\ data'[c] = contents /\ published'[c] = Append(published[c], e)
      /\ \A d \in Storages \ {c} : published'[d] = published[d]
      /\ IndexInv'
    BY <1>1, ChangedIndexes, Zenon
<1>4. PubTypeOK' /\ RightAudience' /\ PendingHasSnapshotEnd' /\ WalkOnce'
  <2>1. PubInv'
      BY <1>1, VectorInvPub, PubStepInv, Zenon
  <2>. QED BY <1>1, <2>1, Zenon DEF PubInv, WalkOnce, pubVars
<1>5. TypeOK'
    BY <1>1, <1>3, <1>4 DEF TypeOK
<1>6. pending'[w] = e /\ vpc'[w] = next
    BY <1>1, Zenon DEF WriterInv
<1>7. e \in EventInfo /\ published[c] \in Seq(EventInfo)
    BY DEF ListEvents, Updates, TypeOK
<1>8. LastOf(published'[c]) = e /\ published'[c] # <<>> /\ AllButLast(published'[c]) = published[c]
  <2>1. PICK p \in Seq(EventInfo) : p = published[c]
      BY <1>7, Zenon
  <2>2. AllButLast(Append(p, e)) = p /\ LastOf(Append(p, e)) = e /\ Append(p, e) # <<>>
      BY <1>7, FrontAppend, Zenon
  <2>. QED BY <1>3, <2>1, <2>2, Zenon
<1>9. WriterInv'
  <2>1. vpc' \in [Writers -> {"idle", "popBack", "popFront", "size", "publish", "stuck"}]
      BY <1>1 DEF WriterInv
  <2>2. pending' \in [Writers -> EventInfo \cup {NoEvent}]
      BY <1>1, <1>7 DEF WriterInv
  <2>3. next = "size" => e = [e EXCEPT !.k = Len(data'[c]) - 1]
      BY <1>3, <1>7, Zenon DEF EventInfo
  <2>. QED BY <1>1, <1>2, <1>6, <1>8, <2>1, <2>2, <2>3, SMTT(30), Z3T(30) DEF WriterInv, Size
<1>10. \A d \in Storages : Announced(d) = published[d]
    BY <1>2 DEF Announced, Unpublished
<1>11. \A d \in Storages : Announced(d)' = published[d]
  <2>1. Unpublished(c)' # {}
      BY <1>6, Zenon DEF Unpublished
  <2>2. Announced(c)' = published[c]
      BY <1>8, <2>1, Zenon DEF Announced
  <2>3. \A d \in Storages \ {c} : Unpublished(d)' = {}
      BY <1>2, <1>6, Zenon DEF Unpublished
  <2>. QED BY <1>3, <2>2, <2>3, Zenon DEF Announced
<1>12. StreamInv'
  <2>1. \A d \in Storages : Queued(d)' = Queued(d) /\ Announced(d)' = Announced(d)
      BY <1>1, <1>10, <1>11, Zenon DEF Queued, pubVars
  <2>2. \A s \in Subscriptions : Now(s)' = Now(s)
      BY <1>1 DEF Now, pubVars
  <2>3. \A s \in Subscriptions : Subscribed(s)' /\ CanSend(s)' => Subscribed(s) /\ CanSend(s)
      BY <1>1, Zenon DEF Subscribed, CanSend, pubVars
  <2>4. UNCHANGED <<snapshotPending, mirror, received, snapshotAt>>
      BY <1>1 DEF pubVars
  <2>. QED BY <2>1, <2>2, <2>3, <2>4, StreamKept, Zenon
<1>13. NoVectorSnapshot'
    BY <1>1, Zenon DEF NoVectorSnapshot, pubVars
<1>. QED BY <1>3, <1>4, <1>5, <1>9, <1>12, <1>13, Zenon

\* A step of a writer that changes neither the vectors nor what is published.
LEMMA WriterOnly ==
    ASSUME VectorInv, UNCHANGED <<vars, kind>>, WriterInv',
           \A c \in Storages : Announced(c)' = Announced(c)
    PROVE  VectorInv'
<1>. USE DEF VectorInv
<1>1. UNCHANGED <<pubVars, data, mirror, published, received, snapshotAt, kind>>
    BY DEF vars, listVars
<1>2. PubInv'
    BY <1>1, VectorInvPub, PubStepInv
<1>3. TypeOK' /\ RightAudience' /\ PendingHasSnapshotEnd' /\ WalkOnce'
    BY <1>1, <1>2, Zenon DEF PubInv, WalkOnce, pubVars, TypeOK
<1>4. IndexInv' /\ NoVectorSnapshot'
    BY <1>1, Zenon DEF IndexInv, NoVectorSnapshot, pubVars
<1>5. StreamInv'
  <2>1. \A d \in Storages : Queued(d)' = Queued(d)
      BY <1>1, Zenon DEF Queued, pubVars
  <2>2. \A s \in Subscriptions : Now(s)' = Now(s)
      BY <1>1, Zenon DEF Now, pubVars
  <2>3. \A s \in Subscriptions : Subscribed(s)' /\ CanSend(s)' => Subscribed(s) /\ CanSend(s)
      BY <1>1, Zenon DEF Subscribed, CanSend, pubVars
  <2>4. UNCHANGED <<snapshotPending, mirror, received, snapshotAt>>
      BY <1>1, Zenon DEF pubVars
  <2>. QED BY <2>1, <2>2, <2>3, <2>4, StreamKept, Zenon
<1>. QED BY <1>3, <1>4, <1>5, Zenon

LEMMA StartPopInv ==
    ASSUME OneWriter, VectorInv, NEW w \in Writers, NEW c \in Storages, StartPop(w, c)
    PROVE  VectorInv'
<1>. USE DEF VectorInv
<1>1. /\ kind = "vector" /\ vpc[w] = "idle" /\ data[c] # <<>> /\ UNCHANGED <<vars, kind, mutex>>
    BY Zenon DEF StartPop
<1>2. Writers = {w}
    BY <1>1, TheWriter, Zenon
<1>3. /\ Tells(c, AllButLast(data[c]), "DELETE", Size(c) - 1, Null)
      /\ Tells(c, Tail(data[c]), "DELETE", 0, Null)
    BY <1>1, TellsPop, Zenon
<1>4. PICK e, next : /\ \/ next = "popBack" /\ e = Event(c, "DELETE", Size(c) - 1, Null)
                        \/ next = "popFront" /\ e = Event(c, "DELETE", 0, Null)
                     /\ pending' = [pending EXCEPT ![w] = e]
                     /\ vpc' = [vpc EXCEPT ![w] = next]
    BY Zenon DEF StartPop
<1>5. e \in ListEvents /\ e.storageId = c /\ e.eventCode = "DELETE"
      /\ (next = "popBack" => e.k = Size(c) - 1)
  <2>1. /\ Event(c, "DELETE", Size(c) - 1, Null) \in ListEvents
        /\ Event(c, "DELETE", 0, Null) \in ListEvents
      BY <1>3, TellsEvent, Zenon
  <2>. QED BY <1>4, <2>1, SMT, Z3 DEF Event
<1>6. vpc'[w] = next /\ pending'[w] = e /\ e \in EventInfo
    BY <1>4, <1>5 DEF WriterInv, ListEvents, Updates
<1>7. data' = data /\ published' = published
    BY <1>1, Zenon DEF vars, listVars
<1>8. WriterInv'
  <2>1. vpc' \in [Writers -> {"idle", "popBack", "popFront", "size", "publish", "stuck"}]
      BY <1>4 DEF WriterInv
  <2>2. pending' \in [Writers -> EventInfo \cup {NoEvent}]
      BY <1>4, <1>6, Zenon DEF WriterInv
  <2>3. next \in {"popBack", "popFront"}
      BY <1>4
  <2>. QED BY <1>1, <1>2, <1>5, <1>6, <1>7, <2>1, <2>2, <2>3, SMTT(30), ZenonT(30) DEF WriterInv, Size
<1>9. \A d \in Storages : Announced(d)' = Announced(d)
  <2>1. next \in {"popBack", "popFront"}
      BY <1>4
  <2>2. \A d \in Storages : Unpublished(d) = {} /\ Unpublished(d)' = {}
      BY <1>1, <1>2, <1>6, <2>1, Zenon DEF Unpublished
  <2>. QED BY <1>7, <2>2, Zenon DEF Announced
<1>. QED BY <1>1, <1>8, <1>9, WriterOnly

LEMMA InsertOrDeleteInv ==
    ASSUME OneWriter, VectorInv, NEW w \in Writers, NEW c \in Storages, NEW i, InsertOrDelete(w, c, i)
    PROVE  VectorInv'
<1>. USE DEF VectorInv
<1>1. /\ kind = "vector" /\ vpc[w] = "idle" /\ UNCHANGED <<vars, kind, pending>>
      /\ vpc' = [vpc EXCEPT ![w] = "stuck"]
    BY DEF InsertOrDelete
<1>2. Writers = {w}
    BY <1>1, TheWriter
<1>3. data' = data /\ published' = published
    BY <1>1 DEF vars, listVars
<1>4. vpc'[w] = "stuck" /\ vpc' \in [Writers -> {"idle", "popBack", "popFront", "size", "publish", "stuck"}]
    BY <1>1 DEF WriterInv
<1>5. WriterInv'
    BY <1>1, <1>2, <1>3, <1>4 DEF WriterInv
<1>6. \A d \in Storages : Announced(d)' = Announced(d)
    BY <1>1, <1>2, <1>3, <1>4, Zenon DEF Unpublished, Announced
<1>. QED BY <1>1, <1>5, <1>6, WriterOnly, Zenon

LEMMA ReadSizeInv ==
    ASSUME OneWriter, VectorInv, NEW w \in Writers, ReadSize(w)
    PROVE  VectorInv'
<1>. USE DEF VectorInv
<1>1. /\ vpc[w] = "size" /\ UNCHANGED <<vars, kind, mutex>>
      /\ pending' = [pending EXCEPT ![w].k = Size(pending[w].storageId) - 1]
      /\ vpc' = [vpc EXCEPT ![w] = "publish"]
    BY DEF ReadSize
<1>2. kind = "vector"
  <2>1. kind # "list" /\ kind \in Kinds
      BY <1>1 DEF WriterInv
  <2>. QED BY <2>1, VectorAssumption
<1>3. Writers = {w}
    BY <1>2, TheWriter
<1>. DEFINE c == pending[w].storageId
<1>4. pending[w] \in ListEvents /\ c \in Storages /\ pending[w] \in EventInfo /\ published[c] # <<>>
      /\ LastOf(published[c]) = [pending[w] EXCEPT !.k = Size(c) - 1]
    BY <1>1 DEF WriterInv, ListEvents, Updates, EventInfo
<1>5. data' = data /\ published' = published
    BY <1>1 DEF vars, listVars
<1>6. pending'[w] = [pending[w] EXCEPT !.k = Size(c) - 1] /\ vpc'[w] = "publish"
    BY <1>1 DEF WriterInv
<1>7. LastOf(published[c]) \in ListEvents
  <2>1. published[c] \in Seq(EventInfo)
      BY <1>4 DEF TypeOK
  <2>2. Len(published[c]) \in DOMAIN published[c]
      BY <1>4, <2>1, SMT, Z3
  <2>. QED BY <1>4, <2>2, Zenon DEF IndexInv, LastOf
<1>8. pending'[w].storageId = c
    BY <1>4, <1>6 DEF EventInfo
<1>9. WriterInv'
  <2>1. vpc' \in [Writers -> {"idle", "popBack", "popFront", "size", "publish", "stuck"}]
      BY <1>1 DEF WriterInv
  <2>2. pending'[w] \in EventInfo /\ pending'[w] \in ListEvents
      BY <1>4, <1>6, <1>7 DEF ListEvents, Updates
  <2>3. pending' \in [Writers -> EventInfo \cup {NoEvent}]
      BY <1>1, <1>3, <1>6, <2>2, SMTT(30), ZenonT(30) DEF WriterInv
  <2>. QED BY <1>1, <1>2, <1>3, <1>4, <1>5, <1>6, <1>8, <2>1, <2>2, <2>3, Zenon DEF WriterInv
<1>10. \A d \in Storages : Announced(d)' = Announced(d)
    BY <1>1, <1>3, <1>5, <1>6, <1>8, SMTT(30), Z3T(30) DEF Unpublished, Announced
<1>. QED BY <1>1, <1>9, <1>10, WriterOnly

LEMMA PopInv ==
    ASSUME OneWriter, VectorInv, NEW w \in Writers, Pop(w)
    PROVE  VectorInv'
<1>. USE DEF VectorInv
<1>. DEFINE e == pending[w]
            c == e.storageId
<1>1. vpc[w] \in {"popBack", "popFront"} /\ data[c] # <<>>
    BY DEF Pop
<1>2. e \in ListEvents /\ e \in EventInfo /\ c \in Storages
    BY <1>1, Zenon DEF WriterInv, ListEvents, Updates, EventInfo
<1>3. /\ Tells(c, AllButLast(data[c]), "DELETE", Size(c) - 1, Null)
      /\ Tells(c, Tail(data[c]), "DELETE", 0, Null)
    BY <1>1, <1>2, TellsPop, Zenon
<1>4. CASE vpc[w] = "popBack"
  <2>1. Change(w, c, AllButLast(data[c]), [e EXCEPT !.k = Size(c) - 1], e, "publish")
      BY <1>4 DEF Pop
  <2>2. e.k = Size(c) - 1
      BY <1>4, Zenon DEF WriterInv
  <2>3. [e EXCEPT !.k = Size(c) - 1] = e
      BY <1>2, <2>2 DEF EventInfo
  <2>4. AllButLast(data[c]) \in Seq(Values) /\ Len(AllButLast(data[c])) <= Len(data[c]) + 1
      BY <1>3, Zenon DEF Tells
  <2>. QED BY <1>1, <1>2, <2>1, <2>3, <2>4, ChangeInv, Zenon
<1>5. CASE vpc[w] = "popFront"
  <2>1. Change(w, c, Tail(data[c]), e, e, "publish")
      BY <1>5 DEF Pop
  <2>2. Tail(data[c]) \in Seq(Values) /\ Len(Tail(data[c])) <= Len(data[c]) + 1
      BY <1>3, ZenonT(30) DEF Tells
  <2>. QED BY <1>1, <1>2, <2>1, <2>2, ChangeInv, Zenon
<1>. QED BY <1>1, <1>4, <1>5, Zenon

\* The operations that begin with the change.
LEMMA ChangeOnlyInv ==
    ASSUME OneWriter, VectorInv, NEW w \in Writers, NEW c \in Storages,
           \/ VectorClear(w, c)
           \/ \E v \in NewValues : VectorPushBack(w, c, v) \/ VectorPushFront(w, c, v)
           \/ \E i \in Indexes, v \in NewValues : VectorSet(w, c, i, v)
    PROVE  VectorInv'
<1>. USE DEF VectorInv
<1>1. ASSUME NEW contents, NEW code, NEW k, NEW v, NEW next, Tells(c, contents, code, k, v),
             ChangeOnly(w, c, contents, Event(c, code, k, v), next),
             next = "publish" \/ (next = "size" /\ k = Len(contents) - 1)
      PROVE  VectorInv'
  <2>1. PICK e \in ListEvents : e = Event(c, code, k, v) /\ e.storageId = c /\ e.k = k
      BY <1>1, TellsEvent, SMTT(30), Z3T(30) DEF Event
  <2>2. vpc[w] = "idle" /\ Change(w, c, contents, e, e, next)
      BY <1>1, <2>1, Zenon DEF ChangeOnly
  <2>3. contents \in Seq(Values) /\ Len(contents) <= Len(data[c]) + 1
      BY <1>1, Zenon DEF Tells
  <2>. QED BY <1>1, <2>1, <2>2, <2>3, ChangeInv, Zenon
<1>2. CASE VectorClear(w, c)
  <2>1. Tells(c, <<>>, "CLEAR", Null, Null)
      BY TellsClear, Zenon
  <2>2. ChangeOnly(w, c, <<>>, Event(c, "CLEAR", Null, Null), "publish")
      BY <1>2 DEF VectorClear
  <2>. QED BY <1>1, <2>1, <2>2, Zenon
<1>3. ASSUME NEW v \in NewValues, VectorPushBack(w, c, v) PROVE VectorInv'
  <2>1. Tells(c, Append(data[c], v), "INSERT", Size(c), v)
      BY TellsPush, Zenon
  <2>2. ChangeOnly(w, c, Append(data[c], v), Event(c, "INSERT", Size(c), v), "size")
      BY <1>3 DEF VectorPushBack
  <2>3. Size(c) = Len(Append(data[c], v)) - 1
    <3>1. data[c] \in Seq(Values) /\ v \in Values /\ Size(c) = Len(data[c])
        BY SizeFacts, Zenon
    <3>. QED BY <3>1, SMTT(30), Z3T(30)
  <2>. QED BY <1>1, <2>1, <2>2, <2>3, Zenon
<1>4. ASSUME NEW v \in NewValues, VectorPushFront(w, c, v) PROVE VectorInv'
  <2>1. Tells(c, <<v>> \o data[c], "INSERT", 0, v)
      BY TellsPush
  <2>2. ChangeOnly(w, c, <<v>> \o data[c], Event(c, "INSERT", 0, v), "publish")
      BY <1>4, Zenon DEF VectorPushFront
  <2>. QED BY <1>1, <2>1, <2>2, Zenon
<1>5. ASSUME NEW index \in Indexes, NEW v \in NewValues, VectorSet(w, c, index, v) PROVE VectorInv'
  <2>1. PICK i \in 1 .. Size(c) : i = RecordNumber(c, index)
      BY <1>5, Zenon DEF VectorSet, HasRecord
  <2>2. IF index < 0 THEN i = Size(c) + index + 1 ELSE i = index + 1
      BY <2>1, Zenon DEF RecordNumber
  <2>3. Tells(c, Assigned(data[c], i, v), "SET", index, v)
      BY <2>2, TellsReplace, Zenon
  <2>4. ChangeOnly(w, c, Assigned(data[c], i, v), Event(c, "SET", index, v), "publish")
      BY <1>5, <2>1, Zenon DEF VectorSet
  <2>. QED BY <1>1, <2>3, <2>4, Zenon
<1>. QED BY <1>2, <1>3, <1>4, <1>5, Zenon

LEMMA PublishInv ==
    ASSUME NaturalInduction, OneWriter, VectorInv, NEW w \in Writers, Publish(w)
    PROVE  VectorInv'
<1>. USE DEF VectorInv
<1>1. /\ vpc[w] = "publish" /\ OnAnyContainerEvent(pending[w])
      /\ vpc' = [vpc EXCEPT ![w] = "idle"] /\ pending' = [pending EXCEPT ![w] = NoEvent]
      /\ UNCHANGED <<data, mirror, published, received, snapshotAt, kind>>
    BY Zenon DEF Publish, listVars
<1>2. kind = "vector"
  <2>1. kind # "list" /\ kind \in Kinds
      BY <1>1, Zenon DEF WriterInv
  <2>. QED BY <2>1, VectorAssumption
<1>3. Writers = {w}
    BY <1>2, TheWriter
<1>4. pending[w] \in ListEvents /\ pending[w] \in Updates
    BY <1>1, Zenon DEF WriterInv, ListEvents
<1>5. PICK e \in Updates : e = pending[w]
    BY <1>4
<1>. DEFINE c == e.storageId
<1>6. c \in Storages /\ published[c] # <<>> /\ LastOf(published[c]) = e
    BY <1>1, <1>5, ZenonT(30) DEF WriterInv, Updates, EventInfo
<1>7. PubInv' /\ WalkOnce' /\ snapshotPending' = snapshotPending
    BY <1>1, <1>5, EventStep, VectorInvPub, Zenon
<1>8. TypeOK'
    BY <1>1, <1>7 DEF TypeOK, PubInv
<1>9. vpc'[w] = "idle" /\ pending'[w] = NoEvent
    BY <1>1 DEF WriterInv
<1>10. WriterInv'
  <2>1. vpc' \in [Writers -> {"idle", "popBack", "popFront", "size", "publish", "stuck"}]
      BY <1>1 DEF WriterInv
  <2>2. pending' \in [Writers -> EventInfo \cup {NoEvent}]
      BY <1>1 DEF WriterInv
  <2>. QED BY <1>1, <1>3, <1>9, <2>1, <2>2, SMTT(30), ZenonT(30) DEF WriterInv
<1>11. IndexInv' /\ NoVectorSnapshot'
    BY <1>1, <1>7, Zenon DEF IndexInv, NoVectorSnapshot
<1>12. \A d \in Storages : Announced(d)' = published[d]
    BY <1>1, <1>3, <1>9, Zenon DEF Announced, Unpublished
<1>13. \A d \in Storages \ {c} : Announced(d) = published[d]
    BY <1>3, <1>5 DEF Announced, Unpublished
<1>14. Announced(c) = AllButLast(published[c])
    BY <1>1, <1>5, Zenon DEF Announced, Unpublished
<1>15. Append(Announced(c), e) = published[c]
  <2>1. PICK p \in Seq(EventInfo) : p = published[c]
      BY <1>6, Zenon DEF TypeOK
  <2>2. Append(AllButLast(p), LastOf(p)) = p
      BY <1>6, <2>1, FrontType, Zenon
  <2>. QED BY <1>6, <1>14, <2>1, <2>2, Zenon
<1>16. StreamInv'
  <2>1. \A d \in Storages : Announced(d) \in Seq(EventInfo)
      BY AnnouncedType, Zenon
  <2>2. Announced(c)' = Append(Announced(c), e)
      BY <1>6, <1>12, <1>15, Zenon
  <2>3. \A d \in Storages \ {c} : Announced(d)' = Announced(d)
      BY <1>12, <1>13
  <2>. QED BY <1>1, <1>5, <2>1, <2>2, <2>3, VectorInvPub, AnnounceStream, Zenon
<1>. QED BY <1>7, <1>8, <1>10, <1>11, <1>16, Zenon DEF PubInv
==============================================================================
